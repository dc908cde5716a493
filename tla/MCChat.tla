------------------------------- MODULE MCChat --------------------------------
(* Two users with a panel each, two sessions, two messages, one tool served  *)
(* by the memory tier and one by a driver.                                   *)
EXTENDS Chat, TLC

CONSTANTS c1, c2, u1, u2

MCUserOf == c1 :> u1 @@ c2 :> u2
=============================================================================
