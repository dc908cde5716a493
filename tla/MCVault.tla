------------------------------- MODULE MCVault -------------------------------
(* One stored credential and a free id, two names, one target, one broker    *)
(* operation at a time (its path is a bare one or a URL of a third host), one  *)
(* page with two requests.                                                   *)
EXTENDS VaultAdmin, TLC

MCInitial == 1 :> [name |-> "a", secret |-> <<0, 1>>] @@ 2 :> Absent
MCPlaced == "t" :> [host |-> "h1", name |-> "a"]
=============================================================================
