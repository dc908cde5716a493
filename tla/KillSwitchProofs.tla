-------------------------- MODULE KillSwitchProofs --------------------------
(***************************************************************************)
(* Proofs about module KillSwitch, for any number of signals, restarts and *)
(* failing file operations.                                                *)
(***************************************************************************)
EXTENDS KillSwitch, TLAPS

\* Type correctness of the flag, the file and the two tasks.
THEOREM TypeCorrect == Spec => []TypeOK
<1>1. Init => TypeOK
  <2>1. Init => FlagsOK
    BY DEF Init, FlagsOK
  <2>2. Init => CountersOK
    BY KillSwitchBounds DEF Init, CountersOK
  <2> QED
    BY <2>1, <2>2 DEF TypeOK
<1>2. FlagsOK /\ [Next]_vars => FlagsOK'
  <2> SUFFICES ASSUME FlagsOK, [Next]_vars PROVE FlagsOK'
    OBVIOUS
  <2> USE DEF FlagsOK
  <2>1. CASE Touch \/ Rm \/ Sigusr1
    BY <2>1 DEF Touch, Rm, Sigusr1
  <2>2. CASE Restart
    BY <2>2 DEF Restart, Fresh
  <2>3. CASE WatcherStat
    BY <2>3 DEF WatcherStat
  <2>4. CASE WatcherCompare
    BY <2>4 DEF WatcherCompare
  <2>5. CASE HandlerWrite \/ HandlerEngage
    BY <2>5 DEF HandlerWrite, HandlerEngage
  <2>6. CASE UNCHANGED vars
    BY <2>6 DEF vars
  <2> QED
    BY <2>1, <2>2, <2>3, <2>4, <2>5, <2>6 DEF Next
<1>3. CountersOK /\ [Next]_vars => CountersOK'
  BY KillSwitchBounds DEF CountersOK, Next, vars, Touch, Rm, Sigusr1, Restart,
     WatcherStat, WatcherCompare, HandlerWrite, HandlerEngage
<1> QED
  BY <1>1, <1>2, <1>3, PTL DEF Spec, TypeOK

-----------------------------------------------------------------------------
\* A file the watcher has seen, in this round or the last, only goes away by
\* being removed; so when the watcher finds that what it saw has changed to
\* absent, either the file was removed or the stat failed.
SeenFileGoesByRm ==
    /\ (seen \/ last) /\ ~ file => removed
    /\ watcher = "compare" /\ last /\ ~ seen => removed \/ misread
    /\ watcher = "tick" => seen = last

Inv == TypeOK /\ SeenFileGoesByRm

\* Every step of the watcher, the signal task and the operator keeps it.
LEMMA InvInductive == Inv /\ [Next]_vars => SeenFileGoesByRm'
<1> SUFFICES ASSUME Inv, [Next]_vars PROVE SeenFileGoesByRm'
  OBVIOUS
<1> USE DEF Inv, TypeOK, FlagsOK, SeenFileGoesByRm
<1>1. CASE Touch \/ Rm \/ Sigusr1
  BY <1>1 DEF Touch, Rm, Sigusr1
<1>6. CASE Restart
  BY <1>6 DEF Restart, Fresh
<1>2. CASE WatcherStat
  BY <1>2 DEF WatcherStat
<1>3. CASE WatcherCompare
  BY <1>3 DEF WatcherCompare
<1>4. CASE HandlerWrite \/ HandlerEngage
  BY <1>4 DEF HandlerWrite, HandlerEngage
<1>5. CASE UNCHANGED vars
  BY <1>5 DEF vars
<1> QED
  BY <1>1, <1>2, <1>3, <1>4, <1>5, <1>6 DEF Next

\* A running process lifts the KILL switch only after the operator removed the
\* file the watcher had seen, or because the stat of the file failed; no
\* signal and no delay of the watcher or the signal task lifts it.
THEOREM ResumeOnlyByRm == Spec => ResumeNeedsRm
<1>1. Init => SeenFileGoesByRm
  BY DEF Init, SeenFileGoesByRm
<1>2. Inv /\ [Next]_vars =>
        [engaged /\ ~ engaged' /\ restarts' = restarts => removed \/ misread]_vars
  <2> SUFFICES ASSUME Inv, Next, engaged, ~ engaged', restarts' = restarts
               PROVE  removed \/ misread
    OBVIOUS
  <2>1. ~ Restart
    BY DEF Inv, TypeOK, CountersOK, Restart
  <2>2. WatcherCompare
    BY <2>1 DEF Inv, TypeOK, FlagsOK, Next, Touch, Rm, Sigusr1, WatcherStat, HandlerWrite,
                HandlerEngage
  <2>3. last /\ ~ seen /\ watcher = "compare"
    BY <2>2 DEF Inv, TypeOK, FlagsOK, WatcherCompare
  <2> QED
    BY <2>3 DEF Inv, SeenFileGoesByRm
<1> QED
  BY <1>1, <1>2, TypeCorrect, InvInductive, PTL DEF Spec, Inv, ResumeNeedsRm
=============================================================================
