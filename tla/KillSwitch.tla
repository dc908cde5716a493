----------------------------- MODULE KillSwitch -----------------------------
(***************************************************************************)
(* The KILL switch: a flag in memory that two background tasks drive.      *)
(*   - The watcher stats the KILL file once a second and acts on a CHANGE  *)
(*     of what it saw; the stat suspends, so the file and the flag may     *)
(*     change between what it saw and what it does.                        *)
(*   - The signal task, on SIGUSR1, writes the KILL file and then engages. *)
(* The operator touches and removes the file and sends signals; the        *)
(* process may be restarted, which keeps the file and forgets the rest.    *)
(***************************************************************************)
EXTENDS Naturals

CONSTANTS
    MaxSignals,   \* bound: how many SIGUSR1 the operator sends
    MaxRestarts,  \* bound: how often the process is restarted
    MaxFaults     \* bound: how many stats or writes of the file fail

ASSUME KillSwitchBounds ==
    MaxSignals \in Nat /\ MaxRestarts \in Nat /\ MaxFaults \in Nat

VARIABLES
    file,      \* the KILL file exists
    engaged,   \* KillState.engaged
    watcher,   \* "tick": about to stat; "compare": holds the answer in seen
    seen,      \* the watcher's `exists`
    last,      \* the watcher's `last`
    handler,   \* "recv": awaiting a signal; "engage": file written
    pending,   \* SIGUSR1 is pending (signals coalesce)
    removed,   \* the file was removed since the watcher last saw it
    misread,   \* the answer in seen is a failed stat of a file that is there
    signals, restarts, faults

vars == <<file, engaged, watcher, seen, last, handler, pending, removed,
          misread, signals, restarts, faults>>

FlagsOK ==
    /\ file \in BOOLEAN /\ engaged \in BOOLEAN /\ pending \in BOOLEAN
    /\ seen \in BOOLEAN /\ last \in BOOLEAN
    /\ removed \in BOOLEAN /\ misread \in BOOLEAN
    /\ watcher \in {"tick", "compare"}
    /\ handler \in {"recv", "engage"}

CountersOK ==
    /\ signals \in 0 .. MaxSignals
    /\ restarts \in 0 .. MaxRestarts
    /\ faults \in 0 .. MaxFaults

TypeOK == FlagsOK /\ CountersOK

\* KillSwitch::new and spawn_watchers.  The file may survive from before.
Fresh ==
    /\ engaged' = FALSE
    /\ watcher' = "tick"
    /\ seen' = FALSE
    /\ last' = FALSE
    /\ handler' = "recv"
    /\ pending' = FALSE
    /\ misread' = FALSE

Init ==
    /\ file \in BOOLEAN
    /\ engaged = FALSE
    /\ watcher = "tick"
    /\ seen = FALSE
    /\ last = FALSE
    /\ handler = "recv"
    /\ pending = FALSE
    /\ removed = FALSE
    /\ misread = FALSE
    /\ signals = 0
    /\ restarts = 0
    /\ faults = 0

-----------------------------------------------------------------------------
(* The operator                                                            *)

Touch ==
    /\ ~ file
    /\ file' = TRUE
    /\ UNCHANGED <<engaged, watcher, seen, last, handler, pending, removed, misread, signals, restarts, faults>>

Rm ==
    /\ file
    /\ file' = FALSE
    /\ removed' = TRUE
    /\ UNCHANGED <<engaged, watcher, seen, last, handler, pending, misread, signals, restarts, faults>>

Sigusr1 ==
    /\ signals < MaxSignals
    /\ signals' = signals + 1
    /\ pending' = TRUE
    /\ UNCHANGED <<file, engaged, watcher, seen, last, handler, removed, misread, restarts, faults>>

Restart ==
    /\ restarts < MaxRestarts
    /\ restarts' = restarts + 1
    /\ Fresh
    /\ UNCHANGED <<file, removed, signals, faults>>

-----------------------------------------------------------------------------
(* The watcher task                                                        *)

\* A bug to look for: the previous answer is kept across the release.
WatcherCompareLatched ==
    /\ watcher = "compare"
    /\ watcher' = "tick"
    /\ IF seen # last THEN engaged' = seen ELSE UNCHANGED engaged
    /\ last' = (last \/ seen)
    /\ UNCHANGED <<file, seen, handler, pending, removed, misread, signals, restarts, faults>>

\* A bug to look for: the flag follows what was seen, not a change of it.
WatcherCompareLevel ==
    /\ watcher = "compare"
    /\ watcher' = "tick"
    /\ engaged' = seen
    /\ last' = seen
    /\ UNCHANGED <<file, seen, handler, pending, removed, misread, signals, restarts, faults>>

\* tokio::fs::try_exists(..).unwrap_or(false): a failing stat reads as absent.
WatcherStat ==
    /\ watcher = "tick"
    /\ watcher' = "compare"
    /\ \/ seen' = file /\ misread' = FALSE /\ UNCHANGED faults
       \/ /\ faults < MaxFaults
          /\ faults' = faults + 1
          /\ seen' = FALSE
          /\ misread' = file
    /\ removed' = (removed /\ ~ seen')
    /\ UNCHANGED <<file, engaged, last, handler, pending, signals, restarts>>

\* Engage on absent -> present, release on present -> absent.
WatcherCompare ==
    /\ watcher = "compare"
    /\ watcher' = "tick"
    /\ IF seen # last THEN engaged' = seen ELSE UNCHANGED engaged
    /\ last' = seen
    /\ UNCHANGED <<file, seen, handler, pending, removed, misread, signals, restarts, faults>>

-----------------------------------------------------------------------------
(* The signal task                                                         *)

\* The write may fail; the handler warns and goes on to engage.
HandlerWrite ==
    /\ handler = "recv"
    /\ pending
    /\ pending' = FALSE
    /\ handler' = "engage"
    /\ \/ file' = TRUE /\ UNCHANGED faults
       \/ faults < MaxFaults /\ faults' = faults + 1 /\ UNCHANGED file
    /\ UNCHANGED <<engaged, watcher, seen, last, removed, misread, signals, restarts>>

HandlerEngage ==
    /\ handler = "engage"
    /\ handler' = "recv"
    /\ engaged' = TRUE
    /\ UNCHANGED <<file, watcher, seen, last, pending, removed, misread, signals, restarts, faults>>

-----------------------------------------------------------------------------
Next ==
    \/ Touch
    \/ Rm
    \/ Sigusr1
    \/ Restart
    \/ WatcherStat
    \/ WatcherCompare
    \/ HandlerWrite
    \/ HandlerEngage

\* Both tasks are spawned on the async runtime and never return; the interval
\* ticks for ever.
Fairness ==
    /\ WF_vars(WatcherStat)
    /\ WF_vars(WatcherCompare)
    /\ WF_vars(HandlerWrite)
    /\ WF_vars(HandlerEngage)

Spec == Init /\ [][Next]_vars /\ Fairness

-----------------------------------------------------------------------------
(* Properties                                                              *)

\* "Resume requires rm of the file": a running process lifts the switch only
\* after the operator removed the file that the watcher had seen, or because a
\* stat of the file that is still there failed; no signal and no
\* delay of either task lifts it.  (watcher, signal task)
ResumeNeedsRm ==
    [][engaged /\ ~ engaged' /\ restarts' = restarts => removed \/ misread]_vars

\* A KILL file that stays engages the switch for good, whatever signals,
\* restarts and failed stats there were before.  (watcher)
FileEngages == <>[]file => <>[]engaged
=============================================================================
