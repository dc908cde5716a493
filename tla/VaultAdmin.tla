------------------------------ MODULE VaultAdmin -----------------------------
(***************************************************************************)
(* The credentials and targets pages (pages/admin/credentials.rs,          *)
(* pages/admin/targets.rs), the server functions behind them               *)
(* (admin_credentials.rs, admin_targets.rs) and the broker's admin proxy   *)
(* (daimon-broker/src/admin.rs), over the store of module Vault.           *)
(*                                                                         *)
(* A page has one modal at a time besides the display of a revealed        *)
(* secret.  A request outlives the modal that sent it.                     *)
(***************************************************************************)
EXTENDS Vault

CONSTANTS
  Pages,        \* open admin pages
  MaxRequests,  \* requests sent in a behaviour
  CountFrom     \* seconds a revealed secret stays on display

VARIABLES
  page,     \* page -> its modal, its reveal display and the countdown loops
  request,  \* request -> its progress
  audited   \* requests with an audit event

vars == <<vaultVars, page, request, audited>>

Requests == 1..MaxRequests
Unused == {r \in Requests : request[r].pc = "unused"}

\* Rows the table may list: it may be older than a deletion.
Listed == {i \in Ids : creds[i] # Absent}

Init ==
  /\ VaultInit(Initial, Placed)
  /\ page = [p \in Pages |-> [modal |-> "none", row |-> Absent, busy |-> FALSE,
                              shown |-> Absent, display |-> FALSE, left |-> 0,
                              loops |-> 0]]
  /\ request = [r \in Requests |-> [pc |-> "unused"]]
  /\ audited = {}
-----------------------------------------------------------------------------
(* Modals.                                                                 *)

Open(p, kind, row) ==
  /\ page[p].modal = "none" /\ ~page[p].display
  /\ page' = [page EXCEPT ![p].modal = kind, ![p].row = row, ![p].busy = FALSE]
  /\ UNCHANGED <<vaultVars, request, audited>>

\* Cancel, the close button, the backdrop or Escape.
Close(p) ==
  /\ page[p].modal # "none"
  /\ page' = [page EXCEPT ![p].modal = "none", ![p].row = Absent,
                       ![p].busy = FALSE]
  /\ UNCHANGED <<vaultVars, request, audited>>

OpenRow(p) ==
  \/ \E kind \in {"edit", "rename", "delete", "reveal"}, i \in Listed :
       Open(p, kind, i)
  \/ Open(p, "add", Absent)
  \/ \E kind \in {"upsert", "remove"}, t \in Refs : Open(p, kind, t)

\* The modal's button: the request leaves and the button is disabled until
\* the answer, or until the modal is opened again.
Submit(p, kind, what) ==
  /\ page[p].modal = kind /\ ~page[p].busy
  /\ Unused # {}
  /\ LET r == CHOOSE q \in Unused : \A u \in Unused : q <= u
     IN  request' = [request EXCEPT ![r] = [pc |-> "sent", page |-> p,
                        kind |-> kind, row |-> page[p].row, what |-> what]]
  /\ page' = [page EXCEPT ![p].busy = TRUE]
  /\ UNCHANGED <<vaultVars, audited>>

\* The credential forms.  One with a blank required field sends nothing, and
\* a rename to the listed name only closes.
SaveCredential(p) ==
  \/ \E n \in Names : Submit(p, "add", n) \/ Submit(p, "rename", n)
  \/ \E kind \in {"edit", "delete", "reveal"} : Submit(p, kind, Absent)

\* What the editor lets an operator leave in a target form: the credential
\* reference may be blank.
TargetDrafts == [host : Hosts, name : Names \cup {Absent}]

\* A target form is sent with whatever is in it, loaded or typed.
SaveTarget(p) ==
  \/ \E draft \in TargetDrafts : Submit(p, "upsert", draft)
  \/ Submit(p, "remove", Absent)
-----------------------------------------------------------------------------
(* The server.                                                             *)

\* audit_action: one event per request, failed or not; an append that fails
\* is logged and dropped.
Audit(r) == audited' = audited \/ audited' = audited \cup {r}

Replying(r, result, secret) ==
  /\ Audit(r)
  /\ request' = [request EXCEPT ![r] =
       [pc |-> "reply", page |-> @.page, kind |-> @.kind, result |-> result,
        secret |-> secret]]
Reply(r, result) == Replying(r, result, Absent)

\* Update, rename and delete clear the cache after their statement.
Clearing(r) ==
  /\ request' = [request EXCEPT ![r] = [pc |-> "clear", page |-> @.page,
                                        kind |-> @.kind]]
  /\ UNCHANGED audited

NewSecret(r) == <<1, r>>

Sent(r, kind) == request[r].pc = "sent" /\ request[r].kind = kind

CreateCredential(r) ==
  /\ Sent(r, "add")
  /\ LET free == {i \in Ids : CanCreate(i, request[r].what)}
     IN  IF free = {} THEN Reply(r, "error") /\ UNCHANGED store
         ELSE /\ Create(CHOOSE i \in free : TRUE, request[r].what, NewSecret(r))
              /\ Reply(r, "ok")
  /\ UNCHANGED <<cache, inventory, op, page>>

UpdateCredential(r) ==
  /\ Sent(r, "edit")
  /\ IF Live(request[r].row)
     THEN Update(request[r].row, NewSecret(r)) /\ Clearing(r)
     ELSE Reply(r, "error") /\ UNCHANGED store
  /\ UNCHANGED <<cache, inventory, op, page>>

RenameCredential(r) ==
  /\ Sent(r, "rename")
  /\ IF CanRename(request[r].row, request[r].what)
     THEN Rename(request[r].row, request[r].what) /\ Clearing(r)
     ELSE Reply(r, "error") /\ UNCHANGED store
  /\ UNCHANGED <<cache, inventory, op, page>>

DeleteCredential(r) ==
  /\ Sent(r, "delete")
  /\ IF Live(request[r].row)
     THEN Delete(request[r].row) /\ Clearing(r)
     ELSE Reply(r, "error") /\ UNCHANGED store
  /\ UNCHANGED <<cache, inventory, op, page>>

InvalidateCache(r) ==
  /\ request[r].pc = "clear"
  /\ cache' = <<>>
  /\ Reply(r, "ok")
  /\ UNCHANGED <<store, inventory, op, page>>

\* Reveal reads the row, never the cache.
RevealCredential(r) ==
  /\ Sent(r, "reveal")
  /\ IF Live(request[r].row)
     THEN Replying(r, "ok", creds[request[r].row].secret)
     ELSE Reply(r, "error")
  /\ UNCHANGED <<vaultVars, page>>

UpsertTarget(r) ==
  /\ Sent(r, "upsert")
  /\ Upsert(request[r].row, request[r].what) /\ Reply(r, "ok")
  /\ UNCHANGED <<store, cache, op, page>>

RemoveTarget(r) ==
  /\ Sent(r, "remove")
  /\ IF targets[request[r].row] # Absent
     THEN Remove(request[r].row) /\ Reply(r, "ok")
     ELSE Reply(r, "error") /\ UNCHANGED inventory
  /\ UNCHANGED <<store, cache, op, page>>

-----------------------------------------------------------------------------
(* The answer, and the reveal display.                                     *)

\* Opening the display restarts the countdown and starts a loop; a display
\* that is already open keeps both.
Shown(pg, secret) ==
  [pg EXCEPT !.shown = secret, !.display = TRUE,
             !.left = IF pg.display THEN @ ELSE CountFrom,
             !.loops = IF pg.display THEN @ ELSE @ + 1]

\* A success closes the modal of its kind, even one opened since for another
\* row; an error is shown in it.
Answered(pg, kind) ==
  IF pg.modal # kind THEN pg
  ELSE [pg EXCEPT !.modal = "none", !.row = Absent, !.busy = FALSE]

Answer(r) ==
  /\ request[r].pc = "reply"
  /\ LET p == request[r].page
         kind == request[r].kind
         result == request[r].result
         closed == Answered(page[p], kind)
     IN  page' = [page EXCEPT ![p] =
           IF result = "error"
           THEN [@ EXCEPT !.busy = IF page[p].modal = kind THEN FALSE ELSE @]
           ELSE IF kind = "reveal" THEN Shown(closed, request[r].secret) ELSE closed]
  /\ request' = [request EXCEPT ![r] = [pc |-> "done"]]
  /\ UNCHANGED <<vaultVars, audited>>

\* The display closes by any means, and the secret is cleared with it.
HiddenKept(pg) == [pg EXCEPT !.display = FALSE]

Hidden(pg) == [pg EXCEPT !.display = FALSE, !.shown = Absent]

Hide(p) ==
  /\ page[p].display
  /\ page' = [page EXCEPT ![p] = Hidden(@)]
  /\ UNCHANGED <<vaultVars, request, audited>>

\* A countdown loop wakes after its second.
Countdown(p) ==
  /\ page[p].loops > 0
  /\ page' = [page EXCEPT ![p] =
        IF ~@.display THEN [@ EXCEPT !.loops = @ - 1]
        ELSE IF @.left <= 1
             THEN Hidden([@ EXCEPT !.left = 0, !.loops = @ - 1])
             ELSE [@ EXCEPT !.left = @ - 1]]
  /\ UNCHANGED <<vaultVars, request, audited>>

Serve(r) ==
  \/ CreateCredential(r) \/ UpdateCredential(r) \/ RenameCredential(r)
  \/ DeleteCredential(r) \/ InvalidateCache(r) \/ RevealCredential(r)
  \/ UpsertTarget(r) \/ RemoveTarget(r) \/ Answer(r)

Next ==
  \/ OpStep /\ UNCHANGED <<page, request, audited>>
  \/ \E p \in Pages :
       OpenRow(p) \/ Close(p) \/ SaveCredential(p) \/ SaveTarget(p)
       \/ Hide(p) \/ Countdown(p)
  \/ \E r \in Requests : Serve(r)

\* The timers fire: the cache entries age and the countdown loops wake.
Spec ==
  /\ Init /\ [][Next]_vars
  /\ WF_vars(Tick /\ UNCHANGED <<page, request, audited>>)
  /\ \A p \in Pages : WF_vars(Countdown(p))
-----------------------------------------------------------------------------
\* A revealed secret does not stay in the page: whatever the order of
\* answers, reopened displays and countdown loops, it is cleared again.
RevealedIsHidden ==
  \A p \in Pages : page[p].shown # Absent ~> page[p].shown = Absent
=============================================================================
