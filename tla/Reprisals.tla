------------------------------ MODULE Reprisals -------------------------------
(***************************************************************************)
(* Reprisal records and the committee's two-person decisions on them:      *)
(* migration 0005 and the flows of reprisal/production-flows.ts that file, *)
(* edit and open a record.                                                 *)
(*                                                                         *)
(* The SQL functions are transactions under READ COMMITTED that take their *)
(* row locks one by one; now() is the start of the transaction.  A field's *)
(* ciphertext is the key it is sealed under and the write that made it;    *)
(* keys are the epochs 1, 2, ... of the committee's data key.  Who is      *)
(* active and in which role changes under these calls and decides no       *)
(* property here: the gate, the rate budget and the role pair answer       *)
(* either way.                                                             *)
(***************************************************************************)
EXTENDS Naturals, FiniteSets

CONSTANTS
  Members, Reports,
  Calls,      \* calls of the functions that may be under way
  Ops,        \* rows of pending_four_eyes_ops
  MaxKey,     \* bound: epochs of the data key
  MaxWrite,   \* bound: filings and edits
  MaxRow,     \* bound: completed-approval audit rows
  NoCall

ASSUME NoCallAssumption == NoCall \notin Calls
ASSUME BoundAssumption == {MaxKey, MaxWrite, MaxRow} \subseteq Nat \ {0}

VARIABLES
  live,      \* the epoch that seals
  report,    \* reprisal_log
  ops,       \* pending_four_eyes_ops
  newest,    \* of each report, the completed-approval audit row with the highest id
  nextRow,   \* the next audit id
  writes,    \* filings and edits so far
  lock,      \* the call holding each row
  act        \* the calls under way

rows == <<report, ops, newest, nextRow>>
vars == <<live, rows, writes, lock, act>>

Statuses == {"open", "under_review", "closed", "deleted"}
Fields == {"title", "body"}
Decided == {"closed", "deleted"}  \* the statuses proposed: two tell the cases apart

NoText == [key |-> 0, n |-> 0]
NoReport == [status |-> "none", title |-> NoText, body |-> NoText]
Free == [kind |-> "none"]
Idle == [pc |-> "idle", kind |-> "none", by |-> "none", on |-> "none", fields |-> {},
         text |-> NoText, prev |-> NoReport, late |-> FALSE, row |-> 0]

Set(c, r) == act' = [act EXCEPT ![c] = r]

(* Taking a row lock, or one already held.                                 *)
Takes(c, x) == lock[x] \in {NoCall, c} /\ lock' = [lock EXCEPT ![x] = c]
Release(c) == lock' = [x \in DOMAIN lock |-> IF lock[x] = c THEN NoCall ELSE lock[x]]

Abort(c) == Release(c) /\ Set(c, Idle)

-----------------------------------------------------------------------------
(* Filing and editing.  The client seals the fields it was given under the *)
(* live key it holds and posts them; filing seals both.                    *)
Seal(c, r, fields) ==
  /\ act[c].pc = "idle" /\ writes < MaxWrite
  /\ (report[r] = NoReport => fields = Fields)
  /\ writes' = writes + 1
  /\ Set(c, [Idle EXCEPT !.pc = "row", !.on = r, !.fields = fields,
             !.kind = IF report[r] = NoReport THEN "submit" ELSE "update",
             !.text = [key |-> live, n |-> writes + 1]])
  /\ UNCHANGED <<live, rows, lock>>

(* The gate and the rate budget have passed (else Fail).                   *)
Submit(c) ==
  LET r == act[c].on IN
    /\ act[c].pc = "row" /\ act[c].kind = "submit" /\ report[r] = NoReport
    /\ report' = [report EXCEPT ![r] = [status |-> "open", title |-> act[c].text, body |-> act[c].text]]
    /\ Set(c, Idle)
    /\ UNCHANGED <<live, ops, newest, nextRow, writes, lock>>

(* Mutation: the row is read without FOR UPDATE.                           *)
ReadsUnlocked(c, r) == lock[r] \in {NoCall, c} /\ UNCHANGED lock
ReadsRow(c, r) == Takes(c, r)

(* reprisal_update: the prior ciphertexts are read for prev_field_hashes.  *)
ReadPrior(c) ==
  /\ act[c].pc = "row" /\ act[c].kind = "update"
  /\ ReadsRow(c, act[c].on)
  /\ Set(c, [act[c] EXCEPT !.pc = "commit", !.prev = report[act[c].on]])
  /\ UNCHANGED <<live, rows, writes>>

Edit(c) ==
  LET r == act[c].on
      New(f) == IF f \in act[c].fields THEN act[c].text ELSE report[r][f]
  IN
    /\ act[c].pc = "commit" /\ act[c].kind = "update"
    /\ lock[r] \in {NoCall, c}
    /\ report' = [report EXCEPT ![r].title = New("title"), ![r].body = New("body")]
    /\ Abort(c)
    /\ UNCHANGED <<live, ops, newest, nextRow, writes>>

-----------------------------------------------------------------------------
(* Two-person decisions.                                                   *)
ProposeStatus(m, o, r, s) ==
  /\ ops[o] = Free /\ report[r] # NoReport
  /\ ops' = [ops EXCEPT ![o] = [kind |-> "status_flip", proposer |-> m, on |-> r, status |-> s]]
  /\ UNCHANGED <<live, report, newest, nextRow, writes, lock, act>>

ProposeForensic(m, o) ==
  /\ ops[o] = Free
  /\ ops' = [ops EXCEPT ![o] = [kind |-> "forensic_reveal", proposer |-> m, past |-> FALSE,
                               swept |-> FALSE, revealed |-> FALSE]]
  /\ UNCHANGED <<live, report, newest, nextRow, writes, lock, act>>

Past(o) == ops[o].kind = "forensic_reveal" /\ ops[o].past

(* reprisal_approve_status and reprisal_approve_forensic start: the gate.  *)
Approve(c, m, o) ==
  /\ act[c].pc = "idle" /\ ops[o] # Free
  /\ Set(c, [Idle EXCEPT !.pc = "op", !.kind = ops[o].kind, !.by = m, !.on = o, !.late = Past(o)])
  /\ UNCHANGED <<live, rows, writes, lock>>

(* Mutation: the audit row is emitted before the status is written.        *)
AuditFirst(kind) == IF kind = "status_flip" THEN "emit" ELSE "reveal"
FirstStep(kind) == IF kind = "status_flip" THEN "write" ELSE "reveal"

(* FOR UPDATE of the op; self-approval, expiry and the role pair refuse    *)
(* (Fail).                                                                 *)
LockOp(c) ==
  LET o == act[c].on IN
    /\ act[c].pc = "op" /\ lock[o] \in {NoCall, c}
    /\ act[c].by # ops[o].proposer /\ ~act[c].late
    /\ Takes(c, o) /\ Set(c, [act[c] EXCEPT !.pc = FirstStep(act[c].kind)])
    /\ UNCHANGED <<live, rows, writes>>

(* UPDATE of the report, seen when the call commits.                       *)
WriteStatus(c) ==
  /\ act[c].pc = "write" /\ Takes(c, ops[act[c].on].on)
  /\ Set(c, [act[c] EXCEPT !.pc = IF act[c].row = 0 THEN "emit" ELSE "commit"])
  /\ UNCHANGED <<live, rows, writes>>

(* audit_emit: the row has its id from here on.                            *)
EmitCompleted(c) ==
  /\ act[c].pc = "emit" /\ nextRow <= MaxRow
  /\ nextRow' = nextRow + 1
  /\ Set(c, [act[c] EXCEPT !.row = nextRow,
             !.pc = IF FirstStep(act[c].kind) = "emit" THEN "write" ELSE "commit"])
  /\ UNCHANGED <<live, report, ops, newest, writes, lock>>

FlipStatus(c) ==
  LET op == ops[act[c].on] IN
    /\ act[c].pc = "commit" /\ act[c].kind = "status_flip"
    /\ report' = [report EXCEPT ![op.on].status = op.status]
    /\ newest' = [newest EXCEPT ![op.on] =
                    IF act[c].row > @.id THEN [id |-> act[c].row, status |-> op.status] ELSE @]
    /\ Abort(c)
    /\ UNCHANGED <<live, ops, nextRow, writes>>

Reveal(c) ==
  /\ act[c].pc = "reveal"
  /\ ops' = [ops EXCEPT ![act[c].on].revealed = TRUE]
  /\ Abort(c)
  /\ UNCHANGED <<live, report, newest, nextRow, writes>>

(* Twenty-four hours go by; expire_forensic_reveals clears the op.         *)
DayPasses(o) ==
  /\ ops[o].kind = "forensic_reveal" /\ ~ops[o].past
  /\ ops' = [ops EXCEPT ![o].past = TRUE]
  /\ UNCHANGED <<live, report, newest, nextRow, writes, lock, act>>

Expire(o) ==
  /\ Past(o) /\ ~ops[o].swept /\ lock[o] = NoCall
  /\ ops' = [ops EXCEPT ![o].swept = TRUE, ![o].revealed = FALSE]
  /\ UNCHANGED <<live, report, newest, nextRow, writes, lock, act>>

-----------------------------------------------------------------------------
(* The committee rotates its key.                                          *)
Rotate ==
  /\ live < MaxKey /\ live' = live + 1
  /\ UNCHANGED <<rows, writes, lock, act>>

(* A call is refused or its transaction aborts.                            *)
Fail(c) ==
  /\ act[c].pc # "idle" /\ Abort(c)
  /\ UNCHANGED <<live, rows, writes>>

-----------------------------------------------------------------------------
Init ==
  /\ live = 1 /\ report = [r \in Reports |-> NoReport]
  /\ ops = [o \in Ops |-> Free]
  /\ newest = [r \in Reports |-> [id |-> 0, status |-> "open"]]
  /\ nextRow = 1 /\ writes = 0
  /\ lock = [x \in Reports \cup Ops |-> NoCall]
  /\ act = [c \in Calls |-> Idle]

Next ==
  \/ \E c \in Calls, r \in Reports : \E fields \in SUBSET Fields \ {{}} : Seal(c, r, fields)
  \/ \E c \in Calls, m \in Members, o \in Ops : Approve(c, m, o)
  \/ \E c \in Calls :
       \/ Submit(c) \/ ReadPrior(c) \/ Edit(c) \/ Fail(c)
       \/ LockOp(c) \/ WriteStatus(c) \/ EmitCompleted(c) \/ FlipStatus(c) \/ Reveal(c)
  \/ \E m \in Members, o \in Ops :
       ProposeForensic(m, o) \/ \E r \in Reports, s \in Decided : ProposeStatus(m, o, r, s)
  \/ \E o \in Ops : DayPasses(o) \/ Expire(o)
  \/ Rotate

Spec == Init /\ [][Next]_vars

-----------------------------------------------------------------------------
(* The log tells the record's status: of the committed approvals of a      *)
(* report, the row with the highest id names the status it has.            *)
LastRowTellsStatus ==
  \A r \in Reports : report[r] # NoReport => report[r].status = newest[r].status

(* F-31: an edit's prev_field_hashes are those of the very ciphertext it   *)
(* replaced, so the log accounts for every version of a field.             *)
PriorIsReplaced ==
  [][\A c \in Calls : Edit(c) =>
       \A f \in act[c].fields : act[c].prev[f] = report[act[c].on][f]]_vars
=============================================================================
