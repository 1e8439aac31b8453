--------------------------- MODULE ReprisalsProofs ----------------------------
(***************************************************************************)
(* Edits and decisions on one report do not mix: proofs about Reprisals    *)
(* for any members, reports, calls and bounds.                             *)
(*                                                                         *)
(* The argument: an edit that has read the prior version, and a decision   *)
(* that has written the status, hold the report's row until they commit.   *)
(* So the version an edit read stands until it replaces it; and a decision *)
(* draws its audit id while it holds the row, hence after every decision   *)
(* on that report that committed before it.                                *)
(***************************************************************************)
EXTENDS Reprisals, TLAPS

Texts == [key : Nat, n : Nat]
ReportRows == [status : Statuses \cup {"none"}, title : Texts, body : Texts]
StatusOps == [kind : {"status_flip"}, proposer : Members, on : Reports, status : Decided]
RevealOps == [kind : {"forensic_reveal"}, proposer : Members, past : BOOLEAN,
              swept : BOOLEAN, revealed : BOOLEAN]
CallStates ==
  [pc : {"idle", "row", "op", "write", "emit", "reveal", "commit"},
   kind : {"none", "submit", "update", "status_flip", "forensic_reveal"},
   by : Members \cup {"none"}, on : Reports \cup Ops \cup {"none"}, fields : SUBSET Fields,
   text : Texts, prev : ReportRows, late : BOOLEAN, row : Nat]

TypeInv ==
  /\ live \in Nat /\ writes \in Nat /\ nextRow \in Nat \ {0}
  /\ report \in [Reports -> ReportRows]
  /\ ops \in [Ops -> {Free} \cup StatusOps \cup RevealOps]
  /\ newest \in [Reports -> [id : Nat, status : Statuses]]
  /\ lock \in [Reports \cup Ops -> Calls \cup {NoCall}]
  /\ act \in [Calls -> CallStates]

(* A report that is filed has a status, and one that is not none decided.  *)
FiledHasStatus ==
  \A r \in Reports : /\ report[r] # NoReport => report[r].status # "none"
                     /\ report[r] = NoReport => newest[r].status = "open"
                     /\ newest[r].id < nextRow

(* What a call under way may count on.                                     *)
EditStands ==
  \A c \in Calls : act[c].kind = "update" =>
    /\ act[c].pc \in {"row", "commit"}
    /\ act[c].on \in Reports /\ report[act[c].on] # NoReport
    /\ act[c].pc = "commit" => lock[act[c].on] = c /\ act[c].prev = report[act[c].on]

Filing ==
  \A c \in Calls : act[c].kind = "submit" => act[c].pc = "row" /\ act[c].on \in Reports

Deciding(c) == act[c].kind = "status_flip"
OnReport(c) == ops[act[c].on].on
DecisionStands ==
  \A c \in Calls :
    /\ act[c].kind = "forensic_reveal" => act[c].pc \in {"op", "reveal"} /\ act[c].on \in Ops
    /\ act[c].kind = "forensic_reveal" => ops[act[c].on].kind = "forensic_reveal"
    /\ Deciding(c) =>
         /\ act[c].pc \in {"op", "write", "emit", "commit"}
         /\ act[c].on \in Ops /\ ops[act[c].on] \in StatusOps
         /\ report[OnReport(c)] # NoReport
         /\ act[c].pc \in {"emit", "commit"} => lock[OnReport(c)] = c
         /\ act[c].pc \in {"op", "write", "emit"} => act[c].row = 0
         /\ act[c].pc = "commit" => act[c].row \in newest[OnReport(c)].id + 1 .. nextRow - 1

IdleHasNoKind == \A c \in Calls : act[c].kind = "none" <=> act[c].pc = "idle"

OpsOnFiled == \A o \in Ops : ops[o] \in StatusOps => report[ops[o].on] # NoReport

IInv ==
  /\ TypeInv /\ FiledHasStatus /\ EditStands /\ Filing /\ DecisionStands
  /\ IdleHasNoKind /\ OpsOnFiled /\ LastRowTellsStatus

-----------------------------------------------------------------------------
LEMMA IdleTyped == Idle \in CallStates
  BY DEF Idle, CallStates, NoText, Texts, NoReport, ReportRows

LEMMA InitIInv == Init => IInv
<1> SUFFICES ASSUME Init PROVE IInv
  OBVIOUS
<1>1. \A c \in Calls : act[c] \in CallStates /\ act[c].pc = "idle" /\ act[c].kind = "none"
  BY IdleTyped DEF Init, Idle
<1>2. TypeInv
  BY <1>1 DEF Init, TypeInv, NoReport, ReportRows, NoText, Texts, Statuses, Free
<1>3. FiledHasStatus /\ LastRowTellsStatus /\ OpsOnFiled
  BY DEF Init, FiledHasStatus, LastRowTellsStatus, OpsOnFiled, NoReport, Free, StatusOps
<1>4. EditStands /\ Filing /\ DecisionStands /\ IdleHasNoKind
  BY <1>1 DEF EditStands, Filing, DecisionStands, Deciding, IdleHasNoKind
<1> QED BY <1>2, <1>3, <1>4 DEF IInv

-----------------------------------------------------------------------------
(* A call ends, or has not begun: it counts on nothing, and the locks of   *)
(* the others stand.                                                       *)
LEMMA AbortKeeps ==
  ASSUME IInv, NEW c \in Calls, Abort(c),
         UNCHANGED <<live, report, ops, newest, writes>>,
         nextRow' \in Nat, nextRow' >= nextRow
  PROVE  IInv'
<1> USE DEF IInv
<1>1. act' = [act EXCEPT ![c] = Idle]
  BY DEF Abort, Set
<1>2. /\ lock' \in [Reports \cup Ops -> Calls \cup {NoCall}]
      /\ \A x \in Reports \cup Ops : lock[x] # c => lock'[x] = lock[x]
  BY DEF Abort, Release, TypeInv
<1>3. /\ act'[c].pc = "idle" /\ act'[c].kind = "none"
      /\ \A d \in Calls \ {c} : act'[d] = act[d]
  BY <1>1 DEF TypeInv, Idle
<1>4. TypeInv'
  BY <1>1, <1>2, IdleTyped DEF TypeInv
<1>5. FiledHasStatus' /\ LastRowTellsStatus' /\ OpsOnFiled'
  BY DEF TypeInv, FiledHasStatus, LastRowTellsStatus, OpsOnFiled
<1>6. EditStands' /\ Filing' /\ IdleHasNoKind'
  BY <1>2, <1>3 DEF EditStands, Filing, IdleHasNoKind
<1>7. DecisionStands'
  BY <1>2, <1>3 DEF DecisionStands, Deciding, OnReport, TypeInv, StatusOps
<1> QED BY <1>4, <1>5, <1>6, <1>7

LEMMA FailKeeps ==
  ASSUME IInv, NEW c \in Calls, Fail(c)
  PROVE  IInv'
  BY AbortKeeps DEF Fail, rows, IInv, TypeInv

(* A step of one call that leaves the tables alone: the others count on    *)
(* what they did, and the rest is about the call itself.                   *)
LEMMA CallMoves ==
  ASSUME IInv, NEW c \in Calls, NEW st \in CallStates, Set(c, st),
         UNCHANGED <<live, report, ops, newest>>,
         writes' \in Nat, nextRow' \in Nat, nextRow' >= nextRow,
         lock' \in [Reports \cup Ops -> Calls \cup {NoCall}],
         \A x \in Reports \cup Ops : lock[x] \in Calls \ {c} => lock'[x] = lock[x],
         st.kind # "none", st.pc # "idle",
         st.kind = "submit" => st.pc = "row" /\ st.on \in Reports,
         st.kind = "update" =>
           /\ st.pc \in {"row", "commit"} /\ st.on \in Reports /\ report[st.on] # NoReport
           /\ st.pc = "commit" => lock'[st.on] = c /\ st.prev = report[st.on],
         st.kind = "forensic_reveal" =>
           st.pc \in {"op", "reveal"} /\ st.on \in Ops /\ ops[st.on].kind = "forensic_reveal",
         st.kind = "status_flip" =>
           /\ st.pc \in {"op", "write", "emit", "commit"}
           /\ st.on \in Ops /\ ops[st.on] \in StatusOps
           /\ st.pc \in {"emit", "commit"} => lock'[ops[st.on].on] = c
           /\ st.pc \in {"op", "write", "emit"} => st.row = 0
           /\ st.pc = "commit" => st.row \in newest[ops[st.on].on].id + 1 .. nextRow' - 1
  PROVE  IInv'
<1> USE DEF IInv
<1>1. /\ act'[c] = st
      /\ \A d \in Calls \ {c} : act'[d] = act[d]
  BY DEF TypeInv, Set
<1>2. TypeInv'
  BY DEF TypeInv, Set
<1>3. FiledHasStatus' /\ LastRowTellsStatus' /\ OpsOnFiled'
  BY DEF TypeInv, FiledHasStatus, LastRowTellsStatus, OpsOnFiled
<1>4. EditStands' /\ Filing' /\ IdleHasNoKind'
  BY <1>1 DEF EditStands, Filing, IdleHasNoKind
<1>5. DecisionStands'
  <2> SUFFICES ASSUME NEW d \in Calls
               PROVE  DecisionStands!(d)'
    BY DEF DecisionStands
  <2>1. CASE d = c
    BY <1>1, <2>1 DEF Deciding, OnReport, OpsOnFiled
  <2>2. CASE d # c
    BY <1>1, <2>2 DEF DecisionStands, Deciding, OnReport, TypeInv, StatusOps
  <2> QED BY <2>1, <2>2
<1> QED BY <1>2, <1>3, <1>4, <1>5

-----------------------------------------------------------------------------
(* Calls begin and move.                                                   *)
LEMMA NatsTyped == IInv => live \in Nat /\ writes \in Nat /\ nextRow \in Nat
  BY DEF IInv, TypeInv

LEMMA LocksTyped == IInv => lock \in [Reports \cup Ops -> Calls \cup {NoCall}]
  BY DEF IInv, TypeInv

LEMMA LockTaken ==
  ASSUME TypeInv, NEW c \in Calls, NEW x \in Reports \cup Ops, Takes(c, x)
  PROVE  /\ lock' \in [Reports \cup Ops -> Calls \cup {NoCall}]
         /\ \A y \in Reports \cup Ops : lock[y] \in Calls \ {c} => lock'[y] = lock[y]
         /\ lock'[x] = c
         /\ \A y \in Reports \cup Ops : lock[y] = c => lock'[y] = c
  BY NoCallAssumption DEF TypeInv, Takes

LEMMA SealKeeps ==
  ASSUME IInv, NEW c \in Calls, NEW r \in Reports, NEW fields \in SUBSET Fields,
         Seal(c, r, fields)
  PROVE  IInv'
<1> DEFINE st == [Idle EXCEPT !.pc = "row", !.on = r, !.fields = fields,
                  !.kind = IF report[r] = NoReport THEN "submit" ELSE "update",
                  !.text = [key |-> live, n |-> writes + 1]]
<1>1. /\ st.pc = "row" /\ st.on = r
      /\ st.kind = IF report[r] = NoReport THEN "submit" ELSE "update"
  BY DEF Idle
<1>2. st \in CallStates
  <2>1. [key |-> live, n |-> writes + 1] \in Texts
    BY NatsTyped DEF Texts
  <2>2. Idle \in CallStates
    BY IdleTyped
  <2> QED BY <2>1, <2>2 DEF CallStates
<1>3. Set(c, st) /\ writes' = writes + 1 /\ UNCHANGED <<live, rows, lock>>
  BY DEF Seal
<1> HIDE DEF st
<1> QED BY <1>1, <1>2, <1>3, CallMoves, NatsTyped, LocksTyped DEF rows

LEMMA ApproveKeeps ==
  ASSUME IInv, NEW c \in Calls, NEW m \in Members, NEW o \in Ops, Approve(c, m, o)
  PROVE  IInv'
<1> DEFINE st == [Idle EXCEPT !.pc = "op", !.kind = ops[o].kind, !.by = m, !.on = o,
                  !.late = Past(o)]
<1>1. ops[o] \in StatusOps \cup RevealOps
  BY DEF Approve, IInv, TypeInv
<1>2. /\ st.pc = "op" /\ st.on = o /\ st.kind = ops[o].kind /\ st.row = 0
      /\ st.kind \in {"status_flip", "forensic_reveal"}
      /\ st.kind = "status_flip" => ops[o] \in StatusOps
  BY <1>1 DEF Idle, StatusOps, RevealOps
<1>3. Past(o) \in BOOLEAN
  BY <1>1 DEF Past, StatusOps, RevealOps
<1>4. st \in CallStates
  BY <1>2, <1>3, IdleTyped DEF CallStates, Idle
<1>5. Set(c, st) /\ UNCHANGED <<live, rows, writes, lock>>
  BY DEF Approve
<1> HIDE DEF st
<1> QED BY <1>2, <1>4, <1>5, CallMoves, NatsTyped, LocksTyped DEF rows

(* The edit takes the report's row and reads the version it will replace.  *)
LEMMA ReadPriorKeeps ==
  ASSUME IInv, NEW c \in Calls, ReadPrior(c)
  PROVE  IInv'
<1> DEFINE r == act[c].on
           st == [act[c] EXCEPT !.pc = "commit", !.prev = report[r]]
<1>1. act[c].kind = "update" /\ r \in Reports /\ report[r] # NoReport
  BY DEF ReadPrior, IInv, EditStands
<1>2. act[c] \in CallStates /\ report[r] \in ReportRows
  BY <1>1 DEF IInv, TypeInv
<1>3. /\ st \in CallStates /\ st.pc = "commit" /\ st.kind = "update" /\ st.on = r
      /\ st.prev = report[r]
  BY <1>1, <1>2 DEF CallStates
<1>4. Set(c, st) /\ Takes(c, r) /\ UNCHANGED <<live, rows, writes>>
  BY DEF ReadPrior, ReadsRow
<1>5. /\ lock' \in [Reports \cup Ops -> Calls \cup {NoCall}]
      /\ \A y \in Reports \cup Ops : lock[y] \in Calls \ {c} => lock'[y] = lock[y]
      /\ lock'[r] = c
  BY <1>1, <1>4, LockTaken DEF IInv
<1> HIDE DEF st, r
<1> QED BY <1>1, <1>3, <1>4, <1>5, CallMoves, NatsTyped, LocksTyped DEF rows

LEMMA LockOpKeeps ==
  ASSUME IInv, NEW c \in Calls, LockOp(c)
  PROVE  IInv'
<1> DEFINE o == act[c].on
           st == [act[c] EXCEPT !.pc = FirstStep(act[c].kind)]
<1>1. act[c].pc = "op" /\ Takes(c, o) /\ Set(c, st)
      /\ UNCHANGED <<live, rows, writes>>
  BY DEF LockOp
<1>2. act[c] \in CallStates
  BY DEF IInv, TypeInv
<1>3. act[c].kind \in {"status_flip", "forensic_reveal"}
  BY <1>1, <1>2 DEF IInv, EditStands, Filing, IdleHasNoKind, CallStates
<1>4. /\ o \in Ops
      /\ act[c].kind = "forensic_reveal" => ops[o].kind = "forensic_reveal"
      /\ act[c].kind = "status_flip" => ops[o] \in StatusOps /\ act[c].row = 0
  BY <1>1, <1>3 DEF IInv, DecisionStands, Deciding
<1>5. /\ st \in CallStates /\ st.on = o /\ st.kind = act[c].kind /\ st.row = act[c].row
      /\ st.pc = IF act[c].kind = "status_flip" THEN "write" ELSE "reveal"
  BY <1>2 DEF FirstStep, CallStates
<1>6. /\ lock' \in [Reports \cup Ops -> Calls \cup {NoCall}]
      /\ \A y \in Reports \cup Ops : lock[y] \in Calls \ {c} => lock'[y] = lock[y]
  BY <1>1, <1>4, LockTaken DEF IInv
<1> HIDE DEF st, o
<1> QED BY <1>1, <1>3, <1>4, <1>5, <1>6, CallMoves, NatsTyped, LocksTyped DEF rows

(* The decision takes the report's row: it draws its audit id afterwards.  *)
LEMMA WriteStatusKeeps ==
  ASSUME IInv, NEW c \in Calls, WriteStatus(c)
  PROVE  IInv'
<1> DEFINE r == ops[act[c].on].on
           st == [act[c] EXCEPT !.pc = IF act[c].row = 0 THEN "emit" ELSE "commit"]
<1>1. act[c].pc = "write" /\ Takes(c, r) /\ Set(c, st)
      /\ UNCHANGED <<live, rows, writes>>
  BY DEF WriteStatus
<1>2. act[c] \in CallStates
  BY DEF IInv, TypeInv
<1>3. act[c].kind = "status_flip"
  BY <1>1, <1>2 DEF IInv, EditStands, Filing, DecisionStands, IdleHasNoKind, CallStates
<1>4. act[c].on \in Ops /\ ops[act[c].on] \in StatusOps /\ act[c].row = 0
  BY <1>1, <1>3 DEF IInv, DecisionStands, Deciding
<1>5. r \in Reports
  BY <1>4 DEF StatusOps
<1>6. /\ st \in CallStates /\ st.on = act[c].on /\ st.kind = "status_flip" /\ st.row = 0
      /\ st.pc = "emit"
  BY <1>2, <1>3, <1>4 DEF CallStates
<1>7. /\ lock' \in [Reports \cup Ops -> Calls \cup {NoCall}]
      /\ \A y \in Reports \cup Ops : lock[y] \in Calls \ {c} => lock'[y] = lock[y]
      /\ lock'[r] = c
  BY <1>1, <1>5, LockTaken DEF IInv
<1> HIDE DEF st
<1> QED BY <1>1, <1>4, <1>6, <1>7, CallMoves, NatsTyped, LocksTyped DEF rows

LEMMA EmitCompletedKeeps ==
  ASSUME IInv, NEW c \in Calls, EmitCompleted(c)
  PROVE  IInv'
<1> DEFINE r == ops[act[c].on].on
           st == [act[c] EXCEPT !.row = nextRow,
                  !.pc = IF FirstStep(act[c].kind) = "emit" THEN "write" ELSE "commit"]
<1>1. act[c].pc = "emit" /\ nextRow' = nextRow + 1 /\ Set(c, st)
      /\ UNCHANGED <<live, report, ops, newest, writes, lock>>
  BY DEF EmitCompleted
<1>2. act[c] \in CallStates /\ nextRow \in Nat
  BY DEF IInv, TypeInv
<1>3. act[c].kind = "status_flip"
  BY <1>1, <1>2 DEF IInv, EditStands, Filing, DecisionStands, IdleHasNoKind, CallStates
<1>4. act[c].on \in Ops /\ ops[act[c].on] \in StatusOps /\ lock[r] = c
  BY <1>1, <1>3 DEF IInv, DecisionStands, Deciding, OnReport
<1>5. r \in Reports /\ newest[r].id \in Nat /\ newest[r].id < nextRow
  BY <1>4 DEF StatusOps, IInv, FiledHasStatus, TypeInv
<1>6. /\ st \in CallStates /\ st.on = act[c].on /\ st.kind = "status_flip" /\ st.row = nextRow
      /\ st.pc = "commit"
  BY <1>2, <1>3 DEF CallStates, FirstStep
<1>7. st.row \in newest[r].id + 1 .. nextRow' - 1
  BY <1>1, <1>2, <1>5, <1>6
<1> HIDE DEF st
<1> QED BY <1>1, <1>2, <1>4, <1>6, <1>7, CallMoves, NatsTyped, LocksTyped

-----------------------------------------------------------------------------
(* Steps that change a report: filing, editing, deciding.                  *)

(* A call that ends after writing report r: nobody else counts on r.       *)
LEMMA CommitKeeps ==
  ASSUME IInv, NEW c \in Calls, NEW r \in Reports, NEW row \in ReportRows,
         Set(c, Idle), lock' \in [Reports \cup Ops -> Calls \cup {NoCall}],
         \A x \in Reports \cup Ops : lock[x] # c => lock'[x] = lock[x],
         report' = [report EXCEPT ![r] = row],
         newest' \in [Reports -> [id : Nat, status : Statuses]],
         \A x \in Reports \ {r} : newest'[x] = newest[x],
         newest'[r].id < nextRow, newest'[r].id >= newest[r].id,
         row # NoReport, row.status # "none", row.status = newest'[r].status,
         UNCHANGED <<live, ops, nextRow, writes>>,
         \A d \in Calls \ {c} : /\ act[d].kind = "update" /\ act[d].pc = "commit" => act[d].on # r
                                /\ Deciding(d) /\ act[d].pc = "commit" => OnReport(d) # r
  PROVE  IInv'
<1> USE DEF IInv
<1>1. /\ act' = [act EXCEPT ![c] = Idle]
      /\ lock' \in [Reports \cup Ops -> Calls \cup {NoCall}]
      /\ \A x \in Reports \cup Ops : lock[x] # c => lock'[x] = lock[x]
  BY DEF Set
<1>2. /\ act'[c].pc = "idle" /\ act'[c].kind = "none"
      /\ \A d \in Calls \ {c} : act'[d] = act[d]
  BY <1>1 DEF TypeInv, Idle
<1>3. /\ report'[r] = row /\ report' \in [Reports -> ReportRows]
      /\ \A x \in Reports \ {r} : report'[x] = report[x]
  BY DEF TypeInv
<1>4. TypeInv'
  BY <1>1, <1>3, IdleTyped DEF TypeInv
<1>5. FiledHasStatus' /\ LastRowTellsStatus'
  BY <1>3 DEF TypeInv, FiledHasStatus, LastRowTellsStatus
<1>6. \A x \in Reports : report[x] # NoReport => report'[x] # NoReport
  BY <1>3
<1>7. OpsOnFiled'
  BY <1>6 DEF OpsOnFiled, StatusOps
<1>8. EditStands' /\ Filing' /\ IdleHasNoKind'
  BY <1>1, <1>2, <1>3, <1>6 DEF EditStands, Filing, IdleHasNoKind
<1>9. DecisionStands'
  <2> SUFFICES ASSUME NEW d \in Calls
               PROVE  DecisionStands!(d)'
    BY DEF DecisionStands
  <2>1. CASE d = c
    BY <1>2, <2>1 DEF Deciding
  <2>2. CASE d # c
    <3>1. act'[d] = act[d]
      BY <1>2, <2>2
    <3>2. Deciding(d) => OnReport(d) \in Reports /\ OnReport(d)' = OnReport(d)
      BY <3>1 DEF DecisionStands, Deciding, OnReport, StatusOps
    <3>3. Deciding(d) /\ act[d].pc = "commit" => newest'[OnReport(d)] = newest[OnReport(d)]
      BY <2>2, <3>2
    <3>4. Deciding(d) /\ lock[OnReport(d)] = d => lock'[OnReport(d)] = d
      BY <1>1, <2>2, <3>2
    <3> QED BY <1>6, <3>1, <3>2, <3>3, <3>4 DEF DecisionStands, Deciding, OnReport
  <2> QED BY <2>1, <2>2
<1> QED BY <1>4, <1>5, <1>7, <1>8, <1>9

LEMMA AbortReleases ==
  ASSUME IInv, NEW c \in Calls, Abort(c)
  PROVE  /\ Set(c, Idle)
         /\ lock' \in [Reports \cup Ops -> Calls \cup {NoCall}]
         /\ \A x \in Reports \cup Ops : lock[x] # c => lock'[x] = lock[x]
  BY DEF Abort, Release, IInv, TypeInv

(* Who has read or written a report holds its row, so it is the only one.  *)
LEMMA OneWriter ==
  ASSUME IInv, NEW c \in Calls, NEW r \in Reports, lock[r] \in {NoCall, c}
  PROVE  \A d \in Calls \ {c} :
           /\ act[d].kind = "update" /\ act[d].pc = "commit" => act[d].on # r
           /\ Deciding(d) /\ act[d].pc = "commit" => OnReport(d) # r
  BY NoCallAssumption DEF IInv, EditStands, DecisionStands

LEMMA SubmitKeeps ==
  ASSUME IInv, NEW c \in Calls, Submit(c)
  PROVE  IInv'
<1> DEFINE r == act[c].on
           row == [status |-> "open", title |-> act[c].text, body |-> act[c].text]
<1>1. /\ report[r] = NoReport /\ Set(c, Idle) /\ report' = [report EXCEPT ![r] = row]
      /\ UNCHANGED <<live, ops, newest, nextRow, writes, lock>>
  BY DEF Submit
<1>2. r \in Reports
  BY DEF Submit, IInv, Filing
<1>3. row \in ReportRows /\ row # NoReport /\ row.status = "open"
  BY DEF IInv, TypeInv, CallStates, ReportRows, Statuses, NoReport
<1>4. /\ newest[r].status = "open" /\ newest[r].id < nextRow /\ newest[r].id \in Nat
      /\ newest \in [Reports -> [id : Nat, status : Statuses]]
  BY <1>1, <1>2 DEF IInv, FiledHasStatus, TypeInv
<1>5. \A d \in Calls \ {c} :
        /\ act[d].kind = "update" /\ act[d].pc = "commit" => act[d].on # r
        /\ Deciding(d) /\ act[d].pc = "commit" => OnReport(d) # r
  BY <1>1 DEF IInv, EditStands, DecisionStands
<1>6. newest'[r].id >= newest[r].id
  BY <1>1, <1>4
<1> HIDE DEF row, r
<1> QED BY <1>1, <1>2, <1>3, <1>4, <1>5, <1>6, CommitKeeps, LocksTyped

LEMMA EditKeeps ==
  ASSUME IInv, NEW c \in Calls, Edit(c)
  PROVE  IInv'
<1> DEFINE r == act[c].on
           New(f) == IF f \in act[c].fields THEN act[c].text ELSE report[r][f]
           row == [report[r] EXCEPT !.title = New("title"), !.body = New("body")]
<1>1. r \in Reports /\ report[r] # NoReport /\ lock[r] \in {NoCall, c} /\ Abort(c)
  BY DEF Edit, IInv, EditStands
<1>2. report[r] \in ReportRows /\ act[c].text \in Texts
  BY <1>1 DEF IInv, TypeInv, CallStates
<1>3. row \in ReportRows /\ row.status = report[r].status
  BY <1>2 DEF ReportRows
<1>4. row.status # "none" /\ row.status = newest[r].status
  BY <1>1, <1>3 DEF IInv, FiledHasStatus, LastRowTellsStatus
<1>5. row # NoReport
  BY <1>4 DEF NoReport
<1>6. report' = [report EXCEPT ![r] = row] /\ UNCHANGED <<live, ops, newest, nextRow, writes>>
  BY <1>1, <1>2 DEF Edit, ReportRows, IInv, TypeInv
<1>7. /\ newest \in [Reports -> [id : Nat, status : Statuses]]
      /\ newest[r].id < nextRow /\ newest[r].id \in Nat
  BY <1>1 DEF IInv, TypeInv, FiledHasStatus
<1>8. newest'[r].id >= newest[r].id /\ newest' = newest
  BY <1>6, <1>7
<1> HIDE DEF row, New, r
<1>9. \A d \in Calls \ {c} :
        /\ act[d].kind = "update" /\ act[d].pc = "commit" => act[d].on # r
        /\ Deciding(d) /\ act[d].pc = "commit" => OnReport(d) # r
  BY <1>1, OneWriter
<1>10. /\ Set(c, Idle)
       /\ lock' \in [Reports \cup Ops -> Calls \cup {NoCall}]
       /\ \A x \in Reports \cup Ops : lock[x] # c => lock'[x] = lock[x]
  BY <1>1, AbortReleases
<1> QED BY <1>1, <1>3, <1>4, <1>5, <1>6, <1>7, <1>8, <1>9, <1>10, CommitKeeps

LEMMA FlipStatusKeeps ==
  ASSUME IInv, NEW c \in Calls, FlipStatus(c)
  PROVE  IInv'
<1> DEFINE op == ops[act[c].on]
           r == op.on
           row == [report[r] EXCEPT !.status = op.status]
           told == [id |-> act[c].row, status |-> op.status]
<1>1. /\ Deciding(c) /\ act[c].pc = "commit" /\ Abort(c)
      /\ UNCHANGED <<live, ops, nextRow, writes>>
  BY DEF FlipStatus, Deciding
<1>2. /\ op \in StatusOps /\ report[r] # NoReport /\ lock[r] = c
      /\ act[c].row \in newest[r].id + 1 .. nextRow - 1
  BY <1>1 DEF IInv, DecisionStands, OnReport
<1>3. r \in Reports /\ op.status \in Decided
  BY <1>2 DEF StatusOps
<1>4. report[r] \in ReportRows /\ newest[r].id \in Nat /\ nextRow \in Nat /\ act[c].row \in Nat
  BY <1>3 DEF IInv, TypeInv, CallStates
<1>5. act[c].row > newest[r].id /\ act[c].row < nextRow
  BY <1>2, <1>4
<1>6. newest' = [newest EXCEPT ![r] = told]
  BY <1>3, <1>5 DEF FlipStatus, IInv, TypeInv
<1>7. /\ newest' \in [Reports -> [id : Nat, status : Statuses]]
      /\ newest'[r] = told
      /\ \A x \in Reports \ {r} : newest'[x] = newest[x]
  BY <1>3, <1>4, <1>6 DEF IInv, TypeInv, Decided, Statuses
<1>8. row \in ReportRows /\ row.status = op.status /\ row.status # "none" /\ row # NoReport
  BY <1>3, <1>4 DEF ReportRows, Decided, Statuses, NoReport
<1>9. report' = [report EXCEPT ![r] = row]
  BY <1>3, <1>4 DEF FlipStatus, ReportRows, IInv, TypeInv
<1>10. newest'[r].id = act[c].row /\ newest'[r].status = op.status
  BY <1>7
<1> HIDE DEF row, told, r
<1>11. newest'[r].id < nextRow /\ newest'[r].id >= newest[r].id /\ newest'[r].status = row.status
  BY <1>4, <1>5, <1>8, <1>10
<1>12. /\ Set(c, Idle)
       /\ lock' \in [Reports \cup Ops -> Calls \cup {NoCall}]
       /\ \A x \in Reports \cup Ops : lock[x] # c => lock'[x] = lock[x]
  BY <1>1, AbortReleases
<1>13. \A d \in Calls \ {c} :
         /\ act[d].kind = "update" /\ act[d].pc = "commit" => act[d].on # r
         /\ Deciding(d) /\ act[d].pc = "commit" => OnReport(d) # r
  BY <1>2, <1>3, OneWriter
<1> QED BY <1>1, <1>3, <1>7, <1>8, <1>9, <1>13, <1>11, <1>12, CommitKeeps

-----------------------------------------------------------------------------
(* Steps on the operations alone.                                          *)

(* An operation changes and stays what kind of operation on what report it *)
(* was; nobody decides on one that was free.                               *)
LEMMA OpsKeep ==
  ASSUME IInv, NEW o \in Ops, NEW op \in StatusOps \cup RevealOps,
         ops' = [ops EXCEPT ![o] = op],
         op \in StatusOps => ops[o] = Free /\ report[op.on] # NoReport,
         op \in RevealOps => ops[o] = Free \/ ops[o].kind = "forensic_reveal",
         UNCHANGED <<live, report, newest, nextRow, writes>>,
         act' \in [Calls -> CallStates], lock' \in [Reports \cup Ops -> Calls \cup {NoCall}],
         \A d \in Calls : \/ act'[d].pc = "idle" /\ act'[d].kind = "none"
                          \/ /\ act'[d] = act[d]
                             /\ \A x \in Reports \cup Ops : lock[x] = d => lock'[x] = d
  PROVE  IInv'
<1> USE DEF IInv
<1>1. /\ ops' \in [Ops -> {Free} \cup StatusOps \cup RevealOps]
      /\ ops'[o] = op
      /\ \A x \in Ops \ {o} : ops'[x] = ops[x]
  BY DEF TypeInv
<1>2. TypeInv'
  BY <1>1 DEF TypeInv
<1>3. OpsOnFiled'
  BY <1>1 DEF OpsOnFiled
<1>4. FiledHasStatus' /\ LastRowTellsStatus'
  BY DEF FiledHasStatus, LastRowTellsStatus
<1>5. EditStands' /\ Filing' /\ IdleHasNoKind'
  BY DEF EditStands, Filing, IdleHasNoKind
<1>6. ops[o] \notin StatusOps
  BY DEF StatusOps, RevealOps, Free
<1>7. op.kind = "forensic_reveal" \/ ops[o] = Free
  BY DEF RevealOps
<1>8. DecisionStands'
  <2> SUFFICES ASSUME NEW d \in Calls
               PROVE  DecisionStands!(d)'
    BY DEF DecisionStands
  <2>1. CASE act'[d].pc = "idle" /\ act'[d].kind = "none"
    BY <2>1 DEF Deciding
  <2>2. CASE /\ act'[d] = act[d]
             /\ \A x \in Reports \cup Ops : lock[x] = d => lock'[x] = d
    <3>1. Deciding(d) => act[d].on \in Ops \ {o}
      BY <1>6 DEF DecisionStands
    <3>2. Deciding(d) => ops'[act[d].on] = ops[act[d].on]
      BY <1>1, <3>1
    <3>3. act[d].kind = "forensic_reveal" => ops'[act[d].on].kind = "forensic_reveal"
      BY <1>1, <1>7 DEF DecisionStands, Free
    <3>4. Deciding(d) => OnReport(d) \in Reports /\ OnReport(d)' = OnReport(d)
      BY <2>2, <3>2 DEF DecisionStands, Deciding, OnReport, StatusOps
    <3> QED BY <2>2, <3>2, <3>3, <3>4 DEF DecisionStands, Deciding, OnReport
  <2> QED BY <2>1, <2>2
<1> QED BY <1>2, <1>3, <1>4, <1>5, <1>8

LEMMA ActsTyped == IInv => act \in [Calls -> CallStates]
  BY DEF IInv, TypeInv

LEMMA RevealKeeps ==
  ASSUME IInv, NEW c \in Calls, Reveal(c)
  PROVE  IInv'
<1> DEFINE o == act[c].on
           op == [ops[o] EXCEPT !.revealed = TRUE]
<1>1. act[c].pc = "reveal" /\ Abort(c) /\ UNCHANGED <<live, report, newest, nextRow, writes>>
  BY DEF Reveal
<1>2. act[c].kind = "forensic_reveal"
  BY <1>1 DEF IInv, TypeInv, EditStands, Filing, DecisionStands, Deciding, IdleHasNoKind, CallStates
<1>3. o \in Ops /\ ops[o].kind = "forensic_reveal"
  BY <1>2 DEF IInv, DecisionStands
<1>4. ops[o] \in RevealOps
  BY <1>3 DEF IInv, TypeInv, StatusOps, Free
<1>5. op \in RevealOps /\ op \notin StatusOps
  BY <1>4 DEF RevealOps, StatusOps
<1>6. ops' = [ops EXCEPT ![o] = op]
  BY <1>3, <1>4 DEF Reveal, RevealOps, IInv, TypeInv
<1>7. /\ Set(c, Idle)
      /\ lock' \in [Reports \cup Ops -> Calls \cup {NoCall}]
      /\ \A x \in Reports \cup Ops : lock[x] # c => lock'[x] = lock[x]
  BY <1>1, AbortReleases
<1>8. /\ act' \in [Calls -> CallStates]
      /\ act'[c].pc = "idle" /\ act'[c].kind = "none"
      /\ \A d \in Calls \ {c} : act'[d] = act[d]
  BY <1>7, ActsTyped, IdleTyped DEF Set, Idle
<1> HIDE DEF op, o
<1> QED BY <1>1, <1>3, <1>5, <1>6, <1>7, <1>8, OpsKeep

LEMMA ProposeStatusKeeps ==
  ASSUME IInv, NEW m \in Members, NEW o \in Ops, NEW r \in Reports, NEW s \in Decided,
         ProposeStatus(m, o, r, s)
  PROVE  IInv'
<1> DEFINE op == [kind |-> "status_flip", proposer |-> m, on |-> r, status |-> s]
<1>1. op \in StatusOps /\ op \notin RevealOps /\ op.on = r
  BY DEF StatusOps, RevealOps
<1>2. /\ ops[o] = Free /\ report[r] # NoReport /\ ops' = [ops EXCEPT ![o] = op]
      /\ UNCHANGED <<live, report, newest, nextRow, writes, lock, act>>
  BY DEF ProposeStatus
<1> HIDE DEF op
<1> QED BY <1>1, <1>2, OpsKeep, ActsTyped, LocksTyped

LEMMA ProposeForensicKeeps ==
  ASSUME IInv, NEW m \in Members, NEW o \in Ops, ProposeForensic(m, o)
  PROVE  IInv'
<1> DEFINE op == [kind |-> "forensic_reveal", proposer |-> m, past |-> FALSE,
                  swept |-> FALSE, revealed |-> FALSE]
<1>1. op \in RevealOps /\ op \notin StatusOps
  BY DEF StatusOps, RevealOps
<1>2. /\ ops[o] = Free /\ ops' = [ops EXCEPT ![o] = op]
      /\ UNCHANGED <<live, report, newest, nextRow, writes, lock, act>>
  BY DEF ProposeForensic
<1> HIDE DEF op
<1> QED BY <1>1, <1>2, OpsKeep, ActsTyped, LocksTyped

LEMMA DayKeeps ==
  ASSUME IInv, NEW o \in Ops, DayPasses(o) \/ Expire(o)
  PROVE  IInv'
<1> DEFINE past == [ops[o] EXCEPT !.past = TRUE]
           swept == [ops[o] EXCEPT !.swept = TRUE, !.revealed = FALSE]
<1>1. /\ ops[o].kind = "forensic_reveal"
      /\ UNCHANGED <<live, report, newest, nextRow, writes, lock, act>>
  BY DEF DayPasses, Expire, Past
<1>2. ops[o] \in RevealOps
  BY <1>1 DEF IInv, TypeInv, StatusOps, Free
<1>3. /\ past \in RevealOps /\ past \notin StatusOps
      /\ swept \in RevealOps /\ swept \notin StatusOps
  BY <1>2 DEF RevealOps, StatusOps
<1>4. DayPasses(o) => ops' = [ops EXCEPT ![o] = past]
  BY <1>2 DEF DayPasses, RevealOps, IInv, TypeInv
<1>5. Expire(o) => ops' = [ops EXCEPT ![o] = swept]
  BY <1>2 DEF Expire, RevealOps, IInv, TypeInv
<1> HIDE DEF past, swept
<1>6. CASE DayPasses(o)
  BY <1>1, <1>3, <1>4, <1>6, OpsKeep, ActsTyped, LocksTyped
<1>7. CASE Expire(o)
  BY <1>1, <1>3, <1>5, <1>7, OpsKeep, ActsTyped, LocksTyped
<1> QED BY <1>6, <1>7

-----------------------------------------------------------------------------
LEMMA StillKeeps ==
  ASSUME IInv, live' \in Nat, UNCHANGED <<rows, writes, lock, act>>
  PROVE  IInv'
  BY DEF IInv, TypeInv, FiledHasStatus, EditStands, Filing, DecisionStands, Deciding, OnReport,
         IdleHasNoKind, OpsOnFiled, LastRowTellsStatus, rows

LEMMA NextIInv ==
  ASSUME IInv, [Next]_vars
  PROVE  IInv'
<1>1. CASE UNCHANGED vars
  BY <1>1, StillKeeps, NatsTyped DEF vars
<1>2. CASE Rotate
  BY <1>2, StillKeeps, NatsTyped DEF Rotate
<1>3. ASSUME NEW c \in Calls, NEW r \in Reports, NEW fields \in SUBSET Fields \ {{}},
             Seal(c, r, fields)
      PROVE  IInv'
  BY <1>3, SealKeeps
<1>4. ASSUME NEW c \in Calls, NEW m \in Members, NEW o \in Ops, Approve(c, m, o)
      PROVE  IInv'
  BY <1>4, ApproveKeeps
<1>5. ASSUME NEW c \in Calls,
             \/ Submit(c) \/ ReadPrior(c) \/ Edit(c) \/ Fail(c)
             \/ LockOp(c) \/ WriteStatus(c) \/ EmitCompleted(c) \/ FlipStatus(c) \/ Reveal(c)
      PROVE  IInv'
  BY <1>5, SubmitKeeps, ReadPriorKeeps, EditKeeps, FailKeeps, LockOpKeeps, WriteStatusKeeps,
     EmitCompletedKeeps, FlipStatusKeeps, RevealKeeps
<1>6. ASSUME NEW m \in Members, NEW o \in Ops,
             ProposeForensic(m, o) \/ \E r \in Reports, s \in Decided : ProposeStatus(m, o, r, s)
      PROVE  IInv'
  BY <1>6, ProposeForensicKeeps, ProposeStatusKeeps
<1>7. ASSUME NEW o \in Ops, DayPasses(o) \/ Expire(o)
      PROVE  IInv'
  BY <1>7, DayKeeps
<1> QED BY <1>1, <1>2, <1>3, <1>4, <1>5, <1>6, <1>7 DEF Next

-----------------------------------------------------------------------------
(* The committed approval with the highest id always names the status the  *)
(* record has (reprisal_approve_status, migration 0005).                   *)
THEOREM StatusTold == Spec => []LastRowTellsStatus
<1>1. Spec => []IInv
  BY InitIInv, NextIInv, PTL DEF Spec
<1>2. IInv => LastRowTellsStatus
  BY DEF IInv
<1> QED BY <1>1, <1>2, PTL

(* What an edit put on record as the version before it is the version it   *)
(* replaced, field by field (reprisal_update, F-31).                       *)
THEOREM PriorKept == Spec => PriorIsReplaced
<1>1. Spec => []IInv
  BY InitIInv, NextIInv, PTL DEF Spec
<1>2. ASSUME IInv, NEW c \in Calls, Edit(c)
      PROVE  \A f \in act[c].fields : act[c].prev[f] = report[act[c].on][f]
  BY <1>2 DEF Edit, IInv, EditStands
<1>3. IInv => [\A c \in Calls : Edit(c) =>
                 \A f \in act[c].fields : act[c].prev[f] = report[act[c].on][f]]_vars
  BY <1>2
<1> QED BY <1>1, <1>3, PTL DEF PriorIsReplaced
=============================================================================
