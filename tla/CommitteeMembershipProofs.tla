---------------------- MODULE CommitteeMembershipProofs ----------------------
(***************************************************************************)
(* The committee keeps a co-chair, whatever transactions are open: proofs  *)
(* about CommitteeMembership for every value of its constants.             *)
(*                                                                         *)
(* The argument: a transaction that costs an active co-chair locks that    *)
(* row first and scans the co-chair rows afterwards.  Of two such          *)
(* transactions the one that scanned later saw the other's target, still   *)
(* a co-chair and locked, and waits for it (Exclusion); so only one of     *)
(* them has counted at any time, and what it counted stands until it       *)
(* commits.                                                                *)
(***************************************************************************)
EXTENDS CommitteeMembership, TLAPS

(* t holds its target's row lock.                                          *)
Holds(t) ==
  tx[t].pc \in {"losing", "rows", "approve", "write"} /\ tx[t].kind # "invite"

(* t took its snapshot of the co-chair rows, or had no need to.            *)
Scanned(t) == Holds(t) /\ tx[t].pc # "losing" /\ Losing(t)

RolesNamed ==
  \A t \in Txs : tx[t].kind \in {"invite", "set_roles"} => tx[t].next # {}
RowExists == \A t \in Txs : Holds(t) => role[Target(t)] # {}
TypeInv == TypeOK /\ RolesNamed /\ RowExists

LockHeld == \A t \in Txs : Holds(t) => lock[Target(t)] = t
ChecksStand ==
  \A t \in Txs : /\ Holds(t) => ~Refuses(t)
                 /\ tx[t].pc \in {"losing", "rows", "approve"} => Holds(t) /\ Losing(t)
                 /\ tx[t].pc # "rows" => tx[t].want = {}
LockInv == LockHeld /\ ChecksStand

Exclusion ==
  \A t, s \in Txs :
    t # s /\ Scanned(t) /\ Scanned(s)
      => Target(t) \in tx[s].want \/ Target(s) \in tx[t].want
Counted ==
  \A t \in Txs :
    Scanned(t) /\ tx[t].pc # "rows" => ActiveCoChairs \ {Target(t)} # {}
Approved ==
  \A t \in Txs :
    Scanned(t) /\ tx[t].pc = "write" /\ tx[t].self
      => tx[t].approver \in ActiveCoChairs \ {Target(t)}
ChairInv == Exclusion /\ Counted /\ Approved /\ AlwaysACoChair

IInv == TypeInv /\ LockInv /\ ChairInv /\ MirrorAgrees

-----------------------------------------------------------------------------
(* The founder alone is a co-chair, and no transaction is open.            *)
LEMMA InitIInv == Init => IInv
<1> SUFFICES ASSUME Init PROVE IInv
  OBVIOUS
<1> USE FounderAssumption, NamesAssumption
<1>1. TypeInv
  BY DEF Init, TypeInv, TypeOK, TxType, Closed, Roles, RolesNamed, RowExists, Holds, Target
<1>2. \A t \in Txs : ~Holds(t)
  BY DEF Init, Holds, Closed
<1>3. LockInv
  BY <1>2 DEF Init, LockInv, LockHeld, ChecksStand, Closed
<1>4. Founder \in ActiveCoChairs
  BY DEF Init, ActiveCoChairs, CoChairs
<1>5. ChairInv
  BY <1>2, <1>4 DEF ChairInv, Exclusion, Counted, Approved, Scanned, AlwaysACoChair
<1>6. MirrorAgrees
  BY DEF Init, MirrorAgrees, PrimaryRole
<1>7. QED
  BY <1>1, <1>3, <1>5, <1>6 DEF IInv

(* Going on as r keeps the types if r is a record of an open call.         *)
LEMMA GotoTypes ==
  ASSUME TypeInv, NEW t \in Txs, NEW r \in TxType, Goto(t, r),
         lock' \in [Users -> Txs \cup {NoTx}],
         r.target \in Users, r.kind # "none",
         r.kind \in {"invite", "set_roles"} => r.next # {},
         r.pc \in {"closed", "target"} \/ r.kind = "invite" \/ role[r.target] # {}
  PROVE  TypeInv'
<1>1. tx' = [tx EXCEPT ![t] = r] /\ tx \in [Txs -> TxType] /\ UNCHANGED tables
  BY DEF Goto, TypeInv, TypeOK
<1>2. tx'[t] = r /\ \A s \in Txs : s # t => tx'[s] = tx[s]
  BY <1>1
<1>3. TypeOK'
  BY <1>1, <1>2 DEF TypeInv, TypeOK, Target, tables
<1>4. RolesNamed'
  BY <1>2 DEF TypeInv, RolesNamed
<1>5. RowExists'
  BY <1>1, <1>2 DEF TypeInv, RowExists, Holds, Target, tables
<1>6. QED
  BY <1>3, <1>4, <1>5 DEF TypeInv

(* The record a call opens with.                                           *)
LEMMA OpenTypes ==
  ASSUME TypeInv, NEW t \in Txs, NEW u \in Users, NEW self \in BOOLEAN,
         NEW next \in SUBSET Roles,
         NEW kind \in {"invite", "activate", "set_roles", "remove", "reactivate"},
         kind \in {"invite", "set_roles"} => next # {},
         Open(t, kind, u, self, next)
  PROVE  TypeInv'
<1> DEFINE r == [pc |-> IF kind = "invite" THEN "write" ELSE "target", kind |-> kind,
                 target |-> u, self |-> self, next |-> next, want |-> {}, approver |-> NoUser]
<1>1. r.pc = (IF kind = "invite" THEN "write" ELSE "target")
      /\ r.kind = kind /\ r.target = u /\ r.next = next
  OBVIOUS
<1>2. r \in TxType
  BY DEF TxType
<1>3. Goto(t, r) /\ lock' \in [Users -> Txs \cup {NoTx}]
  BY DEF Open, TypeInv, TypeOK
<1> HIDE DEF r
<1>4. QED
  BY <1>1, <1>2, <1>3, GotoTypes

(* A transaction's end keeps the types if the tables' do.                  *)
LEMMA EndTypes ==
  ASSUME TypeInv, NEW t \in Txs, End(t)
  PROVE  /\ tx' \in [Txs -> TxType] /\ lock' \in [Users -> Txs \cup {NoTx}]
         /\ tx'[t] = Closed /\ \A s \in Txs : s # t => tx'[s] = tx[s]
         /\ \A s \in Txs : tx'[s].pc # "closed" =>
              tx'[s].target \in Users /\ tx'[s].kind # "none"
         /\ RolesNamed'
<1>1. Closed \in TxType
  BY NamesAssumption DEF Closed, TxType
<1>2. tx' = [tx EXCEPT ![t] = Closed] /\ tx \in [Txs -> TxType]
  BY DEF End, TypeInv, TypeOK
<1>3. tx'[t] = Closed /\ \A s \in Txs : s # t => tx'[s] = tx[s]
  BY <1>2
<1>4. lock' \in [Users -> Txs \cup {NoTx}]
  BY DEF End, TypeInv, TypeOK
<1>5. QED
  BY <1>1, <1>2, <1>3, <1>4 DEF Closed, TypeInv, TypeOK, RolesNamed, Target

(* Types, rows and role sets.                                              *)
LEMMA TypeStep == TypeInv /\ [Next]_vars => TypeInv'
<1> SUFFICES ASSUME TypeInv, [Next]_vars PROVE TypeInv'
  OBVIOUS
<1> USE RoleSetsAssumption
<1>t. /\ TypeOK /\ RolesNamed /\ RowExists
      /\ \A t \in Txs : tx[t] \in TxType
  BY DEF TypeInv, TypeOK
<1>1. ASSUME NEW t \in Txs, BeginInvite(t) PROVE TypeInv'
  BY <1>1, OpenTypes DEF BeginInvite, ValidRoles
<1>2. ASSUME NEW t \in Txs, BeginActivate(t) PROVE TypeInv'
  BY <1>t, <1>2, OpenTypes DEF BeginActivate, TypeOK
<1>3. ASSUME NEW t \in Txs, BeginSetRoles(t) PROVE TypeInv'
  BY <1>3, OpenTypes DEF BeginSetRoles, ValidRoles
<1>4. ASSUME NEW t \in Txs, BeginRemove(t) PROVE TypeInv'
  BY <1>4, OpenTypes DEF BeginRemove
<1>5. ASSUME NEW t \in Txs, BeginReactivate(t) PROVE TypeInv'
  BY <1>5, OpenTypes DEF BeginReactivate
<1>6. ASSUME NEW t \in Txs, LockTarget(t) PROVE TypeInv'
  <2>1. CASE Refuses(t)
    <3>1. End(t) /\ UNCHANGED tables
      BY <1>6, <2>1 DEF LockTarget
    <3>2. QED
      BY <1>t, <3>1, EndTypes
      DEF TypeInv, TypeOK, RowExists, Holds, Target, Closed, tables
  <2>2. CASE ~Refuses(t)
    <3> DEFINE r == [tx[t] EXCEPT !.pc = IF Losing(t) THEN "losing" ELSE "write"]
    <3>1. /\ Goto(t, r) /\ lock' = [lock EXCEPT ![Target(t)] = t]
          /\ role[Target(t)] # {} /\ tx[t].pc = "target"
      BY <1>6, <2>2 DEF LockTarget
    <3>2. r \in TxType /\ r.target = Target(t) /\ r.kind = tx[t].kind /\ r.next = tx[t].next
      BY <1>t DEF TxType, Target
    <3> HIDE DEF r
    <3>3. QED
      BY <1>t, <3>1, <3>2, GotoTypes DEF TypeOK, RolesNamed
  <2>3. QED
    BY <2>1, <2>2
<1>7. ASSUME NEW t \in Txs, Scan(t) PROVE TypeInv'
  <2> DEFINE r == [tx[t] EXCEPT !.pc = "rows", !.want = CoChairRows(t)]
  <2>1. Goto(t, r) /\ UNCHANGED lock /\ tx[t].pc = "losing"
    BY <1>7 DEF Scan
  <2>2. r \in TxType /\ r.target = Target(t) /\ r.kind = tx[t].kind /\ r.next = tx[t].next
    BY <1>t DEF TxType, Target, CoChairRows, ActiveCoChairs, CoChairs
  <2> HIDE DEF r
  <2>3. QED
    BY <1>t, <2>1, <2>2, GotoTypes DEF TypeOK, RolesNamed, RowExists, Holds, Target
<1>8. ASSUME NEW t \in Txs, LockRow(t) PROVE TypeInv'
  <2>1. PICK u \in tx[t].want : Goto(t, [tx[t] EXCEPT !.want = tx[t].want \ {u}])
    BY <1>8 DEF LockRow
  <2> DEFINE r == [tx[t] EXCEPT !.want = tx[t].want \ {u}]
  <2>2. tx[t].pc = "rows" /\ lock' \in [Users -> Txs \cup {NoTx}]
    BY <1>t, <1>8 DEF LockRow, TypeOK
  <2>3. r \in TxType /\ r.target = Target(t) /\ r.kind = tx[t].kind /\ r.next = tx[t].next
    BY <1>t DEF TxType, Target
  <2>4. Goto(t, r)
    BY <2>1
  <2> HIDE DEF r
  <2>5. QED
    BY <1>t, <2>2, <2>3, <2>4, GotoTypes DEF TypeOK, RolesNamed, RowExists, Holds, Target
<1>9. ASSUME NEW t \in Txs, Count(t) PROVE TypeInv'
  <2> DEFINE r == [tx[t] EXCEPT !.pc = IF tx[t].self THEN "approve" ELSE "write"]
  <2>1. Goto(t, r) /\ UNCHANGED lock /\ tx[t].pc = "rows"
    BY <1>9 DEF Count
  <2>2. r \in TxType /\ r.target = Target(t) /\ r.kind = tx[t].kind /\ r.next = tx[t].next
    BY <1>t DEF TxType, Target
  <2> HIDE DEF r
  <2>3. QED
    BY <1>t, <2>1, <2>2, GotoTypes DEF TypeOK, RolesNamed, RowExists, Holds, Target
<1>10. ASSUME NEW t \in Txs, Approve(t) PROVE TypeInv'
  <2>1. PICK a \in Seconds(t) : Goto(t, [tx[t] EXCEPT !.pc = "write", !.approver = a])
    BY <1>10 DEF Approve
  <2> DEFINE r == [tx[t] EXCEPT !.pc = "write", !.approver = a]
  <2>2. Goto(t, r) /\ UNCHANGED lock /\ tx[t].pc = "approve"
    BY <1>10, <2>1 DEF Approve
  <2>3. r \in TxType /\ r.target = Target(t) /\ r.kind = tx[t].kind /\ r.next = tx[t].next
    BY <1>t DEF TxType, Target, Seconds, ActiveCoChairs, CoChairs
  <2> HIDE DEF r
  <2>4. QED
    BY <1>t, <2>2, <2>3, GotoTypes DEF TypeOK, RolesNamed, RowExists, Holds, Target
<1>11. ASSUME NEW t \in Txs, Abort(t) PROVE TypeInv'
  BY <1>t, <1>11, EndTypes
  DEF Abort, TypeInv, TypeOK, RowExists, Holds, Target, Closed, tables
<1>12. ASSUME NEW t \in Txs, InsertInvite(t) PROVE TypeInv'
  BY <1>t, <1>12, EndTypes
  DEF InsertInvite, Committing, TypeInv, TypeOK, RolesNamed, RowExists, Holds, Target, Closed,
      TxType
<1>13. ASSUME NEW t \in Txs, Enter(t) PROVE TypeInv'
  BY <1>t, <1>13, EndTypes
  DEF Enter, Committing, TypeInv, TypeOK, RowExists, Holds, Target, Closed, PrimaryRole, Roles
<1>14. ASSUME NEW t \in Txs, UpdateRoles(t) PROVE TypeInv'
  BY <1>t, <1>14, EndTypes
  DEF UpdateRoles, Committing, TypeInv, TypeOK, RolesNamed, RowExists, Holds, Target, Closed,
      MirrorOf, PrimaryRole, Roles, TxType
<1>15. ASSUME NEW t \in Txs, Deactivate(t) PROVE TypeInv'
  BY <1>t, <1>15, EndTypes
  DEF Deactivate, Committing, TypeInv, TypeOK, RowExists, Holds, Target, Closed
<1>16. ASSUME NEW u \in Users, Expire(u) PROVE TypeInv'
  BY <1>t, <1>16 DEF Expire, TypeInv, TypeOK, RolesNamed, RowExists, Holds, Target
<1>17. CASE UNCHANGED vars
  BY <1>t, <1>17 DEF vars, tables, TypeInv, TypeOK, RolesNamed, RowExists, Holds, Target
<1>18. QED
  BY <1>1, <1>2, <1>3, <1>4, <1>5, <1>6, <1>7, <1>8, <1>9, <1>10, <1>11, <1>12, <1>13,
     <1>14, <1>15, <1>16, <1>17 DEF Next, Step

-----------------------------------------------------------------------------
(* What a step leaves alone.                                               *)
SameRow(u) ==
  /\ role'[u] = role[u]
  /\ u \in active' <=> u \in active
  /\ u \in deactivated' <=> u \in deactivated

LEMMA OthersStay ==
  ASSUME TypeInv, NEW s \in Txs, Step(s), NEW t \in Txs, t # s
  PROVE  tx'[t] = tx[t]
<1>1. tx \in [Txs -> TxType]
  BY DEF TypeInv, TypeOK
<1>2. QED
  BY <1>1 DEF Step, BeginInvite, BeginActivate, BeginSetRoles, BeginRemove, BeginReactivate,
    Open, LockTarget, Scan, LockRow, Count, Approve, Abort, InsertInvite, Enter, UpdateRoles,
    Deactivate, Committing, Goto, End

LEMMA SameChecks ==
  ASSUME NEW t \in Txs, Target(t) \in Users, SameRow(Target(t)),
         tx'[t].target = tx[t].target, tx'[t].kind = tx[t].kind, tx'[t].next = tx[t].next
  PROVE  Losing(t)' = Losing(t) /\ Refuses(t)' = Refuses(t)
<1>1. Target(t)' = Target(t)
  BY DEF Target
<1>2. Target(t) \in ActiveCoChairs' <=> Target(t) \in ActiveCoChairs
  BY DEF SameRow, ActiveCoChairs, CoChairs
<1>3. Losing(t)' <=> Losing(t)
  BY <1>1, <1>2 DEF Losing
<1>4. Refuses(t)' <=> Refuses(t)
  BY <1>1 DEF Refuses, SameRow
<1>5. QED
  BY <1>3, <1>4 DEF Losing, Refuses

(* A row locked by one transaction is changed by no other.                 *)
LEMMA Bystander ==
  ASSUME TypeInv, LockInv, NEW s \in Txs, Step(s), NEW t \in Txs, t # s, Holds(t)
  PROVE  tx'[t] = tx[t] /\ lock'[Target(t)] = t /\ SameRow(Target(t))
<1> DEFINE u == Target(t)
<1>1. /\ u \in Users /\ lock[u] = t /\ t # NoTx /\ role[u] # {}
      /\ lock \in [Users -> Txs \cup {NoTx}] /\ role \in [Users -> SUBSET Roles]
      /\ Holds(s) => Target(s) # u
  BY NamesAssumption DEF Holds, TypeInv, TypeOK, LockInv, LockHeld, RowExists
<1>2. tx'[t] = tx[t]
  BY OthersStay
<1>3. End(s) => lock'[u] = t
  BY <1>1 DEF End
<1>4. tx[s].pc = "write" /\ tx[s].kind # "invite" => Target(s) # u
  BY <1>1 DEF Holds
<1> HIDE DEF u
<1>5. CASE UNCHANGED tables
  <2>1. SameRow(u)
    BY <1>5 DEF tables, SameRow
  <2>2. lock'[u] = t
    BY <1>1, <1>3, <1>5 DEF Step, BeginInvite, BeginActivate, BeginSetRoles, BeginRemove,
      BeginReactivate, Open, LockTarget, Scan, LockRow, Count, Approve, Abort,
      InsertInvite, Enter, UpdateRoles, Deactivate, Committing
  <2>3. QED
    BY <1>2, <2>1, <2>2 DEF u
<1>6. CASE InsertInvite(s)
  BY <1>1, <1>2, <1>3, <1>6 DEF InsertInvite, Committing, SameRow, u
<1>7. CASE Enter(s)
  BY <1>1, <1>2, <1>3, <1>4, <1>7 DEF Enter, Committing, SameRow, u
<1>8. CASE UpdateRoles(s)
  BY <1>1, <1>2, <1>3, <1>4, <1>8 DEF UpdateRoles, Committing, SameRow, u
<1>9. CASE Deactivate(s)
  BY <1>1, <1>2, <1>3, <1>4, <1>9 DEF Deactivate, Committing, SameRow, u
<1>10. QED
  BY <1>5, <1>6, <1>7, <1>8, <1>9 DEF Step, BeginInvite, BeginActivate, BeginSetRoles,
    BeginRemove, BeginReactivate, Open, LockTarget, Scan, LockRow, Count, Approve, Abort, Goto

(* A transaction that goes on keeps its call, and its checks stand.        *)
LEMMA GoesOn ==
  ASSUME TypeInv, LockInv, NEW s \in Txs,
         Scan(s) \/ LockRow(s) \/ Count(s) \/ Approve(s)
  PROVE  /\ UNCHANGED tables
         /\ tx'[s].target = tx[s].target /\ tx'[s].kind = tx[s].kind
         /\ tx'[s].next = tx[s].next /\ tx'[s].self = tx[s].self
         /\ Holds(s) /\ Holds(s)' /\ Losing(s) /\ Losing(s)' /\ ~Refuses(s)'
         /\ lock'[Target(s)] = s /\ Target(s) \in Users
<1>1. tx \in [Txs -> TxType] /\ tx[s] \in TxType
  BY DEF TypeInv, TypeOK
<1>2. /\ UNCHANGED tables
      /\ tx'[s].target = tx[s].target /\ tx'[s].kind = tx[s].kind
      /\ tx'[s].next = tx[s].next /\ tx'[s].self = tx[s].self
      /\ tx[s].pc \in {"losing", "rows", "approve"}
      /\ tx'[s].pc \in {"rows", "approve", "write"}
  <2>1. CASE Scan(s)
    BY <1>1, <2>1 DEF Scan, Goto, TxType
  <2>2. CASE LockRow(s)
    BY <1>1, <2>2 DEF LockRow, Goto, TxType
  <2>3. CASE Count(s)
    <3> DEFINE r == [tx[s] EXCEPT !.pc = IF tx[s].self THEN "approve" ELSE "write"]
    <3>1. tx' = [tx EXCEPT ![s] = r] /\ UNCHANGED tables /\ tx[s].pc = "rows"
      BY <2>3 DEF Count, Goto
    <3>2. /\ r.target = tx[s].target /\ r.kind = tx[s].kind /\ r.next = tx[s].next
          /\ r.self = tx[s].self /\ r.pc \in {"approve", "write"}
      BY <1>1 DEF TxType
    <3>3. tx'[s] = r
      BY <1>1, <3>1
    <3> HIDE DEF r
    <3>4. QED
      BY <3>1, <3>2, <3>3
  <2>4. CASE Approve(s)
    <3>1. PICK a : Goto(s, [tx[s] EXCEPT !.pc = "write", !.approver = a])
      BY <2>4 DEF Approve
    <3> DEFINE r == [tx[s] EXCEPT !.pc = "write", !.approver = a]
    <3>2. tx' = [tx EXCEPT ![s] = r] /\ UNCHANGED tables /\ tx[s].pc = "approve"
      BY <2>4, <3>1 DEF Approve, Goto
    <3>3. /\ r.target = tx[s].target /\ r.kind = tx[s].kind /\ r.next = tx[s].next
          /\ r.self = tx[s].self /\ r.pc = "write"
      BY <1>1 DEF TxType
    <3>4. tx'[s] = r
      BY <1>1, <3>2
    <3> HIDE DEF r
    <3>5. QED
      BY <3>2, <3>3, <3>4
  <2>5. QED
    BY <2>1, <2>2, <2>3, <2>4
<1>3. Holds(s) /\ Losing(s) /\ ~Refuses(s) /\ lock[Target(s)] = s /\ Target(s) \in Users
  BY <1>2 DEF LockInv, LockHeld, ChecksStand, TypeInv, TypeOK
<1>4. lock'[Target(s)] = s
  BY <1>3 DEF Scan, LockRow, Count, Approve, TypeInv, TypeOK
<1>5. SameRow(Target(s))
  BY <1>2 DEF tables, SameRow
<1>6. QED
  BY <1>2, <1>3, <1>4, <1>5, SameChecks DEF Holds

(* Locks and checks.                                                       *)
LEMMA LockStep == TypeInv /\ LockInv /\ [Next]_vars => LockInv'
<1> SUFFICES ASSUME TypeInv, LockInv, [Next]_vars PROVE LockInv'
  OBVIOUS
<1> DEFINE Stands(t) ==
      /\ Holds(t) => lock[Target(t)] = t /\ ~Refuses(t)
      /\ tx[t].pc \in {"losing", "rows", "approve"} => Holds(t) /\ Losing(t)
      /\ tx[t].pc # "rows" => tx[t].want = {}
<1>1. ASSUME NEW s \in Txs, Step(s), NEW t \in Txs, t # s PROVE Stands(t)'
  <2>1. tx'[t] = tx[t]
    BY <1>1, OthersStay
  <2>2. CASE Holds(t)
    <3>1. lock'[Target(t)] = t /\ SameRow(Target(t)) /\ Target(t) \in Users
      BY <1>1, <2>2, Bystander DEF TypeInv, TypeOK, Holds
    <3>2. Losing(t)' = Losing(t) /\ Refuses(t)' = Refuses(t)
      BY <2>1, <3>1, SameChecks
    <3>3. QED
      BY <2>1, <2>2, <3>1, <3>2 DEF LockInv, LockHeld, ChecksStand, Holds, Target
  <2>3. CASE ~Holds(t)
    BY <2>1, <2>3 DEF LockInv, ChecksStand, Holds
  <2>4. QED
    BY <2>2, <2>3
<1>2. ASSUME NEW s \in Txs, Step(s) PROVE Stands(s)'
  <2>1. tx \in [Txs -> TxType] /\ tx[s] \in TxType /\ Stands(s)
    BY DEF TypeInv, TypeOK, LockInv, LockHeld, ChecksStand
  <2>2. CASE End(s)
    BY <2>1, <2>2 DEF End, Closed, Holds
  <2>3. CASE BeginInvite(s) \/ BeginActivate(s) \/ BeginSetRoles(s) \/ BeginRemove(s)
             \/ BeginReactivate(s)
    <3>1. /\ tx'[s].want = {}
          /\ tx'[s].pc = "target" \/ (tx'[s].pc = "write" /\ tx'[s].kind = "invite")
      BY <2>1, <2>3 DEF BeginInvite, BeginActivate, BeginSetRoles, BeginRemove, BeginReactivate,
        Open, Goto
    <3>2. QED
      BY <3>1 DEF Holds
  <2>4. CASE LockTarget(s) /\ ~Refuses(s)
    <3>1. /\ UNCHANGED tables /\ lock' = [lock EXCEPT ![Target(s)] = s]
          /\ tx'[s].target = tx[s].target /\ tx'[s].kind = tx[s].kind
          /\ tx'[s].next = tx[s].next /\ tx'[s].want = tx[s].want
          /\ tx[s].pc = "target" /\ tx'[s].pc = IF Losing(s) THEN "losing" ELSE "write"
      BY <2>1, <2>4 DEF LockTarget, Goto, TxType
    <3>2. Target(s) \in Users /\ lock \in [Users -> Txs \cup {NoTx}] /\ SameRow(Target(s))
      BY <3>1 DEF TypeInv, TypeOK, SameRow, tables
    <3>3. Losing(s)' = Losing(s) /\ ~Refuses(s)'
      BY <2>4, <3>1, <3>2, SameChecks
    <3>4. lock'[Target(s)'] = s
      BY <3>1, <3>2 DEF Target
    <3>5. Losing(s) => tx[s].kind # "invite"
      BY DEF Losing
    <3>6. QED
      BY <2>1, <3>1, <3>3, <3>4, <3>5 DEF Holds
  <2>5. CASE Scan(s) \/ LockRow(s) \/ Count(s) \/ Approve(s)
    <3>1. tx'[s].pc # "rows" => tx'[s].want = {}
      <4>1. CASE Scan(s)
        BY <2>1, <4>1 DEF Scan, Goto, TxType
      <4>2. CASE LockRow(s)
        BY <2>1, <4>2 DEF LockRow, Goto, TxType
      <4>3. CASE Count(s)
        BY <2>1, <4>3 DEF Count, Goto, TxType
      <4>4. CASE Approve(s)
        BY <2>1, <4>4 DEF Approve, Goto, TxType
      <4>5. QED
        BY <2>5, <4>1, <4>2, <4>3, <4>4
    <3>2. Target(s)' = Target(s)
      BY <2>5, GoesOn DEF Target
    <3>3. QED
      BY <2>5, <3>1, <3>2, GoesOn
  <2>6. QED
    BY <1>2, <2>2, <2>3, <2>4, <2>5
    DEF Step, LockTarget, Abort, InsertInvite, Enter, UpdateRoles, Deactivate, Committing
<1>3. CASE \E s \in Txs : Step(s)
  BY <1>1, <1>2, <1>3 DEF LockInv, LockHeld, ChecksStand
<1>4. CASE (\E u \in Users : Expire(u)) \/ UNCHANGED vars
  BY <1>4 DEF Expire, vars, tables, LockInv, LockHeld, ChecksStand, Holds, Target, Losing,
    Refuses, ActiveCoChairs, CoChairs
<1>5. QED
  BY <1>3, <1>4 DEF Next

-----------------------------------------------------------------------------
(* A step that has s scanned is one of the steps that go on.               *)
LEMMA ScannedSteps ==
  ASSUME TypeInv, LockInv, NEW s \in Txs, Step(s), Scanned(s)'
  PROVE  Scan(s) \/ LockRow(s) \/ Count(s) \/ Approve(s)
<1>1. tx \in [Txs -> TxType] /\ tx[s] \in TxType
  BY DEF TypeInv, TypeOK
<1>2. tx'[s].pc \in {"rows", "approve", "write"} /\ tx'[s].kind # "invite" /\ Losing(s)'
  BY DEF Scanned, Holds
<1>3. ~End(s)
  BY <1>1, <1>2 DEF End, Closed
<1>4. ~(BeginInvite(s) \/ BeginActivate(s) \/ BeginSetRoles(s) \/ BeginRemove(s)
        \/ BeginReactivate(s))
  BY <1>1, <1>2 DEF BeginInvite, BeginActivate, BeginSetRoles, BeginRemove, BeginReactivate,
    Open, Goto
<1>5. ASSUME LockTarget(s) PROVE FALSE
  <2>1. /\ UNCHANGED tables
        /\ tx'[s].target = tx[s].target /\ tx'[s].kind = tx[s].kind
        /\ tx'[s].next = tx[s].next /\ tx[s].pc = "target"
        /\ tx'[s].pc = IF Losing(s) THEN "losing" ELSE "write"
    BY <1>1, <1>3, <1>5 DEF LockTarget, Goto, TxType
  <2>2. Target(s) \in Users /\ SameRow(Target(s))
    BY <2>1 DEF TypeInv, TypeOK, SameRow, tables
  <2>3. QED
    BY <1>2, <2>1, <2>2, SameChecks
<1>6. QED
  BY <1>3, <1>4, <1>5 DEF Step, Abort, InsertInvite, Enter, UpdateRoles, Deactivate, Committing

(* Scanned is stable for a bystander.                                      *)
LEMMA ScannedStays ==
  ASSUME TypeInv, LockInv, NEW s \in Txs, Step(s), NEW t \in Txs, t # s, Scanned(t)'
  PROVE  Scanned(t) /\ tx'[t] = tx[t] /\ Target(t)' = Target(t)
<1>1. tx'[t] = tx[t]
  BY OthersStay
<1>2. Holds(t)
  BY <1>1 DEF Scanned, Holds
<1>3. SameRow(Target(t)) /\ Target(t) \in Users
  BY <1>2, Bystander DEF Holds, TypeInv, TypeOK
<1>4. Losing(t)' = Losing(t)
  BY <1>1, <1>3, SameChecks
<1>5. QED
  BY <1>1, <1>4 DEF Scanned, Holds, Target

(* Only the commit of a transaction that counted costs a co-chair.         *)
LEMMA Costs ==
  ASSUME TypeInv, LockInv, NEW s \in Txs, Step(s),
         NEW u \in ActiveCoChairs, u \notin ActiveCoChairs'
  PROVE  /\ u = Target(s) /\ Scanned(s) /\ tx[s].pc = "write" /\ tx[s].want = {}
         /\ UpdateRoles(s) \/ Deactivate(s)
<1>1. /\ u \in Users /\ u \in active /\ "worker_co_chair" \in role[u]
      /\ ~(u \in active' /\ "worker_co_chair" \in role'[u])
      /\ role \in [Users -> SUBSET Roles]
  BY DEF ActiveCoChairs, CoChairs, TypeInv, TypeOK
<1>2. ~UNCHANGED <<role, active>>
  BY <1>1
<1>3. ~InsertInvite(s) /\ ~Enter(s)
  BY <1>1 DEF InsertInvite, Enter
<1>4. UpdateRoles(s) \/ Deactivate(s)
  BY <1>2, <1>3 DEF Step, BeginInvite, BeginActivate, BeginSetRoles, BeginRemove, BeginReactivate,
    Open, LockTarget, Scan, LockRow, Count, Approve, Abort, Goto, tables
<1>5. u = Target(s) /\ tx[s].pc = "write" /\ tx[s].kind # "invite" /\ Losing(s)
  BY <1>1, <1>4 DEF UpdateRoles, Deactivate, Committing, Losing
<1>6. tx[s].want = {}
  BY <1>5 DEF LockInv, ChecksStand
<1>7. QED
  BY <1>4, <1>5, <1>6 DEF Scanned, Holds

(* What a transaction that counted found stands: no one else can commit a  *)
(* loss before it.                                                         *)
LEMMA CountStands ==
  ASSUME TypeInv, LockInv, ChairInv, NEW s \in Txs, Step(s), NEW t \in Txs, t # s,
         Scanned(t), tx[t].pc # "rows", NEW u \in ActiveCoChairs
  PROVE  u \in ActiveCoChairs'
<1>1. SUFFICES ASSUME u \notin ActiveCoChairs' PROVE FALSE
  OBVIOUS
<1>2. Scanned(s) /\ tx[s].want = {}
  BY <1>1, Costs
<1>3. tx[t].want = {}
  BY DEF LockInv, ChecksStand
<1>4. QED
  BY <1>2, <1>3 DEF ChairInv, Exclusion

LEMMA ChairStep == TypeInv /\ LockInv /\ ChairInv /\ [Next]_vars => ChairInv'
<1> SUFFICES ASSUME TypeInv, LockInv, ChairInv, [Next]_vars PROVE ChairInv'
  OBVIOUS
<1> DEFINE Apart(t, s) == Target(t) \in tx[s].want \/ Target(s) \in tx[t].want
<1>1. ASSUME NEW s \in Txs, Step(s) PROVE ChairInv'
  <2>t. tx \in [Txs -> TxType] /\ tx[s] \in TxType
    BY DEF TypeInv, TypeOK
  <2>1. ASSUME NEW t \in Txs, t # s, Scanned(t)', Scanned(s)' PROVE Apart(t, s)'
    <3>1. Scanned(t) /\ tx'[t] = tx[t] /\ Target(t)' = Target(t)
      BY <1>1, <2>1, ScannedStays
    <3>2. /\ Scan(s) \/ LockRow(s) \/ Count(s) \/ Approve(s)
          /\ Target(s)' = Target(s)
      BY <1>1, <2>1, ScannedSteps, GoesOn DEF Target
    <3>3. CASE Scan(s)
      <4>1. tx'[s].want = ActiveCoChairs
        BY <2>t, <3>3 DEF Scan, Goto, CoChairRows, TxType
      <4>2. QED
        BY <3>1, <4>1 DEF Scanned, Losing
    <3>4. CASE ~Scan(s)
      <4>1. Scanned(s)
        BY <3>2, <3>4, GoesOn DEF Scanned, LockRow, Count, Approve
      <4>2. Apart(t, s)
        BY <2>1, <3>1, <4>1 DEF ChairInv, Exclusion
      <4>3. CASE LockRow(s)
        <5>1. PICK u \in tx[s].want :
                /\ lock[u] \in {NoTx, s}
                /\ tx' = [tx EXCEPT ![s] = [tx[s] EXCEPT !.want = tx[s].want \ {u}]]
          BY <4>3 DEF LockRow, Goto
        <5>2. tx'[s].want = tx[s].want \ {u}
          BY <2>t, <5>1 DEF TxType
        <5>3. u # Target(t)
          BY <2>1, <3>1, <5>1, NamesAssumption DEF Scanned, LockInv, LockHeld
        <5>4. QED
          BY <3>1, <3>2, <4>2, <5>2, <5>3
      <4>4. CASE Count(s) \/ Approve(s)
        <5>1. tx[s].want = {}
          BY <4>4 DEF Count, Approve, LockInv, ChecksStand
        <5>2. QED
          BY <3>1, <3>2, <4>2, <5>1
      <4>5. QED
        BY <3>2, <3>4, <4>3, <4>4
    <3>5. QED
      BY <3>3, <3>4
  <2>2. Exclusion'
    <3> SUFFICES ASSUME NEW t \in Txs, NEW r \in Txs, t # r, Scanned(t)', Scanned(r)'
                 PROVE  Apart(t, r)'
      BY DEF Exclusion
    <3>1. CASE t # s /\ r # s
      BY <1>1, <3>1, ScannedStays DEF ChairInv, Exclusion
    <3>2. CASE r = s
      BY <2>1, <3>2
    <3>3. CASE t = s
      BY <2>1, <3>3
    <3>4. QED
      BY <3>1, <3>2, <3>3
  <2>3. ASSUME NEW t \in Txs, t # s, Scanned(t)', tx'[t].pc # "rows"
        PROVE  /\ (ActiveCoChairs \ {Target(t)})' # {}
               /\ tx'[t].pc = "write" /\ tx'[t].self
                    => tx'[t].approver \in (ActiveCoChairs \ {Target(t)})'
    <3>1. Scanned(t) /\ tx'[t] = tx[t] /\ Target(t)' = Target(t)
      BY <1>1, <2>3, ScannedStays
    <3>2. \A u \in ActiveCoChairs : u \in ActiveCoChairs'
      BY <1>1, <2>3, <3>1, CountStands
    <3>3. QED
      BY <2>3, <3>1, <3>2 DEF ChairInv, Counted, Approved
  <2>4. ASSUME Scanned(s)', tx'[s].pc # "rows"
        PROVE  /\ (ActiveCoChairs \ {Target(s)})' # {}
               /\ tx'[s].pc = "write" /\ tx'[s].self
                    => tx'[s].approver \in (ActiveCoChairs \ {Target(s)})'
    <3>1. Scan(s) \/ LockRow(s) \/ Count(s) \/ Approve(s)
      BY <1>1, <2>4, ScannedSteps
    <3>2. /\ Target(s)' = Target(s) /\ tx'[s].self = tx[s].self
          /\ ActiveCoChairs' = ActiveCoChairs /\ Holds(s) /\ Losing(s)
      BY <3>1, GoesOn DEF Target, tables, ActiveCoChairs, CoChairs
    <3>3. ~Scan(s) /\ ~LockRow(s)
      <4>1. Scan(s) => tx'[s].pc = "rows"
        BY <2>t DEF Scan, Goto, TxType
      <4>2. LockRow(s) => tx'[s].pc = "rows"
        BY <2>t DEF LockRow, Goto, TxType
      <4>3. QED
        BY <2>4, <4>1, <4>2
    <3>4. CASE Count(s)
      <4>1. tx'[s].pc = IF tx[s].self THEN "approve" ELSE "write"
        BY <2>t, <3>4 DEF Count, Goto, TxType
      <4>2. ActiveCoChairs \ {Target(s)} # {}
        BY <3>4 DEF Count, LastCoChair
      <4>3. QED
        BY <3>2, <4>1, <4>2
    <3>5. CASE Approve(s)
      <4>1. PICK a \in Seconds(s) : Goto(s, [tx[s] EXCEPT !.pc = "write", !.approver = a])
        BY <3>5 DEF Approve
      <4>2. tx'[s].approver = a
        BY <2>t, <4>1 DEF Goto, TxType
      <4>3. QED
        BY <3>2, <4>1, <4>2 DEF Seconds
    <3>6. QED
      BY <3>1, <3>3, <3>4, <3>5
  <2>5. Counted' /\ Approved'
    BY <2>3, <2>4 DEF Counted, Approved
  <2>6. AlwaysACoChair'
    <3>1. PICK u \in ActiveCoChairs : TRUE
      BY DEF ChairInv, AlwaysACoChair
    <3>2. CASE u \notin ActiveCoChairs'
      <4>1. u = Target(s) /\ Scanned(s) /\ tx[s].pc = "write"
        BY <1>1, <3>2, Costs
      <4>2. PICK v \in ActiveCoChairs : v # u
        BY <4>1 DEF ChairInv, Counted
      <4>3. v \in ActiveCoChairs'
        BY <1>1, <4>1, <4>2, Costs
      <4>4. QED
        BY <4>3 DEF AlwaysACoChair
    <3>3. QED
      BY <3>2 DEF AlwaysACoChair
  <2>7. QED
    BY <2>2, <2>5, <2>6 DEF ChairInv
<1>2. CASE (\E u \in Users : Expire(u)) \/ UNCHANGED vars
  BY <1>2 DEF Expire, vars, tables, ChairInv, Exclusion, Counted, Approved, AlwaysACoChair,
    Scanned, Holds, Target, Losing, ActiveCoChairs, CoChairs
<1>3. QED
  BY <1>1, <1>2 DEF Next

-----------------------------------------------------------------------------
(* users.role follows every write of the row it mirrors.                   *)
LEMMA MirrorStep == TypeInv /\ MirrorAgrees /\ [Next]_vars => MirrorAgrees'
<1> SUFFICES ASSUME TypeInv, MirrorAgrees, [Next]_vars PROVE MirrorAgrees'
  OBVIOUS
<1>t. /\ role \in [Users -> SUBSET Roles] /\ mirror \in [Users -> Roles \cup {"none"}]
      /\ active \subseteq {u \in Users : role[u] # {}}
      /\ \A t \in Txs : tx[t].pc # "closed" => Target(t) \in Users
  BY DEF TypeInv, TypeOK
<1>1. CASE UNCHANGED <<role, active, mirror>>
  BY <1>1 DEF MirrorAgrees
<1>2. ASSUME NEW t \in Txs, InsertInvite(t) PROVE MirrorAgrees'
  <2>1. /\ Target(t) \notin active /\ role' = [role EXCEPT ![Target(t)] = tx[t].next]
        /\ UNCHANGED <<active, mirror>>
    BY <1>t, <1>2 DEF InsertInvite
  <2>2. QED
    BY <1>t, <2>1 DEF MirrorAgrees
<1>3. ASSUME NEW t \in Txs, Enter(t) PROVE MirrorAgrees'
  BY <1>t, <1>3 DEF Enter, Committing, MirrorAgrees
<1>4. ASSUME NEW t \in Txs, UpdateRoles(t) PROVE MirrorAgrees'
  BY <1>t, <1>4 DEF UpdateRoles, Committing, MirrorAgrees, MirrorOf
<1>5. ASSUME NEW t \in Txs, Deactivate(t) PROVE MirrorAgrees'
  BY <1>t, <1>5 DEF Deactivate, Committing, MirrorAgrees
<1>6. QED
  BY <1>1, <1>2, <1>3, <1>4, <1>5 DEF Next, Step, vars, tables, Expire, BeginInvite,
    BeginActivate, BeginSetRoles, BeginRemove, BeginReactivate, Open, LockTarget, Scan, LockRow,
    Count, Approve, Abort, Goto

(* IInv is inductive.                                                      *)
LEMMA IInvStep == IInv /\ [Next]_vars => IInv'
BY TypeStep, LockStep, ChairStep, MirrorStep DEF IInv

LEMMA Invariance == Spec => []IInv
<1>1. QED
  BY InitIInv, IInvStep, PTL DEF Spec

-----------------------------------------------------------------------------
(* 0002's tables keep their types: only a user with a membership row is    *)
(* active, removed or invited.                                             *)
THEOREM TypeCorrect == Spec => []TypeOK
<1>1. IInv => TypeOK
  BY DEF IInv, TypeInv
<1>2. QED
  BY <1>1, Invariance, PTL

(* ADR-0021: the committee never is without an active worker co-chair, for *)
(* any number of people and of concurrent transactions.                    *)
THEOREM CoChairRemains == Spec => []AlwaysACoChair
<1>1. IInv => AlwaysACoChair
  BY DEF IInv, ChairInv
<1>2. QED
  BY <1>1, Invariance, PTL

(* users.role mirrors the active membership after every commit.            *)
THEOREM MirrorKept == Spec => []MirrorAgrees
<1>1. IInv => MirrorAgrees
  BY DEF IInv
<1>2. QED
  BY <1>1, Invariance, PTL

(* A co-chair's own loss commits only while the other active co-chair who  *)
(* approved it still is one.                                               *)
THEOREM SelfLoss == Spec => SelfLossSeconded
<1>1. ASSUME IInv, [Next]_vars PROVE Seconded
  <2> SUFFICES ASSUME NEW t \in Txs, UpdateRoles(t) \/ Deactivate(t), Losing(t), tx[t].self
               PROVE  tx[t].approver # Target(t) /\ tx[t].approver \in ActiveCoChairs'
    BY DEF Seconded
  <2>1. Scanned(t) /\ tx[t].pc = "write"
    BY DEF UpdateRoles, Deactivate, Committing, Scanned, Holds
  <2>2. tx[t].approver \in ActiveCoChairs \ {Target(t)}
    BY <1>1, <2>1 DEF IInv, ChairInv, Approved
  <2>3. Step(t)
    BY DEF Step
  <2>4. TypeInv /\ LockInv
    BY <1>1 DEF IInv
  <2>5. QED
    BY <2>2, <2>3, <2>4, Costs
<1>2. QED
  BY <1>1, Invariance, PTL DEF Spec, SelfLossSeconded

(* A removed member is active again only by a reactivation.                *)
THEOREM Readmission == Spec => ReadmittedByReactivation
<1>1. ASSUME IInv, [Next]_vars PROVE Readmitted
  <2> SUFFICES ASSUME NEW u \in deactivated \ active, u \in active'
               PROVE  \E t \in Txs : tx[t].kind = "reactivate" /\ Target(t) = u /\ Enter(t)
    BY DEF Readmitted
  <2>1. active' # active
    OBVIOUS
  <2>2. PICK t \in Txs : Enter(t)
    BY <1>1, <2>1 DEF Next, Step, vars, tables, Expire, BeginInvite, BeginActivate, BeginSetRoles,
      BeginRemove, BeginReactivate, Open, LockTarget, Scan, LockRow, Count, Approve, Abort, Goto,
      InsertInvite, UpdateRoles, Deactivate
  <2>3. /\ Target(t) = u /\ tx[t].kind \in {"activate", "reactivate"} /\ tx[t].pc = "write"
    BY <2>2 DEF Enter, Committing
  <2>4. ~Refuses(t)
    BY <1>1, <2>3 DEF IInv, LockInv, ChecksStand, Holds
  <2>5. tx[t].kind # "activate"
    BY <2>3, <2>4 DEF Refuses
  <2>6. QED
    BY <2>2, <2>3, <2>5
<1>2. QED
  BY <1>1, Invariance, PTL DEF Spec, ReadmittedByReactivation

-----------------------------------------------------------------------------
Standings == [u \in Users |-> StandingOf(u)]

(* A write of u's row changes u's standing and nobody else's.              *)
LEMMA StandingChange ==
  ASSUME NEW u \in Users, \A v \in Users : v # u => SameRow(v)
  PROVE  Standings' = [Standings EXCEPT ![u] = StandingOf(u)']
<1>1. ASSUME NEW v \in Users, v # u PROVE StandingOf(v)' = StandingOf(v)
  BY <1>1 DEF StandingOf, SameRow
<1>2. \A v \in Users : Standings'[v] = IF v = u THEN StandingOf(u)' ELSE Standings[v]
  BY <1>1 DEF Standings
<1>3. QED
  BY <1>2 DEF Standings

(* The roster's chairs are the active co-chairs.                           *)
LEMMA RosterChairs ==
  ASSUME TypeInv
  PROVE  Roster!Chairs = ActiveCoChairs
BY DEF TypeInv, TypeOK, Roster!Chairs, ActiveCoChairs, CoChairs, StandingOf

LEMMA InviteStep ==
  ASSUME IInv, NEW t \in Txs, InsertInvite(t)
  PROVE  Roster!Next
<1>u. PICK u \in Users : u = Target(t)
  BY DEF IInv, TypeInv, TypeOK, InsertInvite, Enter, UpdateRoles, Deactivate, Committing
<1>1. /\ role[u] = {} /\ tx[t].next # {} /\ u \notin active /\ u \notin deactivated
      /\ role' = [role EXCEPT ![u] = tx[t].next] /\ role \in [Users -> SUBSET Roles]
      /\ UNCHANGED <<active, deactivated>>
  BY <1>u DEF IInv, TypeInv, TypeOK, RolesNamed, InsertInvite, Committing
<1>2. StandingOf(u) = "none" /\ StandingOf(u)' = "pending"
  BY <1>1 DEF StandingOf
<1>3. \A v \in Users : v # u => SameRow(v)
  BY <1>1 DEF SameRow
<1>4. Standings' = [Standings EXCEPT ![u] = "pending"]
  BY <1>1, <1>2, <1>3, StandingChange
<1>5. CoChairs' \in {CoChairs \cup {u}, CoChairs \ {u}}
  BY <1>1 DEF CoChairs
<1>6. Roster!Invite(u)
  BY <1>1, <1>2, <1>4, <1>5 DEF Roster!Invite, Roster!Become, Standings
<1>7. QED
  BY <1>1, <1>6 DEF Roster!Next

LEMMA JoinStep ==
  ASSUME IInv, NEW t \in Txs, Enter(t)
  PROVE  Roster!Next
<1>u. PICK u \in Users : u = Target(t)
  BY DEF IInv, TypeInv, TypeOK, InsertInvite, Enter, UpdateRoles, Deactivate, Committing
<1>1. ~Refuses(t) /\ role[u] # {}
  BY <1>u DEF IInv, TypeInv, TypeOK, LockInv, ChecksStand, RowExists, Enter, Committing, Holds
<1>2. u \notin active /\ active' = active \cup {u} /\ UNCHANGED <<role, deactivated>>
  BY <1>u, <1>1 DEF Enter, Committing, Refuses
<1>3. StandingOf(u) \in {"pending", "former"} /\ StandingOf(u)' = "member"
  BY <1>1, <1>2 DEF StandingOf
<1>4. \A v \in Users : v # u => SameRow(v)
  BY <1>2 DEF SameRow
<1>5. Standings' = [Standings EXCEPT ![u] = "member"]
  BY <1>1, <1>3, <1>4, StandingChange
<1>6. CoChairs' = CoChairs
  BY <1>2 DEF CoChairs
<1>7. Roster!Join(u)
  BY <1>1, <1>3, <1>5, <1>6 DEF Roster!Join, Roster!Become, Standings
<1>8. QED
  BY <1>1, <1>7 DEF Roster!Next

(* A transaction that loses a co-chair leaves another, and any other       *)
(* leaves them all.                                                        *)
LEMMA AnotherChair ==
  ASSUME IInv, NEW t \in Txs, UpdateRoles(t) \/ Deactivate(t),
         Deactivate(t) \/ "worker_co_chair" \notin tx[t].next
  PROVE  ActiveCoChairs \ {Target(t)} # {}
<1>1. tx[t].pc = "write" /\ Holds(t)
  BY DEF UpdateRoles, Deactivate, Committing, Holds
<1>2. CASE Losing(t)
  BY <1>1, <1>2 DEF IInv, ChairInv, Counted, Scanned
<1>3. CASE ~Losing(t)
  <2>1. Target(t) \notin ActiveCoChairs
    BY <1>3 DEF Losing, UpdateRoles, Deactivate, Committing
  <2>2. QED
    BY <2>1 DEF IInv, ChairInv, AlwaysACoChair
<1>4. QED
  BY <1>2, <1>3

LEMMA LeaveStep ==
  ASSUME IInv, NEW t \in Txs, Deactivate(t)
  PROVE  Roster!Next
<1>u. PICK u \in Users : u = Target(t)
  BY DEF IInv, TypeInv, TypeOK, InsertInvite, Enter, UpdateRoles, Deactivate, Committing
<1>1. ~Refuses(t) /\ role[u] # {}
  BY <1>u DEF IInv, TypeInv, TypeOK, LockInv, ChecksStand, RowExists, Deactivate, Committing, Holds
<1>2. /\ u \in active /\ active' = active \ {u} /\ deactivated' = deactivated \cup {u}
      /\ UNCHANGED role
  BY <1>u, <1>1 DEF Deactivate, Committing, Refuses
<1>3. Roster!Chairs \ {u} # {}
  BY <1>u, AnotherChair, RosterChairs DEF IInv
<1>4. StandingOf(u) = "member" /\ StandingOf(u)' = "former"
  BY <1>1, <1>2 DEF StandingOf
<1>5. \A v \in Users : v # u => SameRow(v)
  BY <1>2 DEF SameRow
<1>6. Standings' = [Standings EXCEPT ![u] = "former"]
  BY <1>1, <1>4, <1>5, StandingChange
<1>7. CoChairs' = CoChairs
  BY <1>2 DEF CoChairs
<1>8. Roster!Leave(u)
  BY <1>1, <1>3, <1>4, <1>6, <1>7 DEF Roster!Leave, Roster!Become, Standings
<1>9. QED
  BY <1>1, <1>8 DEF Roster!Next

LEMMA RolesStep ==
  ASSUME IInv, NEW t \in Txs, UpdateRoles(t)
  PROVE  Roster!Next
<1>u. PICK u \in Users : u = Target(t)
  BY DEF IInv, TypeInv, TypeOK, InsertInvite, Enter, UpdateRoles, Deactivate, Committing
<1>1. /\ role[u] # {} /\ tx[t].next # {} /\ role \in [Users -> SUBSET Roles]
      /\ role' = [role EXCEPT ![u] = tx[t].next] /\ UNCHANGED <<active, deactivated>>
  BY <1>u DEF IInv, TypeInv, TypeOK, RowExists, RolesNamed, UpdateRoles, Committing, Holds
<1>2. "worker_co_chair" \notin tx[t].next => Roster!Chairs \ {u} # {}
  BY <1>u, AnotherChair, RosterChairs DEF IInv
<1>3. StandingOf(u)' = StandingOf(u) /\ StandingOf(u) # "none"
  BY <1>1 DEF StandingOf
<1>4. \A v \in Users : v # u => SameRow(v)
  BY <1>1 DEF SameRow
<1>5. Standings' = [Standings EXCEPT ![u] = StandingOf(u)]
  BY <1>1, <1>3, <1>4, StandingChange
<1>6. Standings' = Standings
  BY <1>5 DEF Standings
<1>7. CASE "worker_co_chair" \in tx[t].next
  <2>1. CoChairs' = CoChairs \cup {u}
    BY <1>1, <1>7 DEF CoChairs
  <2>2. Roster!Appoint(u)
    BY <1>1, <1>3, <1>6, <2>1 DEF Roster!Appoint, Standings
  <2>3. QED
    BY <1>1, <2>2 DEF Roster!Next
<1>8. CASE "worker_co_chair" \notin tx[t].next
  <2>1. CoChairs' = CoChairs \ {u}
    BY <1>1, <1>8 DEF CoChairs
  <2>2. Roster!Dismiss(u)
    BY <1>1, <1>2, <1>3, <1>6, <1>8, <2>1 DEF Roster!Dismiss, Standings
  <2>3. QED
    BY <1>1, <2>2 DEF Roster!Next
<1>9. QED
  BY <1>7, <1>8

(* The membership functions implement the roster: members join and leave   *)
(* one commit at a time, and no interleaving of their statements is seen.  *)
THEOREM Implements == Spec => RosterSpec
<1>1. Init => Roster!Init
  <2> SUFFICES ASSUME Init PROVE Roster!Init
    OBVIOUS
  <2>1. TypeInv /\ AlwaysACoChair
    BY InitIInv DEF IInv, ChairInv
  <2>2. Roster!Chairs # {}
    BY <2>1, RosterChairs DEF AlwaysACoChair
  <2>3. QED
    BY <2>2 DEF Roster!Init, Roster!Standing, StandingOf, CoChairs
<1>2. ASSUME IInv, [Next]_vars
      PROVE  [Roster!Next]_<<Standings, CoChairs>>
  <2>1. CASE UNCHANGED <<role, active, deactivated>>
    BY <2>1 DEF Standings, StandingOf, CoChairs
  <2>2. ASSUME NEW t \in Txs, InsertInvite(t) \/ Enter(t) \/ UpdateRoles(t) \/ Deactivate(t)
        PROVE  Roster!Next
    BY <1>2, <2>2, InviteStep, JoinStep, RolesStep, LeaveStep
  <2>3. QED
    BY <1>2, <2>1, <2>2 DEF Next, Step, vars, tables, Expire, BeginInvite, BeginActivate,
      BeginSetRoles, BeginRemove, BeginReactivate, Open, LockTarget, Scan, LockRow, Count,
      Approve, Abort, Goto
<1>3. [Roster!Next]_<<Standings, CoChairs>>
        <=> [Roster!Next]_<<[u \in Users |-> StandingOf(u)], CoChairs>>
  BY DEF Standings
<1>4. QED
  BY <1>1, <1>2, <1>3, Invariance, PTL DEF Spec, RosterSpec, Roster!Spec
=============================================================================
