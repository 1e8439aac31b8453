------------------------- MODULE CommitteeMembership -------------------------
(***************************************************************************)
(* The membership functions of the committee                               *)
(* (src/supabase/migrations/00000000000002_committee.sql), as concurrent   *)
(* transactions under READ COMMITTED.  Every PL/pgSQL statement takes its  *)
(* own snapshot, so a step is one statement; SELECT ... FOR UPDATE waits   *)
(* for the row, then reads its latest committed version; the writes become *)
(* visible, and the row locks are released, at commit.                     *)
(*                                                                         *)
(* A call whose session is dead is refused like one whose actor is no      *)
(* active co-chair: only calls that pass the gate are transactions here.   *)
(***************************************************************************)
CONSTANTS
  Users,
  Txs,         \* names of the transactions that may be open
  RoleSets,    \* the p_roles values callers send
  Founder,     \* the co-chair bootstrap_first_co_chair created
  NoUser, NoTx

ASSUME FounderAssumption == Founder \in Users
ASSUME NamesAssumption == NoUser \notin Users /\ NoTx \notin Txs

Roles == {"worker_member", "worker_co_chair", "certified_member"}
ASSUME RoleSetsAssumption == RoleSets \subseteq SUBSET Roles

VARIABLES
  role,        \* committee_membership.role; {} = no row
  active,      \* users with committee_membership.active
  deactivated, \* users with deactivated_at set, by an earlier removal
  open,        \* targets of an unconsumed, unexpired committee_invite row
  mirror,      \* users.role
  lock,        \* the transaction holding each membership row FOR UPDATE
  tx           \* each transaction's local state

tables == <<role, active, deactivated, open, mirror>>
vars == <<tables, lock, tx>>

CoChairs == {u \in Users : "worker_co_chair" \in role[u]}
ActiveCoChairs == active \cap CoChairs

(* _committee_primary_role                                                 *)
PrimaryRole(r) ==
  IF "worker_co_chair" \in r THEN "worker_co_chair"
  ELSE IF "certified_member" \in r THEN "certified_member" ELSE "worker_member"

(* pc is the next statement; next is p_roles; self says that the caller is *)
(* the target; want are the co-chair rows still to be locked.              *)
Closed ==
  [pc |-> "closed", kind |-> "none", target |-> NoUser, self |-> FALSE,
   next |-> {}, want |-> {}, approver |-> NoUser]

Target(t) == tx[t].target

(* The tables stay as they are; t goes on as r.                            *)
Goto(t, r) == tx' = [tx EXCEPT ![t] = r] /\ UNCHANGED tables

End(t) ==
  /\ tx' = [tx EXCEPT ![t] = Closed]
  /\ lock' = [u \in Users |-> IF lock[u] = t THEN NoTx ELSE lock[u]]

-----------------------------------------------------------------------------
(* Mutation: an empty role set passes.                                     *)
AnyRoles(r) == TRUE
ValidRoles(r) == r # {}

(* A call passed its gate, its argument checks and its unlocked reads.     *)
Open(t, kind, u, self, next) ==
  /\ tx[t].pc = "closed"
  /\ Goto(t, [pc |-> IF kind = "invite" THEN "write" ELSE "target", kind |-> kind,
              target |-> u, self |-> self, next |-> next, want |-> {}, approver |-> NoUser])
  /\ UNCHANGED lock

BeginInvite(t) ==
  /\ ActiveCoChairs # {}
  /\ \E u \in Users, r \in RoleSets :
       ValidRoles(r) /\ role[u] = {} /\ Open(t, "invite", u, FALSE, r)

BeginActivate(t) == \E u \in open : Open(t, "activate", u, FALSE, {})

BeginSetRoles(t) ==
  \E actor \in ActiveCoChairs, u \in Users, r \in RoleSets :
    ValidRoles(r) /\ Open(t, "set_roles", u, actor = u, r)

BeginRemove(t) ==
  \E actor \in ActiveCoChairs, u \in Users : Open(t, "remove", u, actor = u, {})

BeginReactivate(t) ==
  ActiveCoChairs # {} /\ \E u \in Users : Open(t, "reactivate", u, FALSE, {})

-----------------------------------------------------------------------------
(* Mutation: activation does not look at deactivated_at.                   *)
OverlooksRemoval(t) ==
  CASE tx[t].kind = "set_roles" -> role[Target(t)] = tx[t].next
    [] tx[t].kind = "remove" -> Target(t) \notin active
    [] OTHER -> Target(t) \in active

(* The checks on the locked row that return early or raise.                *)
Refuses(t) ==
  \/ tx[t].kind = "set_roles" /\ role[Target(t)] = tx[t].next
  \/ tx[t].kind = "remove" /\ Target(t) \notin active
  \/ tx[t].kind \in {"activate", "reactivate"} /\ Target(t) \in active
  \/ tx[t].kind = "activate" /\ Target(t) \in deactivated

(* The call would cost the target an active co-chair's role.               *)
Losing(t) ==
  /\ Target(t) \in ActiveCoChairs
  /\ \/ tx[t].kind = "remove"
     \/ tx[t].kind = "set_roles" /\ "worker_co_chair" \notin tx[t].next

(* SELECT ... FOR UPDATE of the target.                                    *)
LockTarget(t) ==
  /\ tx[t].pc = "target" /\ lock[Target(t)] = NoTx
  /\ role[Target(t)] # {}
  /\ IF Refuses(t) THEN End(t) /\ UNCHANGED tables
     ELSE /\ Goto(t, [tx[t] EXCEPT !.pc = IF Losing(t) THEN "losing" ELSE "write"])
          /\ lock' = [lock EXCEPT ![Target(t)] = t]

(* Mutation: only the target's own row is locked before the count.         *)
TargetRow(t) == {Target(t)}
CoChairRows(t) == ActiveCoChairs

(* PERFORM 1 ... WHERE active AND co-chair FOR UPDATE: the snapshot, then  *)
(* one row after the other; one that no longer qualifies is passed over.   *)
Scan(t) ==
  /\ tx[t].pc = "losing"
  /\ Goto(t, [tx[t] EXCEPT !.pc = "rows", !.want = CoChairRows(t)])
  /\ UNCHANGED lock

LockRow(t) ==
  /\ tx[t].pc = "rows"
  /\ \E u \in tx[t].want :
       /\ lock[u] \in {NoTx, t}
       /\ Goto(t, [tx[t] EXCEPT !.want = tx[t].want \ {u}])
       /\ lock' = IF u \in ActiveCoChairs THEN [lock EXCEPT ![u] = t] ELSE lock

(* Mutation: the count of one is let through.                              *)
NoCoChair == ActiveCoChairs = {}
LastCoChair == \A u, v \in ActiveCoChairs : u = v

(* A count of at most 1 raises last_co_chair; a caller's own loss goes on   *)
(* to the second approver.                                                 *)
Count(t) ==
  /\ tx[t].pc = "rows" /\ tx[t].want = {}
  /\ ~LastCoChair
  /\ Goto(t, [tx[t] EXCEPT !.pc = IF tx[t].self THEN "approve" ELSE "write"])
  /\ UNCHANGED lock

(* Mutation: any member will do as second approver.                        *)
AnySecond(t) == active \ {Target(t)}
Seconds(t) == ActiveCoChairs \ {Target(t)}

Approve(t) ==
  /\ tx[t].pc = "approve"
  /\ \E a \in Seconds(t) : Goto(t, [tx[t] EXCEPT !.pc = "write", !.approver = a])
  /\ UNCHANGED lock

(* An exception, a deadlock's victim, a lost connection: rolled back.      *)
Abort(t) == tx[t].pc # "closed" /\ End(t) /\ UNCHANGED tables

-----------------------------------------------------------------------------
(* The writes, and the commit.                                             *)
Committing(t, kinds) == tx[t].pc = "write" /\ tx[t].kind \in kinds /\ End(t)

(* The primary key refuses a second row of the target.                     *)
InsertInvite(t) ==
  /\ Committing(t, {"invite"})
  /\ role[Target(t)] = {}
  /\ role' = [role EXCEPT ![Target(t)] = tx[t].next]
  /\ open' = open \cup {Target(t)}
  /\ UNCHANGED <<active, deactivated, mirror>>

Enter(t) ==
  /\ Committing(t, {"activate", "reactivate"})
  /\ active' = active \cup {Target(t)}
  /\ open' = IF tx[t].kind = "activate" THEN open \ {Target(t)} ELSE open
  /\ mirror' = [mirror EXCEPT ![Target(t)] = PrimaryRole(role[Target(t)])]
  /\ UNCHANGED <<role, deactivated>>

(* Mutation: the mirror of an inactive target is set too.                  *)
MirrorOfAny(u, r) == PrimaryRole(r)
MirrorOf(u, r) == IF u \in active THEN PrimaryRole(r) ELSE mirror[u]

UpdateRoles(t) ==
  /\ Committing(t, {"set_roles"})
  /\ role' = [role EXCEPT ![Target(t)] = tx[t].next]
  /\ mirror' = [mirror EXCEPT ![Target(t)] = MirrorOf(Target(t), tx[t].next)]
  /\ UNCHANGED <<active, deactivated, open>>

Deactivate(t) ==
  /\ Committing(t, {"remove"})
  /\ active' = active \ {Target(t)}
  /\ deactivated' = deactivated \cup {Target(t)}
  /\ mirror' = [mirror EXCEPT ![Target(t)] = "none"]
  /\ UNCHANGED <<role, open>>

Expire(u) ==
  /\ u \in open /\ open' = open \ {u}
  /\ UNCHANGED <<role, active, deactivated, mirror, lock, tx>>

-----------------------------------------------------------------------------
Init ==
  /\ role = [u \in Users |-> IF u = Founder THEN {"worker_co_chair"} ELSE {}]
  /\ active = {Founder} /\ deactivated = {} /\ open = {}
  /\ mirror = [u \in Users |-> IF u = Founder THEN "worker_co_chair" ELSE "none"]
  /\ lock = [u \in Users |-> NoTx]
  /\ tx = [t \in Txs |-> Closed]

Step(t) ==
  \/ BeginInvite(t) \/ BeginActivate(t) \/ BeginSetRoles(t)
  \/ BeginRemove(t) \/ BeginReactivate(t)
  \/ LockTarget(t) \/ Scan(t) \/ LockRow(t) \/ Count(t) \/ Approve(t) \/ Abort(t)
  \/ InsertInvite(t) \/ Enter(t) \/ UpdateRoles(t) \/ Deactivate(t)

Next == (\E t \in Txs : Step(t)) \/ (\E u \in Users : Expire(u))

Spec == Init /\ [][Next]_vars

-----------------------------------------------------------------------------
TxType ==
  [pc: {"closed", "target", "losing", "rows", "approve", "write"},
   kind: {"none", "invite", "activate", "set_roles", "remove", "reactivate"},
   target: Users \cup {NoUser}, self: BOOLEAN, next: SUBSET Roles,
   want: SUBSET Users, approver: Users \cup {NoUser}]

(* The tables' types; only a user with a row is active or was removed.     *)
TypeOK ==
  /\ role \in [Users -> SUBSET Roles]
  /\ active \subseteq {u \in Users : role[u] # {}}
  /\ deactivated \subseteq {u \in Users : role[u] # {}}
  /\ open \subseteq {u \in Users : role[u] # {}}
  /\ mirror \in [Users -> Roles \cup {"none"}]
  /\ lock \in [Users -> Txs \cup {NoTx}]
  /\ tx \in [Txs -> TxType]
  /\ \A t \in Txs : tx[t].pc # "closed" => Target(t) \in Users /\ tx[t].kind # "none"

(* ADR-0021: however its functions interleave, the committee has an active *)
(* worker co-chair.                                                        *)
AlwaysACoChair == ActiveCoChairs # {}

(* users.role, which the auth gates read, is the primary role of an active *)
(* member and NULL for everyone else.                                      *)
MirrorAgrees ==
  \A u \in Users : mirror[u] = IF u \in active THEN PrimaryRole(role[u]) ELSE "none"

(* Four eyes: when a co-chair's own removal or demotion commits, another   *)
(* active co-chair has approved it and still is one after it.              *)
Seconded ==
  \A t \in Txs :
    (UpdateRoles(t) \/ Deactivate(t)) /\ Losing(t) /\ tx[t].self
      => tx[t].approver # Target(t) /\ tx[t].approver \in ActiveCoChairs'
SelfLossSeconded == [][Seconded]_vars

(* A removed member comes back by a co-chair's reactivation and never by   *)
(* an invite still open, even one being redeemed as they are removed.      *)
Readmitted ==
  \A u \in deactivated \ active :
    u \in active' => \E t \in Txs : tx[t].kind = "reactivate" /\ Target(t) = u /\ Enter(t)
ReadmittedByReactivation == [][Readmitted]_vars

(* The functions implement the roster they promise.                        *)
StandingOf(u) ==
  IF role[u] = {} THEN "none"
  ELSE IF u \in active THEN "member"
  ELSE IF u \in deactivated THEN "former" ELSE "pending"
Roster ==
  INSTANCE CommitteeRoster
    WITH roster <- [u \in Users |-> StandingOf(u)], chairs <- CoChairs
RosterSpec == Roster!Spec
=============================================================================
