---------------------------- MODULE EnrolmentProofs ----------------------------
(***************************************************************************)
(* One passkey per invite, with the newest code, truly answered: proofs    *)
(* about Enrolment for any invites, submissions, calls and code bound.     *)
(*                                                                         *)
(* The argument: a transaction that is past the invite holds its row, so   *)
(* nobody else is past it, and to a redemption or a re-send it stays open  *)
(* until that commits; what it then reads of the code on file, which is    *)
(* always the newest, stands as well, since only a transaction past the    *)
(* invite replaces or deletes it.  One that is past the advisory lock is   *)
(* alone.  A submission has no passkey before its own commit, and its      *)
(* answer is made by that commit.  Redemptions and re-sends take their     *)
(* rows in one order, so who waits for one of them holds earlier rows only.*)
(***************************************************************************)
EXTENDS Enrolment, TLAPS

Targets == Invites \cup {NoInvite}
LockRows ==
  ({"invite", "boot", "user", "member"} \X Invites) \cup {<<"advisory", NoInvite>>}

RedeemWants ==
  {<<"invite", "boot", "user", "member">>, <<"boot", "user", "member">>,
   <<"user", "member">>, <<"member">>, <<>>}
ReissueWants == {<<"invite", "boot">>, <<"boot">>, <<>>}
FirstWants == {<<"advisory">>, <<>>}
ActivateWants == {<<"member", "invite", "user">>, <<"invite", "user">>, <<"user">>, <<>>}
ChangeWants == {<<"member", "user">>, <<"user">>, <<>>}
Wants == RedeemWants \cup ReissueWants \cup FirstWants \cup ActivateWants \cup ChangeWants
Kinds == {"redeem", "reissue", "first", "activate", "reactivate", "remove"}

Records ==
  [pc : {"idle", "ceremony", "lock", "answer", "done"},
   kind : Kinds \cup {"none"}, invite : Targets, code : Nat, want : Wants,
   dead : Nat, late : BOOLEAN, result : {"none", "ok", "refused", "system_error"}]

TypeInv ==
  /\ users \in BOOLEAN
  /\ invite \in [Invites -> {"none", "open", "consumed"}]
  /\ issued \in [Invites -> Nat] /\ boot \in [Invites -> Nat]
  /\ dead \in [Invites -> Nat]
  /\ member \in [Invites -> {"none", "pending", "active", "former"}]
  /\ keys \in SUBSET (Flows \X Targets)
  /\ lock \in [LockRows -> Txs \cup {NoTx}]
  /\ act \in [Txs -> Records]

(* The code on file is the newest; without users there is no first         *)
(* co-chair.                                                               *)
OnFile ==
  /\ \A i \in Invites : /\ boot[i] \in {0, issued[i]}
                        /\ invite[i] # "none" => issued[i] > 0
  /\ ~users => \A f \in Flows : <<f, NoInvite>> \notin keys

(* Whose transaction it is, for what, and what it still has to lock.       *)
Wanted(t, r) ==
  \/ r.kind = "redeem" /\ t \in Flows /\ r.invite \in Invites /\ r.want \in RedeemWants
  \/ r.kind = "reissue" /\ t \in Calls /\ r.invite \in Invites /\ r.want \in ReissueWants
  \/ r.kind = "first" /\ t \in Flows /\ r.invite = NoInvite /\ r.want \in FirstWants
  \/ r.kind = "activate" /\ t \in Ops /\ r.invite \in Invites /\ r.want \in ActivateWants
  \/ /\ r.kind \in {"reactivate", "remove"} /\ t \in Ops /\ r.invite \in Invites
     /\ r.want \in ChangeWants

PastInvite(r) ==
  /\ r.pc = "lock"
  /\ \/ r.kind = "redeem" /\ r.want # <<"invite", "boot", "user", "member">>
     \/ r.kind = "reissue" /\ r.want # <<"invite", "boot">>
     \/ r.kind = "activate" /\ r.want \in {<<"user">>, <<>>}
PastBoot(r) ==
  /\ r.pc = "lock" /\ r.kind = "redeem"
  /\ r.want \in {<<"user", "member">>, <<"member">>, <<>>}
PastAdvisory(r) == r.pc = "lock" /\ r.kind = "first" /\ r.want = <<>>

(* What a transaction may count on.                                        *)
Stands(t, r) ==
  /\ r.pc = "lock" => Wanted(t, r)
  /\ r.pc = "lock" /\ r.kind = "activate" => invite[r.invite] # "none"
  /\ PastInvite(r) => /\ lock[<<"invite", r.invite>>] = t
                      /\ r.kind # "activate" => invite[r.invite] = "open"
  /\ PastBoot(r) => boot[r.invite] = r.code /\ r.code # 0
  /\ PastAdvisory(r) => lock[<<"advisory", NoInvite>>] = t /\ ~users
AllStand == \A t \in Txs : Stands(t, act[t])

(* What a submission has been told, or will be.                            *)
Unbound(f) == \A i \in Targets : <<f, i>> \notin keys
Told(f, r) ==
  /\ r.pc \in {"idle", "ceremony", "lock"} => Unbound(f)
  /\ r.pc = "answer" /\ r.result # "ok" => Unbound(f)
  /\ r.pc = "done" /\ r.result = "refused" => Unbound(f)
  /\ r.pc \in {"answer", "done"} /\ r.result = "ok" => <<f, r.invite>> \in keys
AllTold == \A f \in Flows : Told(f, act[f])

IInv == TypeInv /\ OnFile /\ AllStand /\ AllTold /\ OneWayIn

-----------------------------------------------------------------------------
LEMMA WantFacts ==
  /\ Head(<<"invite", "boot", "user", "member">>) = "invite"
  /\ Tail(<<"invite", "boot", "user", "member">>) = <<"boot", "user", "member">>
  /\ Head(<<"boot", "user", "member">>) = "boot"
  /\ Tail(<<"boot", "user", "member">>) = <<"user", "member">>
  /\ Head(<<"user", "member">>) = "user" /\ Tail(<<"user", "member">>) = <<"member">>
  /\ Head(<<"member">>) = "member" /\ Tail(<<"member">>) = <<>>
  /\ Head(<<"invite", "boot">>) = "invite" /\ Tail(<<"invite", "boot">>) = <<"boot">>
  /\ Head(<<"boot">>) = "boot" /\ Tail(<<"boot">>) = <<>>
  /\ Head(<<"advisory">>) = "advisory" /\ Tail(<<"advisory">>) = <<>>
  /\ Head(<<"member", "invite", "user">>) = "member"
  /\ Tail(<<"member", "invite", "user">>) = <<"invite", "user">>
  /\ Head(<<"invite", "user">>) = "invite" /\ Tail(<<"invite", "user">>) = <<"user">>
  /\ Head(<<"user">>) = "user" /\ Tail(<<"user">>) = <<>>
  /\ Head(<<"member", "user">>) = "member" /\ Tail(<<"member", "user">>) = <<"user">>
  OBVIOUS

LEMMA WantsDiffer ==
  /\ \A w \in {<<"boot", "user", "member">>, <<"user", "member">>, <<"member">>, <<>>} :
       w # <<"invite", "boot", "user", "member">>
  /\ \A w \in {<<"user", "member">>, <<"member">>, <<>>} : w # <<"boot", "user", "member">>
  /\ \A w \in {<<"boot">>, <<>>} : w # <<"invite", "boot">>
  /\ \A w \in {<<"member", "invite", "user">>, <<"invite", "user">>} :
       w \notin {<<"user">>, <<>>}
  /\ <<"advisory">> # <<>>
<1>1. /\ Len(<<"invite", "boot", "user", "member">>) = 4
      /\ Len(<<"boot", "user", "member">>) = 3 /\ Len(<<"member", "invite", "user">>) = 3
      /\ Len(<<"user", "member">>) = 2 /\ Len(<<"invite", "boot">>) = 2
      /\ Len(<<"invite", "user">>) = 2 /\ Len(<<"member">>) = 1 /\ Len(<<"boot">>) = 1
      /\ Len(<<"user">>) = 1 /\ Len(<<"advisory">>) = 1 /\ Len(<<>>) = 0
  OBVIOUS
<1> QED BY <1>1

LEMMA IdleTyped == Idle \in Records
  BY DEF Idle, Records, Targets, Wants, RedeemWants

LEMMA InitIInv == Init => IInv
<1> SUFFICES ASSUME Init PROVE IInv
  OBVIOUS
<1>1. \A t \in Txs : act[t] = Idle
  BY DEF Init, Txs
<1>2. TypeInv
  BY IdleTyped DEF Init, TypeInv, Txs, LockRows
<1>3. OnFile /\ OneWayIn
  BY DEF Init, OnFile, OneWayIn
<1>4. AllStand /\ AllTold
  BY <1>1 DEF AllStand, AllTold, Stands, Told, PastInvite, PastBoot, PastAdvisory, Idle,
              Init, Unbound, Txs
<1> QED BY <1>2, <1>3, <1>4 DEF IInv

-----------------------------------------------------------------------------
(* One transaction or submission moves on to st, and takes or gives back   *)
(* locks of its own; the tables stay as they are.                          *)
LEMMA TxMoves ==
  ASSUME IInv, NEW t \in Txs, NEW st \in Records,
         act' = [act EXCEPT ![t] = st], UNCHANGED rows,
         lock' \in [LockRows -> Txs \cup {NoTx}],
         \A r \in LockRows : lock[r] \in Txs \ {t} => lock'[r] = lock[r],
         Stands(t, st)', t \in Flows => Told(t, st)
  PROVE  IInv'
<1> USE DEF rows
<1>1. act'[t] = st /\ \A u \in Txs \ {t} : act'[u] = act[u]
  BY DEF IInv, TypeInv
<1>2. TypeInv'
  BY DEF IInv, TypeInv
<1>3. OnFile' /\ OneWayIn'
  BY DEF IInv, OnFile, OneWayIn
<1>4. AllTold'
  BY <1>1 DEF IInv, AllTold, Told, Unbound, Txs
<1>5. ASSUME NEW u \in Txs \ {t} PROVE Stands(u, act[u])'
  <2>1. act'[u] = act[u] /\ Stands(u, act[u]) /\ act[u] \in Records
    BY <1>1 DEF IInv, AllStand, TypeInv
  <2>2. PastInvite(act[u]) => <<"invite", act[u].invite>> \in LockRows
    BY <2>1 DEF Stands, Wanted, PastInvite, LockRows
  <2>3. <<"advisory", NoInvite>> \in LockRows
    BY DEF LockRows
  <2> QED BY <2>1, <2>2, <2>3 DEF Stands, Wanted, PastInvite, PastBoot, PastAdvisory
<1>6. AllStand'
  BY <1>1, <1>5 DEF AllStand
<1> QED BY <1>2, <1>3, <1>4, <1>6 DEF IInv

(* Locks given back.                                                       *)
LEMMA ReleaseKeeps ==
  ASSUME IInv, NEW t \in Txs, Release(t)
  PROVE  /\ lock' \in [LockRows -> Txs \cup {NoTx}]
         /\ \A r \in LockRows : lock[r] \in Txs \ {t} => lock'[r] = lock[r]
  BY DEF Release, IInv, TypeInv

(* A submission or a call that stops counts on no row.                     *)
LEMMA StopsStand ==
  ASSUME NEW t \in Txs \ Ops, NEW pc \in {"answer", "done"}, IInv,
         NEW result \in {"ok", "refused", "system_error"}, Stops(t, pc, result)
  PROVE  \E st \in Records :
           /\ act' = [act EXCEPT ![t] = st] /\ st.pc = pc /\ st.result = result
           /\ st.invite = IF result = "ok" THEN act[t].invite ELSE NoInvite
           /\ Stands(t, st)'
<1> DEFINE x == [Idle EXCEPT !.pc = pc, !.result = result,
                 !.invite = IF result = "ok" THEN act[t].invite ELSE NoInvite]
<1>1. act[t].invite \in Targets
  BY DEF IInv, TypeInv, Records
<1>2. /\ x \in Records /\ x.pc = pc /\ x.result = result
      /\ x.invite = IF result = "ok" THEN act[t].invite ELSE NoInvite
  BY <1>1, IdleTyped DEF Records, Idle, Targets
<1>3. act' = [act EXCEPT ![t] = x]
  BY DEF Stops, Set
<1> HIDE DEF x
<1>4. PICK st \in Records : st = x
  BY <1>2
<1>5. Stands(t, st)'
  BY <1>2, <1>4 DEF Stands, PastInvite, PastBoot, PastAdvisory
<1> QED BY <1>2, <1>3, <1>4, <1>5

LEMMA OpStops ==
  ASSUME NEW t \in Ops, NEW pc, NEW result, Stops(t, pc, result)
  PROVE  act' = [act EXCEPT ![t] = Idle] /\ Stands(t, Idle)'
<1>1. act' = [act EXCEPT ![t] = Idle]
  BY DEF Stops, Set
<1>2. Stands(t, Idle)'
  BY DEF Stands, PastInvite, PastBoot, PastAdvisory, Idle
<1> QED BY <1>1, <1>2

LEMMA Unstarted ==
  ASSUME IInv, NEW t \in Txs
  PROVE  /\ act[t] \in Records /\ Stands(t, act[t])
         /\ t \in Flows => Told(t, act[t])
  BY DEF IInv, TypeInv, AllStand, AllTold

LEMMA LocksStay ==
  ASSUME IInv, UNCHANGED lock
  PROVE  /\ lock' \in [LockRows -> Txs \cup {NoTx}]
         /\ \A r \in LockRows : lock'[r] = lock[r]
  BY DEF IInv, TypeInv

(* A refusal or an error before anything was committed.                    *)
LEMMA StopsKeeps ==
  ASSUME IInv, NEW t \in Txs, NEW pc \in {"answer", "done"},
         NEW result \in {"refused", "system_error"}, Stops(t, pc, result),
         act[t].pc \in {"idle", "ceremony", "lock"},
         UNCHANGED rows, Release(t) \/ UNCHANGED lock
  PROVE  IInv'
<1>1. CASE t \in Ops
  <2>1. t \notin Flows
    BY <1>1, NameAssumption
  <2> QED BY <1>1, <2>1, OpStops, IdleTyped, TxMoves, ReleaseKeeps, LocksStay
<1>2. CASE t \notin Ops
  <2>1. PICK st \in Records :
          act' = [act EXCEPT ![t] = st] /\ st.pc = pc /\ st.result = result /\ Stands(t, st)'
    BY <1>2, StopsStand
  <2>2. t \in Flows => Told(t, st)
    BY <2>1, Unstarted DEF Told
  <2> QED BY <2>1, <2>2, TxMoves, ReleaseKeeps, LocksStay
<1> QED BY <1>1, <1>2

LEMMA AbortKeeps ==
  ASSUME IInv, NEW t \in Txs, Abort(t)
  PROVE  IInv'
  BY StopsKeeps DEF Abort

(* A row is taken once what is checked on it holds.                        *)
LEMMA LockRowKeeps ==
  ASSUME IInv, NEW t \in Txs, LockRow(t)
  PROVE  IInv'
<1> DEFINE row == Head(act[t].want)
           r == <<row, act[t].invite>>
<1>1. /\ act[t].pc = "lock" /\ act[t].want # <<>> /\ lock[r] \in {NoTx, t}
      /\ UNCHANGED rows
  BY DEF LockRow
<1>2. Wanted(t, act[t]) /\ act[t] \in Records /\ Stands(t, act[t])
  BY <1>1, Unstarted DEF Stands
<1>3. CASE ~Passes(t, row)
  <2>1. Release(t) /\ Stops(t, "answer", Mapped(t, row))
    BY <1>3 DEF LockRow
  <2>2. Mapped(t, row) \in {"refused", "system_error"}
    BY DEF Mapped
  <2> QED BY <1>1, <2>1, <2>2, StopsKeeps
<1>4. CASE Passes(t, row)
  <2>1. lock' = [lock EXCEPT ![r] = t] /\ Set(t, [act[t] EXCEPT !.want = Tail(@)])
    BY <1>4 DEF LockRow
  <2>2. r \in LockRows
    BY <1>1, <1>2, WantFacts
       DEF Wanted, RedeemWants, ReissueWants, FirstWants, ActivateWants, ChangeWants, LockRows
  <2>3. /\ lock' \in [LockRows -> Txs \cup {NoTx}] /\ lock'[r] = t
        /\ \A x \in LockRows : lock[x] \in Txs \ {t} => lock'[x] = lock[x]
        /\ \A x \in LockRows : lock[x] = t => lock'[x] = t
    BY <1>1, <2>1, <2>2, NameAssumption DEF IInv, TypeInv
  <2>4. Tail(act[t].want) \in Wants
    BY <1>1, <1>2, WantFacts
       DEF Wanted, Wants, RedeemWants, ReissueWants, FirstWants, ActivateWants, ChangeWants
  <2>5. PICK st \in Records :
          /\ act' = [act EXCEPT ![t] = st]
          /\ st.pc = "lock" /\ st.kind = act[t].kind /\ st.invite = act[t].invite
          /\ st.code = act[t].code /\ st.want = Tail(act[t].want)
    <3> DEFINE x == [act[t] EXCEPT !.want = Tail(@)]
    <3>1. /\ x \in Records
          /\ x.pc = "lock" /\ x.kind = act[t].kind /\ x.invite = act[t].invite
          /\ x.code = act[t].code /\ x.want = Tail(act[t].want)
      BY <1>1, <1>2, <2>4 DEF Records
    <3>2. act' = [act EXCEPT ![t] = x]
      BY <2>1 DEF Set
    <3> HIDE DEF x
    <3> QED BY <3>1, <3>2
  <2>6. t \in Flows => Told(t, st)
    BY <1>1, <2>5, Unstarted DEF Told
  <2>7. Stands(t, st)'
    <3>1. CASE act[t].kind = "redeem"
      <4>1. /\ t \in Flows /\ act[t].invite \in Invites
            /\ act[t].want \in RedeemWants
        BY <1>2, <3>1 DEF Wanted
      <4>2. <<"invite", act[t].invite>> \in LockRows
        BY <4>1 DEF LockRows
      <4>3. CASE act[t].want = <<"invite", "boot", "user", "member">>
        <5>1. st.want = <<"boot", "user", "member">> /\ row = "invite"
          BY <2>5, <4>3, WantFacts
        <5>2. invite[act[t].invite] = "open"
          BY <1>4, <3>1, <5>1 DEF Passes, InviteStands
        <5>3. Wanted(t, st) /\ ~PastBoot(st) /\ ~PastAdvisory(st)
          BY <2>5, <3>1, <4>1, <5>1, WantsDiffer DEF Wanted, RedeemWants, PastBoot, PastAdvisory
        <5> QED BY <1>1, <2>3, <2>5, <5>1, <5>2, <5>3 DEF Stands, rows
      <4>4. CASE act[t].want # <<"invite", "boot", "user", "member">>
        <5>1. lock[<<"invite", act[t].invite>>] = t /\ invite[act[t].invite] = "open"
          BY <1>1, <1>2, <3>1, <4>4 DEF Stands, PastInvite
        <5>2. boot[act[t].invite] = act[t].code /\ act[t].code # 0
          <6>1. CASE act[t].want = <<"boot", "user", "member">>
            <7>1. row = "boot"
              BY <6>1, WantFacts
            <7> QED BY <1>4, <3>1, <7>1 DEF Passes, CodeStands
          <6>2. CASE act[t].want \in {<<"user", "member">>, <<"member">>}
            BY <1>1, <1>2, <3>1, <6>2 DEF Stands, PastBoot
          <6> QED BY <1>1, <4>1, <4>4, <6>1, <6>2 DEF RedeemWants
        <5>3. Wanted(t, st) /\ ~PastAdvisory(st)
          BY <1>1, <2>5, <3>1, <4>1, WantFacts DEF Wanted, RedeemWants, PastAdvisory
        <5> QED BY <1>1, <2>3, <2>5, <4>2, <5>1, <5>2, <5>3 DEF Stands, rows
      <4> QED BY <4>3, <4>4
    <3>2. CASE act[t].kind = "reissue"
      <4>1. /\ t \in Calls /\ act[t].invite \in Invites
            /\ act[t].want \in {<<"invite", "boot">>, <<"boot">>}
        BY <1>1, <1>2, <3>2 DEF Wanted, ReissueWants
      <4>2. <<"invite", act[t].invite>> \in LockRows
        BY <4>1 DEF LockRows
      <4>3. st.want \in ReissueWants
        BY <2>5, <4>1, WantFacts DEF ReissueWants
      <4>4. lock'[<<"invite", act[t].invite>>] = t /\ invite[act[t].invite] = "open"
        <5>1. CASE act[t].want = <<"invite", "boot">>
          <6>1. row = "invite"
            BY <5>1, WantFacts
          <6> QED BY <1>4, <2>3, <3>2, <6>1 DEF Passes, InviteStands
        <5>2. CASE act[t].want = <<"boot">>
          <6>1. lock[<<"invite", act[t].invite>>] = t /\ invite[act[t].invite] = "open"
            BY <1>1, <1>2, <3>2, <5>2, WantsDiffer DEF Stands, PastInvite
          <6> QED BY <2>3, <4>2, <6>1
        <5> QED BY <4>1, <5>1, <5>2
      <4> QED BY <1>1, <2>5, <3>2, <4>1, <4>3, <4>4
              DEF Stands, Wanted, PastInvite, PastBoot, PastAdvisory, rows
    <3>3. CASE act[t].kind = "first"
      <4>1. /\ t \in Flows /\ act[t].invite = NoInvite /\ act[t].want = <<"advisory">>
        BY <1>1, <1>2, <3>3 DEF Wanted, FirstWants
      <4>2. st.want = <<>> /\ row = "advisory"
        BY <2>5, <4>1, WantFacts
      <4>3. ~users
        BY <1>4, <4>2 DEF Passes
      <4> QED BY <1>1, <2>3, <2>5, <3>3, <4>1, <4>2, <4>3
              DEF Stands, Wanted, PastInvite, PastBoot, PastAdvisory, FirstWants, rows
    <3>4. CASE act[t].kind = "activate"
      <4>1. /\ t \in Ops /\ act[t].invite \in Invites
            /\ act[t].want \in {<<"member", "invite", "user">>, <<"invite", "user">>, <<"user">>}
        BY <1>1, <1>2, <3>4 DEF Wanted, ActivateWants
      <4>2. Wanted(t, st) /\ ~PastBoot(st) /\ ~PastAdvisory(st)
        BY <2>5, <3>4, <4>1, WantFacts DEF Wanted, ActivateWants, PastBoot, PastAdvisory
      <4>3. PastInvite(st) => lock'[<<"invite", act[t].invite>>] = t
        <5>1. <<"invite", act[t].invite>> \in LockRows
          BY <4>1 DEF LockRows
        <5>2. CASE act[t].want = <<"member", "invite", "user">>
          <6>1. st.want = <<"invite", "user">>
            BY <2>5, <5>2, WantFacts
          <6> QED BY <2>5, <3>4, <6>1, WantsDiffer DEF PastInvite
        <5>3. CASE act[t].want = <<"invite", "user">>
          <6>1. row = "invite"
            BY <5>3, WantFacts
          <6> QED BY <2>3, <6>1
        <5>4. CASE act[t].want = <<"user">>
          <6>1. lock[<<"invite", act[t].invite>>] = t
            BY <1>1, <1>2, <3>4, <5>4 DEF Stands, PastInvite
          <6> QED BY <2>3, <5>1, <6>1
        <5> QED BY <4>1, <5>2, <5>3, <5>4
      <4>4. (invite[act[t].invite] # "none")'
        BY <1>1, <1>2, <2>5, <3>4 DEF Stands, rows
      <4> QED BY <1>1, <2>5, <3>4, <4>2, <4>3, <4>4 DEF Stands, rows
    <3>5. CASE act[t].kind \in {"reactivate", "remove"}
      <4>1. /\ t \in Ops /\ act[t].invite \in Invites
            /\ act[t].want \in {<<"member", "user">>, <<"user">>}
        BY <1>1, <1>2, <3>5 DEF Wanted, ChangeWants
      <4>2. Wanted(t, st)
        BY <2>5, <3>5, <4>1, WantFacts DEF Wanted, ChangeWants
      <4> QED BY <2>5, <3>5, <4>2 DEF Stands, PastInvite, PastBoot, PastAdvisory
    <3> QED BY <1>2, <3>1, <3>2, <3>3, <3>4, <3>5 DEF Wanted
  <2> HIDE DEF r
  <2> QED BY <1>1, <2>3, <2>5, <2>6, <2>7, TxMoves
<1> QED BY <1>3, <1>4

-----------------------------------------------------------------------------
(* Commits.  Who is past an invite is the only one.                        *)
LEMMA AlonePastInvite ==
  ASSUME IInv, NEW t \in Txs, NEW u \in Txs \ {t}, PastInvite(act[t]), PastInvite(act[u])
  PROVE  act[u].invite # act[t].invite
<1>1. Stands(t, act[t]) /\ Stands(u, act[u])
  BY DEF IInv, AllStand
<1>2. lock[<<"invite", act[t].invite>>] = t /\ lock[<<"invite", act[u].invite>>] = u
  BY <1>1, Zenon DEF Stands
<1>3. t # u
  OBVIOUS
<1> QED BY <1>2, <1>3

LEMMA PastBootPastInvite ==
  \A r \in Records : PastBoot(r) => PastInvite(r) /\ r.kind # "activate"
  BY WantsDiffer DEF PastBoot, PastInvite

LEMMA RedeemKeeps ==
  ASSUME IInv, NEW f \in Flows, Redeem(f)
  PROVE  IInv'
<1>1. f \in Txs \ Ops /\ act[f] \in Records /\ Told(f, act[f])
  BY Unstarted, NameAssumption DEF Txs
<1>2. act[f].pc = "lock" /\ act[f].want = <<>> /\ act[f].kind = "redeem" /\ Release(f)
  BY DEF Redeem, Committing
<1>3. PastInvite(act[f])
  BY <1>2, WantsDiffer DEF PastInvite
<1>4. PICK i \in Invites : i = act[f].invite
  BY <1>1, <1>2, Unstarted DEF Stands, Wanted
<1>5. /\ boot' = [boot EXCEPT ![i] = 0] /\ dead' = [dead EXCEPT ![i] = 0]
      /\ keys' = keys \cup {<<f, i>>} /\ invite' = [invite EXCEPT ![i] = "consumed"]
      /\ member' = [member EXCEPT ![i] = "active"]
      /\ UNCHANGED <<users, lapsed, issued>> /\ Stops(f, "answer", "ok")
  BY <1>4 DEF Redeem, Consumed
<1>6. PICK st \in Records :
        /\ act' = [act EXCEPT ![f] = st] /\ st.pc = "answer" /\ st.result = "ok"
        /\ st.invite = i /\ Stands(f, st)'
  BY <1>1, <1>4, <1>5, StopsStand
<1>7. act'[f] = st /\ \A u \in Txs \ {f} : act'[u] = act[u]
  BY <1>1, <1>6 DEF IInv, TypeInv
<1>8. /\ lock' \in [LockRows -> Txs \cup {NoTx}]
      /\ \A r \in LockRows : lock[r] \in Txs \ {f} => lock'[r] = lock[r]
  BY <1>1, <1>2, ReleaseKeeps
<1>9. invite[i] = "open" /\ \A g \in Flows : <<g, i>> \notin keys
  BY <1>1, <1>2, <1>3, <1>4, Unstarted DEF Stands, IInv, OneWayIn
<1>10. Unbound(f)
  BY <1>1, <1>2 DEF Told
<1>11. TypeInv'
  BY <1>1, <1>4, <1>5, <1>6, <1>8 DEF IInv, TypeInv, Targets
<1>12. OnFile'
  <2>1. \A j \in Invites : /\ boot'[j] \in {0, issued'[j]}
                           /\ invite'[j] # "none" => issued'[j] > 0
    BY <1>5, <1>9 DEF IInv, OnFile, TypeInv
  <2>2. \A g \in Flows : <<g, NoInvite>> \in keys' => <<g, NoInvite>> \in keys
    BY <1>5, NameAssumption
  <2> QED BY <1>5, <2>1, <2>2 DEF IInv, OnFile
<1>13. ASSUME NEW u \in Txs \ {f} PROVE Stands(u, act[u])'
  <2>1. act'[u] = act[u] /\ Stands(u, act[u]) /\ act[u] \in Records
    BY <1>7, Unstarted
  <2>2. PastInvite(act[u]) => act[u].invite # i
    BY <1>1, <1>3, <1>4, AlonePastInvite
  <2>3. PastInvite(act[u]) => act[u].invite \in Invites /\ <<"invite", act[u].invite>> \in LockRows
    BY <2>1 DEF Stands, Wanted, PastInvite, LockRows
  <2>4. <<"advisory", NoInvite>> \in LockRows
    BY DEF LockRows
  <2>5. PastInvite(act[u]) =>
          /\ lock'[<<"invite", act[u].invite>>] = u
          /\ act[u].kind # "activate" => invite'[act[u].invite] = "open"
    BY <1>5, <1>8, <2>1, <2>2, <2>3 DEF Stands, IInv, TypeInv
  <2>6. PastBoot(act[u]) => boot'[act[u].invite] = act[u].code /\ act[u].code # 0
    BY <1>5, <2>1, <2>2, <2>3, PastBootPastInvite DEF Stands, IInv, TypeInv
  <2>7. PastAdvisory(act[u]) => lock'[<<"advisory", NoInvite>>] = u /\ ~users'
    BY <1>5, <1>8, <2>1, <2>4 DEF Stands
  <2>8. act[u].pc = "lock" /\ act[u].kind = "activate" => invite'[act[u].invite] # "none"
    BY <1>5, <2>1 DEF Stands, Wanted, IInv, TypeInv
  <2> QED BY <2>1, <2>5, <2>6, <2>7, <2>8 DEF Stands, Wanted, PastInvite, PastBoot, PastAdvisory
<1>14. AllStand'
  BY <1>6, <1>7, <1>13 DEF AllStand
<1>15. AllTold'
  <2>1. Told(f, act[f])'
    BY <1>5, <1>6, <1>7 DEF Told
  <2>2. ASSUME NEW g \in Flows \ {f} PROVE Told(g, act[g])'
    BY <1>5, <1>7 DEF Told, Unbound, IInv, AllTold, Txs
  <2> QED BY <2>1, <2>2 DEF AllTold
<1>16. OneWayIn'
  <2>1. \A k, l \in keys' : k[2] = l[2] => k = l
    <3>1. \A k \in keys : k[2] # i
      BY <1>9 DEF IInv, TypeInv
    <3> QED BY <1>5, <3>1 DEF IInv, OneWayIn
  <2>2. \A j \in Invites : (\E g \in Flows : <<g, j>> \in keys') =>
                            invite'[j] = "consumed" /\ boot'[j] = 0
    BY <1>5 DEF IInv, OneWayIn, TypeInv
  <2>3. \A j \in Invites : invite'[j] = "consumed" => member'[j] \in {"active", "former"}
    BY <1>5 DEF IInv, OneWayIn, TypeInv
  <2> QED BY <2>1, <2>2, <2>3 DEF OneWayIn
<1> QED BY <1>11, <1>12, <1>14, <1>15, <1>16 DEF IInv

(* Nobody else is past the advisory lock, and nobody will be.              *)
LEMMA BootstrapKeeps ==
  ASSUME IInv, NEW f \in Flows, Bootstrap(f)
  PROVE  IInv'
<1>1. f \in Txs \ Ops /\ act[f] \in Records /\ Told(f, act[f]) /\ Stands(f, act[f])
  BY Unstarted, NameAssumption DEF Txs
<1>2. act[f].pc = "lock" /\ act[f].want = <<>> /\ act[f].kind = "first" /\ Release(f)
  BY DEF Bootstrap, Committing
<1>3. act[f].invite = NoInvite /\ PastAdvisory(act[f])
  BY <1>1, <1>2 DEF Stands, Wanted, PastAdvisory
<1>4. ~users /\ lock[<<"advisory", NoInvite>>] = f
  BY <1>1, <1>3 DEF Stands
<1>5. /\ users' = TRUE /\ keys' = keys \cup {<<f, NoInvite>>} /\ Stops(f, "answer", "ok")
      /\ UNCHANGED <<invite, lapsed, issued, boot, dead, member>>
  BY DEF Bootstrap
<1>6. PICK st \in Records :
        /\ act' = [act EXCEPT ![f] = st] /\ st.pc = "answer" /\ st.result = "ok"
        /\ st.invite = NoInvite /\ Stands(f, st)'
  BY <1>1, <1>3, <1>5, StopsStand
<1>7. act'[f] = st /\ \A u \in Txs \ {f} : act'[u] = act[u]
  BY <1>1, <1>6 DEF IInv, TypeInv
<1>8. /\ lock' \in [LockRows -> Txs \cup {NoTx}]
      /\ \A r \in LockRows : lock[r] \in Txs \ {f} => lock'[r] = lock[r]
  BY <1>1, <1>2, ReleaseKeeps
<1>9. \A g \in Flows : <<g, NoInvite>> \notin keys
  BY <1>4 DEF IInv, OnFile
<1>10. TypeInv'
  BY <1>5, <1>6, <1>8, <1>1 DEF IInv, TypeInv, Targets
<1>11. OnFile'
  BY <1>5 DEF IInv, OnFile
<1>12. ASSUME NEW u \in Txs \ {f} PROVE Stands(u, act[u])'
  <2>1. act'[u] = act[u] /\ Stands(u, act[u]) /\ act[u] \in Records
    BY <1>7, Unstarted
  <2>2. ~PastAdvisory(act[u])
    BY <1>4, <2>1 DEF Stands
  <2>3. PastInvite(act[u]) => <<"invite", act[u].invite>> \in LockRows
    BY <2>1 DEF Stands, Wanted, PastInvite, LockRows
  <2> QED BY <1>5, <1>8, <2>1, <2>2, <2>3 DEF Stands, Wanted, PastInvite, PastBoot, PastAdvisory
<1>13. AllStand'
  BY <1>6, <1>7, <1>12 DEF AllStand
<1>14. AllTold'
  <2>1. Told(f, act[f])'
    BY <1>5, <1>6, <1>7 DEF Told
  <2>2. ASSUME NEW g \in Flows \ {f} PROVE Told(g, act[g])'
    BY <1>5, <1>7 DEF Told, Unbound, IInv, AllTold, Txs
  <2> QED BY <2>1, <2>2 DEF AllTold
<1>15. OneWayIn'
  <2>1. \A k \in keys : k[2] # NoInvite
    BY <1>9 DEF IInv, TypeInv
  <2>2. \A k, l \in keys' : k[2] = l[2] => k = l
    BY <1>5, <2>1 DEF IInv, OneWayIn
  <2>3. \A j \in Invites : (\E g \in Flows : <<g, j>> \in keys') =>
                            invite'[j] = "consumed" /\ boot'[j] = 0
    BY <1>5, NameAssumption DEF IInv, OneWayIn
  <2> QED BY <1>5, <2>2, <2>3 DEF OneWayIn, IInv
<1> QED BY <1>10, <1>11, <1>13, <1>14, <1>15 DEF IInv

LEMMA ReissueKeeps ==
  ASSUME IInv, NEW c \in Calls, Reissue(c)
  PROVE  IInv'
<1>1. c \in Txs \ Ops /\ c \notin Flows /\ act[c] \in Records
  BY Unstarted, NameAssumption DEF Txs
<1>2. act[c].pc = "lock" /\ act[c].want = <<>> /\ act[c].kind = "reissue" /\ Release(c)
  BY DEF Reissue, Committing
<1>3. PastInvite(act[c])
  BY <1>2, WantsDiffer DEF PastInvite
<1>4. PICK i \in Invites : i = act[c].invite /\ invite[i] = "open"
  BY <1>1, <1>2, <1>3, Unstarted DEF Stands, Wanted
<1>5. /\ issued' = [issued EXCEPT ![i] = @ + 1] /\ boot' = [boot EXCEPT ![i] = issued[i] + 1]
      /\ dead' = [dead EXCEPT ![i] = 0] /\ Stops(c, "answer", "ok")
      /\ UNCHANGED <<users, invite, lapsed, member, keys>>
  BY <1>4 DEF Reissue
<1>6. PICK st \in Records : act' = [act EXCEPT ![c] = st] /\ Stands(c, st)'
  BY <1>1, <1>5, StopsStand
<1>7. act'[c] = st /\ \A u \in Txs \ {c} : act'[u] = act[u]
  BY <1>1, <1>6 DEF IInv, TypeInv
<1>8. /\ lock' \in [LockRows -> Txs \cup {NoTx}]
      /\ \A r \in LockRows : lock[r] \in Txs \ {c} => lock'[r] = lock[r]
  BY <1>1, <1>2, ReleaseKeeps
<1>9. TypeInv'
  BY <1>5, <1>6, <1>8, <1>1 DEF IInv, TypeInv
<1>10. OnFile' /\ OneWayIn'
  <2>1. \A j \in Invites : /\ boot'[j] \in {0, issued'[j]} /\ issued'[j] >= issued[j]
                           /\ boot'[j] = boot[j] \/ j = i
    BY <1>5 DEF IInv, OnFile, TypeInv
  <2>2. OnFile'
    BY <1>5, <1>9, <2>1 DEF IInv, OnFile, TypeInv
  <2>3. \A f \in Flows : <<f, i>> \notin keys
    BY <1>4 DEF IInv, OneWayIn
  <2>4. OneWayIn'
    BY <1>5, <2>1, <2>3 DEF IInv, OneWayIn
  <2> QED BY <2>2, <2>4
<1>11. ASSUME NEW u \in Txs \ {c} PROVE Stands(u, act[u])'
  <2>1. act'[u] = act[u] /\ Stands(u, act[u]) /\ act[u] \in Records
    BY <1>7, Unstarted
  <2>2. PastInvite(act[u]) => act[u].invite # i
    BY <1>1, <1>3, <1>4, AlonePastInvite
  <2>3. PastInvite(act[u]) => act[u].invite \in Invites /\ <<"invite", act[u].invite>> \in LockRows
    BY <2>1 DEF Stands, Wanted, PastInvite, LockRows
  <2>4. <<"advisory", NoInvite>> \in LockRows
    BY DEF LockRows
  <2>5. PastInvite(act[u]) =>
          /\ lock'[<<"invite", act[u].invite>>] = u
          /\ act[u].kind # "activate" => invite'[act[u].invite] = "open"
    BY <1>5, <1>8, <2>1, <2>3 DEF Stands
  <2>6. PastBoot(act[u]) => boot'[act[u].invite] = act[u].code /\ act[u].code # 0
    BY <1>5, <2>1, <2>2, <2>3, PastBootPastInvite DEF Stands, IInv, TypeInv
  <2>7. PastAdvisory(act[u]) => lock'[<<"advisory", NoInvite>>] = u /\ ~users'
    BY <1>5, <1>8, <2>1, <2>4 DEF Stands
  <2>8. act[u].pc = "lock" /\ act[u].kind = "activate" => invite'[act[u].invite] # "none"
    BY <1>5, <2>1 DEF Stands, Wanted, IInv, TypeInv
  <2> QED BY <2>1, <2>5, <2>6, <2>7, <2>8 DEF Stands, Wanted, PastInvite, PastBoot, PastAdvisory
<1>12. AllStand'
  BY <1>6, <1>7, <1>11 DEF AllStand
<1>13. AllTold'
  BY <1>1, <1>5, <1>7 DEF AllTold, Told, Unbound, IInv, Txs
<1> QED BY <1>9, <1>10, <1>12, <1>13 DEF IInv

(* A membership call commits: it reads no code and binds no passkey, and   *)
(* an activation that consumes the invite holds its row.                   *)
LEMMA OpCommits ==
  ASSUME IInv, NEW o \in Ops, NEW i \in Invites, i = act[o].invite, act[o].pc = "lock",
         Release(o), act' = [act EXCEPT ![o] = Idle], Stands(o, Idle)',
         NEW state \in {"active", "former"}, member' = [member EXCEPT ![i] = state],
         \/ UNCHANGED invite
         \/ PastInvite(act[o]) /\ invite' = [invite EXCEPT ![i] = "consumed"],
         UNCHANGED <<users, issued, boot, dead, keys>>
  PROVE  IInv'
<1>1. o \in Txs /\ o \notin Flows
  BY NameAssumption DEF Txs
<1>2. act'[o] = Idle /\ \A u \in Txs \ {o} : act'[u] = act[u]
  BY <1>1 DEF IInv, TypeInv
<1>3. /\ lock' \in [LockRows -> Txs \cup {NoTx}]
      /\ \A r \in LockRows : lock[r] \in Txs \ {o} => lock'[r] = lock[r]
  BY <1>1, ReleaseKeeps
<1>4. TypeInv'
  BY <1>1, <1>3, IdleTyped DEF IInv, TypeInv
<1>5. \/ invite' = invite
      \/ invite[i] # "none" /\ invite' = [invite EXCEPT ![i] = "consumed"]
  <2>1. Stands(o, act[o])
    BY <1>1, Unstarted
  <2>2. PastInvite(act[o]) => invite[i] # "none"
    BY <2>1 DEF Stands, PastInvite
  <2> QED BY <2>2
<1>6. \A j \in Invites : \/ invite'[j] = invite[j]
                         \/ j = i /\ invite[j] # "none" /\ invite'[j] = "consumed"
  BY <1>5 DEF IInv, TypeInv
<1>7. OneWayIn'
  <2>1. \A j \in Invites : /\ invite[j] = "consumed" => invite'[j] = "consumed"
                           /\ invite'[j] = "consumed" => j = i \/ invite[j] = "consumed"
    BY <1>6
  <2>2. member'[i] = state /\ \A j \in Invites \ {i} : member'[j] = member[j]
    BY DEF IInv, TypeInv
  <2>3. \A j \in Invites : invite'[j] = "consumed" => member'[j] \in {"active", "former"}
    BY <2>1, <2>2 DEF IInv, OneWayIn
  <2> QED BY <2>1, <2>3 DEF IInv, OneWayIn
<1>8. OnFile'
  BY <1>6 DEF IInv, OnFile
<1>9. ASSUME NEW u \in Txs \ {o} PROVE Stands(u, act[u])'
  <2>1. act'[u] = act[u] /\ Stands(u, act[u]) /\ act[u] \in Records
    BY <1>2, Unstarted
  <2>2. PastInvite(act[u]) => act[u].invite \in Invites /\ <<"invite", act[u].invite>> \in LockRows
    BY <2>1 DEF Stands, Wanted, PastInvite, LockRows
  <2>3. <<"advisory", NoInvite>> \in LockRows
    BY DEF LockRows
  <2>4. PastInvite(act[u]) => lock'[<<"invite", act[u].invite>>] = u
    BY <1>3, <2>1, <2>2 DEF Stands
  <2>5. PastInvite(act[u]) /\ act[u].kind # "activate" => invite'[act[u].invite] = "open"
    <3>1. CASE UNCHANGED invite
      BY <2>1, <3>1 DEF Stands
    <3>2. CASE PastInvite(act[o]) /\ invite' = [invite EXCEPT ![i] = "consumed"]
      BY <1>1, <2>1, <2>2, <3>2, AlonePastInvite DEF Stands, IInv, TypeInv
    <3> QED BY <3>1, <3>2
  <2>6. PastBoot(act[u]) => boot'[act[u].invite] = act[u].code /\ act[u].code # 0
    BY <2>1 DEF Stands
  <2>7. PastAdvisory(act[u]) => lock'[<<"advisory", NoInvite>>] = u /\ ~users'
    BY <1>3, <2>1, <2>3 DEF Stands
  <2>8. act[u].pc = "lock" /\ act[u].kind = "activate" => invite'[act[u].invite] # "none"
    BY <2>1 DEF Stands, Wanted, IInv, TypeInv
  <2> QED BY <2>1, <2>4, <2>5, <2>6, <2>7, <2>8
          DEF Stands, Wanted, PastInvite, PastBoot, PastAdvisory
<1>10. AllStand'
  BY <1>2, <1>9 DEF AllStand
<1>11. AllTold'
  BY <1>1, <1>2 DEF AllTold, Told, Unbound, IInv, Txs
<1> QED BY <1>4, <1>7, <1>8, <1>10, <1>11 DEF IInv

LEMMA OpKeeps ==
  ASSUME IInv, NEW o \in Ops, Activate(o) \/ Reactivate(o) \/ Remove(o)
  PROVE  IInv'
<1>1. /\ act[o].pc = "lock" /\ act[o].want = <<>> /\ Release(o)
      /\ act[o].kind \in {"activate", "reactivate", "remove"}
  BY DEF Activate, Reactivate, Remove, Committing
<1>2. PICK i \in Invites : i = act[o].invite
  BY <1>1, Unstarted DEF Stands, Wanted, Txs
<1>3. act' = [act EXCEPT ![o] = Idle] /\ Stands(o, Idle)'
  BY OpStops DEF Activate, Reactivate, Remove
<1>4. CASE Activate(o)
  <2>1. PastInvite(act[o])
    BY <1>1, <1>4 DEF Activate, Committing, PastInvite
  <2> QED BY <1>1, <1>2, <1>3, <1>4, <2>1, OpCommits DEF Activate, Consumed
<1>5. CASE Reactivate(o)
  BY <1>1, <1>2, <1>3, <1>5, OpCommits DEF Reactivate
<1>6. CASE Remove(o)
  BY <1>1, <1>2, <1>3, <1>6, OpCommits DEF Remove
<1> QED BY <1>4, <1>5, <1>6

-----------------------------------------------------------------------------
(* The card, the page and the list: no table changes.                      *)
LEMMA StartKeeps ==
  ASSUME IInv, NEW t \in Txs, NEW kind \in Kinds,
         NEW i \in Targets, NEW code \in Nat, Start(t, kind, i, code),
         act[t].pc \in {"idle", "ceremony"},
         \/ kind = "redeem" /\ t \in Flows /\ i \in Invites
         \/ kind = "reissue" /\ t \in Calls /\ i \in Invites
         \/ kind = "first" /\ t \in Flows /\ i = NoInvite
         \/ kind = "activate" /\ t \in Ops /\ i \in Invites /\ invite[i] # "none"
         \/ kind \in {"reactivate", "remove"} /\ t \in Ops /\ i \in Invites
  PROVE  IInv'
<1> DEFINE old == IF kind = "redeem" THEN dead[i] ELSE 0
           late == i \in lapsed
           x == [act[t] EXCEPT !.pc = "lock", !.kind = kind, !.invite = i, !.code = code,
                 !.want = LockOrder(kind), !.late = late, !.dead = old]
<1>1. act[t] \in Records /\ (t \in Flows => Told(t, act[t]))
  BY Unstarted
<1>2. old \in Nat /\ late \in BOOLEAN
  BY DEF IInv, TypeInv
<1>3. /\ kind = "redeem" => LockOrder(kind) = <<"invite", "boot", "user", "member">>
      /\ kind = "reissue" => LockOrder(kind) = <<"invite", "boot">>
      /\ kind = "first" => LockOrder(kind) = <<"advisory">>
      /\ kind = "activate" => LockOrder(kind) = <<"member", "invite", "user">>
      /\ kind \in {"reactivate", "remove"} => LockOrder(kind) = <<"member", "user">>
  BY DEF LockOrder
<1>4. LockOrder(kind) \in Wants
  BY <1>3 DEF Kinds, Wants, RedeemWants, ReissueWants, FirstWants, ActivateWants, ChangeWants
<1>5. act' = [act EXCEPT ![t] = x] /\ UNCHANGED <<rows, lock>>
  BY DEF Start, Set
<1> HIDE DEF old, late
<1>6. /\ x \in Records /\ x.pc = "lock" /\ x.kind = kind /\ x.invite = i
      /\ x.want = LockOrder(kind)
  BY <1>1, <1>2, <1>4 DEF Records
<1> HIDE DEF x
<1>7. PICK st \in Records : st = x
  BY <1>6
<1>8. Stands(t, st)'
  <2>1. Wanted(t, st)
    BY <1>3, <1>6, <1>7
       DEF Wanted, RedeemWants, ReissueWants, FirstWants, ActivateWants, ChangeWants
  <2>2. ~PastInvite(st) /\ ~PastBoot(st) /\ ~PastAdvisory(st)
    BY <1>3, <1>6, <1>7, WantsDiffer DEF PastInvite, PastBoot, PastAdvisory
  <2>3. (st.pc = "lock" /\ st.kind = "activate" => invite[st.invite] # "none")'
    BY <1>5, <1>6, <1>7 DEF rows
  <2> QED BY <2>1, <2>2, <2>3 DEF Stands
<1>9. t \in Flows => Told(t, st)
  BY <1>1, <1>6, <1>7 DEF Told
<1> QED BY <1>5, <1>7, <1>8, <1>9, LocksStay, TxMoves

LEMMA RequestChallengeKeeps ==
  ASSUME IInv, NEW f \in Flows, RequestChallenge(f)
  PROVE  IInv'
<1>1. f \in Txs /\ act[f].pc = "idle" /\ act[f] \in Records /\ Told(f, act[f])
  BY Unstarted DEF RequestChallenge, Txs
<1>2. CASE Set(f, [act[f] EXCEPT !.pc = "ceremony"]) /\ UNCHANGED <<rows, lock, desk>>
  <2>1. PICK st \in Records : st.pc = "ceremony" /\ act' = [act EXCEPT ![f] = st]
    <3> DEFINE x == [act[f] EXCEPT !.pc = "ceremony"]
    <3>1. x \in Records /\ x.pc = "ceremony" /\ act' = [act EXCEPT ![f] = x]
      BY <1>1, <1>2 DEF Records, Set
    <3> HIDE DEF x
    <3> QED BY <3>1
  <2>2. Stands(f, st)' /\ Told(f, st)
    BY <1>1, <2>1 DEF Stands, PastInvite, PastBoot, PastAdvisory, Told
  <2> QED BY <1>1, <1>2, <2>1, <2>2, LocksStay, TxMoves
<1>3. CASE Ends(f, "system_error")
  BY <1>1, <1>3, StopsKeeps DEF Ends
<1> QED BY <1>2, <1>3 DEF RequestChallenge

LEMMA CancelKeeps ==
  ASSUME IInv, NEW f \in Flows, Cancel(f)
  PROVE  IInv'
  BY StopsKeeps DEF Cancel, Ends, Txs

LEMMA RegisterKeeps ==
  ASSUME IInv, NEW f \in Flows, Register(f)
  PROVE  IInv'
<1>1. f \in Txs /\ act[f].pc = "ceremony"
  BY DEF Register, Txs
<1>2. ASSUME NEW result \in {"refused", "system_error"}, Stops(f, "answer", result),
             UNCHANGED <<rows, lock>>
      PROVE  IInv'
  BY <1>1, <1>2, StopsKeeps
<1>3. ASSUME NEW i \in Invites, NEW code \in {issued[i] - 1, issued[i]},
             invite[i] # "none", Start(f, "redeem", i, code)
      PROVE  IInv'
  <2>1. code \in Nat /\ i \in Targets
    BY <1>3 DEF IInv, OnFile, TypeInv, Targets
  <2> QED BY <1>1, <1>3, <2>1, StartKeeps DEF Kinds
<1> QED BY <1>2, <1>3 DEF Register

LEMMA RegisterFirstKeeps ==
  ASSUME IInv, NEW f \in Flows, RegisterFirst(f)
  PROVE  IInv'
<1>1. f \in Txs /\ act[f].pc = "ceremony" /\ NoInvite \in Targets
  BY DEF RegisterFirst, Txs, Targets
<1>2. ASSUME NEW result \in {"refused", "system_error"}, Stops(f, "answer", result),
             UNCHANGED <<rows, lock>>
      PROVE  IInv'
  BY <1>1, <1>2, StopsKeeps
<1>3. CASE Start(f, "first", NoInvite, 0)
  BY <1>1, <1>3, StartKeeps DEF Kinds
<1> QED BY <1>2, <1>3 DEF RegisterFirst

LEMMA CallOpKeeps ==
  ASSUME IInv, NEW o \in Ops, CallOp(o)
  PROVE  IInv'
<1>1. PICK i \in Invites, kind \in {"activate", "reactivate", "remove"} :
        Start(o, kind, i, 0) /\ invite[i] # "none"
  BY DEF CallOp
<1> QED BY <1>1, StartKeeps DEF CallOp, Txs, Targets, Kinds

(* The answer arrives as it was made, or is lost and shown as an error.    *)
LEMMA AnswerKeeps ==
  ASSUME IInv, NEW f \in Flows, Answer(f)
  PROVE  IInv'
<1>1. f \in Txs \ Ops /\ act[f].pc = "answer" /\ act[f] \in Records /\ Told(f, act[f])
  BY Unstarted, NameAssumption DEF Answer, Txs
<1>2. PICK result \in {act[f].result, "system_error"} : Ends(f, result)
  BY DEF Answer, NoAnswer
<1>3. CASE result = "none"
  <2> DEFINE x == [Idle EXCEPT !.pc = "done", !.result = "none", !.invite = NoInvite]
  <2>1. x \in Records /\ x.pc = "done" /\ x.result = "none"
    BY IdleTyped DEF Records, Idle, Targets
  <2>2. act' = [act EXCEPT ![f] = x] /\ UNCHANGED <<rows, lock>>
    BY <1>1, <1>2, <1>3 DEF Ends, Stops, Set
  <2> HIDE DEF x
  <2>3. PICK st \in Records : st = x
    BY <2>1
  <2>4. Stands(f, st)' /\ Told(f, st)
    BY <2>1, <2>3 DEF Stands, PastInvite, PastBoot, PastAdvisory, Told
  <2> QED BY <1>1, <2>2, <2>3, <2>4, LocksStay, TxMoves
<1>4. CASE result # "none"
  <2>1. result \in {"ok", "refused", "system_error"}
    BY <1>1, <1>2, <1>4 DEF Records
  <2>2. PICK st \in Records :
          /\ act' = [act EXCEPT ![f] = st] /\ st.pc = "done" /\ st.result = result
          /\ st.invite = IF result = "ok" THEN act[f].invite ELSE NoInvite
          /\ Stands(f, st)'
    BY <1>1, <1>2, <2>1, StopsStand DEF Ends
  <2>3. Told(f, st)
    BY <1>1, <1>2, <2>2 DEF Told
  <2> QED BY <1>1, <1>2, <2>2, <2>3, LocksStay, TxMoves DEF Ends
<1> QED BY <1>3, <1>4

LEMMA ResendStartKeeps ==
  ASSUME IInv, NEW c \in Calls, act[c].pc = "idle", desk.row \in Invites,
         Start(c, "reissue", desk.row, 0)
  PROVE  IInv'
  BY StartKeeps DEF Txs, Targets, Kinds

LEMMA ResendAnswerKeeps ==
  ASSUME IInv, NEW c \in Calls, ResendAnswer(c)
  PROVE  IInv'
<1>1. c \in Txs /\ c \notin Flows
  BY NameAssumption DEF Txs
<1>2. act' = [act EXCEPT ![c] = Idle] /\ UNCHANGED <<rows, lock>>
  BY DEF ResendAnswer, Set
<1>3. Stands(c, Idle)'
  BY DEF Stands, PastInvite, PastBoot, PastAdvisory, Idle
<1> QED BY <1>1, <1>2, <1>3, IdleTyped, LocksStay, TxMoves

-----------------------------------------------------------------------------
(* The tables change by no transaction of these.                           *)
LEMMA OthersKeep ==
  ASSUME IInv, UNCHANGED <<users, keys, lock, act>>,
         invite' \in [Invites -> {"none", "open", "consumed"}],
         member' \in [Invites -> {"none", "pending", "active", "former"}],
         issued' \in [Invites -> Nat], boot' \in [Invites -> Nat], dead' \in [Invites -> Nat],
         \A i \in Invites : invite[i] # "none" =>
           /\ invite'[i] = invite[i] /\ issued'[i] = issued[i]
           /\ boot'[i] = boot[i] /\ member'[i] = member[i],
         \A i \in Invites : invite[i] = "none" =>
           \/ invite'[i] = "none" /\ issued'[i] = issued[i] /\ boot'[i] = boot[i]
           \/ invite'[i] = "open" /\ issued'[i] = 1 /\ boot'[i] = 1
  PROVE  IInv'
<1>1. TypeInv'
  BY DEF IInv, TypeInv
<1>2. OnFile' /\ OneWayIn'
  <2>1. ASSUME NEW i \in Invites
        PROVE  /\ boot'[i] \in {0, issued'[i]}
               /\ invite'[i] # "none" => issued'[i] > 0
               /\ invite'[i] = "consumed" <=> invite[i] = "consumed"
               /\ invite[i] = "consumed" => boot'[i] = boot[i] /\ member'[i] = member[i]
    BY DEF IInv, OnFile, OneWayIn, TypeInv
  <2> QED BY <2>1 DEF IInv, OnFile, OneWayIn
<1>3. ASSUME NEW t \in Txs PROVE Stands(t, act[t])'
  <2>1. Stands(t, act[t]) /\ act[t] \in Records
    BY Unstarted
  <2>2. PastInvite(act[t]) \/ (act[t].pc = "lock" /\ act[t].kind = "activate") =>
          act[t].invite \in Invites /\ invite[act[t].invite] # "none"
    BY <2>1 DEF Stands, Wanted, PastInvite
  <2>3. PastBoot(act[t]) => PastInvite(act[t])
    BY <2>1, PastBootPastInvite
  <2> QED BY <2>1, <2>2, <2>3 DEF Stands, Wanted, PastInvite, PastBoot, PastAdvisory
<1>4. AllStand' /\ AllTold'
  BY <1>3 DEF IInv, AllStand, AllTold, Told, Unbound
<1> QED BY <1>1, <1>2, <1>4 DEF IInv

LEMMA IssueKeeps ==
  ASSUME IInv, NEW i \in Invites, Issue(i)
  PROVE  IInv'
  BY OthersKeep DEF Issue, IInv, TypeInv

LEMMA EnvironmentKeeps ==
  ASSUME IInv, NEW i \in Invites,
         Lapse(i) \/ CodeDies(i)
  PROVE  IInv'
  BY OthersKeep DEF Lapse, CodeDies, IInv, TypeInv

LEMMA StutterKeeps ==
  ASSUME IInv, UNCHANGED <<rows, lock, act>>
  PROVE  IInv'
  BY OthersKeep DEF rows, IInv, TypeInv

-----------------------------------------------------------------------------
(* The list acts on invites, or on none.                                   *)
DeskInv ==
  desk \in [row : Targets, phase : {"confirm", "submitting", "code_shown", "error"},
            again : Calls \cup {NoTx}]

LEMMA DeskKeeps ==
  ASSUME DeskInv, [Next]_vars
  PROVE  DeskInv'
<1> USE DEF DeskInv
<1>1. CASE UNCHANGED desk
  BY <1>1
<1>2. ASSUME NEW i \in Invites, StartResend(i) PROVE DeskInv'
  BY <1>2 DEF StartResend, Targets
<1>3. CASE CloseRow
  BY <1>3 DEF CloseRow, Targets
<1>4. ASSUME NEW c \in Calls, ConfirmGo(c) \/ SendAgain(c) \/ ResendAnswer(c) PROVE DeskInv'
  BY <1>4 DEF ConfirmGo, SendAgain, ResendAnswer
<1>5. ASSUME NEW t \in Txs, Serve(t) \/ Abort(t) PROVE UNCHANGED desk
  BY <1>5 DEF Serve, Abort, LockRow, Redeem, Bootstrap, Reissue, Activate, Reactivate, Remove
<1>6. ASSUME NEW f \in Flows,
             RequestChallenge(f) \/ Cancel(f) \/ Answer(f) \/ Register(f) \/ RegisterFirst(f)
      PROVE  UNCHANGED desk
  BY <1>6 DEF RequestChallenge, Cancel, Answer, Ends, Register, RegisterFirst
<1>7. ASSUME NEW i \in Invites, Issue(i) \/ Lapse(i) \/ CodeDies(i) PROVE UNCHANGED desk
  BY <1>7 DEF Issue, Lapse, CodeDies
<1>8. ASSUME NEW o \in Ops, CallOp(o) PROVE UNCHANGED desk
  BY <1>8 DEF CallOp
<1>9. CASE UNCHANGED vars
  BY <1>9 DEF vars
<1> QED BY <1>1, <1>2, <1>3, <1>4, <1>5, <1>6, <1>7, <1>8, <1>9 DEF Next

LEMMA NextKeeps ==
  ASSUME IInv, DeskInv, [Next]_vars
  PROVE  IInv'
<1>1. ASSUME NEW t \in Txs, Serve(t) \/ Abort(t) PROVE IInv'
  BY <1>1, LockRowKeeps, RedeemKeeps, BootstrapKeeps, ReissueKeeps, OpKeeps, AbortKeeps DEF Serve
<1>2. ASSUME NEW f \in Flows,
             RequestChallenge(f) \/ Cancel(f) \/ Answer(f) \/ Register(f) \/ RegisterFirst(f)
      PROVE  IInv'
  BY <1>2, RequestChallengeKeeps, CancelKeeps, AnswerKeeps, RegisterKeeps, RegisterFirstKeeps
<1>3. ASSUME NEW c \in Calls, ConfirmGo(c) \/ SendAgain(c) \/ ResendAnswer(c) PROVE IInv'
  <2>1. CASE ResendAnswer(c)
    BY <2>1, ResendAnswerKeeps
  <2>2. CASE ConfirmGo(c) \/ SendAgain(c)
    BY <2>2, ResendStartKeeps DEF ConfirmGo, SendAgain, DeskInv, Targets
  <2> QED BY <1>3, <2>1, <2>2
<1>4. ASSUME NEW i \in Invites, Issue(i) \/ Lapse(i) \/ CodeDies(i) PROVE IInv'
  BY <1>4, IssueKeeps, EnvironmentKeeps
<1>5. ASSUME NEW o \in Ops, CallOp(o) PROVE IInv'
  BY <1>5, CallOpKeeps
<1>6. ASSUME NEW i \in Invites, StartResend(i) PROVE IInv'
  BY <1>6, StutterKeeps DEF StartResend
<1>7. CASE CloseRow
  BY <1>7, StutterKeeps DEF CloseRow
<1>8. CASE UNCHANGED vars
  BY <1>8, StutterKeeps DEF vars
<1> QED BY <1>1, <1>2, <1>3, <1>4, <1>5, <1>6, <1>7, <1>8 DEF Next

-----------------------------------------------------------------------------
(* What a redemption, a re-send or a bootstrap that holds a row still      *)
(* wants: rows later in its order.                                         *)
After(row) ==
  CASE row = "invite" -> {<<"boot", "user", "member">>, <<"user", "member">>, <<"member">>,
                          <<"boot">>, <<>>}
    [] row = "boot" -> {<<"user", "member">>, <<"member">>, <<>>}
    [] row = "user" -> {<<"member">>, <<>>}
    [] row \in {"member", "advisory"} -> {<<>>}
HoldsFor(r, a) == a.pc = "lock" /\ r[2] = a.invite /\ a.want \in After(r[1])
Held ==
  \A t \in Flows \cup Calls, r \in LockRows : lock[r] = t => HoldsFor(r, act[t])

(* One that is not in its transaction holds nothing, and moves on.         *)
LEMMA HeldByOthers ==
  ASSUME IInv, Held, NEW t \in Txs, \A u \in Txs \ {t} : act'[u] = act[u],
         \/ Release(t)
         \/ lock' = lock /\ (t \in Ops \/ act[t].pc # "lock")
  PROVE  Held'
<1>1. ASSUME NEW u \in Flows \cup Calls, NEW r \in LockRows, lock'[r] = u
      PROVE  lock[r] = u /\ u # t
  <2>1. CASE Release(t)
    BY <1>1, <2>1, NameAssumption DEF Release, IInv, TypeInv, Txs
  <2>2. CASE lock' = lock /\ (t \in Ops \/ act[t].pc # "lock")
    BY <1>1, <2>2, NameAssumption DEF Held, HoldsFor
  <2> QED BY <2>1, <2>2
<1>2. \A u \in Flows \cup Calls : u \in Txs
  BY DEF Txs
<1> QED BY <1>1, <1>2 DEF Held, HoldsFor

LEMMA LockRowHeld ==
  ASSUME IInv, Held, NEW t \in Txs, LockRow(t)
  PROVE  Held'
<1> DEFINE row == Head(act[t].want)
           r == <<row, act[t].invite>>
<1>1. act[t].pc = "lock" /\ act[t].want # <<>> /\ lock[r] \in {NoTx, t}
  BY DEF LockRow
<1>2. \A u \in Txs \ {t} : act'[u] = act[u]
  BY DEF LockRow, Stops, Set, IInv, TypeInv
<1>3. CASE ~Passes(t, row)
  BY <1>2, <1>3, HeldByOthers DEF LockRow
<1>4. CASE Passes(t, row)
  <2>1. lock' = [lock EXCEPT ![r] = t] /\ act' = [act EXCEPT ![t].want = Tail(@)]
    BY <1>4 DEF LockRow, Set
  <2>2. \A x \in LockRows : lock'[x] = lock[x] \/ (x = r /\ lock'[x] = t)
    BY <2>1 DEF IInv, TypeInv
  <2>3. act[t] \in Records /\ Wanted(t, act[t])
    BY <1>1, Unstarted DEF Stands
  <2>4. /\ act'[t].pc = "lock" /\ act'[t].invite = act[t].invite
        /\ act'[t].want = Tail(act[t].want)
    BY <1>1, <2>1, <2>3 DEF IInv, TypeInv, Records
  <2>5. ASSUME t \in Flows \cup Calls PROVE act'[t].want \in After(row)
    <3>1. act[t].want \in RedeemWants \cup ReissueWants \cup FirstWants
      BY <2>3, <2>5, NameAssumption DEF Wanted
    <3> QED BY <1>1, <2>4, <3>1, WantFacts
            DEF RedeemWants, ReissueWants, FirstWants, After
  <2>6. ASSUME NEW x \in LockRows, lock[x] = t, t \in Flows \cup Calls
        PROVE  act'[t].want \in After(x[1]) /\ x[2] = act[t].invite
    <3>1. act[t].want \in After(x[1]) /\ x[2] = act[t].invite
      BY <2>6 DEF Held, HoldsFor
    <3>2. x[1] \in {"invite", "boot", "user", "member", "advisory"}
      BY DEF LockRows
    <3> QED BY <1>1, <2>4, <3>1, <3>2, WantFacts DEF After
  <2>7. ASSUME NEW u \in Flows \cup Calls, NEW x \in LockRows, lock'[x] = u
        PROVE  HoldsFor(x, act'[u])
    <3>1. CASE u # t
      <4>1. lock[x] = u /\ act'[u] = act[u]
        BY <1>2, <2>2, <2>7, <3>1 DEF Txs
      <4> QED BY <4>1 DEF Held
    <3>2. CASE u = t
      <4>1. x = r \/ lock[x] = t
        BY <2>2, <2>7, <3>2
      <4> QED BY <2>4, <2>5, <2>6, <2>7, <3>2, <4>1 DEF HoldsFor
    <3> QED BY <3>1, <3>2
  <2> QED BY <2>7 DEF Held, HoldsFor
<1> QED BY <1>3, <1>4

LEMMA HeldKeeps ==
  ASSUME IInv, Held, [Next]_vars
  PROVE  Held'
<1>1. CASE UNCHANGED <<lock, act>>
  BY <1>1 DEF Held, HoldsFor
<1>2. ASSUME NEW t \in Txs, Serve(t) \/ Abort(t) PROVE Held'
  <2>1. CASE LockRow(t)
    BY <2>1, LockRowHeld
  <2>2. CASE ~LockRow(t)
    <3>1. Release(t)
      BY <1>2, <2>2 DEF Serve, Abort, Redeem, Bootstrap, Reissue, Activate, Reactivate, Remove,
                        Committing
    <3>2. \A u \in Txs \ {t} : act'[u] = act[u]
      BY <1>2, <2>2 DEF Serve, Abort, Redeem, Bootstrap, Reissue, Activate, Reactivate, Remove,
                        Stops, Set, IInv, TypeInv
    <3> QED BY <3>1, <3>2, HeldByOthers
  <2> QED BY <2>1, <2>2
<1>3. ASSUME NEW f \in Flows,
             RequestChallenge(f) \/ Cancel(f) \/ Answer(f) \/ Register(f) \/ RegisterFirst(f)
      PROVE  Held'
  <2>1. f \in Txs /\ act[f].pc # "lock" /\ lock' = lock
    BY <1>3 DEF RequestChallenge, Cancel, Answer, Register, RegisterFirst, Ends, Start, Txs
  <2>2. \A u \in Txs \ {f} : act'[u] = act[u]
    BY <1>3 DEF RequestChallenge, Cancel, Answer, Register, RegisterFirst, Ends, Start, Stops,
                Set, IInv, TypeInv
  <2> QED BY <2>1, <2>2, HeldByOthers
<1>4. ASSUME NEW c \in Calls, ConfirmGo(c) \/ SendAgain(c) \/ ResendAnswer(c) PROVE Held'
  <2>1. c \in Txs /\ act[c].pc # "lock" /\ lock' = lock
    BY <1>4 DEF ConfirmGo, SendAgain, ResendAnswer, Start, Txs
  <2>2. \A u \in Txs \ {c} : act'[u] = act[u]
    BY <1>4 DEF ConfirmGo, SendAgain, ResendAnswer, Start, Set, IInv, TypeInv
  <2> QED BY <2>1, <2>2, HeldByOthers
<1>5. ASSUME NEW o \in Ops, CallOp(o) PROVE Held'
  <2>1. o \in Txs /\ lock' = lock
    BY <1>5 DEF CallOp, Start, Txs
  <2>2. \A u \in Txs \ {o} : act'[u] = act[u]
    BY <1>5 DEF CallOp, Start, Set, IInv, TypeInv
  <2> QED BY <2>1, <2>2, HeldByOthers
<1>6. ASSUME NEW i \in Invites,
             Issue(i) \/ Lapse(i) \/ CodeDies(i) \/ StartResend(i)
      PROVE  UNCHANGED <<lock, act>>
  BY <1>6 DEF Issue, Lapse, CodeDies, StartResend
<1>7. CASE CloseRow
  BY <1>1, <1>7 DEF CloseRow
<1>8. CASE UNCHANGED vars
  BY <1>1, <1>8 DEF vars
<1> QED BY <1>1, <1>2, <1>3, <1>4, <1>5, <1>6, <1>7, <1>8 DEF Next

-----------------------------------------------------------------------------
LEMMA Invariant == Spec => [](IInv /\ DeskInv /\ Held)
<1>1. Init => IInv /\ DeskInv
  BY InitIInv DEF Init, DeskInv, Targets
<1>2. Init => Held
  BY NameAssumption DEF Init, Held, LockRows, Txs
<1>3. IInv /\ DeskInv /\ Held /\ [Next]_vars => (IInv /\ DeskInv /\ Held)'
  BY NextKeeps, DeskKeeps, HeldKeeps
<1> QED BY <1>1, <1>2, <1>3, PTL DEF Spec

(* An invite lets one passkey in, and once it has it is consumed and has   *)
(* no code on file, whatever direct activations, re-sends and removals     *)
(* came between; a consumed invite is of somebody who is or was a member;  *)
(* of any number of bootstraps one makes the first co-chair.               *)
THEOREM OnePasskeyIn == Spec => []OneWayIn
  BY Invariant, PTL DEF IInv

(* The card's ok means that the passkey is bound to the invitee, and its   *)
(* refusal that nothing was.                                               *)
THEOREM CardTellsTruth == Spec => []AnswersAreTrue
<1>1. ASSUME IInv PROVE AnswersAreTrue
  <2>1. \A f \in Flows : Told(f, act[f])
    BY <1>1 DEF IInv, AllTold
  <2> QED BY <2>1 DEF AnswersAreTrue, Told, Unbound, Targets
<1> QED BY <1>1, Invariant, PTL

(* No redemption commits with a code a committed re-send has replaced.     *)
THEOREM RedeemedByNewest == Spec => NewestCodeRedeems
<1>1. ASSUME IInv, NEW f \in Flows, Redeem(f)
      PROVE  act[f].code = issued[act[f].invite]
  <2>1. Stands(f, act[f]) /\ act[f] \in Records
    BY <1>1, Unstarted DEF Txs
  <2>2. PastBoot(act[f]) /\ act[f].pc = "lock" /\ act[f].kind = "redeem"
    BY <1>1 DEF Redeem, Committing, PastBoot
  <2>3. act[f].invite \in Invites
    BY <2>1, <2>2 DEF Stands, Wanted
  <2>4. boot[act[f].invite] = act[f].code /\ act[f].code # 0
    BY <2>1, <2>2 DEF Stands
  <2> QED BY <1>1, <2>3, <2>4 DEF IInv, OnFile
<1>2. IInv => NewestCode
  BY <1>1 DEF NewestCode
<1> QED BY <1>2, Invariant, PTL DEF Spec, NewestCodeRedeems

(* Redemptions, re-sends and bootstraps never wait for one another in a    *)
(* circle: nobody waits for the membership of another of them, so nobody   *)
(* for its users row, so nobody for its code, so nobody for its invite.    *)
THEOREM NoCircle == Spec => []EnrolmentNeverDeadlocks
<1>1. ASSUME IInv, Held, NEW D \in SUBSET (Flows \cup Calls), D # {},
             \A t \in D : \E u \in D : WaitsFor(t, u)
      PROVE  FALSE
  <2>1. ASSUME NEW t \in D
        PROVE  /\ act[t].want \in RedeemWants \cup ReissueWants \cup FirstWants
               /\ act[t].want # <<>>
               /\ \E u \in D : act[u].want \in After(Head(act[t].want))
    <3>1. PICK u \in D : WaitsFor(t, u)
      BY <1>1
    <3>2. act[t].pc = "lock" /\ act[t].want # <<>> /\ t \in Txs
      BY <3>1 DEF WaitsFor, Txs
    <3>3. Wanted(t, act[t])
      BY <1>1, <3>2, Unstarted DEF Stands
    <3>4. act[t].want \in RedeemWants \cup ReissueWants \cup FirstWants
      BY <3>3, NameAssumption DEF Wanted
    <3>5. <<Head(act[t].want), act[t].invite>> \in LockRows
      BY <3>2, <3>3, <3>4, WantFacts
         DEF Wanted, RedeemWants, ReissueWants, FirstWants, ActivateWants, ChangeWants, LockRows
    <3>6. HoldsFor(<<Head(act[t].want), act[t].invite>>, act[u])
      BY <1>1, <3>1, <3>5 DEF WaitsFor, Held
    <3> QED BY <3>2, <3>4, <3>6 DEF HoldsFor
  <2>2. \A t \in D : act[t].want \notin {<<"member">>, <<"advisory">>}
    BY <2>1, WantFacts DEF After
  <2>3. \A t \in D : act[t].want # <<"user", "member">>
    BY <2>1, <2>2, WantFacts DEF After
  <2>4. \A t \in D : act[t].want \notin {<<"boot", "user", "member">>, <<"boot">>}
    BY <2>1, <2>2, <2>3, WantFacts DEF After
  <2>5. \A t \in D :
          act[t].want \in {<<"invite", "boot", "user", "member">>, <<"invite", "boot">>}
    BY <2>1, <2>2, <2>3, <2>4 DEF RedeemWants, ReissueWants, FirstWants
  <2>6. \A t \in D : Head(act[t].want) = "invite"
    BY <2>5, WantFacts
  <2>7. \A t \in D : \E u \in D : act[u].want \in After("invite")
    BY <2>1, <2>6
  <2> QED BY <1>1, <2>1, <2>2, <2>3, <2>4, <2>7 DEF After
<1>2. IInv /\ Held => EnrolmentNeverDeadlocks
  BY <1>1 DEF EnrolmentNeverDeadlocks
<1> QED BY <1>2, Invariant, PTL
=============================================================================
