----------------------------- MODULE Enrolment ------------------------------
(***************************************************************************)
(* How a person gets in: issue_member_invite and redeem_invite_complete    *)
(* (migration 0041), reissue_member_totp (0043), the redeem-invite edge    *)
(* function, the /redeem card, and the co-chair's pending-invite list; how *)
(* the first one does: bootstrap_first_co_chair (0035) behind its edge     *)
(* function and the /bootstrap page; and the calls of committee-op that    *)
(* write the invitee's membership meanwhile (0002), the direct             *)
(* committee_activate_membership among them.                               *)
(*                                                                         *)
(* An invite and its invitee are created together, so one name stands for  *)
(* both.  A code is the number of its issue: 1 is the first the invitee    *)
(* was given, 0 one nobody issued.  The SQL functions are transactions     *)
(* under READ COMMITTED that take their row locks one by one.              *)
(***************************************************************************)
EXTENDS Naturals, Sequences, FiniteSets

CONSTANTS
  Invites,
  Flows,     \* submissions of the /redeem card or the /bootstrap page, each with
             \* its own passkey
  Calls,     \* re-send calls of the co-chair's list
  Ops,       \* committee-op calls on an invitee's membership
  MaxCode,   \* bound: codes issued per invite
  NoTx, NoInvite

Txs == Flows \cup Calls \cup Ops

ASSUME NameAssumption ==
  /\ Flows \cap Calls = {} /\ Flows \cap Ops = {} /\ Calls \cap Ops = {}
  /\ NoTx \notin Txs /\ NoInvite \notin Invites

VARIABLES
  users,   \* the users table has a row
  invite,  \* committee_invite: "none", "open" or "consumed"
  lapsed,  \* invites past expires_at
  issued,  \* codes issued for each invite
  boot,    \* the code of the auth_totp_bootstraps row; 0 = no row
  dead,    \* the code on file once it is past its 15 minutes; 0 before that
  member,  \* committee_membership of the invitee
  keys,    \* webauthn_credentials, as <<flow, invite>>, the first co-chair's
           \* with NoInvite
  lock,    \* the transaction holding each row
  act,     \* what each submission and each call is doing
  desk     \* the co-chair's list: the acting row, its phase, the re-send in flight

rows == <<users, invite, lapsed, issued, boot, dead, member, keys>>
vars == <<rows, lock, act, desk>>

Idle ==
  [pc |-> "idle", kind |-> "none", invite |-> NoInvite, code |-> 0, want |-> <<>>,
   dead |-> 0, late |-> FALSE, result |-> "none"]

Set(t, r) == act' = [act EXCEPT ![t] = r]
(* What becomes of the answer of a membership call is left out.            *)
Stops(t, pc, result) ==
  Set(t, IF t \in Ops THEN Idle
         ELSE [Idle EXCEPT !.pc = pc, !.result = result,
                           !.invite = IF result = "ok" THEN act[t].invite ELSE NoInvite])

Release(t) == lock' = [r \in DOMAIN lock |-> IF lock[r] = t THEN NoTx ELSE lock[r]]

-----------------------------------------------------------------------------
(* Mutation: the bootstrap is replaced before the invite is looked at.     *)
BootFirst(kind) ==
  CASE kind = "redeem" -> <<"invite", "boot", "user", "member">>
    [] kind = "reissue" -> <<"boot", "invite">>
    [] kind = "first" -> <<"advisory">>
    [] kind = "activate" -> <<"member", "invite", "user">>
    [] kind \in {"reactivate", "remove"} -> <<"member", "user">>

(* The rows a function locks, in its order, by FOR UPDATE or by the UPDATE *)
(* or DELETE itself; for the first co-chair the advisory lock.  A redeem   *)
(* stamps its users row before committee_activate_membership, inside it,   *)
(* locks the membership; the membership calls go the other way.  (The      *)
(* other co-chairs' rows a removal locks are CommitteeMembership's, as is  *)
(* committee_set_roles, which changes nothing that is kept here.)          *)
LockOrder(kind) ==
  CASE kind = "redeem" -> <<"invite", "boot", "user", "member">>
    [] kind = "reissue" -> <<"invite", "boot">>
    [] kind = "first" -> <<"advisory">>
    [] kind = "activate" -> <<"member", "invite", "user">>
    [] kind \in {"reactivate", "remove"} -> <<"member", "user">>

(* now() is the start of the transaction: what has lapsed by then counts.  *)
Start(t, kind, i, code) ==
  /\ Set(t, [act[t] EXCEPT !.pc = "lock", !.kind = kind, !.invite = i, !.code = code,
             !.want = LockOrder(kind), !.late = i \in lapsed,
             !.dead = IF kind = "redeem" THEN dead[i] ELSE 0])
  /\ UNCHANGED <<rows, lock>>

(* Mutation: re-sending does not look at the invite's consumed_at.         *)
ResendsAnyway(t) == act[t].kind = "reissue" \/ invite[act[t].invite] = "open"
(* Neither consumed nor past its TTL.                                      *)
InviteStands(t) == invite[act[t].invite] = "open" /\ ~act[t].late

(* Mutation: any code the invitee was ever given is good.                  *)
KnownCode(t) == act[t].code \in 1..issued[act[t].invite]
(* The row is there, its code is not past its TTL and is the one given.    *)
(* A wrong code adds to wrong_attempts and then raises, which rolls the    *)
(* addition back: the row never locks.                                     *)
CodeStands(t) ==
  LET code == boot[act[t].invite] IN
    code # 0 /\ code # act[t].dead /\ act[t].code = code

(* The memberships each function goes on with.                             *)
Expected(kind) ==
  CASE kind \in {"redeem", "activate"} -> {"pending"}
    [] kind = "reactivate" -> {"pending", "former"}
    [] kind = "remove" -> {"active"}

(* What a function checks on the row it just locked; an activation writes  *)
(* consumed_at whatever the invite has become.                             *)
Passes(t, row) ==
  CASE row = "invite" -> act[t].kind = "activate" \/ InviteStands(t)
    [] row = "boot" -> act[t].kind = "reissue" \/ CodeStands(t)
    [] row = "user" -> TRUE
    [] row = "member" -> member[act[t].invite] \in Expected(act[t].kind)
    [] row = "advisory" -> ~users

(* An exception rolls back and the edge function maps it: the invite's,    *)
(* the code's and BOOTSTRAP_ALREADY_DONE are refusals, already_active is   *)
(* redeem_failed, which the card shows as a system error.                  *)
Mapped(t, row) ==
  IF row = "member" /\ member[act[t].invite] = "active" THEN "system_error" ELSE "refused"

LockRow(t) ==
  /\ act[t].pc = "lock" /\ act[t].want # <<>>
  /\ LET row == Head(act[t].want)
         r == <<row, act[t].invite>>
     IN
       /\ lock[r] \in {NoTx, t}
       /\ IF Passes(t, row)
          THEN lock' = [lock EXCEPT ![r] = t] /\ Set(t, [act[t] EXCEPT !.want = Tail(@)])
          ELSE Release(t) /\ Stops(t, "answer", Mapped(t, row))
  /\ UNCHANGED <<rows, desk>>

(* A lost connection, or the victim of the deadlock detector: rolled back. *)
Abort(t) ==
  /\ act[t].pc = "lock"
  /\ Release(t) /\ Stops(t, "answer", "system_error")
  /\ UNCHANGED <<rows, desk>>

Committing(t, kind) ==
  /\ act[t].pc = "lock" /\ act[t].want = <<>> /\ act[t].kind = kind
  /\ Release(t)

Consumed(i) == [invite EXCEPT ![i] = "consumed"]

(* redeem_invite_complete: the code is deleted, the passkey bound to the   *)
(* invite's own target, the invite consumed and the membership activated.  *)
Redeem(f) ==
  LET i == act[f].invite IN
    /\ Committing(f, "redeem")
    /\ boot' = [boot EXCEPT ![i] = 0] /\ dead' = [dead EXCEPT ![i] = 0]
    /\ keys' = keys \cup {<<f, i>>}
    /\ invite' = Consumed(i)
    /\ member' = [member EXCEPT ![i] = "active"]
    /\ Stops(f, "answer", "ok")
    /\ UNCHANGED <<users, lapsed, issued, desk>>

(* bootstrap_first_co_chair: the user, the membership and the passkey.     *)
Bootstrap(f) ==
  /\ Committing(f, "first")
  /\ users' = TRUE
  /\ keys' = keys \cup {<<f, NoInvite>>}
  /\ Stops(f, "answer", "ok")
  /\ UNCHANGED <<invite, lapsed, issued, boot, dead, member, desk>>

(* reissue_member_totp: DELETE, then INSERT of a fresh row.                *)
Reissue(c) ==
  LET i == act[c].invite IN
    /\ Committing(c, "reissue")
    /\ issued' = [issued EXCEPT ![i] = @ + 1]
    /\ boot' = [boot EXCEPT ![i] = issued[i] + 1] /\ dead' = [dead EXCEPT ![i] = 0]
    /\ Stops(c, "answer", "ok")
    /\ UNCHANGED <<users, invite, lapsed, member, keys, desk>>

(* committee_activate_membership by itself: no passkey, and the code stays *)
(* on file.                                                                *)
Activate(o) ==
  /\ Committing(o, "activate")
  /\ invite' = Consumed(act[o].invite)
  /\ member' = [member EXCEPT ![act[o].invite] = "active"]
  /\ Stops(o, "answer", "ok")
  /\ UNCHANGED <<users, lapsed, issued, boot, dead, keys, desk>>

(* committee_reactivate_member and committee_remove_member, as far as the  *)
(* invitee's rows go; CommitteeMembership has their checks.                *)
Reactivate(o) ==
  /\ Committing(o, "reactivate")
  /\ member' = [member EXCEPT ![act[o].invite] = "active"]
  /\ Stops(o, "answer", "ok")
  /\ UNCHANGED <<users, invite, lapsed, issued, boot, dead, keys, desk>>

Remove(o) ==
  /\ Committing(o, "remove")
  /\ member' = [member EXCEPT ![act[o].invite] = "former"]
  /\ Stops(o, "answer", "ok")
  /\ UNCHANGED <<users, invite, lapsed, issued, boot, dead, keys, desk>>

-----------------------------------------------------------------------------
(* committee-op is called for an invitee.  An activation looks at the      *)
(* invite first, without locking it; refused there it leaves no trace.     *)
CallOp(o) ==
  /\ act[o].pc = "idle"
  /\ \E i \in Invites, kind \in {"activate", "reactivate", "remove"} :
       /\ invite[i] # "none"
       /\ kind = "activate" => invite[i] = "open" /\ i \notin lapsed
       /\ Start(o, kind, i, 0)
  /\ UNCHANGED desk

(* issue_member_invite: the user, the bootstrap, the pending membership    *)
(* and the invite, all new rows, in one transaction.                       *)
Issue(i) ==
  /\ users /\ invite[i] = "none"
  /\ invite' = [invite EXCEPT ![i] = "open"]
  /\ issued' = [issued EXCEPT ![i] = 1]
  /\ boot' = [boot EXCEPT ![i] = 1]
  /\ member' = [member EXCEPT ![i] = "pending"]
  /\ UNCHANGED <<users, lapsed, dead, keys, lock, act, desk>>

(* Its 7 days pass; a consumed invite is refused with or without that.     *)
Lapse(i) ==
  /\ invite[i] = "open" /\ i \notin lapsed
  /\ lapsed' = lapsed \cup {i}
  /\ UNCHANGED <<users, invite, issued, boot, dead, member, keys, lock, act, desk>>

(* The code on file passes its 15 minutes.                                 *)
CodeDies(i) ==
  /\ dead[i] # boot[i]
  /\ dead' = [dead EXCEPT ![i] = boot[i]]
  /\ UNCHANGED <<users, invite, lapsed, issued, boot, member, keys, lock, act, desk>>

-----------------------------------------------------------------------------
(* The card and the page: the challenge, the ceremony, the register call.  *)
Ends(f, result) ==
  /\ Stops(f, "done", result)
  /\ UNCHANGED <<rows, lock, desk>>

RequestChallenge(f) ==
  /\ act[f].pc = "idle"
  /\ \/ Set(f, [act[f] EXCEPT !.pc = "ceremony"]) /\ UNCHANGED <<rows, lock, desk>>
     \/ Ends(f, "system_error")

(* Shown as cancelled; no property tells it from the server's refusals.    *)
Cancel(f) == act[f].pc = "ceremony" /\ Ends(f, "refused")

(* The register call, with the newest code or one that is wrong by now:    *)
(* handleRegister's throttle, the challenge consumed (or 401), the         *)
(* attestation, and then the function's transaction.                       *)
Register(f) ==
  /\ act[f].pc = "ceremony"
  /\ \/ /\ \E result \in {"refused", "system_error"} : Stops(f, "answer", result)
        /\ UNCHANGED <<rows, lock>>
     \/ \E i \in Invites : \E code \in {issued[i] - 1, issued[i]} :
          invite[i] # "none" /\ Start(f, "redeem", i, code)
  /\ UNCHANGED desk

(* The page's register call: the function is disabled, the challenge or    *)
(* the attestation refused; else its transaction.  Bound: the operator     *)
(* deletes the edge function once it has been used (ADR-0025 A4).          *)
RegisterFirst(f) ==
  /\ act[f].pc = "ceremony" /\ ~users
  /\ \/ /\ \E result \in {"refused", "system_error"} : Stops(f, "answer", result)
        /\ UNCHANGED <<rows, lock>>
     \/ Start(f, "first", NoInvite, 0)
  /\ UNCHANGED desk

(* Mutation: a call that got no answer counts as refused.                  *)
NoAnswerIsNo == "refused"
NoAnswer == "system_error"

Answer(f) ==
  act[f].pc = "answer" /\ \E result \in {act[f].result, NoAnswer} : Ends(f, result)

-----------------------------------------------------------------------------
(* The list: one acting row and one phase for the whole list; the phase is *)
(* looked at while a row acts.                                             *)
StartResend(i) ==
  /\ invite[i] # "none"
  /\ ~(desk.row = i /\ desk.phase = "submitting")
  /\ desk' = [desk EXCEPT !.row = i, !.phase = "confirm"]
  /\ UNCHANGED <<rows, lock, act>>

CloseRow ==
  /\ desk.row # NoInvite /\ desk.phase # "submitting"
  /\ desk' = [desk EXCEPT !.row = NoInvite, !.phase = "confirm"]
  /\ UNCHANGED <<rows, lock, act>>

(* Bound: no more re-sends are made than MaxCode leaves room for.          *)
Room(i) ==
  issued[i] + Cardinality({c \in Calls : act[c].invite = i /\ act[c].pc = "lock"}) < MaxCode

ConfirmGo(c) ==
  /\ desk.row # NoInvite /\ desk.phase = "confirm" /\ act[c].pc = "idle"
  /\ Room(desk.row)
  /\ Start(c, "reissue", desk.row, 0)
  /\ desk' = [desk EXCEPT !.phase = "submitting"]

(* resendNowAgain, with its in-flight guard.                               *)
SendAgain(c) ==
  /\ desk.row # NoInvite /\ desk.phase = "code_shown" /\ desk.again = NoTx
  /\ act[c].pc = "idle" /\ Room(desk.row)
  /\ Start(c, "reissue", desk.row, 0)
  /\ desk' = [desk EXCEPT !.again = c]

(* The answer is put on the list whichever row acts by then.               *)
ResendAnswer(c) ==
  /\ act[c].pc = "answer"
  /\ Set(c, Idle) /\ UNCHANGED <<rows, lock>>
  /\ LET again == desk.again = c
         Shows(phase) == [desk EXCEPT !.again = IF again THEN NoTx ELSE @,
                                      !.phase = IF desk.row = NoInvite THEN @ ELSE phase]
     IN
       \/ act[c].result = "ok" /\ desk' = Shows(IF again THEN desk.phase ELSE "code_shown")
       \/ desk' = Shows("error")

-----------------------------------------------------------------------------
(* An instance just deployed, or one with its first co-chair.              *)
Init ==
  /\ users \in BOOLEAN
  /\ invite = [i \in Invites |-> "none"] /\ lapsed = {}
  /\ issued = [i \in Invites |-> 0] /\ boot = issued /\ dead = issued
  /\ member = [i \in Invites |-> "none"] /\ keys = {}
  /\ lock = [r \in ({"invite", "boot", "user", "member"} \X Invites)
                     \cup {<<"advisory", NoInvite>>} |-> NoTx]
  /\ act = [t \in Txs |-> Idle]
  /\ desk = [row |-> NoInvite, phase |-> "confirm", again |-> NoTx]

(* What a server does with a call it has.                                  *)
Serve(t) ==
  \/ LockRow(t)
  \/ t \in Flows /\ (Redeem(t) \/ Bootstrap(t))
  \/ t \in Calls /\ Reissue(t)
  \/ t \in Ops /\ (Activate(t) \/ Reactivate(t) \/ Remove(t))

Next ==
  \/ \E t \in Txs : Serve(t) \/ Abort(t)
  \/ \E f \in Flows : RequestChallenge(f) \/ Cancel(f) \/ Answer(f)
  \/ \E f \in Flows : Register(f) \/ RegisterFirst(f)
  \/ \E c \in Calls : ConfirmGo(c) \/ SendAgain(c) \/ ResendAnswer(c)
  \/ \E o \in Ops : CallOp(o)
  \/ \E i \in Invites : Issue(i) \/ Lapse(i) \/ CodeDies(i)
  \/ \E i \in Invites : StartResend(i)
  \/ CloseRow

Spec == Init /\ [][Next]_vars

-----------------------------------------------------------------------------
(* One passkey comes in by an invite, and one as the first co-chair's      *)
(* however many bootstraps run at once.  Once it has, the invite is        *)
(* consumed and no code for it is on file, whatever re-send was under way; *)
(* and an invite, redeemed or activated directly, is never spent on        *)
(* somebody who stays pending.                                             *)
OneWayIn ==
  /\ \A k, l \in keys : k[2] = l[2] => k = l
  /\ \A i \in Invites : (\E f \in Flows : <<f, i>> \in keys) =>
                          invite[i] = "consumed" /\ boot[i] = 0
  /\ \A i \in Invites : invite[i] = "consumed" => member[i] \in {"active", "former"}

(* A redemption commits with the newest code alone: a re-send that has     *)
(* committed ends every earlier code, even one already being redeemed.     *)
NewestCode == \A f \in Flows : Redeem(f) => act[f].code = issued[act[f].invite]
NewestCodeRedeems == [][NewestCode]_vars

(* What the card says is so: after ok the passkey is the invitee's; after  *)
(* a refusal, a throttle or a cancelled ceremony nothing was bound.        *)
AnswersAreTrue ==
  \A f \in Flows :
    act[f].pc = "done" =>
      /\ act[f].result = "ok" => <<f, act[f].invite>> \in keys
      /\ act[f].result = "refused" => \A i \in Invites \cup {NoInvite} : <<f, i>> \notin keys

(* Redemptions, re-sends and bootstraps never wait for each other in a     *)
(* circle: a deadlock takes a membership call.  (One is there to be had: a *)
(* reactivation or a direct activation holds the membership and waits for  *)
(* the users or the invite row of a redemption that waits for it.)         *)
WaitsFor(t, u) ==
  /\ act[t].pc = "lock" /\ act[t].want # <<>>
  /\ u # t /\ lock[<<Head(act[t].want), act[t].invite>>] = u
EnrolmentNeverDeadlocks ==
  \A D \in SUBSET (Flows \cup Calls) :
    D # {} => \E t \in D : \A u \in D : ~WaitsFor(t, u)
=============================================================================
