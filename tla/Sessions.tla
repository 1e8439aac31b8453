------------------------------ MODULE Sessions -------------------------------
(***************************************************************************)
(* One user's sessions across browser tabs: the mint-session edge function *)
(* with the SQL of migrations 0003 and 0017, auth-op with the revocations  *)
(* of 0001 and 0046, the transport's 401 handling, the JWT store that the  *)
(* tabs keep in step over a BroadcastChannel, and the sessions list.       *)
(*                                                                         *)
(* The passkey counts its assertions, and the session an assertion creates *)
(* is named by that count; 0 stands for no session and no JWT.             *)
(***************************************************************************)
EXTENDS Naturals, Sequences, FiniteSets

CONSTANTS
  Tabs,
  MaxSignIns,  \* bound: assertions of the passkey
  MaxInbox,    \* bound: broadcasts under way to one tab
  MaxCalls     \* bound: calls and sign-outs the user makes

ASSUME BoundAssumption == {MaxSignIns, MaxInbox, MaxCalls} \subseteq Nat \ {0}

VARIABLES
  sess,      \* auth_sessions: "none", "live", "expired" or "revoked"
  passkey,   \* webauthn_credentials: whether the row is there, its counter
  device,    \* assertions the authenticator has made
  counted,   \* revocations the session.revoked audit rows account for
  jwt,       \* each tab's JWT, by its session
  inbox,     \* broadcasts on their way to each tab
  act,       \* what each tab has under way
  refused,   \* sessions some tab got a 401 for (history)
  calls      \* calls and sign-outs made so far

server == <<sess, passkey, device, counted>>
tabs == <<jwt, inbox, refused, calls>>
vars == <<server, tabs, act>>

Sids == 1..MaxSignIns
Idle == [pc |-> "idle", kind |-> "none", sid |-> 0, under |-> 0, late |-> FALSE,
         stored |-> 0, status |-> 0]

Goes(t, pc) == act' = [act EXCEPT ![t].pc = pc]
(* A tab does something with the answer to a sign-in if it is a token, to  *)
(* a call of the sessions list whatever it is, and to any other if it is a *)
(* 401; other answers are not followed further.                            *)
Matters(kind, status) ==
  \/ kind = "mint" /\ status = 200
  \/ kind \in {"revoke", "revoke_all"}
  \/ kind # "mint" /\ status = 401
Answers(t, status) ==
  LET r == act[t] IN
    act' = [act EXCEPT ![t] =
      IF Matters(r.kind, status)
      THEN [Idle EXCEPT !.pc = "answer", !.kind = r.kind, !.sid = r.sid, !.status = status,
                        !.under = IF status = 401 THEN r.under ELSE 0]
      ELSE Idle]

(* Mutation: session_is_live looks at expires_at alone.                    *)
LiveByDate(s) == s # 0 /\ sess[s] \in {"live", "revoked"}
(* session_is_live: neither revoked nor expired; no claim is no session.   *)
Live(s) == s # 0 /\ sess[s] = "live"

(* What the row says, however session_is_live reads it: no session, or one *)
(* that is over.                                                           *)
Over(s) == s = 0 \/ sess[s] \in {"expired", "revoked"}

-----------------------------------------------------------------------------
(* Signing in: the challenge, the ceremony and the assert call, which the  *)
(* page offers a tab without a JWT.                                        *)
SignIn(t) ==
  /\ act[t].pc = "idle" /\ jwt[t] = 0 /\ device < MaxSignIns
  /\ device' = device + 1
  /\ act' = [act EXCEPT ![t] = [Idle EXCEPT !.pc = "asserted", !.kind = "mint", !.sid = device + 1]]
  /\ UNCHANGED <<sess, passkey, counted, tabs>>

(* The challenge is consumed, or had expired, and the credential looked up.*)
Lookup(t) ==
  /\ act[t].pc = "asserted"
  /\ \/ /\ passkey.there
        /\ act' = [act EXCEPT ![t].pc = "looked", ![t].stored = passkey.counter]
     \/ Answers(t, 401)
  /\ UNCHANGED <<server, tabs>>

CounterRises(t) == act[t].stored = 0 \/ act[t].sid > act[t].stored

(* The assertion is verified against the counter read before; the session  *)
(* row is written before the token is signed.                              *)
CreateSession(t) ==
  /\ act[t].pc = "looked"
  /\ IF CounterRises(t)
     THEN sess' = [sess EXCEPT ![act[t].sid] = "live"] /\ Goes(t, "created")
     ELSE Answers(t, 401) /\ UNCHANGED sess
  /\ UNCHANGED <<passkey, device, counted, tabs>>

(* F-128: a session revoked since is answered 401 and never signed.        *)
CheckSessionLive(t) ==
  /\ act[t].pc = "created"
  /\ (sess[act[t].sid] # "revoked" /\ Goes(t, "signed")) \/ Answers(t, 401)
  /\ UNCHANGED <<server, tabs>>

BumpCounter(t) ==
  /\ act[t].pc = "signed"
  /\ passkey' = [passkey EXCEPT !.counter =
                   IF passkey.there /\ act[t].sid > @ THEN act[t].sid ELSE @]
  /\ Answers(t, 200)
  /\ UNCHANGED <<sess, device, counted, tabs>>

-----------------------------------------------------------------------------
(* A tab's JWT is set or cleared: the siblings are told first.             *)
(* Mutation: clearJwt forgets the siblings.                                *)
TellIfSet(t, s) ==
  inbox' = [u \in Tabs |-> IF u # t /\ s # 0 THEN Append(inbox[u], s) ELSE inbox[u]]
Tell(t, s) ==
  inbox' = [u \in Tabs |-> IF u # t THEN Append(inbox[u], s) ELSE inbox[u]]

SetJwt(t, s) ==
  /\ \A u \in Tabs \ {t} : Len(inbox[u]) < MaxInbox
  /\ Tell(t, s) /\ jwt' = [jwt EXCEPT ![t] = s]

Deliver(t) ==
  /\ inbox[t] # <<>>
  /\ jwt' = [jwt EXCEPT ![t] = Head(inbox[t])]
  /\ inbox' = [inbox EXCEPT ![t] = Tail(@)]
  /\ UNCHANGED <<server, act, refused, calls>>

(* The token arrives, or its answer is lost.  The mint client has no       *)
(* onSessionRevoked: a 401 there clears nothing.                           *)
SignedIn(t) ==
  /\ act[t].kind = "mint" /\ act[t].pc = "answer"
  /\ act' = [act EXCEPT ![t] = Idle]
  /\ SetJwt(t, act[t].sid) \/ UNCHANGED <<jwt, inbox>>
  /\ UNCHANGED <<server, refused, calls>>

SignOut(t) ==
  /\ jwt[t] # 0 /\ SetJwt(t, 0)
  /\ calls < MaxCalls /\ calls' = calls + 1
  /\ UNCHANGED <<server, act, refused>>

-----------------------------------------------------------------------------
(* auth-op: the precheck, the function's own gate, then its statement.  A  *)
(* liveness check that fails is taken for not live.  late is history: the  *)
(* session was over when the call was sent.                                *)
Request(kind, s, token) ==
  [Idle EXCEPT !.pc = "sent", !.kind = kind, !.sid = s, !.under = token, !.late = Over(token)]

Send(t, kind, s) ==
  /\ act[t].pc = "idle" /\ jwt[t] # 0
  /\ calls < MaxCalls /\ calls' = calls + 1
  /\ act' = [act EXCEPT ![t] = Request(kind, s, jwt[t])]
  /\ UNCHANGED <<server, jwt, inbox, refused>>

(* The list offers each session it shows.                                  *)
Revoke(t, s) == sess[s] # "none" /\ Send(t, "revoke", s)
RevokeAll(t) == Send(t, "revoke_all", 0)
RevokePasskey(t) == Send(t, "revoke_passkey", 0)
(* Any read stands for every other call.                                   *)
Read(t) == Send(t, "read", 0)

Precheck(t) ==
  /\ act[t].pc = "sent"
  /\ (Live(act[t].under) /\ Goes(t, "admitted")) \/ Answers(t, 401)
  /\ UNCHANGED <<server, tabs>>

(* _t07_gate_session inside the function: refused with 403 by then.        *)
Gate(t) ==
  /\ act[t].pc = "admitted"
  /\ IF act[t].kind = "read" THEN Answers(t, 200)
     ELSE IF Live(act[t].under) THEN Goes(t, "gated")
     ELSE Answers(t, 403)
  /\ UNCHANGED <<server, tabs>>

(* Mutation: the UPDATE does not ask for revoked_at IS NULL.               *)
EveryRow == {s \in Sids : sess[s] # "none"}
Unrevoked == {s \in Sids : sess[s] \in {"live", "expired"}}

(* One UPDATE; its audit row counts the sessions it revoked.               *)
Marks(S) ==
  /\ sess' = [s \in Sids |-> IF s \in S THEN "revoked" ELSE sess[s]]
  /\ counted' = counted + Cardinality(S)
  /\ UNCHANGED passkey

Commit(t) ==
  /\ act[t].pc = "gated"
  /\ \/ act[t].kind = "revoke" /\ Marks(Unrevoked \cap {act[t].sid})
     \/ act[t].kind = "revoke_all" /\ Marks(Unrevoked)
     \/ /\ act[t].kind = "revoke_passkey"
        /\ passkey' = [there |-> FALSE, counter |-> 0]
        /\ UNCHANGED <<sess, counted>>
  /\ Answers(t, 200)
  /\ UNCHANGED <<device, tabs>>

-----------------------------------------------------------------------------
(* The list's revocations: the store drops every failure of theirs, so    *)
(* the list is reloaded (one more read, for the session revoked) and the   *)
(* success message shown whatever came back.                               *)
NextRequest(t) ==
  IF act[t].kind \in {"revoke", "revoke_all"} THEN Request("read", act[t].sid, jwt'[t]) ELSE Idle

(* The answer reaches the tab: a 401 clears whatever JWT it has by then.   *)
Answered(t) ==
  /\ act[t].pc = "answer" /\ act[t].kind # "mint"
  /\ IF act[t].status = 401
     THEN SetJwt(t, 0) /\ refused' = refused \cup ({act[t].under} \ {0})
     ELSE UNCHANGED <<jwt, inbox, refused>>
  /\ act' = [act EXCEPT ![t] = NextRequest(t)]
  /\ UNCHANGED <<server, calls>>

(* The network loses the request or the answer: status 0, no 401.          *)
Lost(t) ==
  /\ act[t].pc \in {"sent", "answer"} /\ act[t].kind # "mint"
  /\ UNCHANGED <<server, tabs>>
  /\ act' = [act EXCEPT ![t] = NextRequest(t)]

Expire(s) ==
  /\ sess[s] = "live"
  /\ sess' = [sess EXCEPT ![s] = "expired"]
  /\ UNCHANGED <<passkey, device, counted, tabs, act>>

-----------------------------------------------------------------------------
Init ==
  /\ sess = [s \in Sids |-> "none"]
  /\ passkey = [there |-> TRUE, counter |-> 0]
  /\ device = 0 /\ counted = 0
  /\ jwt = [t \in Tabs |-> 0] /\ inbox = [t \in Tabs |-> <<>>]
  /\ act = [t \in Tabs |-> Idle]
  /\ refused = {} /\ calls = 0

Mint(t) ==
  SignIn(t) \/ Lookup(t) \/ CreateSession(t) \/ CheckSessionLive(t) \/ BumpCounter(t) \/ SignedIn(t)

Call(t) ==
  \/ \E s \in Sids : Revoke(t, s)
  \/ RevokeAll(t) \/ RevokePasskey(t) \/ Read(t)
  \/ Precheck(t) \/ Gate(t) \/ Commit(t) \/ Answered(t) \/ Lost(t)

Next ==
  \/ \E t \in Tabs : Mint(t) \/ Call(t) \/ Deliver(t) \/ SignOut(t)
  \/ \E s \in Sids : Expire(s)

(* The browser delivers broadcasts; nothing else is promised.              *)
Spec == Init /\ [][Next]_vars /\ \A t \in Tabs : WF_vars(Deliver(t))

-----------------------------------------------------------------------------
(* The audit rows account for every revocation exactly once, however       *)
(* single and bulk revocations of two tabs overlap.                        *)
AuditAddsUp == counted = Cardinality({s \in Sids : sess[s] = "revoked"})

(* A call sent under a session that was revoked or had expired by then     *)
(* changes nothing: both checks, in the edge function and in the SQL, read *)
(* the row anew and no row comes back to life in between.                  *)
LateCall(t) == act[t].late /\ Commit(t)
LateCallsChangeNothing == [][\A t \in Tabs : ~LateCall(t)]_vars

(* F-39: once one tab was refused under a session, every tab comes to be   *)
(* rid of that session's token for good.                                   *)
RefusedLeavesTabs ==
  \A s \in Sids : s \in refused ~> [](\A t \in Tabs : jwt[t] # s)
=============================================================================
