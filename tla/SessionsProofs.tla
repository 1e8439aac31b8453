---------------------------- MODULE SessionsProofs ----------------------------
(***************************************************************************)
(* Revocation is counted once and final: proofs about Sessions for any     *)
(* tabs and bounds.                                                        *)
(*                                                                         *)
(* The argument: a session row is written by the one assertion it is named *)
(* after and never before (Fresh, Minting), so a row that is dead stays    *)
(* dead.  Every token a tab holds, is told of or is about to receive names *)
(* a row that was written (TokensKnown), so a call that was late when it   *)
(* was sent finds its session dead at the precheck (RecordStands).         *)
(***************************************************************************)
EXTENDS Sessions, FiniteSetTheorems, SequenceTheorems, TLAPS

States == {"none", "live", "expired", "revoked"}
Tokens == 0..MaxSignIns
Records ==
  [pc : {"idle", "asserted", "looked", "created", "signed", "sent", "admitted", "gated",
         "answer"},
   kind : {"none", "mint", "revoke", "revoke_all", "revoke_passkey", "read"},
   sid : Tokens, under : Tokens, late : BOOLEAN, stored : Nat, status : Nat]

TypeInv ==
  /\ sess \in [Sids -> States]
  /\ passkey \in [there : BOOLEAN, counter : Nat]
  /\ device \in Tokens /\ counted \in Nat
  /\ jwt \in [Tabs -> Tokens] /\ inbox \in [Tabs -> Seq(Tokens)]
  /\ act \in [Tabs -> Records]

(* A row not yet asserted is not there, and an assertion not yet turned    *)
(* into a row belongs to one tab.                                          *)
Fresh == \A s \in Sids : s > device => sess[s] = "none"
Asserting(r) == r.pc \in {"asserted", "looked"}
Minting ==
  \A t \in Tabs : Asserting(act[t]) =>
    /\ act[t].sid \in Sids /\ act[t].sid <= device /\ sess[act[t].sid] = "none"
    /\ \A u \in Tabs \ {t} : Asserting(act[u]) => act[u].sid # act[t].sid

(* No token, or the token of a session whose row was written.              *)
Known(s) == s \in Sids => sess[s] # "none"
TokensKnown ==
  \A t \in Tabs : Known(jwt[t]) /\ \A k \in 1..Len(inbox[t]) : Known(inbox[t][k])

(* What a call or a sign-in under way may count on.                        *)
Stands(r) ==
  /\ r.pc \in {"asserted", "looked", "created", "signed"} => r.kind = "mint"
  /\ r.pc \in {"created", "signed"} => Known(r.sid)
  /\ r.pc = "answer" /\ r.kind = "mint" => Known(r.sid)
  /\ r.pc \in {"sent", "admitted", "gated"} => r.kind # "mint"
  /\ r.pc \in {"admitted", "gated"} => ~r.late
  /\ r.pc = "sent" /\ r.late => Known(r.under) /\ ~Live(r.under)
RecordStands == \A t \in Tabs : Stands(act[t])

IInv == TypeInv /\ Fresh /\ Minting /\ TokensKnown /\ RecordStands /\ AuditAddsUp

-----------------------------------------------------------------------------
LEMMA BoundsTyped == MaxSignIns \in Nat \ {0} /\ MaxCalls \in Nat /\ Sids \subseteq Tokens
  BY BoundAssumption DEF Sids, Tokens

LEMMA IdleTyped == Idle \in Records /\ Stands(Idle) /\ ~Asserting(Idle)
  BY BoundsTyped DEF Idle, Records, Tokens, Stands, Asserting

LEMMA InitIInv == Init => IInv
<1> SUFFICES ASSUME Init PROVE IInv
  OBVIOUS
<1>1. TypeInv
  BY BoundsTyped, IdleTyped DEF Init, TypeInv, States, Tokens
<1>2. Fresh /\ Minting /\ RecordStands
  BY IdleTyped DEF Init, Fresh, Minting, RecordStands
<1>3. TokensKnown
  BY DEF Init, TokensKnown, Known, Sids
<1>4. AuditAddsUp
  <2>1. {s \in Sids : sess[s] = "revoked"} = {}
    BY DEF Init
  <2> QED BY <2>1, FS_EmptySet DEF Init, AuditAddsUp
<1> QED BY <1>1, <1>2, <1>3, <1>4 DEF IInv

-----------------------------------------------------------------------------
(* A tab goes on to st and the server's rows stay as they are: it is enough*)
(* that st stands and that every token handed on is known.                 *)
LEMMA TabMoves ==
  ASSUME IInv, NEW t \in Tabs, NEW st \in Records,
         act' = [act EXCEPT ![t] = st], Stands(st),
         Asserting(st) => Asserting(act[t]) /\ st.sid = act[t].sid,
         UNCHANGED <<sess, device, counted>>,
         passkey' \in [there : BOOLEAN, counter : Nat],
         jwt' \in [Tabs -> Tokens], inbox' \in [Tabs -> Seq(Tokens)],
         \A u \in Tabs : Known(jwt'[u]) /\ \A k \in 1..Len(inbox'[u]) : Known(inbox'[u][k])
  PROVE  IInv'
<1> USE DEF IInv
<1>1. act'[t] = st /\ \A u \in Tabs \ {t} : act'[u] = act[u]
  BY DEF TypeInv
<1>2. TypeInv'
  BY DEF TypeInv
<1>3. Fresh' /\ AuditAddsUp'
  BY DEF Fresh, AuditAddsUp
<1>4. TokensKnown'
  BY DEF TokensKnown, Known
<1>5. Minting'
  BY <1>1 DEF Minting
<1>6. RecordStands'
  BY <1>1 DEF RecordStands, Stands, Known, Live
<1> QED BY <1>2, <1>3, <1>4, <1>5, <1>6

(* An answer is on its way, or matters to nobody.                          *)
LEMMA AnswersStand ==
  ASSUME IInv, NEW t \in Tabs, NEW status \in Nat,
         act[t].kind = "mint" /\ status = 200 => Known(act[t].sid),
         Answers(t, status)
  PROVE  \E st \in Records :
           act' = [act EXCEPT ![t] = st] /\ Stands(st) /\ ~Asserting(st)
<1> DEFINE r == act[t]
           st == IF Matters(r.kind, status)
                 THEN [Idle EXCEPT !.pc = "answer", !.kind = r.kind, !.sid = r.sid,
                       !.status = status, !.under = IF status = 401 THEN r.under ELSE 0]
                 ELSE Idle
<1>1. r \in Records
  BY DEF IInv, TypeInv
<1>2. st \in Records /\ ~Asserting(st)
  BY <1>1, IdleTyped, BoundsTyped DEF Records, Tokens, Idle, Asserting
<1>3. Stands(st)
  <2>1. CASE Matters(r.kind, status)
    <3>1. st.pc = "answer" /\ st.kind = r.kind /\ st.sid = r.sid
      BY <2>1 DEF Idle
    <3>2. r.kind = "mint" => status = 200
      BY <2>1 DEF Matters
    <3> QED BY <3>1, <3>2 DEF Stands
  <2>2. CASE ~Matters(r.kind, status)
    BY <2>2, IdleTyped
  <2> QED BY <2>1, <2>2
<1>4. act' = [act EXCEPT ![t] = st]
  BY DEF Answers
<1> QED BY <1>2, <1>3, <1>4

LEMMA TokensStay ==
  ASSUME IInv
  PROVE  /\ jwt \in [Tabs -> Tokens] /\ inbox \in [Tabs -> Seq(Tokens)]
         /\ passkey \in [there : BOOLEAN, counter : Nat]
         /\ \A u \in Tabs : Known(jwt[u]) /\ \A k \in 1..Len(inbox[u]) : Known(inbox[u][k])
  BY DEF IInv, TypeInv, TokensKnown

(* A known token may be stored and told.                                   *)
LEMMA SetJwtKeeps ==
  ASSUME IInv, NEW t \in Tabs, NEW s \in Tokens, Known(s), SetJwt(t, s)
  PROVE  /\ jwt' \in [Tabs -> Tokens] /\ inbox' \in [Tabs -> Seq(Tokens)]
         /\ \A u \in Tabs : Known(jwt'[u]) /\ \A k \in 1..Len(inbox'[u]) : Known(inbox'[u][k])
<1>1. jwt' \in [Tabs -> Tokens] /\ \A u \in Tabs : Known(jwt'[u])
  BY TokensStay DEF SetJwt, IInv
<1>2. \A u \in Tabs : inbox'[u] = IF u # t THEN Append(inbox[u], s) ELSE inbox[u]
  BY DEF SetJwt, Tell
<1>3. inbox' = [u \in Tabs |-> IF u # t THEN Append(inbox[u], s) ELSE inbox[u]]
  BY DEF SetJwt, Tell
<1>4. ASSUME NEW u \in Tabs
      PROVE  inbox'[u] \in Seq(Tokens) /\ \A k \in 1..Len(inbox'[u]) : Known(inbox'[u][k])
  <2>1. inbox[u] \in Seq(Tokens) /\ \A k \in 1..Len(inbox[u]) : Known(inbox[u][k])
    BY TokensStay
  <2>2. CASE u = t
    BY <1>2, <2>1, <2>2
  <2>3. CASE u # t
    <3>1. inbox'[u] = Append(inbox[u], s)
      BY <1>2, <2>3
    <3>2. Append(inbox[u], s) \in Seq(Tokens)
      BY <2>1
    <3>3. \A k \in 1..Len(Append(inbox[u], s)) :
            Append(inbox[u], s)[k] = IF k = Len(inbox[u]) + 1 THEN s ELSE inbox[u][k]
      BY <2>1
    <3>4. Len(Append(inbox[u], s)) = Len(inbox[u]) + 1
      BY <2>1
    <3> QED BY <2>1, <3>1, <3>2, <3>3, <3>4
  <2> QED BY <2>2, <2>3
<1> QED BY <1>1, <1>3, <1>4
-----------------------------------------------------------------------------
(* Signing in.                                                             *)
LEMMA SignInKeeps ==
  ASSUME IInv, NEW t \in Tabs, SignIn(t)
  PROVE  IInv'
<1> USE DEF IInv
<1> DEFINE st == [Idle EXCEPT !.pc = "asserted", !.kind = "mint", !.sid = device + 1]
<1>1. /\ device \in Nat /\ device + 1 \in Sids /\ device + 1 \in Tokens
      /\ device' = device + 1 /\ act' = [act EXCEPT ![t] = st]
      /\ UNCHANGED <<sess, passkey, counted, jwt, inbox>>
  BY BoundsTyped DEF SignIn, TypeInv, Tokens, Sids, tabs
<1>2. /\ st \in Records /\ st.pc = "asserted" /\ st.kind = "mint" /\ st.sid = device + 1
  BY <1>1, IdleTyped DEF Records, Idle
<1> HIDE DEF st
<1>3. act'[t] = st /\ \A u \in Tabs \ {t} : act'[u] = act[u]
  BY <1>1 DEF TypeInv
<1>4. TypeInv'
  BY <1>1, <1>2 DEF TypeInv
<1>5. Fresh' /\ TokensKnown' /\ AuditAddsUp'
  BY <1>1 DEF Fresh, TokensKnown, Known, AuditAddsUp, Sids, TypeInv
<1>6. Minting'
  BY <1>1, <1>2, <1>3 DEF Minting, Fresh, Asserting, Sids
<1>7. RecordStands'
  BY <1>1, <1>2, <1>3 DEF RecordStands, Stands, Known, Live
<1> QED BY <1>4, <1>5, <1>6, <1>7

(* The passkey's row and the tab's record change, no token moves.          *)
LEMMA AnswersKeeps ==
  ASSUME IInv, NEW t \in Tabs, NEW status \in Nat, Answers(t, status),
         act[t].kind = "mint" /\ status = 200 => Known(act[t].sid),
         UNCHANGED <<sess, device, counted, tabs>>,
         passkey' \in [there : BOOLEAN, counter : Nat]
  PROVE  IInv'
<1>1. PICK st \in Records : act' = [act EXCEPT ![t] = st] /\ Stands(st) /\ ~Asserting(st)
  BY AnswersStand
<1> QED BY <1>1, TokensStay, TabMoves DEF tabs

LEMMA GoesKeeps ==
  ASSUME IInv, NEW t \in Tabs, NEW pc \in {"looked", "signed", "admitted", "gated"},
         NEW stored \in Nat, act' = [act EXCEPT ![t].pc = pc, ![t].stored = stored],
         pc = "looked" => act[t].pc = "asserted",
         pc = "signed" => act[t].pc = "created",
         pc \in {"admitted", "gated"} => act[t].kind # "mint" /\ ~act[t].late,
         UNCHANGED <<server, tabs>>
  PROVE  IInv'
<1> DEFINE st == [act[t] EXCEPT !.pc = pc, !.stored = stored]
<1>1. act[t] \in Records /\ Stands(act[t])
  BY DEF IInv, TypeInv, RecordStands
<1>2. st \in Records
  BY <1>1 DEF Records
<1>3. /\ st.pc = pc /\ st.kind = act[t].kind /\ st.sid = act[t].sid /\ st.late = act[t].late
  BY <1>1 DEF Records
<1>4. act' = [act EXCEPT ![t] = st]
  BY DEF IInv, TypeInv
<1> HIDE DEF st
<1>5. Stands(st) /\ (Asserting(st) => Asserting(act[t]) /\ st.sid = act[t].sid)
  BY <1>1, <1>3 DEF Stands, Asserting
<1> QED BY <1>2, <1>4, <1>5, TokensStay, TabMoves DEF server, tabs

LEMMA OneFieldIsTwo ==
  ASSUME IInv, NEW t \in Tabs, NEW pc, Goes(t, pc)
  PROVE  act[t].stored \in Nat /\ act' = [act EXCEPT ![t].pc = pc, ![t].stored = act[t].stored]
<1>1. act[t] \in Records
  BY DEF IInv, TypeInv
<1>2. [act[t] EXCEPT !.pc = pc] = [act[t] EXCEPT !.pc = pc, !.stored = act[t].stored]
  BY <1>1 DEF Records
<1> QED BY <1>1, <1>2 DEF Goes, Records, IInv, TypeInv

LEMMA LookupKeeps ==
  ASSUME IInv, NEW t \in Tabs, Lookup(t)
  PROVE  IInv'
<1>1. act[t].pc = "asserted" /\ UNCHANGED <<server, tabs>>
  BY DEF Lookup
<1>2. CASE act' = [act EXCEPT ![t].pc = "looked", ![t].stored = passkey.counter]
  <2>1. passkey.counter \in Nat
    BY TokensStay
  <2> QED BY <1>1, <1>2, <2>1, GoesKeeps
<1>3. CASE Answers(t, 401)
  BY <1>1, <1>3, AnswersKeeps, TokensStay DEF server
<1> QED BY <1>2, <1>3 DEF Lookup

LEMMA CheckSessionLiveKeeps ==
  ASSUME IInv, NEW t \in Tabs, CheckSessionLive(t)
  PROVE  IInv'
<1>1. act[t].pc = "created" /\ UNCHANGED <<server, tabs>>
  BY DEF CheckSessionLive
<1>2. CASE Goes(t, "signed")
  BY <1>1, <1>2, OneFieldIsTwo, GoesKeeps
<1>3. CASE Answers(t, 401)
  BY <1>1, <1>3, AnswersKeeps, TokensStay DEF server
<1> QED BY <1>2, <1>3 DEF CheckSessionLive

LEMMA BumpCounterKeeps ==
  ASSUME IInv, NEW t \in Tabs, BumpCounter(t)
  PROVE  IInv'
<1>1. act[t].pc = "signed" /\ Answers(t, 200) /\ UNCHANGED <<sess, device, counted, tabs>>
  BY DEF BumpCounter
<1>2. Known(act[t].sid) /\ act[t].sid \in Nat
  BY <1>1 DEF IInv, RecordStands, Stands, TypeInv, Records, Tokens
<1>3. passkey' \in [there : BOOLEAN, counter : Nat]
  BY <1>2 DEF BumpCounter, IInv, TypeInv
<1> QED BY <1>1, <1>2, <1>3, AnswersKeeps

-----------------------------------------------------------------------------
(* Tokens move between the tabs.                                           *)
LEMMA DeliverKeeps ==
  ASSUME IInv, NEW t \in Tabs, Deliver(t)
  PROVE  IInv'
<1>1. /\ inbox[t] # <<>> /\ jwt' = [jwt EXCEPT ![t] = Head(inbox[t])]
      /\ inbox' = [inbox EXCEPT ![t] = Tail(@)] /\ UNCHANGED <<server, act>>
  BY DEF Deliver
<1>2. inbox[t] \in Seq(Tokens) /\ \A k \in 1..Len(inbox[t]) : Known(inbox[t][k])
  BY TokensStay
<1>3. Head(inbox[t]) \in Tokens /\ Known(Head(inbox[t]))
  BY <1>1, <1>2
<1>4. /\ Tail(inbox[t]) \in Seq(Tokens)
      /\ \A k \in 1..Len(Tail(inbox[t])) : Known(Tail(inbox[t])[k])
  BY <1>1, <1>2
<1>5. \A u \in Tabs : Known(jwt'[u]) /\ \A k \in 1..Len(inbox'[u]) : Known(inbox'[u][k])
  BY <1>1, <1>3, <1>4, TokensStay
<1>6. jwt' \in [Tabs -> Tokens] /\ inbox' \in [Tabs -> Seq(Tokens)]
  BY <1>1, <1>3, <1>4, TokensStay
<1>7. act[t] \in Records /\ Stands(act[t]) /\ act' = [act EXCEPT ![t] = act[t]]
  BY <1>1 DEF IInv, TypeInv, RecordStands
<1> QED BY <1>1, <1>5, <1>6, <1>7, TokensStay, TabMoves DEF server

LEMMA SignedInKeeps ==
  ASSUME IInv, NEW t \in Tabs, SignedIn(t)
  PROVE  IInv'
<1>1. /\ act[t].kind = "mint" /\ act[t].pc = "answer" /\ act' = [act EXCEPT ![t] = Idle]
      /\ UNCHANGED server
      /\ SetJwt(t, act[t].sid) \/ UNCHANGED <<jwt, inbox>>
  BY DEF SignedIn
<1>2. act[t].sid \in Tokens /\ Known(act[t].sid)
  BY <1>1 DEF IInv, TypeInv, RecordStands, Stands, Records
<1>3. /\ jwt' \in [Tabs -> Tokens] /\ inbox' \in [Tabs -> Seq(Tokens)]
      /\ \A u \in Tabs : Known(jwt'[u]) /\ \A k \in 1..Len(inbox'[u]) : Known(inbox'[u][k])
  BY <1>1, <1>2, SetJwtKeeps, TokensStay
<1> QED BY <1>1, <1>3, IdleTyped, TokensStay, TabMoves DEF server

LEMMA NoToken == 0 \in Tokens /\ Known(0)
  BY BoundsTyped DEF Tokens, Known, Sids

LEMMA SignOutKeeps ==
  ASSUME IInv, NEW t \in Tabs, SignOut(t)
  PROVE  IInv'
<1>1. SetJwt(t, 0) /\ UNCHANGED <<server, act>>
  BY DEF SignOut
<1>2. act[t] \in Records /\ Stands(act[t]) /\ act' = [act EXCEPT ![t] = act[t]]
  BY <1>1 DEF IInv, TypeInv, RecordStands
<1> QED BY <1>1, <1>2, NoToken, SetJwtKeeps, TokensStay, TabMoves DEF server
-----------------------------------------------------------------------------
(* Calls are sent, admitted and answered.                                  *)
CallKinds == {"revoke", "revoke_all", "revoke_passkey", "read"}

LEMMA RequestStands ==
  ASSUME NEW kind \in CallKinds, NEW s \in Tokens, NEW token \in Tokens, Known(token)
  PROVE  LET r == Request(kind, s, token)
         IN  r \in Records /\ Stands(r) /\ ~Asserting(r)
<1> DEFINE r == Request(kind, s, token)
<1>1. r \in Records
  BY IdleTyped DEF Records, Request, CallKinds, Over
<1>2. /\ r.pc = "sent" /\ r.kind = kind /\ r.under = token /\ r.late = Over(token)
  BY DEF Request, Idle
<1> HIDE DEF r
<1>3. Stands(r) /\ ~Asserting(r)
  BY <1>2 DEF Stands, Asserting, CallKinds, Over, Live
<1> QED BY <1>1, <1>3 DEF r

LEMMA SendKeeps ==
  ASSUME IInv, NEW t \in Tabs, NEW kind \in CallKinds, NEW s \in Tokens, Send(t, kind, s)
  PROVE  IInv'
<1>1. /\ act' = [act EXCEPT ![t] = Request(kind, s, jwt[t])]
      /\ UNCHANGED <<server, jwt, inbox, refused>>
  BY DEF Send
<1>2. jwt[t] \in Tokens /\ Known(jwt[t])
  BY TokensStay
<1> DEFINE st == Request(kind, s, jwt[t])
<1>3. st \in Records /\ Stands(st) /\ ~Asserting(st)
  BY <1>2, RequestStands
<1> HIDE DEF st
<1>4. act' = [act EXCEPT ![t] = st]
  BY <1>1 DEF st
<1> QED BY <1>1, <1>3, <1>4, TokensStay, TabMoves DEF server

(* A call that was late finds its session dead: it is answered 401.        *)
LEMMA PrecheckKeeps ==
  ASSUME IInv, NEW t \in Tabs, Precheck(t)
  PROVE  IInv'
<1>1. act[t].pc = "sent" /\ UNCHANGED <<server, tabs>>
  BY DEF Precheck
<1>2. Stands(act[t])
  BY DEF IInv, RecordStands
<1>3. CASE Live(act[t].under) /\ Goes(t, "admitted")
  BY <1>1, <1>2, <1>3, OneFieldIsTwo, GoesKeeps DEF Stands
<1>4. CASE Answers(t, 401)
  BY <1>1, <1>4, AnswersKeeps, TokensStay DEF server
<1> QED BY <1>3, <1>4 DEF Precheck

LEMMA GateKeeps ==
  ASSUME IInv, NEW t \in Tabs, Gate(t)
  PROVE  IInv'
<1>1. act[t].pc = "admitted" /\ UNCHANGED <<server, tabs>>
  BY DEF Gate
<1>2. Stands(act[t])
  BY DEF IInv, RecordStands
<1>3. CASE Goes(t, "gated")
  BY <1>1, <1>2, <1>3, OneFieldIsTwo, GoesKeeps DEF Stands
<1>4. ASSUME NEW status \in {200, 403}, Answers(t, status) PROVE IInv'
  BY <1>1, <1>2, <1>4, AnswersKeeps, TokensStay DEF server, Stands
<1> QED BY <1>3, <1>4 DEF Gate

(* The tab is idle again, or reads under the token it has by then.         *)
LEMMA NextRequestKeeps ==
  ASSUME IInv, NEW t \in Tabs, act' = [act EXCEPT ![t] = NextRequest(t)],
         UNCHANGED server,
         jwt' \in [Tabs -> Tokens], inbox' \in [Tabs -> Seq(Tokens)],
         \A u \in Tabs : Known(jwt'[u]) /\ \A k \in 1..Len(inbox'[u]) : Known(inbox'[u][k])
  PROVE  IInv'
<1>1. PICK token \in Tokens : token = jwt'[t] /\ Known(token)
  OBVIOUS
<1>2. act[t].sid \in Tokens
  BY DEF IInv, TypeInv, Records
<1> DEFINE st == IF act[t].kind \in {"revoke", "revoke_all"}
                 THEN Request("read", act[t].sid, token) ELSE Idle
<1>3. act' = [act EXCEPT ![t] = st]
  BY <1>1 DEF NextRequest
<1>4. st \in Records /\ Stands(st) /\ ~Asserting(st)
  BY <1>1, <1>2, IdleTyped, RequestStands DEF CallKinds
<1> HIDE DEF st
<1> QED BY <1>3, <1>4, TokensStay, TabMoves DEF server

LEMMA AnsweredKeeps ==
  ASSUME IInv, NEW t \in Tabs, Answered(t)
  PROVE  IInv'
<1>1. /\ act' = [act EXCEPT ![t] = NextRequest(t)] /\ UNCHANGED server
      /\ SetJwt(t, 0) \/ UNCHANGED <<jwt, inbox>>
  BY DEF Answered
<1>2. /\ jwt' \in [Tabs -> Tokens] /\ inbox' \in [Tabs -> Seq(Tokens)]
      /\ \A u \in Tabs : Known(jwt'[u]) /\ \A k \in 1..Len(inbox'[u]) : Known(inbox'[u][k])
  BY <1>1, NoToken, SetJwtKeeps, TokensStay
<1> QED BY <1>1, <1>2, NextRequestKeeps

LEMMA LostKeeps ==
  ASSUME IInv, NEW t \in Tabs, Lost(t)
  PROVE  IInv'
  BY TokensStay, NextRequestKeeps DEF Lost, tabs

-----------------------------------------------------------------------------
(* Rows change.  None goes back to having no row, and none that is dead    *)
(* comes alive, so what the tabs count on stands.                          *)
RowsAge ==
  /\ sess' \in [Sids -> States]
  /\ \A s \in Sids : sess'[s] = "none" => sess[s] = "none"
  /\ \A s \in Sids : sess'[s] = "live" => sess[s] \in {"none", "live"}

LEMMA AgeingKeeps ==
  ASSUME IInv, RowsAge, UNCHANGED tabs
  PROVE  TokensKnown' /\ \A r \in Records : Stands(r) => Stands(r)'
<1>1. \A s \in Tokens : Known(s) => Known(s)' /\ (~Live(s) => ~Live(s)')
  BY BoundsTyped DEF Known, Live, RowsAge, Tokens, Sids
<1>2. TokensKnown'
  BY <1>1, TokensStay DEF TokensKnown, tabs
<1>3. ASSUME NEW r \in Records, Stands(r) PROVE Stands(r)'
  BY <1>1, <1>3 DEF Stands, Records
<1> QED BY <1>2, <1>3

(* The row is new: no session was revoked under this number.               *)
LEMMA CreateSessionKeeps ==
  ASSUME IInv, NEW t \in Tabs, CreateSession(t)
  PROVE  IInv'
<1>1. act[t].pc = "looked" /\ UNCHANGED <<passkey, device, counted, tabs>>
  BY DEF CreateSession
<1>2. CASE Answers(t, 401) /\ UNCHANGED sess
  BY <1>1, <1>2, AnswersKeeps, TokensStay
<1>3. CASE sess' = [sess EXCEPT ![act[t].sid] = "live"] /\ Goes(t, "created")
  <2>1. act[t] \in Records /\ Stands(act[t]) /\ Asserting(act[t])
    BY <1>1 DEF IInv, TypeInv, RecordStands, Asserting
  <2>2. PICK s \in Sids : s = act[t].sid /\ s <= device /\ sess[s] = "none"
    BY <2>1 DEF IInv, Minting
  <2>3. RowsAge /\ sess'[s] = "live" /\ \A x \in Sids \ {s} : sess'[x] = sess[x]
    BY <1>3, <2>2 DEF RowsAge, IInv, TypeInv, States
  <2>4. PICK st \in Records : /\ st = [act[t] EXCEPT !.pc = "created"] /\ st.pc = "created"
                              /\ st.kind = act[t].kind /\ st.sid = s
    <3> DEFINE x == [act[t] EXCEPT !.pc = "created"]
    <3>1. x \in Records /\ x.pc = "created" /\ x.kind = act[t].kind /\ x.sid = s
      BY <2>1, <2>2 DEF Records
    <3> QED BY <3>1
  <2>5. act'[t] = st /\ \A u \in Tabs \ {t} : act'[u] = act[u]
    BY <1>3, <2>4 DEF Goes, IInv, TypeInv
  <2>6. act' \in [Tabs -> Records]
    BY <1>3, <2>4 DEF Goes, IInv, TypeInv
  <2>7. TokensKnown' /\ \A r \in Records : Stands(r) => Stands(r)'
    BY <1>1, <2>3, AgeingKeeps
  <2>8. Stands(st)'
    BY <2>1, <2>2, <2>3, <2>4 DEF Stands, Known, Asserting
  <2>9. RecordStands'
    BY <2>5, <2>7, <2>8 DEF RecordStands, IInv, TypeInv
  <2>10. Minting'
    <3>1. ~Asserting(st)
      BY <2>4 DEF Asserting
    <3>2. \A u \in Tabs \ {t} : Asserting(act[u]) => act[u].sid # s
      BY <2>1, <2>2 DEF Minting, IInv
    <3> QED BY <1>1, <2>3, <2>5, <3>1, <3>2 DEF Minting, IInv
  <2>11. Fresh'
    BY <1>1, <2>2, <2>3, BoundsTyped DEF Fresh, TypeInv, IInv, Sids, Tokens
  <2>14. TypeInv'
    BY <1>1, <2>3, <2>6 DEF TypeInv, IInv, RowsAge, tabs
  <2>12. {x \in Sids : sess'[x] = "revoked"} = {x \in Sids : sess[x] = "revoked"}
    BY <2>2, <2>3
  <2>13. AuditAddsUp'
    BY <1>1, <2>12 DEF AuditAddsUp, IInv
  <2> QED BY <2>7, <2>9, <2>10, <2>11, <2>13, <2>14 DEF IInv
<1> QED BY <1>2, <1>3 DEF CreateSession

LEMMA ExpireKeeps ==
  ASSUME IInv, NEW s \in Sids, Expire(s)
  PROVE  IInv'
<1>1. /\ sess[s] = "live" /\ sess' = [sess EXCEPT ![s] = "expired"]
      /\ UNCHANGED <<passkey, device, counted, tabs, act>>
  BY DEF Expire
<1>2. RowsAge /\ sess'[s] = "expired" /\ \A x \in Sids \ {s} : sess'[x] = sess[x]
  BY <1>1 DEF RowsAge, IInv, TypeInv, States
<1>3. TokensKnown' /\ RecordStands'
  BY <1>1, <1>2, AgeingKeeps DEF IInv, RecordStands, TypeInv
<1>4. Fresh' /\ Minting'
  BY <1>1, <1>2 DEF IInv, Fresh, Minting
<1>5. TypeInv'
  BY <1>1, <1>2 DEF IInv, TypeInv, RowsAge, tabs
<1>6. {x \in Sids : sess'[x] = "revoked"} = {x \in Sids : sess[x] = "revoked"}
  BY <1>1, <1>2
<1>7. AuditAddsUp'
  BY <1>1, <1>6 DEF AuditAddsUp, IInv
<1> QED BY <1>3, <1>4, <1>5, <1>7 DEF IInv

(* An UPDATE of rows not revoked yet adds exactly their number.            *)
LEMMA MarksAddUp ==
  ASSUME IInv, NEW S \in SUBSET Unrevoked, Marks(S)
  PROVE  AuditAddsUp' /\ counted' \in Nat
<1> DEFINE R == {s \in Sids : sess[s] = "revoked"}
<1>1. Sids \in SUBSET Sids /\ IsFiniteSet(Sids)
  BY BoundsTyped, FS_Interval DEF Sids
<1>2. S \subseteq Sids /\ R \subseteq Sids /\ S \cap R = {}
  BY DEF Unrevoked
<1>3. IsFiniteSet(S) /\ IsFiniteSet(R)
  BY <1>1, <1>2, FS_Subset
<1>4. Cardinality(S) \in Nat /\ Cardinality(R) \in Nat
  BY <1>3, FS_CardinalityType
<1>5. Cardinality(R \cup S) = Cardinality(R) + Cardinality(S) - Cardinality(R \cap S)
  BY <1>3, FS_Union
<1>6. Cardinality(R \cap S) = 0
  BY <1>2, FS_EmptySet
<1>7. {s \in Sids : sess'[s] = "revoked"} = R \cup S
  BY <1>2 DEF Marks
<1>8. counted' = Cardinality(R) + Cardinality(S)
  BY DEF Marks, IInv, AuditAddsUp
<1> HIDE DEF R
<1>9. counted' = Cardinality(R \cup S)
  BY <1>4, <1>5, <1>6, <1>8
<1>10. Cardinality({s \in Sids : sess'[s] = "revoked"}) = Cardinality(R \cup S)
  BY <1>7, Zenon
<1>11. AuditAddsUp'
  BY <1>9, <1>10, Zenon DEF AuditAddsUp
<1> QED BY <1>4, <1>8, <1>11

LEMMA CommitKeeps ==
  ASSUME IInv, NEW t \in Tabs, Commit(t)
  PROVE  IInv'
<1>1. act[t].pc = "gated" /\ Answers(t, 200) /\ UNCHANGED <<device, tabs>>
  BY DEF Commit
<1>2. act[t].kind # "mint"
  BY <1>1 DEF IInv, RecordStands, Stands
<1>3. CASE passkey' = [there |-> FALSE, counter |-> 0] /\ UNCHANGED <<sess, counted>>
  <2>1. passkey' \in [there : BOOLEAN, counter : Nat]
    BY <1>3
  <2> QED BY <1>1, <1>2, <1>3, <2>1, AnswersKeeps
<1>4. ASSUME NEW S \in SUBSET Unrevoked, Marks(S) PROVE IInv'
  <2>1. PICK st \in Records : act' = [act EXCEPT ![t] = st] /\ Stands(st) /\ ~Asserting(st)
    BY <1>1, <1>2, AnswersStand
  <2>2. act'[t] = st /\ \A u \in Tabs \ {t} : act'[u] = act[u]
    BY <2>1 DEF IInv, TypeInv
  <2>3. sess' = [s \in Sids |-> IF s \in S THEN "revoked" ELSE sess[s]]
    BY <1>4 DEF Marks
  <2>4. \A s \in S : sess[s] \in {"live", "expired"}
    BY DEF Unrevoked
  <2>5. RowsAge
    BY <2>3, <2>4 DEF RowsAge, IInv, TypeInv, States
  <2>6. TokensKnown' /\ \A r \in Records : Stands(r) => Stands(r)'
    BY <1>1, <2>5, AgeingKeeps
  <2>7. RecordStands'
    BY <2>1, <2>2, <2>6 DEF RecordStands, IInv, TypeInv
  <2>8. Fresh' /\ Minting'
    BY <1>1, <2>1, <2>2, <2>3, <2>4 DEF IInv, Fresh, Minting
  <2>9. AuditAddsUp' /\ counted' \in Nat
    BY <1>4, MarksAddUp
  <2>10. TypeInv'
    BY <1>1, <1>4, <2>1, <2>5, <2>9 DEF IInv, TypeInv, RowsAge, Marks, tabs
  <2> QED BY <2>6, <2>7, <2>8, <2>9, <2>10 DEF IInv
<1>5. Unrevoked \cap {act[t].sid} \in SUBSET Unrevoked /\ Unrevoked \in SUBSET Unrevoked
  OBVIOUS
<1> QED BY <1>3, <1>4, <1>5 DEF Commit

-----------------------------------------------------------------------------
LEMMA NextKeeps == IInv /\ [Next]_vars => IInv'
<1> SUFFICES ASSUME IInv, [Next]_vars PROVE IInv'
  OBVIOUS
<1>1. ASSUME NEW t \in Tabs, Mint(t) PROVE IInv'
  BY <1>1, SignInKeeps, LookupKeeps, CreateSessionKeeps, CheckSessionLiveKeeps,
     BumpCounterKeeps, SignedInKeeps DEF Mint
<1>2. ASSUME NEW t \in Tabs, Call(t) PROVE IInv'
  <2>1. ASSUME NEW s \in Sids, Revoke(t, s) PROVE IInv'
    BY <2>1, BoundsTyped, SendKeeps DEF Revoke, CallKinds
  <2>2. CASE RevokeAll(t) \/ RevokePasskey(t) \/ Read(t)
    BY <2>2, NoToken, SendKeeps DEF RevokeAll, RevokePasskey, Read, CallKinds
  <2>3. CASE Precheck(t) \/ Gate(t) \/ Commit(t) \/ Answered(t) \/ Lost(t)
    BY <2>3, PrecheckKeeps, GateKeeps, CommitKeeps, AnsweredKeeps, LostKeeps
  <2> QED BY <1>2, <2>1, <2>2, <2>3 DEF Call
<1>3. CASE UNCHANGED vars
  <2> USE <1>3 DEF vars, server, tabs, IInv
  <2>1. TypeInv' /\ Fresh' /\ Minting' /\ AuditAddsUp'
    BY DEF TypeInv, Fresh, Minting, AuditAddsUp
  <2>2. TokensKnown' /\ RecordStands'
    BY DEF TokensKnown, RecordStands, Known, Stands, Live
  <2> QED BY <2>1, <2>2
<1> QED BY <1>1, <1>2, <1>3, DeliverKeeps, SignOutKeeps, ExpireKeeps DEF Next

LEMMA Invariant == Spec => []IInv
  BY InitIInv, NextKeeps, PTL DEF Spec

(* The audit rows of session.revoked account for every revoked session     *)
(* exactly once, however the revocations of the tabs overlap.              *)
THEOREM RevocationsCounted == Spec => []AuditAddsUp
  BY Invariant, PTL DEF IInv

(* No call sent under a session that was dead by then commits anything:    *)
(* the precheck meets a row that stays dead.                               *)
THEOREM LateCallsRefused == Spec => LateCallsChangeNothing
<1>1. IInv => \A t \in Tabs : ~LateCall(t)
  BY DEF IInv, RecordStands, Stands, LateCall, Commit
<1>2. IInv /\ [Next]_vars => [\A t \in Tabs : ~LateCall(t)]_vars
  BY <1>1
<1> QED BY <1>2, Invariant, PTL DEF Spec, LateCallsChangeNothing
=============================================================================
