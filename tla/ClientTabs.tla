----------------------------- MODULE ClientTabs -----------------------------
(***************************************************************************)
(* What the client compositions share: every user has one tab, so one      *)
(* CommitteeKeyHolder and one JWT, and several async functions (here:      *)
(* operations) may run in it.  Between two awaits such a function runs     *)
(* without interruption; one action of it is the code from one answer to   *)
(* the next request.  A request is served (once, by the server's           *)
(* transaction) and then answered; the request or its answer may be lost,  *)
(* which the client sees as status 0.                                      *)
(*                                                                         *)
(* src/apps/web/src/lib/server-client/edge-fn-fetch-transport.ts,          *)
(* src/apps/web/src/hooks.client.ts and the edge function's error mapping. *)
(***************************************************************************)
EXTENDS CommitteeKeyServer

CONSTANTS
  Ops,         \* the operations
  Plans,       \* who does what: see PlansAssumption
  FirstKey, FirstMaterial,  \* the committee's key at the start, if any
  ZeroKey      \* the content of an all-zero buffer

VARIABLES
  holder,      \* each user's CommitteeKeyHolder
  zeroed,      \* buffers that were .fill(0)ed
  signedIn,    \* users whose tab holds a JWT
  op,          \* each operation's local state
  faults,      \* requests and answers lost so far
  wipes,       \* sign-outs, unloads and panic wipes so far
  panic,       \* how far each user's panic wipe is
  plan         \* the plan chosen at the start

clientVars == <<holder, zeroed, signedIn, op>>
outside == <<faults, wipes, panic>>

(* A plan: what each operation is and whose tab runs it; the committee and *)
(* who holds its first key, {} for no key yet; the events of the           *)
(* environment that may happen; the bounds on losses and on wipes.         *)
ASSUME PlansAssumption ==
  \A pl \in Plans :
    /\ pl.actor \in [Ops -> Users]
    /\ pl.members \subseteq FirstMembers /\ pl.enrolled \subseteq Users
    /\ pl.holders \subseteq pl.members
    /\ pl.maxFaults \in Nat /\ pl.maxWipes \in Nat

Kind == plan.kind
Actor == plan.actor
Happens(event) == event \in plan.events

H(p) == holder[Actor[p]]

Content(b) == IF b \in zeroed THEN ZeroKey ELSE b.mat

NoAnswer == [status |-> "none", data |-> {}]

-----------------------------------------------------------------------------
(* Requests.  A tab without a JWT sends no bearer and is answered 401.     *)
Request(p, o, pc) ==
  [o EXCEPT !.pc = pc,
            !.resp = [status |-> IF Actor[p] \in signedIn THEN "sent" ELSE "401",
                      data   |-> {}]]

(* A request for wraps: since dates it by the holder's wipe generation.    *)
Fetch(p, o, pc) ==
  [Request(p, o, pc) EXCEPT !.fetched = o.fetched + 1, !.since = H(p).gen]

(* The buffers that opening the wraps of the last fetch yields, a          *)
(* Uint8Array being named by the fetch and the key_id.                     *)
Buffer(p, w) ==
  [op |-> p, n |-> op[p].fetched, key |-> w.key, mat |-> w.mat, since |-> op[p].since]

Opened(p, w) ==
  [key_id |-> w.key, data_key |-> Buffer(p, w), epoch |-> epoch[w.key], is_live |-> TRUE]

OpenedAll(p) ==
  {[key_id |-> w.key, data_key |-> Buffer(p, w), epoch |-> w.epoch, is_live |-> w.live] :
     w \in op[p].resp.data}

End(o, res) == [o EXCEPT !.pc = "ended", !.res = res, !.resp = NoAnswer]

InFlight(p) == op[p].resp.status = "sent"
Answered(p, pc) == op[p].pc = pc /\ op[p].resp.status = "ok"

Answer(p, status, data) ==
  op' = [op EXCEPT ![p].resp = [status |-> status, data |-> data]]

(* The transaction committed; its answer arrives, or is lost.              *)
Reply(p, data) ==
  /\ \/ Answer(p, "ok", data) /\ UNCHANGED faults
     \/ faults < plan.maxFaults /\ Answer(p, "lost", {}) /\ faults' = faults + 1
  /\ UNCHANGED <<holder, zeroed, signedIn, wipes, panic>>

Refuse(p, status) ==
  /\ Answer(p, status, {})
  /\ UNCHANGED <<serverVars, holder, zeroed, signedIn, outside>>

DropRequest(p) ==
  /\ InFlight(p)
  /\ faults < plan.maxFaults
  /\ Answer(p, "lost", {})
  /\ faults' = faults + 1
  /\ UNCHANGED <<serverVars, holder, zeroed, signedIn, wipes, panic>>

CoChairOnly(pc) == pc \in {"revoke", "disclose"}
Gate(p) ==
  IF CoChairOnly(op[p].pc) THEN GateCoChair(Actor[p]) ELSE GateActiveMember(Actor[p])

(* mapRpcError: a dead session is 401, a failed gate 403.                  *)
Deny(p) ==
  /\ InFlight(p)
  /\ ~Gate(p)
  /\ Refuse(p, IF GateSession(Actor[p]) THEN "403" ELSE "401")

Serving(p, pcs) == InFlight(p) /\ op[p].pc \in pcs /\ Gate(p)

ServeState(p, pcs) ==
  Serving(p, pcs) /\ Reply(p, KeyState(Actor[p])) /\ UNCHANGED serverVars

ServeLiveWrap(p) ==
  Serving(p, {"livewrap"}) /\ Reply(p, LiveWrapOf(Actor[p])) /\ UNCHANGED serverVars

ServeAllWraps(p, pcs) ==
  Serving(p, pcs) /\ Reply(p, AllWrapsOf(Actor[p])) /\ UNCHANGED serverVars

-----------------------------------------------------------------------------
(* Client segments.  Become(p, o) is a segment that leaves the holder      *)
(* alone, Install(p, h, o) one that replaces its map.                      *)
Become(p, o) ==
  /\ op' = [op EXCEPT ![p] = o]
  /\ UNCHANGED <<serverVars, holder, zeroed, signedIn, outside>>

Install(p, h, o) ==
  /\ holder' = [holder EXCEPT ![Actor[p]] = h]
  /\ zeroed' = zeroed \cup Orphans(H(p), h)
  /\ op' = [op EXCEPT ![p] = o]
  /\ UNCHANGED <<serverVars, signedIn, outside>>

WipeTab(u) ==
  /\ holder' = [holder EXCEPT ![u] = Wipe(holder[u])]
  /\ zeroed' = zeroed \cup HeldBuffers(holder[u])

(* A refused or lost request.  A 401 has first run onSessionRevoked: the   *)
(* JWT is dropped and the holder wiped.                                    *)
Failed(p, o) ==
  /\ op' = [op EXCEPT ![p] = o]
  /\ IF op[p].resp.status = "401"
     THEN WipeTab(Actor[p]) /\ signedIn' = signedIn \ {Actor[p]}
     ELSE UNCHANGED <<holder, zeroed, signedIn>>
  /\ UNCHANGED <<serverVars, outside>>

-----------------------------------------------------------------------------
(* The tab's environment.  clearJwt wipes the holder; so do pagehide and   *)
(* beforeunload, which leave the JWT.                                      *)
SignOut(u) ==
  /\ u \in signedIn /\ wipes < plan.maxWipes
  /\ WipeTab(u)
  /\ signedIn' = signedIn \ {u}
  /\ wipes' = wipes + 1
  /\ UNCHANGED <<serverVars, op, faults, panic>>

Unload(u) ==
  /\ wipes < plan.maxWipes
  /\ WipeTab(u)
  /\ wipes' = wipes + 1
  /\ UNCHANGED <<serverVars, op, signedIn, faults, panic>>

SignIn(u) ==
  /\ u \notin signedIn
  /\ signedIn' = signedIn \cup {u}
  /\ sessions' = sessions \cup {u}
  /\ UNCHANGED <<membership, enrolled, keyRows, wrapRows, rotations,
                 holder, zeroed, op, outside>>

(* panicWipe.  Its audit row comes first, behind the session's gate; the   *)
(* clear steps are awaited between the holder's wipe and the clean-up,     *)
(* which clears the JWT, and the tab's operations go on meanwhile.         *)
PanicRow(u) ==
  /\ u \in signedIn /\ panic[u] = "none" /\ wipes < plan.maxWipes
  /\ wipes' = wipes + 1
  /\ IF GateSession(u)
     THEN panic' = [panic EXCEPT ![u] = "logged"] /\ UNCHANGED <<holder, zeroed, signedIn>>
     ELSE WipeTab(u) /\ signedIn' = signedIn \ {u} /\ UNCHANGED panic
  /\ UNCHANGED <<serverVars, op, faults>>

(* The row's answer is lost: audit_failed, and nothing is destroyed.       *)
PanicAborted(u) ==
  /\ panic[u] = "logged" /\ panic' = [panic EXCEPT ![u] = "none"]
  /\ UNCHANGED <<serverVars, clientVars, faults, wipes>>

PanicDestroys(u) ==
  /\ panic[u] = "logged" /\ panic' = [panic EXCEPT ![u] = "clearing"]
  /\ WipeTab(u)
  /\ UNCHANGED <<serverVars, op, signedIn, faults, wipes>>

PanicCleanup(u) ==
  /\ panic[u] = "clearing" /\ panic' = [panic EXCEPT ![u] = "none"]
  /\ WipeTab(u) /\ signedIn' = signedIn \ {u}
  /\ UNCHANGED <<serverVars, op, faults, wipes>>

TabEvent(u) ==
  \/ Happens("signOut") /\ SignOut(u)
  \/ Happens("unload") /\ Unload(u)
  \/ Happens("panic") /\ (PanicRow(u) \/ PanicAborted(u) \/ PanicDestroys(u) \/ PanicCleanup(u))
  \/ Happens("signIn") /\ SignIn(u)
  \/ Happens("sessionEnd") /\ EndSession(u) /\ UNCHANGED <<clientVars, outside>>

TabsInit ==
  /\ plan \in Plans
  /\ sessions = Users
  /\ active = plan.members
  /\ cochairs = FirstChairs
  /\ enrolled = plan.enrolled
  /\ epoch = [k \in KeyIds |-> IF plan.holders # {} /\ k = FirstKey THEN 1 ELSE 0]
  /\ retired = {}
  /\ wraps = {[user |-> u, key |-> FirstKey, mat |-> FirstMaterial] : u \in plan.holders}
  /\ archive = {} /\ granting = {} /\ purging = {}
  /\ started = {} /\ completed = {}
  /\ holder = [u \in Users |-> NewHolder]
  /\ zeroed = {}
  /\ signedIn = Users
  /\ faults = 0 /\ wipes = 0 /\ panic = [u \in Users |-> "none"]

(* A wipe is final: no operation puts back into the holder a key that it   *)
(* asked for before the wipe (F-VAL-1(b), F-195); and however sign-outs,   *)
(* 401s and the two wipes of a panic fall between the awaits of the tab's  *)
(* operations, a tab without a JWT holds no key.                           *)
HeldSinceLastWipe ==
  \A u \in Users :
    /\ \A b \in HeldBuffers(holder[u]) : b.since = holder[u].gen
    /\ u \notin signedIn => HeldBuffers(holder[u]) = {}
=============================================================================
