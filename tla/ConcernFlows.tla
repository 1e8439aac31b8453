---------------------------- MODULE ConcernFlows ----------------------------
(***************************************************************************)
(* Filing, listing and revealing concerns                                  *)
(* (src/apps/web/src/lib/concerns/production-flows.ts): each operation     *)
(* probes the key state, brings the tab's holder up to date, and then      *)
(* seals a record under the live key or opens records under any held key.  *)
(* Others meanwhile rotate the key, grant or purge wraps, and file.        *)
(*                                                                         *)
(* A record is named by the key its ciphertext opens under: the server     *)
(* stores no key id with it (0004_concerns.sql), so the key_id hints the   *)
(* client would follow never come.  Every member holds the same bytes      *)
(* under one key_id (OneMaterialPerKey of KeyCompositions), so a data key  *)
(* is named by its key_id.                                                 *)
(***************************************************************************)
EXTENDS ClientTabs

CONSTANTS Me   \* the user whose tab this is

VARIABLES records   \* concerns rows

vars == <<serverVars, clientVars, outside, plan, records>>

(* A plan names the operations of Me's tab and whether they overlap, the   *)
(* keys that records are already filed under, and the keys that may still  *)
(* be minted.                                                              *)
ASSUME ConcernPlansAssumption ==
  \A pl \in Plans :
    /\ pl.kind \in [Ops -> {"submit", "list", "reveal"}]
    /\ pl.overlap \in BOOLEAN
    /\ pl.filed \subseteq {FirstKey} /\ pl.mints \subseteq KeyIds

(* The committee's first key is named as every key is, and none is zeros.  *)
ASSUME FirstKeyAssumption == FirstKey \in KeyIds /\ FirstMaterial = FirstKey
ASSUME ZeroKeyAssumption == ZeroKey \notin KeyIds
ASSUME MeAssumption == Me \in Users

(* gen is the latch of the fetch in hand, used the EscalationGuard, then   *)
(* what escalateToAllEpochs returns to; rows are the rows not yet opened,  *)
(* row the one in hand, trying the held keys not yet tried on it.  History *)
(* variables: begun and mine, the holder's generation and the actor's      *)
(* wraps when the operation began; probed, the live key it was told of;    *)
(* disclosures, the number of all-wraps requests.                          *)
NewOp ==
  [pc |-> "idle", resp |-> NoAnswer, gen |-> 0, fetched |-> 0, since |-> 0,
   used |-> FALSE, then |-> "none", rows |-> {}, row |-> NoKey, trying |-> {},
   retried |-> FALSE, post |-> NoKey, res |-> "none",
   begun |-> 0, mine |-> {}, probed |-> NoKey, disclosures |-> 0]

Running(p) == op[p].pc \notin {"idle", "ended"}

-----------------------------------------------------------------------------
(* The server: concern_submit, concern_list_default, reveal_concern_source *)
ServeSubmit(p) ==
  /\ Serving(p, {"submit"})
  /\ records' = records \cup {op[p].post}
  /\ Reply(p, {}) /\ UNCHANGED serverVars

(* The list is empty, not an error, for someone who is no active member.   *)
ServeList(p) ==
  /\ InFlight(p) /\ op[p].pc = "list" /\ GateSession(Actor[p])
  /\ Reply(p, IF GateActiveMember(Actor[p]) THEN records ELSE {})
  /\ UNCHANGED <<serverVars, records>>

ServeReveal(p) ==
  Serving(p, {"reveal"}) /\ Reply(p, {op[p].row}) /\ UNCHANGED <<serverVars, records>>

Serve(p) ==
  \/ ServeSubmit(p) \/ ServeList(p) \/ ServeReveal(p)
  \/ /\ \/ DropRequest(p)
        \/ (op[p].pc # "list" \/ ~GateSession(Actor[p])) /\ Deny(p)
        \/ ServeState(p, {"probe", "state"}) \/ ServeLiveWrap(p)
        \/ ServeAllWraps(p, {"heal", "escalate"})
     /\ UNCHANGED records

-----------------------------------------------------------------------------
(* ensureHolderPopulated and escalateToAllEpochs                           *)

(* The all-wraps request: the guard is spent and the latch read before it. *)
Disclose(p, o, pc) ==
  [Fetch(p, o, pc) EXCEPT !.used = TRUE, !.gen = H(p).gen, !.disclosures = o.disclosures + 1]

(* Mutation: the self-heal leaves the guard unspent.                       *)
HealUnguarded(p, o) == [Disclose(p, o, "heal") EXCEPT !.used = FALSE]
Heal(p, o) == Disclose(p, o, "heal")

(* What follows once the holder is ready: await libsodium, or the read.    *)
Proceed(p, o) ==
  IF Kind[p] = "submit" THEN [o EXCEPT !.pc = "sealing", !.resp = NoAnswer]
  ELSE Request(p, o, Kind[p])

EnsureLive(p, o, h) ==
  IF HasLiveKey(h) THEN Proceed(p, o)
  ELSE Request(p, [o EXCEPT !.gen = h.gen], "state")

(* After the escalation of a reader who has no wrap of the live key.       *)
ReadRetired(p, o, h) == IF IsPopulated(h) THEN Proceed(p, o) ELSE End(o, "needs_setup")

(* No wrap of the live key: a reader escalates, a sealer fails closed.     *)
NoLiveWrap(p, o, h) ==
  IF Kind[p] = "submit" THEN End(o, "needs_setup")
  ELSE IF o.used THEN ReadRetired(p, o, h)
  ELSE Disclose(p, [o EXCEPT !.then = "ensure"], "escalate")

Begin(p) ==
  /\ op[p].pc = "idle" /\ Actor[p] \in signedIn
  /\ plan.overlap \/ \A q \in Ops : ~Running(q)
  /\ \E r \in IF Kind[p] = "reveal" THEN records ELSE {NoKey} :
       Become(p, Request(p, [op[p] EXCEPT !.row = r, !.begun = H(p).gen,
                               !.mine = {w.key : w \in WrapsOf(Actor[p])}], "probe"))

(* Mutation: the self-heal is gated on a missing live key.                 *)
StaleIfNoLive(h, k) == IsPopulated(h) /\ ~HasLiveKey(h)
Stale(h, k) == IsPopulated(h) /\ GetKeyId(h) # k

Probed(p) ==
  /\ Answered(p, "probe")
  /\ IF \A s \in op[p].resp.data : ~s.mine THEN Become(p, End(op[p], "needs_setup"))
     ELSE \E s \in op[p].resp.data :
            LET o == [op[p] EXCEPT !.probed = s.key]
            IN  IF Stale(H(p), s.key)
                THEN Install(p, OnKeyRotationObserved(H(p), s.key), Heal(p, o))
                ELSE Become(p, EnsureLive(p, o, H(p)))

(* Mutation: the latch is not looked at.                                   *)
WipedNever(p) == FALSE
Wiped(p) == H(p).gen # op[p].gen

(* Mutation: set() of the live entry, where populate() keeps every epoch.  *)
HealBySet(p) ==
  IF \E e \in OpenedAll(p) : e.is_live
  THEN SetLive(H(p), CHOOSE e \in OpenedAll(p) : e.is_live) ELSE H(p)
Repopulated(p) == Populate(H(p), OpenedAll(p))

Healed(p) ==
  /\ Answered(p, "heal")
  /\ IF Wiped(p) THEN Become(p, End(op[p], "session_expiry"))
     ELSE LET h == Repopulated(p) IN Install(p, h, EnsureLive(p, op[p], h))

UnwrapProbed(p) ==
  /\ Answered(p, "state")
  /\ Become(p, IF \E s \in op[p].resp.data : s.mine THEN Fetch(p, op[p], "livewrap")
               ELSE NoLiveWrap(p, op[p], H(p)))

UnwrapFetched(p) ==
  /\ Answered(p, "livewrap")
  /\ IF op[p].resp.data = {} THEN Become(p, NoLiveWrap(p, op[p], H(p)))
     ELSE IF Wiped(p) THEN Become(p, End(op[p], "session_expiry"))
     ELSE \E w \in op[p].resp.data :
            Install(p, SetLive(H(p), Opened(p, w)), Proceed(p, op[p]))

(* trialOpen takes a snapshot of the held entries.                         *)
Trial(o, h) ==
  [o EXCEPT !.pc = "trial", !.resp = NoAnswer, !.trying = {h.keys[k] : k \in HeldIds(h)}]

(* The holder is replaced only when the fetch adds an epoch.               *)
Escalated(p) ==
  /\ Answered(p, "escalate")
  /\ IF Wiped(p) THEN Become(p, End(op[p], "session_expiry"))
     ELSE LET h == IF \E e \in OpenedAll(p) : ~HoldsKeyId(H(p), e.key_id)
                   THEN Repopulated(p) ELSE H(p)
          IN  Install(p, h, IF op[p].then = "ensure" THEN ReadRetired(p, op[p], h)
                            ELSE Trial([op[p] EXCEPT !.retried = TRUE], h))

-----------------------------------------------------------------------------
(* submitConcern: after the await, the live key is read again and used at  *)
(* once.                                                                   *)
Seal(p) ==
  /\ op[p].pc = "sealing"
  /\ Become(p, IF ~HasLiveKey(H(p)) THEN End(op[p], "session_expiry")
               ELSE Request(p, [op[p] EXCEPT !.post = Content(H(p).keys[GetKeyId(H(p))].data_key)],
                            "submit"))

Submitted(p) == Answered(p, "submit") /\ Become(p, End(op[p], "ok"))

(* listConcerns row by row, and revealConcernSource with its one row.      *)
NextRow(o, h) ==
  IF o.rows = {} THEN {End(o, "ok")}
  ELSE {Trial([o EXCEPT !.row = r, !.rows = o.rows \ {r}, !.retried = FALSE], h) : r \in o.rows}

Read(p) ==
  /\ Answered(p, Kind[p])
  /\ Kind[p] # "submit"
  /\ \E o \in IF IsPopulated(H(p)) THEN NextRow([op[p] EXCEPT !.rows = op[p].resp.data], H(p))
              ELSE {End(op[p], "session_expiry")} :
       Become(p, o)

(* trialOpen: the newest key not yet tried, as its buffer is by then.      *)
TryKey(p) ==
  /\ op[p].pc = "trial"
  /\ \E e \in op[p].trying :
       /\ \A f \in op[p].trying : f.epoch <= e.epoch
       /\ IF Content(e.data_key) = op[p].row
          THEN \E o \in NextRow(op[p], H(p)) : Become(p, o)
          ELSE Become(p, [op[p] EXCEPT !.trying = op[p].trying \ {e}])

(* No held key opens the row: escalate once, retry once.                   *)
Missed(p) ==
  /\ op[p].pc = "trial" /\ op[p].trying = {}
  /\ Become(p, IF op[p].retried THEN End(op[p], "decrypt_failed")
               ELSE IF op[p].used THEN Trial([op[p] EXCEPT !.retried = TRUE], H(p))
               ELSE Disclose(p, [op[p] EXCEPT !.then = "trial"], "escalate"))

(* Mutation: a lost answer to the escalation is not handled.               *)
RefusedCoded(p) == op[p].resp.status \in {"401", "403"}
Refused(p) == op[p].resp.status \in {"401", "403", "lost"}

(* Refused and lost requests.  A lost escalation counts as a miss.         *)
Fail(p) ==
  /\ Refused(p)
  /\ Failed(p, End(op[p],
       IF op[p].resp.status = "401" THEN "session_expiry"
       ELSE IF op[p].pc = "escalate" /\ op[p].then = "trial" /\ op[p].resp.status = "lost"
       THEN "decrypt_failed" ELSE "failed"))

Step(p) ==
  /\ \/ Begin(p) \/ Probed(p) \/ Healed(p) \/ UnwrapProbed(p) \/ UnwrapFetched(p)
     \/ Escalated(p) \/ Seal(p) \/ Submitted(p) \/ Read(p) \/ TryKey(p) \/ Missed(p)
     \/ Fail(p)
  /\ UNCHANGED records

-----------------------------------------------------------------------------
(* The other members: rotate, grant and purge, and file under a key they   *)
(* were given.                                                             *)
Elsewhere ==
  /\ \/ /\ Happens("rotate")
        /\ \E u \in Users \ {Me}, k \in plan.mints : CanRotate(u) /\ Rotate(k)
        /\ UNCHANGED records
     \/ /\ Happens("grant")
        /\ \E u \in Users \ {Me}, k \in KeyIds :
             /\ CanWrap(u, Me, k) /\ ~HasWrap(Me, k)
             /\ InsertWrap([user |-> Me, key |-> k, mat |-> k])
        /\ UNCHANGED records
     \/ /\ Happens("purge")
        /\ \E u \in Users \ {Me} : CanRevoke(u, Me)
        /\ WrapsOf(Me) # {}
        /\ DeleteWraps([member |-> Me, rows |-> WrapsOf(Me)])
        /\ UNCHANGED records
     \/ /\ Happens("remove")
        /\ \E u \in Users \ {Me} : CanRemove(u, Me)
        /\ RemoveMember(Me)
        /\ UNCHANGED records
     \/ /\ Happens("file")
        /\ \E k \in Minted : records' = records \cup {k}
        /\ UNCHANGED serverVars
  /\ UNCHANGED <<clientVars, outside>>

Init == TabsInit /\ op = [p \in Ops |-> NewOp] /\ records = plan.filed

Next ==
  /\ (\E p \in Ops : Step(p) \/ Serve(p)) \/ Elsewhere \/ (TabEvent(Me) /\ UNCHANGED records)
  /\ UNCHANGED plan

Spec == Init /\ [][Next]_vars

(* The event loop runs every continuation, and every fetch settles.        *)
Progress(p) == ((Running(p) /\ Step(p)) \/ Serve(p)) /\ UNCHANGED plan
FairSpec == Spec /\ \A p \in Ops : WF_vars(Progress(p))

-----------------------------------------------------------------------------
(* F182-9: the disclosure that lists every wrap, and leaves an audit row   *)
(* for each, is requested at most once per operation, whether it is the    *)
(* self-heal or the escalation that asks for it.                           *)
OneDisclosurePerOp == \A p \in Ops : op[p].disclosures <= 1

(* A new record is never sealed under zeros, nor, when operations do not   *)
(* overlap, under an older key than the server told the operation of       *)
(* (F-183-R, F-190).                                                       *)
FreshSeal ==
  \A p \in Ops : op[p].post # NoKey =>
    /\ op[p].post # ZeroKey
    /\ ~plan.overlap => epoch[op[p].post] >= epoch[op[p].probed]

(* A record whose key the actor had a wrap of when the operation began,    *)
(* and still has, never purged, opens: decrypt_failed is a genuine miss    *)
(* (F-183), unless the session ended, an answer was lost, another          *)
(* operation of the tab replaced the holder, or the key was rotated again  *)
(* while the operation ran (MissIsGenuine).                                *)
ReadableRowsOpen ==
  \A p \in Ops :
    /\ op[p].res = "decrypt_failed"
    /\ ~plan.overlap /\ faults = 0 /\ op[p].begun = H(p).gen
    /\ op[p].probed \in LiveKeys
    /\ HasWrap(Actor[p], op[p].row) /\ ~\E a \in archive : a.user = Actor[p] /\ a.key = op[p].row
    => op[p].row \notin op[p].mine

(* Every operation that starts comes to a result.                          *)
OperationsEnd == \A p \in Ops : op[p].pc # "idle" ~> op[p].pc = "ended"

=============================================================================
