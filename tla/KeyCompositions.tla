-------------------------- MODULE KeyCompositions --------------------------
(***************************************************************************)
(* The client-side key ceremonies of                                       *)
(* src/apps/web/src/lib/crypto/production-flows.ts running against the     *)
(* committee-key server: first set-up and repair (init), granting access   *)
(* (grant), rotation on removal (rotate) and its resumption (resume).      *)
(*                                                                         *)
(* A data key is 32 random bytes: a fresh one is named by the ceremony and *)
(* the key_id it was drawn for.  A Uint8Array holding one is a record of   *)
(* the fetch that opened it; ZeroKey is what it holds after .fill(0).      *)
(***************************************************************************)
EXTENDS ClientTabs

CONSTANTS NoUser   \* no member

vars == <<serverVars, clientVars, outside, plan>>

(* A plan names the ceremonies and the member granted or removed by each.  *)
ASSUME KeyPlansAssumption ==
  \A pl \in Plans :
    /\ pl.kind \in [Ops -> {"init", "grant", "rotate", "resume"}]
    /\ pl.target \in [Ops -> Users]

Target == plan.target

ASSUME NoUserAssumption == NoUser \notin Users

FreshKey(p, k) == <<p, k>>

(* A key is random bytes: it is not the zeros of a buffer that was cleared.*)
ASSUME ZeroKeyAssumption ==
  ZeroKey # FirstMaterial /\ \A p \in Ops, k \in KeyIds : ZeroKey # FreshKey(p, k)

NoCap == [key_id |-> NoKey, data_key |-> NoKey]
NoPost == [user |-> NoUser, key |-> NoKey, mat |-> ZeroKey]

(* gen is the entry latch of a rotation, inner that of wrapMemberIn; rest  *)
(* is remaining_members, todo those not reached, cur the one in hand.      *)
NewOp ==
  [pc |-> "idle", resp |-> NoAnswer, gen |-> 0, inner |-> 0, fetched |-> 0, since |-> 0,
   cap |-> NoCap, post |-> NoPost, rot |-> NoKey, key |-> NoKey,
   rest |-> {}, todo |-> {}, cur |-> NoUser, pending |-> {}, count |-> 1,
   res |-> "none"]

-----------------------------------------------------------------------------
(* get_member_identity_pubkey_for_wrap                                     *)
ServeDisclose(p) ==
  /\ Serving(p, {"disclose"})
  /\ IF op[p].cur \in active /\ op[p].cur \in enrolled
     THEN Reply(p, {}) /\ UNCHANGED serverVars
     ELSE Refuse(p, "422")

(* Of two transactions that mint at once one is refused: by the lock of    *)
(* rotate, which is tried and not waited for, or by the one-live index.    *)
RotatePCs == {"retire", "repair", "rotate"}
MintsAtOnce(p) ==
  \E q \in Ops \ {p} : InFlight(q) /\ op[q].pc \in RotatePCs \cup {"init"}

(* The database draws fresh uuids: which id it is does not matter, so one  *)
(* not minted yet stands for them all.                                     *)
FreshIds ==
  LET unminted == KeyIds \ Minted IN
    IF unminted = {} THEN {} ELSE {CHOOSE k \in unminted : TRUE}

ServeInit(p) ==
  /\ Serving(p, {"init"})
  /\ IF CanInitKey(Actor[p])
     THEN \/ \E k \in FreshIds : InitKey(k) /\ Reply(p, {k})
          \/ MintsAtOnce(p) /\ Refuse(p, "423")
     ELSE Refuse(p, "409")

ServeRotate(p) ==
  /\ Serving(p, RotatePCs)
  /\ CanRotate(Actor[p])
  /\ \/ \E k \in FreshIds : Rotate(k) /\ Reply(p, {k})
     \/ MintsAtOnce(p) /\ Refuse(p, "423")

WrapPCs == {"firstwrap", "repairwrap", "selfwrap", "memberwrap"}
ServeWrapChecks(p) ==
  /\ Serving(p, WrapPCs)
  /\ IF CanWrap(Actor[p], op[p].post.user, op[p].post.key)
     THEN /\ CheckWrap(op[p].post)
          /\ Answer(p, "checked", {})
          /\ UNCHANGED <<holder, zeroed, signedIn, outside>>
     ELSE Refuse(p, "403")

ServeWrapInsert(p) ==
  op[p].resp.status = "checked" /\ InsertWrap(op[p].post) /\ Reply(p, {})

ServeArchive(p) ==
  /\ Serving(p, {"revoke"})
  /\ IF CanRevoke(Actor[p], Target[p])
     THEN /\ ArchiveWraps(Target[p])
          /\ Answer(p, "archived", [member |-> Target[p], rows |-> WrapsOf(Target[p])])
          /\ UNCHANGED <<holder, zeroed, signedIn, outside>>
     ELSE Refuse(p, "403")

ServeDelete(p) ==
  op[p].resp.status = "archived" /\ DeleteWraps(op[p].resp.data) /\ Reply(p, {})

ServeFinalize(p) ==
  /\ Serving(p, {"finalize"})
  /\ IF CanFinalize(Actor[p], op[p].rot, op[p].key)
     THEN Finalize(op[p].rot, op[p].key, op[p].count) /\ Reply(p, {})
     ELSE Refuse(p, "422")

Serve(p) ==
  \/ DropRequest(p) \/ Deny(p)
  \/ ServeState(p, {"state"}) \/ ServeLiveWrap(p) \/ ServeAllWraps(p, {"allwraps"})
  \/ ServeDisclose(p)
  \/ ServeInit(p) \/ ServeRotate(p) \/ ServeFinalize(p)
  \/ ServeWrapChecks(p) \/ ServeWrapInsert(p)
  \/ ServeArchive(p) \/ ServeDelete(p)

-----------------------------------------------------------------------------
(* Mutation: the member in hand is left out of the pending list.           *)
IncompleteOffByOne(o) ==
  [End(o, "incomplete") EXCEPT !.pending = o.pending \cup (o.todo \ {o.cur})]

Incomplete(o) == [End(o, "incomplete") EXCEPT !.pending = o.pending \cup o.todo]

(* What a ceremony answers when the latch finds a session end: a resumer   *)
(* fails, a rotation that has landed is incomplete.                        *)
Abandon(p, o) == IF Kind[p] = "resume" THEN End(o, "failed") ELSE Incomplete(o)

(* Steps 6 and 7: disclose the next remaining member, or finalize.         *)
NextMember(p, o, h) ==
  IF o.todo # {}
  THEN {Request(p, [o EXCEPT !.cur = m], "disclose") : m \in o.todo}
  ELSE IF h.gen # o.gen THEN {Abandon(p, o)}
  ELSE {Request(p, o, "finalize")}

(* wrapMemberIn once the holder has a live key: read the key and its id,   *)
(* then await the fingerprint and libsodium.                               *)
Capture(o, h) ==
  [o EXCEPT !.pc = "sealing", !.resp = NoAnswer,
            !.cap = [key_id |-> GetKeyId(h), data_key |-> h.keys[GetKeyId(h)].data_key]]

WrapMemberIn(p, o, h) ==
  IF HasLiveKey(h) THEN Capture(o, h)
  ELSE Request(p, [o EXCEPT !.inner = h.gen], "state")

(* The result of wrapMemberIn, as its caller goes on.                      *)
WrapFailed(p, o) == IF Kind[p] = "grant" THEN End(o, "failed") ELSE Incomplete(o)

(* In the unwrap of a rotation's precondition nothing was rotated yet.     *)
Precondition(p, o) == Kind[p] = "rotate" /\ o.rot = NoKey
UnwrapFailed(p, o) == IF Precondition(p, o) THEN End(o, "failed") ELSE WrapFailed(p, o)

Begin(p) ==
  LET u == Actor[p]
      o == [op[p] EXCEPT !.gen = H(p).gen, !.rest = active \ {u}, !.todo = active \ {u}]
  IN  /\ op[p].pc = "idle"
      /\ u \in signedIn
      /\ CASE Kind[p] = "init" ->
                u \in enrolled /\ Become(p, Request(p, op[p], "state"))
           [] Kind[p] = "grant" ->
                \* the confirm screen disclosed the target's public key
                /\ u \in ActiveCoChairs
                /\ Target[p] \in active \cap enrolled
                /\ Become(p, WrapMemberIn(p, [op[p] EXCEPT !.cur = Target[p]], H(p)))
           [] Kind[p] = "rotate" ->
                \* the membership was removed before the key is rotated
                /\ Target[p] \notin active
                /\ Become(p, Request(p, o, IF HasLiveKey(H(p)) THEN "rotate" ELSE "state"))
           [] Kind[p] = "resume" ->
                \E r \in started :
                  Become(p, Fetch(p, [o EXCEPT !.rot = r, !.key = r], "allwraps"))

(* initCommitteeDataKey's probe, and repairZeroWrapKey for a dead key.     *)
InitProbed(p) ==
  /\ Kind[p] = "init" /\ Answered(p, "state")
  /\ LET o == op[p]
         ks == o.resp.data
     IN  IF ks = {} THEN Become(p, Request(p, o, "init"))
         ELSE \E s \in ks :
                Become(p, IF s.mine THEN End(o, "already_initialised")
                          ELSE IF s.count > 0 THEN End(o, "foreign_held")
                          ELSE Request(p, o, "repair"))

OwnWrap(p, k) == [user |-> Actor[p], key |-> k, mat |-> FreshKey(p, k)]

(* freshInit and repairZeroWrapKey and rotate: draw a key for k, seal it   *)
(* to the actor and post the wrap.                                         *)
PostOwnWrap(p, pc) ==
  \E k \in op[p].resp.data :
    Become(p, Request(p, [op[p] EXCEPT !.rot = k, !.key = k, !.post = OwnWrap(p, k)], pc))

InitMinted(p) == Answered(p, "init") /\ PostOwnWrap(p, "firstwrap")
RepairMinted(p) == Answered(p, "repair") /\ PostOwnWrap(p, "repairwrap")
InitRaced(p) ==
  /\ op[p].pc = "init" /\ op[p].resp.status = "409"
  /\ Become(p, End(op[p], "already_initialised"))
InitWrapped(p) == Answered(p, "firstwrap") /\ Become(p, End(op[p], "ok"))

(* The self-wrap failed for another reason than authorisation: retire the  *)
(* stillborn key, whatever comes of it.                                    *)
(* Mutation: only coded refusals are handled, a network error is not.      *)
LostCoded == {"409", "422", "423"}
Lost == {"lost", "409", "422", "423"}
(* Mutation: the outcome of the self-wrap is not looked at.                *)
InitWrapIgnored(p) ==
  /\ op[p].pc = "firstwrap" /\ op[p].resp.status \in Lost
  /\ Become(p, End(op[p], "ok"))

InitWrapLost(p) ==
  /\ op[p].pc = "firstwrap" /\ op[p].resp.status \in Lost
  /\ Become(p, Request(p, op[p], "retire"))
InitRetired(p) == Answered(p, "retire") /\ Become(p, End(op[p], "failed"))

RepairWrapped(p) == Answered(p, "repairwrap") /\ Become(p, Request(p, op[p], "finalize"))

(* unwrapCommitteeDataKey: probe first, then the wrap of the live key.     *)
UnwrapProbed(p) ==
  /\ Kind[p] # "init" /\ Answered(p, "state")
  /\ IF \E s \in op[p].resp.data : s.mine
     THEN Become(p, Fetch(p, op[p], "livewrap"))
     ELSE Become(p, UnwrapFailed(p, op[p]))

(* Mutation: the latch is read after the fetch.                            *)
LatchAfterFetch(p) == H(p).gen

Latch(p) == IF Precondition(p, op[p]) THEN op[p].gen ELSE op[p].inner

(* The latch check and the install of the one live key.                    *)
UnwrapFetched(p) ==
  /\ Answered(p, "livewrap")
  /\ IF op[p].resp.data = {} \/ H(p).gen # Latch(p)
     THEN Become(p, UnwrapFailed(p, op[p]))
     ELSE \E w \in op[p].resp.data :
            LET h == SetLive(H(p), Opened(p, w))
            IN  Install(p, h, IF Precondition(p, op[p]) THEN Request(p, op[p], "rotate")
                              ELSE Capture(op[p], h))

(* wrapMemberIn steps 3 and 4: re-check, re-read key and id together, seal *)
(* and post.                                                               *)
(* Mutation: the wrap is labelled with the key_id read before the awaits.  *)
SealedStaleLabel(o, h) ==
  [user |-> o.cur, key |-> o.cap.key_id, mat |-> Content(h.keys[GetKeyId(h)].data_key)]

SealedWrap(o, h) ==
  [user |-> o.cur, key |-> GetKeyId(h), mat |-> Content(h.keys[GetKeyId(h)].data_key)]

Seal(p) ==
  /\ op[p].pc = "sealing"
  /\ Become(p, IF ~HasLiveKey(H(p)) THEN WrapFailed(p, [op[p] EXCEPT !.cap = NoCap])
               ELSE Request(p, [op[p] EXCEPT !.post = SealedWrap(op[p], H(p)), !.cap = NoCap],
                            "memberwrap"))

GrantPosted(p) ==
  Kind[p] = "grant" /\ Answered(p, "memberwrap") /\ Become(p, End(op[p], "ok"))

RotateMinted(p) ==
  /\ Answered(p, "rotate")
  /\ \E k \in op[p].resp.data :
       Become(p, Request(p, [op[p] EXCEPT !.rot = k, !.key = k], "revoke"))
RotateRevoked(p) ==
  /\ Answered(p, "revoke")
  /\ Become(p, Request(p, [op[p] EXCEPT !.post = OwnWrap(p, op[p].key)], "selfwrap"))
RotateSelfWrapped(p) ==
  /\ Answered(p, "selfwrap")
  /\ Become(p, Fetch(p, op[p], "allwraps"))

(* Step 5: latch, populate with every epoch, and check that the new key is *)
(* the live one.                                                           *)
NotHolder(p, o) ==
  IF Kind[p] = "resume" THEN End(o, "cannot_resume_not_holder") ELSE Incomplete(o)

AllFetched(p) ==
  /\ Answered(p, "allwraps")
  /\ IF H(p).gen # op[p].gen THEN Become(p, Abandon(p, op[p]))
     ELSE LET h == Populate(H(p), OpenedAll(p))
          IN  IF GetKeyId(h) # op[p].key THEN Install(p, h, NotHolder(p, op[p]))
              ELSE \E o \in NextMember(p, op[p], h) : Install(p, h, o)

Disclosed(p) ==
  /\ Answered(p, "disclose")
  /\ Become(p, IF H(p).gen # op[p].gen THEN Abandon(p, op[p])
               ELSE WrapMemberIn(p, op[p], H(p)))

Done(o) == [o EXCEPT !.todo = o.todo \ {o.cur}, !.cur = NoUser]

NotEnrolled(p) ==
  /\ op[p].pc = "disclose" /\ op[p].resp.status = "422"
  /\ \E o \in NextMember(p, Done([op[p] EXCEPT !.pending = @ \cup {op[p].cur}]), H(p)) :
       Become(p, o)

Rewrapped(p) ==
  /\ Kind[p] # "grant" /\ Answered(p, "memberwrap")
  /\ \E o \in NextMember(p, Done([op[p] EXCEPT !.count = @ + 1]), H(p)) : Become(p, o)

Finalized(p) ==
  /\ Answered(p, "finalize")
  /\ Become(p, End(op[p], IF op[p].pending = {} THEN "ok" ELSE "ok_with_pending"))

(* Every other answer ends the ceremony.  A 401 has first run              *)
(* onSessionRevoked: the JWT is dropped and the holder wiped.              *)
FailureResult(p) ==
  LET o == op[p] IN
  CASE Kind[p] = "init" -> End(o, "failed")
    [] Kind[p] # "init" /\ o.pc \in {"state", "livewrap"} -> UnwrapFailed(p, o)
    [] o.pc = "rotate" -> End(o, "failed")
    [] o.pc \in {"revoke", "selfwrap"} -> End(o, "orphaned")
    [] o.pc = "allwraps" -> Abandon(p, o)
    [] o.pc = "memberwrap" -> WrapFailed(p, o)
    [] o.pc \in {"disclose", "finalize"} /\ Kind[p] # "init" -> Incomplete(o)

Handled(p) ==
  \/ op[p].pc = "init" /\ op[p].resp.status = "409"
  \/ op[p].pc = "firstwrap" /\ op[p].resp.status \in Lost
  \/ op[p].pc = "disclose" /\ op[p].resp.status = "422"

Fail(p) ==
  /\ op[p].resp.status \in Lost \cup {"401", "403"}
  /\ ~Handled(p)
  /\ Failed(p, FailureResult(p))

Step(p) ==
  \/ Begin(p) \/ Fail(p) \/ Seal(p)
  \/ InitProbed(p) \/ InitMinted(p) \/ InitRaced(p) \/ InitWrapped(p)
  \/ InitWrapLost(p) \/ InitRetired(p) \/ RepairMinted(p) \/ RepairWrapped(p)
  \/ UnwrapProbed(p) \/ UnwrapFetched(p) \/ GrantPosted(p)
  \/ RotateMinted(p) \/ RotateRevoked(p) \/ RotateSelfWrapped(p) \/ AllFetched(p)
  \/ Disclosed(p) \/ NotEnrolled(p) \/ Rewrapped(p) \/ Finalized(p)

-----------------------------------------------------------------------------
Environment ==
  \E u \in Users :
    \/ TabEvent(u)
    \/ Happens("enroll") /\ CanEnroll(u) /\ Enroll(u) /\ UNCHANGED <<clientVars, outside>>
    \/ Happens("activate") /\ Activate(u) /\ UNCHANGED <<clientVars, outside>>
    \/ /\ Happens("remove")
       /\ \E by \in Users : CanRemove(by, u)
       /\ RemoveMember(u)
       /\ UNCHANGED <<clientVars, outside>>

Init == TabsInit /\ op = [p \in Ops |-> NewOp]

Next == ((\E p \in Ops : Step(p) \/ Serve(p)) \/ Environment) /\ UNCHANGED plan

Spec == Init /\ [][Next]_vars

(* The event loop runs every continuation, and every fetch settles: the    *)
(* browser answers or reports a network error.                             *)
Progress(p) == ((op[p].pc # "idle" /\ Step(p)) \/ Serve(p)) /\ UNCHANGED plan
FairSpec == Spec /\ \A p \in Ops : WF_vars(Progress(p))

-----------------------------------------------------------------------------
EverWrapped(u, k) == \E w \in wraps \cup archive : w.user = u /\ w.key = k

(* Every wrap of one key_id seals the same bytes, and never a zeroized     *)
(* buffer: what one member seals under a key the others can open (F-137,   *)
(* F-190), whatever is rotated or wiped while a wrap is being made.        *)
OneMaterialPerKey ==
  \A v, w \in wraps \cup archive \cup granting :
    v.mat # ZeroKey /\ (v.key = w.key => v.mat = w.mat)

(* What a rotation reports: every remaining member that is not listed as   *)
(* pending, and the actor, was given the new key.                          *)
Reports(p) ==
  /\ Kind[p] \in {"rotate", "resume"}
  /\ op[p].res \in {"ok", "ok_with_pending", "incomplete"}
CoverageOf(p) ==
  \A m \in {Actor[p]} \cup (op[p].rest \ op[p].pending) : EverWrapped(m, op[p].key)

(* It is true when ceremonies do not share a tab, whatever is lost, wiped  *)
(* or done by others (AC-B11, F-137); and the audited                      *)
(* members_rewrapped_count never exceeds the members who were given the    *)
(* key that the rotation completed with.                                   *)
TabsOfTheirOwn == \A p, q \in Ops : Actor[p] = Actor[q] => p = q
ReportedCoverage ==
  TabsOfTheirOwn =>
    /\ \A p \in Ops : Reports(p) => CoverageOf(p)
    /\ \A c \in completed : c.count <= Cardinality({u \in Users : EverWrapped(u, c.key)})

(* The key minted on a removal never reaches the removed member, who may   *)
(* be reactivated meanwhile, unless a later ceremony gives it to them.     *)
RemovedNeverGetsNewKey ==
  \A p \in Ops :
    Kind[p] = "rotate" /\ op[p].key # NoKey => ~EverWrapped(Target[p], op[p].key)

(* "No silent dead key": a live key nobody was ever given means a ceremony *)
(* still under way or one that reported a failure; and set-up that reports *)
(* success gave its actor the key (AC-5d).                                 *)
LoudResults == {"failed", "orphaned", "incomplete"}
NoSilentDeadKey ==
  /\ \A k \in LiveKeys :
       (\A u \in Users : ~EverWrapped(u, k)) =>
         \E p \in Ops : op[p].pc \notin {"idle", "ended"} \/ op[p].res \in LoudResults
  /\ \A p \in Ops : Kind[p] = "init" /\ op[p].res = "ok" => EverWrapped(Actor[p], op[p].key)

(* Every ceremony that starts comes to a result.                           *)
CeremoniesEnd ==
  \A p \in Ops : op[p].pc # "idle" ~> op[p].pc = "ended"

-----------------------------------------------------------------------------
(* production-flows.ts:1148: the purge runs before any wrap "so the removed *)
(* member's reactivation window closes at once".                           *)
PurgedHoldsNothing ==
  \A p \in Ops : Kind[p] = "rotate" /\ op[p].res = "ok" => WrapsOf(Target[p]) = {}
=============================================================================
