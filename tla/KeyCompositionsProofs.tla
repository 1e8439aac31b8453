------------------------ MODULE KeyCompositionsProofs -----------------------
(***************************************************************************)
(* The committee keys for every set of users, keys and materials.  First   *)
(* the tables, whatever the clients call (ServerSpec); then the ceremonies *)
(* of KeyCompositions, for any number of ceremonies under any plan: every  *)
(* wrap of a key seals the same bytes, and a wipe of a holder is final; a  *)
(* removed member is not given the new key; no dead key goes unreported;   *)
(* and a rotation reports whom it has covered.                             *)
(***************************************************************************)
EXTENDS KeyCompositions, FiniteSetTheorems, TLAPS

-----------------------------------------------------------------------------
(* Part 1: the key tables.                                                 *)

(* The inductive invariant.  It adds to the checked invariants that a      *)
(* retired key was minted, without which NewestLive could miss the row     *)
(* that rotate has to retire, and that a purge in flight only holds rows   *)
(* of minted keys.                                                         *)
PurgesWellFormed == \A p \in purging : \A w \in p.rows : w.key \in Minted

ServerInv ==
  /\ ServerTypeOK
  /\ retired \subseteq Minted
  /\ OneLiveNewest
  /\ WrapsWellFormed
  /\ PurgesWellFormed
  /\ CompletedWasStarted

-----------------------------------------------------------------------------
(* max(epoch) + 1 is above every minted epoch.                             *)
LEMMA NextEpochAbove ==
  ASSUME epoch \in [KeyIds -> Nat], OneLiveNewest
  PROVE  /\ NextEpoch \in Nat
         /\ \A k \in KeyIds : epoch[k] < NextEpoch
<1> DEFINE S == {0} \cup {epoch[k] : k \in KeyIds}
           max == CHOOSE n \in S : \A k \in KeyIds : epoch[k] <= n
<1>1. epoch \in [KeyIds -> Nat] /\ S \subseteq Nat
  OBVIOUS
<1>2. \E n \in S : \A k \in KeyIds : epoch[k] <= n
  <2>1. CASE Minted = {}
    BY <1>1, <2>1 DEF Minted
  <2>2. CASE Minted # {}
    <3>1. PICK k \in LiveKeys : \A j \in Minted : epoch[j] <= epoch[k]
      BY <2>2 DEF OneLiveNewest
    <3>2. k \in KeyIds /\ epoch[k] \in S
      BY <3>1 DEF LiveKeys, Minted
    <3>3. ASSUME NEW j \in KeyIds PROVE epoch[j] <= epoch[k]
      <4>1. epoch[j] \in Nat /\ epoch[k] \in Nat
        BY <1>1, <3>2
      <4>2. CASE j \in Minted
        BY <3>1, <4>2
      <4>3. CASE j \notin Minted
        BY <4>1, <4>3 DEF Minted
      <4> QED BY <4>2, <4>3
    <3> QED BY <3>2, <3>3
  <2> QED BY <2>1, <2>2
<1>3. max \in S /\ \A k \in KeyIds : epoch[k] <= max
  BY <1>2
<1>4. NextEpoch = 1 + max
  BY DEF NextEpoch
<1> HIDE DEF max
<1> QED BY <1>1, <1>3, <1>4

(* Minting a key while every older one is retired leaves it the one live   *)
(* key, and the newest.                                                    *)
KeysInv ==
  /\ epoch \in [KeyIds -> Nat]
  /\ retired \subseteq Minted
  /\ OneLiveNewest

LEMMA MintKeys ==
  ASSUME KeysInv, NEW k \in KeyIds, k \notin Minted,
         epoch' = [epoch EXCEPT ![k] = NextEpoch],
         retired' \subseteq Minted, Minted \subseteq retired'
  PROVE  KeysInv' /\ Minted' = Minted \cup {k}
<1>1. /\ NextEpoch \in Nat
      /\ \A j \in KeyIds : epoch[j] < NextEpoch
      /\ epoch \in [KeyIds -> Nat]
  BY NextEpochAbove DEF KeysInv
<1>2. /\ epoch'[k] = NextEpoch
      /\ \A j \in KeyIds : j # k => epoch'[j] = epoch[j]
      /\ epoch' \in [KeyIds -> Nat]
  BY <1>1
<1>3. NextEpoch > 0
  BY <1>1
<1>4. Minted' = Minted \cup {k}
  BY <1>2, <1>3 DEF Minted
<1>5. k \in LiveKeys'
  BY <1>4 DEF LiveKeys
<1>6. \A j \in Minted' :
        /\ epoch'[j] <= epoch'[k]
        /\ j # k => j \in retired' /\ epoch'[j] < epoch'[k]
  <2> TAKE j \in Minted'
  <2>1. CASE j = k
    BY <1>1, <1>2, <2>1
  <2>2. CASE j # k
    BY <1>1, <1>2, <1>4, <2>2 DEF Minted
  <2> QED BY <2>1, <2>2
<1>7. OneLiveNewest'
  BY <1>5, <1>6 DEF OneLiveNewest
<1> QED BY <1>2, <1>4, <1>7 DEF KeysInv

LEMMA MintPreserves ==
  ASSUME ServerInv, NEW k \in KeyIds, k \notin Minted,
         epoch' = [epoch EXCEPT ![k] = NextEpoch],
         retired' \subseteq Minted, Minted \subseteq retired',
         UNCHANGED <<wrapRows, completed>>,
         started' \subseteq started \cup {k}, started \subseteq started'
  PROVE  /\ epoch' \in [KeyIds -> Nat]
         /\ Minted' = Minted \cup {k}
         /\ (retired \subseteq Minted)'
         /\ OneLiveNewest'
         /\ WrapsWellFormed' /\ PurgesWellFormed'
         /\ CompletedWasStarted'
<1>1. KeysInv' /\ Minted' = Minted \cup {k}
  BY MintKeys DEF KeysInv, ServerInv, ServerTypeOK
<1>2. WrapsWellFormed'
  BY <1>1 DEF ServerInv, WrapsWellFormed, wrapRows, inFlight
<1>3. PurgesWellFormed'
  BY <1>1 DEF ServerInv, PurgesWellFormed, wrapRows, inFlight
<1>4. CompletedWasStarted'
  BY <1>1 DEF ServerInv, CompletedWasStarted
<1> QED BY <1>1, <1>2, <1>3, <1>4 DEF KeysInv

(* rotate retires every minted key that is not yet retired.                *)
LEMMA RotateRetires ==
  ASSUME OneLiveNewest, epoch \in [KeyIds -> Nat]
  PROVE  NewestLive \subseteq Minted /\ Minted \subseteq retired \cup NewestLive
<1>1. CASE Minted = {}
  BY <1>1 DEF NewestLive, LiveKeys
<1>2. CASE Minted # {}
  <2>1. PICK n \in LiveKeys : \A j \in Minted :
          /\ epoch[j] <= epoch[n]
          /\ j # n => j \in retired /\ epoch[j] < epoch[n]
    BY <1>2 DEF OneLiveNewest
  <2>2. LiveKeys = {n}
    BY <2>1 DEF LiveKeys
  <2>3. NewestLive = {n}
    BY <2>2 DEF NewestLive, LiveKeys, Minted
  <2> QED BY <2>1, <2>3 DEF LiveKeys
<1> QED BY <1>1, <1>2

(* A step that mints and retires nothing preserves what is said of keys.   *)
LEMMA KeysUnchanged ==
  ASSUME ServerInv, UNCHANGED keyRows
  PROVE  Minted' = Minted /\ LiveKeys' = LiveKeys
         /\ (retired \subseteq Minted)' /\ OneLiveNewest'
  BY DEF ServerInv, keyRows, Minted, LiveKeys, OneLiveNewest

-----------------------------------------------------------------------------
LEMMA ServerInitInv == ServerInit => ServerInv
  BY FirstAssumption DEF ServerInit, ServerInv, ServerTypeOK, Minted, LiveKeys,
     OneLiveNewest, WrapsWellFormed, PurgesWellFormed, CompletedWasStarted

LEMMA ServerStepInv == ServerInv /\ [ServerNext]_serverVars => ServerInv'
<1> SUFFICES ASSUME ServerInv, [ServerNext]_serverVars PROVE ServerInv'
  OBVIOUS
<1> USE DEF ServerInv
<1>1. ASSUME NEW u \in Users,
             (CanEnroll(u) /\ Enroll(u)) \/ Activate(u) \/ EndSession(u) \/ OpenSession(u)
      PROVE  ServerInv'
  <2>1. UNCHANGED <<keyRows, wrapRows, rotations>>
    BY <1>1 DEF Enroll, Activate, EndSession, OpenSession
  <2>2. ServerTypeOK'
    BY <1>1, <2>1 DEF Enroll, Activate, EndSession, OpenSession, ServerTypeOK,
       membership, keyRows, wrapRows, inFlight, rotations
  <2> QED BY <2>1, <2>2, KeysUnchanged
          DEF WrapsWellFormed, PurgesWellFormed, CompletedWasStarted, wrapRows, inFlight, rotations
<1>2. ASSUME NEW u \in Users, NEW k \in KeyIds, CanInitKey(u), InitKey(k)
      PROVE  ServerInv'
  <2>1. /\ k \notin Minted
        /\ epoch' = [epoch EXCEPT ![k] = NextEpoch]
        /\ UNCHANGED <<sessions, membership, enrolled, retired, wrapRows, rotations>>
    BY <1>2 DEF InitKey
  <2>2. Minted \subseteq retired
    BY <1>2 DEF CanInitKey, LiveKeys
  <2>3. /\ epoch' \in [KeyIds -> Nat]
        /\ (retired \subseteq Minted)' /\ OneLiveNewest'
        /\ WrapsWellFormed' /\ PurgesWellFormed' /\ CompletedWasStarted'
    BY <2>1, <2>2, MintPreserves DEF rotations
  <2>4. ServerTypeOK'
    BY <2>1, <2>3 DEF ServerTypeOK, membership, wrapRows, inFlight, rotations
  <2> QED BY <2>3, <2>4
<1>3. ASSUME NEW u \in Users, NEW k \in KeyIds, CanRotate(u), Rotate(k)
      PROVE  ServerInv'
  <2>1. /\ k \notin Minted
        /\ retired' = retired \cup NewestLive
        /\ epoch' = [epoch EXCEPT ![k] = NextEpoch]
        /\ started' = started \cup {k}
        /\ UNCHANGED <<sessions, membership, enrolled, wrapRows, completed>>
    BY <1>3 DEF Rotate
  <2>2. NewestLive \subseteq Minted /\ Minted \subseteq retired \cup NewestLive
    BY RotateRetires DEF ServerTypeOK
  <2>3. /\ epoch' \in [KeyIds -> Nat]
        /\ (retired \subseteq Minted)' /\ OneLiveNewest'
        /\ WrapsWellFormed' /\ PurgesWellFormed' /\ CompletedWasStarted'
    BY <2>1, <2>2, MintPreserves
  <2>4. retired' \subseteq KeyIds
    BY <2>1, <2>2 DEF ServerTypeOK, Minted
  <2>5. ServerTypeOK'
    BY <2>1, <2>3, <2>4 DEF ServerTypeOK, membership, wrapRows, inFlight
  <2> QED BY <2>3, <2>5
<1>4. ASSUME NEW u \in Users, NEW m \in Users, NEW k \in KeyIds, NEW x \in Materials,
             CanWrap(u, m, k), CheckWrap([user |-> m, key |-> k, mat |-> x])
      PROVE  ServerInv'
  <2>1. /\ granting' = granting \cup {[user |-> m, key |-> k, mat |-> x]}
        /\ UNCHANGED <<sessions, membership, enrolled, keyRows, wraps, archive, purging, rotations>>
        /\ k \in Minted
    BY <1>4 DEF CheckWrap, CanWrap
  <2>2. granting' \subseteq Wrap
    BY <2>1 DEF ServerTypeOK, Wrap
  <2>3. ServerTypeOK'
    BY <2>1, <2>2 DEF ServerTypeOK, membership, keyRows, rotations
  <2> QED BY <2>1, <2>3, KeysUnchanged
          DEF WrapsWellFormed, PurgesWellFormed, CompletedWasStarted, rotations
<1>5. ASSUME NEW w \in granting, InsertWrap(w)
      PROVE  ServerInv'
  <2>1. /\ wraps' = IF HasWrap(w.user, w.key) THEN wraps ELSE wraps \cup {w}
        /\ granting' \subseteq granting
        /\ UNCHANGED <<sessions, membership, enrolled, keyRows, archive, purging, rotations>>
        /\ w \in Wrap /\ w.key \in Minted
    BY <1>5 DEF InsertWrap, ServerTypeOK, WrapsWellFormed
  <2>2. ServerTypeOK'
    BY <2>1 DEF ServerTypeOK, membership, keyRows, rotations
  <2>3. Minted' = Minted
        /\ (retired \subseteq Minted)' /\ OneLiveNewest'
    BY <2>1, KeysUnchanged
  <2>4. WrapsWellFormed'
    BY <2>1, <2>3 DEF WrapsWellFormed, HasWrap
  <2> QED BY <2>1, <2>2, <2>3, <2>4 DEF PurgesWellFormed, CompletedWasStarted, rotations
<1>9. ASSUME NEW u \in Users, NEW m \in Users, CanRevoke(u, m), ArchiveWraps(m)
      PROVE  ServerInv'
  <2>1. /\ purging' = purging \cup {[member |-> m, rows |-> WrapsOf(m)]}
        /\ WrapsOf(m) \subseteq wraps
        /\ UNCHANGED <<sessions, membership, enrolled, keyRows, wraps, archive, granting,
                       rotations>>
    BY <1>9 DEF ArchiveWraps, WrapsOf
  <2>2. ServerTypeOK'
    BY <2>1 DEF ServerTypeOK, membership, keyRows, rotations
  <2> QED BY <2>1, <2>2, KeysUnchanged
          DEF WrapsWellFormed, PurgesWellFormed, CompletedWasStarted, rotations
<1>10. ASSUME NEW p \in purging, DeleteWraps(p)
      PROVE  ServerInv'
  <2>1. /\ purging' \subseteq purging
        /\ archive' = archive \cup p.rows
        /\ wraps' \subseteq wraps
        /\ p.rows \subseteq Wrap /\ \A w \in p.rows : w.key \in Minted
        /\ UNCHANGED <<sessions, membership, enrolled, keyRows, granting, rotations>>
    BY <1>10 DEF DeleteWraps, ServerTypeOK, PurgesWellFormed
  <2>2. ServerTypeOK'
    BY <2>1 DEF ServerTypeOK, membership, keyRows, rotations
  <2> QED BY <2>1, <2>2, KeysUnchanged
          DEF WrapsWellFormed, PurgesWellFormed, CompletedWasStarted, rotations
<1>6. ASSUME NEW u \in Users, NEW m \in Users, CanRemove(u, m), RemoveMember(m)
      PROVE  ServerInv'
  <2>1. /\ active' \subseteq active
        /\ UNCHANGED <<sessions, cochairs, enrolled, keyRows, wrapRows, rotations>>
    BY <1>6 DEF RemoveMember
  <2>2. ServerTypeOK'
    BY <2>1 DEF ServerTypeOK, keyRows, wrapRows, inFlight, rotations
  <2> QED BY <2>1, <2>2, KeysUnchanged
          DEF WrapsWellFormed, PurgesWellFormed, CompletedWasStarted, wrapRows, inFlight, rotations
<1>7. ASSUME NEW u \in Users, NEW rot \in KeyIds, NEW k \in KeyIds, NEW n \in Counts,
             CanFinalize(u, rot, k), Finalize(rot, k, n)
      PROVE  ServerInv'
  <2>1. /\ completed' = completed \cup {[rotation |-> rot, key |-> k, count |-> n]}
        /\ UNCHANGED <<sessions, membership, enrolled, keyRows, wrapRows, started>>
        /\ rot \in started /\ k \in Minted
    BY <1>7 DEF Finalize, CanFinalize, LiveKeys
  <2>2. ServerTypeOK'
    BY <2>1, CountsAssumption DEF ServerTypeOK, membership, keyRows, wrapRows, inFlight
  <2>3. Minted' = Minted /\ LiveKeys' = LiveKeys
        /\ (retired \subseteq Minted)' /\ OneLiveNewest'
    BY <2>1, KeysUnchanged
  <2> QED
    BY <2>1, <2>2, <2>3
    DEF WrapsWellFormed, PurgesWellFormed, CompletedWasStarted, wrapRows, inFlight
<1>8. CASE UNCHANGED serverVars
  <2>1. UNCHANGED <<keyRows, wrapRows, rotations>>
    BY <1>8 DEF serverVars
  <2>2. ServerTypeOK'
    BY <1>8 DEF serverVars, membership, keyRows, wrapRows, inFlight, rotations, ServerTypeOK
  <2> QED BY <2>1, <2>2, KeysUnchanged
          DEF WrapsWellFormed, PurgesWellFormed, CompletedWasStarted, wrapRows, inFlight, rotations
<1> QED BY <1>1, <1>2, <1>3, <1>4, <1>5, <1>6, <1>7, <1>8, <1>9, <1>10 DEF ServerNext

LEMMA ServerInvariant == ServerSpec => []ServerInv
<1> QED BY ServerInitInv, ServerStepInv, PTL DEF ServerSpec

-----------------------------------------------------------------------------
(* Type correctness of the committee-key tables.                           *)
THEOREM ServerTypeCorrect == ServerSpec => []ServerTypeOK
<1>1. ServerInv => ServerTypeOK
  BY DEF ServerInv
<1> QED BY <1>1, ServerInvariant, PTL

(* Whatever clients call: once a key exists there is exactly one live key  *)
(* and it has the highest epoch.                                           *)
THEOREM OneLiveKey == ServerSpec => []OneLiveNewest
<1>1. ServerInv => OneLiveNewest
  BY DEF ServerInv
<1> QED BY <1>1, ServerInvariant, PTL

(* Wraps and rotation records only ever refer to what exists, and the      *)
(* primary key of the wraps table holds.                                   *)
THEOREM RowsWellFormed == ServerSpec => [](WrapsWellFormed /\ CompletedWasStarted)
<1>1. ServerInv => WrapsWellFormed /\ CompletedWasStarted
  BY DEF ServerInv
<1> QED BY <1>1, ServerInvariant, PTL

(* No wrap is overwritten, and one that disappears is archived, unless it  *)
(* was inserted during the purge that deletes it.                          *)
THEOREM OnlyLateLost == ServerSpec => OnlyLateWrapsLost
<1> DEFINE Kept ==
      \A w \in wraps \ wraps' :
        w \in archive' \/ \E p \in purging : p.member = w.user /\ w \notin p.rows
<1>1. ASSUME [ServerNext]_serverVars PROVE Kept
  <2>1. UNCHANGED wraps \/ wraps \subseteq wraps' \/ \E p \in purging : DeleteWraps(p)
    BY <1>1 DEF ServerNext, serverVars, wrapRows, Enroll, Activate, EndSession, OpenSession,
       InitKey, Rotate, CheckWrap, InsertWrap, ArchiveWraps, RemoveMember, Finalize
  <2>2. ASSUME NEW p \in purging, DeleteWraps(p) PROVE Kept
    BY <2>2 DEF DeleteWraps, WrapsOf
  <2> QED BY <2>1, <2>2
<1>2. [ServerNext]_serverVars => [Kept]_serverVars
  BY <1>1
<1> QED BY <1>2, PTL DEF ServerSpec, OnlyLateWrapsLost

-----------------------------------------------------------------------------
(* Part 2: the ceremonies.                                                 *)
(*                                                                         *)
(* The argument: a key id that a ceremony has minted, from the server's    *)
(* answer on, is that ceremony's alone (Minting), so the bytes it draws    *)
(* for it are the only ones.  Every row, request, answer and held buffer   *)
(* has those bytes (RowsTrue, Carries, HeldFor); a buffer is zeroized when *)
(* its holder lets go of it, a fetch is opened into buffers of its own     *)
(* (Unused), and an answer is installed only if no wipe fell since it was  *)
(* asked for (Timed).                                                      *)
Fields ==
  {"pc", "resp", "gen", "inner", "fetched", "since", "cap", "post", "rot", "key",
   "rest", "todo", "cur", "pending", "count", "res"}

IsOp(o) ==
  /\ o = [f \in Fields |-> o[f]]
  /\ o.gen \in Nat /\ o.inner \in Nat /\ o.since \in Nat /\ o.fetched \in Nat
  /\ o.key \in KeyIds \cup {NoKey}

Minter(p) == Kind[p] \in {"init", "rotate"}
MintPCs == {"init", "repair", "rotate"}
FetchPCs == {"livewrap", "allwraps"}
RestPCs == {"idle", "ended", "sealing"}
SharedPCs == {"idle", "ended", "state", "finalize"}
InitPCs == {"init", "repair", "firstwrap", "repairwrap", "retire"} \cup SharedPCs
OtherPCs ==
  {"rotate", "revoke", "selfwrap", "livewrap", "allwraps", "disclose", "memberwrap",
   "sealing"} \cup SharedPCs

(* The bytes of a key id: those of the first key, and what each ceremony   *)
(* draws for the key it minted.                                            *)
Draw(p, o) == {pair \in {<<o.key, FreshKey(p, o.key)>>} : Minter(p) /\ o.key \in KeyIds}
Truth ==
  {pair \in {<<FirstKey, FirstMaterial>>} : plan.holders # {}}
    \cup UNION {Draw(p, op[p]) : p \in Ops}
Genuine(rows, T) == \A w \in rows : <<w.key, w.mat>> \in T

Owned(p, o) ==
  {k \in KeyIds :
     /\ Minter(p)
     /\ o.key = k \/ (o.pc \in MintPCs /\ o.resp.status = "ok" /\ k \in o.resp.data)}

(* What the local state of a ceremony says of the keys it works on.        *)
Shape(p, o) ==
  /\ Kind[p] = "rotate" => o.rot = o.key
  /\ o.pc \in IF Kind[p] = "init" THEN InitPCs ELSE OtherPCs
  /\ o.pc = "rotate" => Kind[p] = "rotate"
  /\ o.pc \in RestPCs => o.resp.status = "none"
  /\ Minter(p) /\ o.pc \in {"idle"} \cup MintPCs => o.key = NoKey
  /\ Kind[p] = "init" /\ o.pc = "state" => o.key = NoKey
  /\ o.pc \in {"revoke"} => Kind[p] = "rotate" /\ o.key \in KeyIds
  /\ o.resp.status = "checked" => o.pc \in WrapPCs
  /\ o.resp.status = "archived" => o.pc = "revoke"
  /\ o.pc \in MintPCs /\ o.resp.status = "ok" => o.resp.data \subseteq KeyIds

Carries(o, T) ==
  /\ o.pc \in WrapPCs => <<o.post.key, o.post.mat>> \in T
  /\ o.pc \in FetchPCs /\ o.resp.status = "ok" => Genuine(o.resp.data, T)
  /\ o.resp.status = "archived" => Genuine(o.resp.data.rows, T)

(* The latches of a ceremony and the date of its last fetch, against the   *)
(* wipe generation g of its tab's holder and the users in S, signed in.    *)
Timed(p, o, g, S) ==
  /\ o.gen <= g /\ o.inner <= g /\ o.since <= g
  /\ o.pc \in FetchPCs => o.gen <= o.since /\ o.inner <= o.since
  /\ o.pc \in FetchPCs /\ o.resp.status \in {"sent", "ok"} /\ Actor[p] \notin S => o.since < g

(* A fetch not yet opened has buffers that none of B is.                   *)
Unused(p, o, B) ==
  \A b \in B : b.op = p =>
    b.n \in Nat /\ b.n <= o.fetched /\ (o.pc \in FetchPCs => b.n < o.fetched)

(* What a user's holder holds, Z being the buffers zeroized.               *)
Held(u, k, b, g, Z, T) ==
  <<k, b.mat>> \in T /\ b \notin Z /\ b.since = g /\ b.op \in Ops /\ Actor[b.op] = u
HeldFor(u, h, Z, T) == \A k \in HeldIds(h) : Held(u, k, h.keys[k].data_key, h.gen, Z, T)

HolderTyped(h) == h = [keys |-> h.keys, live |-> h.live, gen |-> h.gen] /\ h.gen \in Nat

Typed ==
  /\ plan \in Plans /\ started \subseteq KeyIds
  /\ op = [p \in Ops |-> op[p]] /\ \A p \in Ops : IsOp(op[p])
  /\ holder = [u \in Users |-> holder[u]]
  /\ \A u \in Users : HolderTyped(holder[u])

Minting ==
  /\ \A p, q \in Ops : \A k \in Owned(p, op[p]) : k \in Owned(q, op[q]) => p = q
  /\ \A p \in Ops : Owned(p, op[p]) \subseteq Minted
  /\ plan.holders # {} =>
       /\ FirstKey \in KeyIds => FirstKey \in Minted
       /\ \A p \in Ops : FirstKey \notin Owned(p, op[p])

RowsTrue ==
  /\ Genuine(wraps \cup archive \cup granting, Truth)
  /\ \A d \in purging : Genuine(d.rows, Truth)

OpsFit == \A p \in Ops : Shape(p, op[p]) /\ Carries(op[p], Truth)

Heap ==
  /\ \A p \in Ops :
       /\ Timed(p, op[p], H(p).gen, signedIn)
       /\ Unused(p, op[p], zeroed \cup HeldBuffers(H(p)))
  /\ \A u \in Users :
       /\ HeldFor(u, holder[u], zeroed, Truth)
       /\ u \notin signedIn => HeldIds(holder[u]) = {}

IInv == Typed /\ KeysInv /\ Minting /\ RowsTrue /\ OpsFit /\ Heap

-----------------------------------------------------------------------------
(* What a plan says, and what the bytes of a key are.                      *)
LEMMA PlanKnown ==
  ASSUME Typed, NEW p \in Ops
  PROVE  /\ Actor[p] \in Users
         /\ Kind[p] \in {"init", "grant", "rotate", "resume"}
         /\ H(p) = holder[Actor[p]] /\ H(p).gen \in Nat
<1>1. plan \in Plans
  BY DEF Typed
<1>2. plan.actor \in [Ops -> Users]
  BY <1>1, PlansAssumption
<1>3. plan.kind \in [Ops -> {"init", "grant", "rotate", "resume"}]
  BY <1>1, KeyPlansAssumption
<1> QED BY <1>2, <1>3 DEF Typed, HolderTyped, H, Actor, Kind

LEMMA TruthIs ==
  ASSUME Minting
  PROVE  \A pair, pair2 \in Truth :
           pair[2] # ZeroKey /\ (pair[1] = pair2[1] => pair[2] = pair2[2])
<1>1. ASSUME NEW pair \in Truth
      PROVE  \/ plan.holders # {} /\ pair = <<FirstKey, FirstMaterial>>
             \/ \E q \in Ops : /\ op[q].key \in KeyIds /\ op[q].key \in Owned(q, op[q])
                               /\ pair = <<op[q].key, FreshKey(q, op[q].key)>>
  BY <1>1 DEF Truth, Draw, Owned
<1>2. ASSUME NEW pair \in Truth, NEW pair2 \in Truth, pair[1] = pair2[1]
      PROVE  pair[2] = pair2[2]
  <2>1. CASE plan.holders # {} /\ pair = <<FirstKey, FirstMaterial>>
    BY <1>1, <1>2, <2>1 DEF Minting
  <2>2. CASE plan.holders # {} /\ pair2 = <<FirstKey, FirstMaterial>>
    BY <1>1, <1>2, <2>2 DEF Minting
  <2>3. CASE /\ \E q \in Ops : /\ op[q].key \in KeyIds /\ op[q].key \in Owned(q, op[q])
                               /\ pair = <<op[q].key, FreshKey(q, op[q].key)>>
             /\ \E q \in Ops : /\ op[q].key \in KeyIds /\ op[q].key \in Owned(q, op[q])
                               /\ pair2 = <<op[q].key, FreshKey(q, op[q].key)>>
    BY <1>2, <2>3 DEF Minting
  <2> QED BY <1>1, <2>1, <2>2, <2>3
<1>3. ASSUME NEW pair \in Truth PROVE pair[2] # ZeroKey
  BY <1>1, <1>3, ZeroKeyAssumption
<1> QED BY <1>2, <1>3

(* A ceremony moves to the local state o: it keeps the key it has minted,  *)
(* and a key it comes to own has just been minted.                         *)
LEMMA OpMoves ==
  ASSUME IInv, NEW p \in Ops, NEW o,
         op' = [op EXCEPT ![p] = o], plan' = plan, IsOp(o), Shape(p, o),
         Minter(p) /\ op[p].key \in KeyIds => o.key = op[p].key,
         Owned(p, o) \ Owned(p, op[p]) \subseteq Minted' \ Minted,
         Minted \subseteq Minted',
         Carries(o, Truth \cup Draw(p, o))
  PROVE  /\ op' = [q \in Ops |-> op'[q]] /\ \A q \in Ops : IsOp(op'[q])
         /\ op'[p] = o /\ \A q \in Ops : q # p => op'[q] = op[q]
         /\ Truth \subseteq Truth' /\ Draw(p, o) \subseteq Truth'
         /\ Minting' /\ OpsFit'
<1>1. op = [q \in Ops |-> op[q]]
  BY DEF IInv, Typed
<1>2. /\ op'[p] = o /\ \A q \in Ops : q # p => op'[q] = op[q]
      /\ op' = [q \in Ops |-> op'[q]]
  BY <1>1
<1>3. \A q \in Ops : IsOp(op'[q])
  BY <1>2 DEF IInv, Typed
<1>4. \A q \in Ops : Draw(q, op[q]) \subseteq Draw(q, op'[q])
  BY <1>2 DEF Draw
<1>5. Truth' = {pair \in {<<FirstKey, FirstMaterial>>} : plan.holders # {}}
                 \cup UNION {Draw(q, op'[q]) : q \in Ops}
  BY DEF Truth, Draw, Minter, Kind
<1>6. Truth \subseteq Truth' /\ Draw(p, o) \subseteq Truth'
  <2>1. Truth \subseteq Truth'
    BY <1>4, <1>5 DEF Truth
  <2>2. Draw(p, o) \subseteq Truth'
    BY <1>2, <1>5
  <2> QED BY <2>1, <2>2
<1>7. \A q \in Ops : Owned(q, op[q])' = Owned(q, op'[q])
  BY DEF Owned, Minter, Kind
<1>8. \A q \in Ops : q # p => Owned(q, op'[q]) = Owned(q, op[q])
  BY <1>2
<1>9. Minting'
  <2>1. \A q \in Ops : Owned(q, op'[q]) \subseteq Minted'
    BY <1>2, <1>8 DEF IInv, Minting
  <2>2. ASSUME NEW q \in Ops, NEW r \in Ops, NEW k \in Owned(q, op'[q]), k \in Owned(r, op'[r])
        PROVE  q = r
    <3>1. CASE q # p /\ r # p
      BY <1>8, <2>2, <3>1 DEF IInv, Minting
    <3>2. CASE q = p /\ r # p
      BY <1>2, <1>8, <2>2, <3>2 DEF IInv, Minting
    <3>3. CASE q # p /\ r = p
      BY <1>2, <1>8, <2>2, <3>3 DEF IInv, Minting
    <3> QED BY <3>1, <3>2, <3>3
  <2>3. ASSUME plan.holders # {}
        PROVE  /\ FirstKey \in KeyIds => FirstKey \in Minted'
               /\ \A q \in Ops : FirstKey \notin Owned(q, op'[q])
    <3>1. FirstKey \in KeyIds => FirstKey \in Minted
      BY <2>3 DEF IInv, Minting
    <3>2. FirstKey \notin Owned(p, o)
      BY <2>3, <3>1 DEF IInv, Minting, Owned
    <3> QED BY <1>2, <1>8, <2>3, <3>1, <3>2 DEF IInv, Minting
  <2> QED BY <1>7, <2>1, <2>2, <2>3 DEF Minting
<1>10. OpsFit'
  <2>1. \A q \in Ops : Shape(q, op[q])' <=> Shape(q, op'[q])
    BY DEF Shape, Minter, Kind
  <2>2. \A q \in Ops : Carries(op'[q], Truth')
    <3>1. Carries(o, Truth')
      BY <1>6 DEF Carries, Genuine
    <3>2. \A q \in Ops : Carries(op[q], Truth')
      BY <1>6 DEF Carries, Genuine, IInv, OpsFit
    <3> QED BY <1>2, <3>1, <3>2
  <2> QED BY <1>2, <2>1, <2>2 DEF OpsFit, IInv
<1> QED BY <1>2, <1>3, <1>6, <1>9, <1>10

-----------------------------------------------------------------------------
(* The rows and the heap under a step.                                     *)
LEMMA RowsStay ==
  ASSUME RowsTrue, Truth \subseteq Truth', UNCHANGED wrapRows
  PROVE  RowsTrue'
  BY DEF RowsTrue, Genuine, wrapRows, inFlight

LEMMA KeysStay ==
  ASSUME KeysInv, UNCHANGED keyRows
  PROVE  KeysInv' /\ Minted' = Minted
  BY DEF KeysInv, keyRows, Minted, LiveKeys, OneLiveNewest

LEMMA HolderFits ==
  ASSUME IInv, NEW u \in Users
  PROVE  /\ HeldFor(u, holder[u], zeroed, Truth)
         /\ u \notin signedIn => HeldIds(holder[u]) = {}
<1>1. Heap
  BY DEF IInv
<1>2. \A v \in Users :
        /\ HeldFor(v, holder[v], zeroed, Truth)
        /\ v \notin signedIn => HeldIds(holder[v]) = {}
  BY <1>1 DEF Heap
<1> QED BY <1>2

LEMMA HeldIsMine ==
  ASSUME IInv, NEW u \in Users
  PROVE  \A b \in HeldBuffers(holder[u]) :
           b.op \in Ops /\ Actor[b.op] = u /\ b.since = holder[u].gen /\ b \notin zeroed
<1>1. HeldFor(u, holder[u], zeroed, Truth)
  BY HolderFits
<1> QED BY <1>1 DEF HeldFor, Held, HeldBuffers

(* The heap after a step, said of the new state.                           *)
LEMMA HeapIs ==
  ASSUME plan' = plan,
         \A p \in Ops :
           /\ Timed(p, op'[p], holder'[Actor[p]].gen, signedIn')
           /\ Unused(p, op'[p], zeroed' \cup HeldBuffers(holder'[Actor[p]])),
         \A u \in Users : /\ HeldFor(u, holder'[u], zeroed', Truth')
                          /\ u \notin signedIn' => HeldIds(holder'[u]) = {}
  PROVE  Heap'
<1>1. Actor' = Actor
  BY DEF Actor
<1>2. \A p \in Ops : H(p)' = holder'[Actor[p]]
  BY <1>1 DEF H
<1>3. \A p \in Ops : /\ Timed(p, op[p], H(p).gen, signedIn)'
                     /\ Unused(p, op[p], zeroed \cup HeldBuffers(H(p)))'
  BY <1>1, <1>2 DEF Timed, Unused
<1>4. ASSUME NEW u \in Users PROVE HeldFor(u, holder[u], zeroed, Truth)'
  BY <1>1 DEF HeldFor, Held
<1> QED BY <1>3, <1>4 DEF Heap

(* No holder is touched.                                                   *)
LEMMA HeapStays ==
  ASSUME IInv, Truth \subseteq Truth', UNCHANGED <<plan, holder, zeroed, signedIn>>,
         \A p \in Ops : /\ Timed(p, op'[p], H(p).gen, signedIn)
                        /\ Unused(p, op'[p], zeroed \cup HeldBuffers(H(p)))
  PROVE  Heap'
<1>1. \A p \in Ops : H(p) = holder[Actor[p]]
  BY DEF H
<1>2. ASSUME NEW u \in Users
      PROVE  /\ HeldFor(u, holder[u], zeroed, Truth')
             /\ u \notin signedIn => HeldIds(holder[u]) = {}
  <2>1. HeldFor(u, holder[u], zeroed, Truth) /\ (u \notin signedIn => HeldIds(holder[u]) = {})
    BY HolderFits
  <2> QED BY <2>1 DEF HeldFor, Held
<1> QED BY <1>1, <1>2, HeapIs

(* A tab is wiped; its operations are where they were, or have ended.      *)
LEMMA WipedIs ==
  ASSUME Typed, NEW u \in Users
  PROVE  /\ HolderTyped(Wipe(holder[u]))
         /\ HeldIds(Wipe(holder[u])) = {} /\ HeldBuffers(Wipe(holder[u])) = {}
         /\ Wipe(holder[u]).gen = holder[u].gen + 1
         /\ holder[u].gen \in Nat
  BY DEF Typed, HolderTyped, Wipe, NewHolder, HeldIds, HeldBuffers

LEMMA HeapWiped ==
  ASSUME IInv, NEW u \in Users, WipeTab(u), plan' = plan, Truth \subseteq Truth',
         signedIn' \in {signedIn, signedIn \ {u}},
         \A p \in Ops : op'[p] = op[p] \/
           /\ op'[p].pc = "ended" /\ op'[p].gen = op[p].gen /\ op'[p].inner = op[p].inner
           /\ op'[p].since = op[p].since /\ op'[p].fetched = op[p].fetched
  PROVE  /\ Heap' /\ holder' = [v \in Users |-> holder'[v]]
         /\ \A v \in Users : HolderTyped(holder'[v])
<1>1. /\ holder' = [holder EXCEPT ![u] = Wipe(holder[u])]
      /\ zeroed' = zeroed \cup HeldBuffers(holder[u])
  BY DEF WipeTab
<1>2. Typed
  BY DEF IInv
<1>3. /\ holder' = [v \in Users |-> holder'[v]]
      /\ holder'[u] = Wipe(holder[u]) /\ \A v \in Users : v # u => holder'[v] = holder[v]
  BY <1>1, <1>2 DEF Typed
<1>4. \A v \in Users : HolderTyped(holder'[v])
  <2>1. HolderTyped(Wipe(holder[u]))
    BY <1>2, WipedIs
  <2>2. \A v \in Users : HolderTyped(holder[v])
    BY <1>2 DEF Typed
  <2> QED BY <1>3, <2>1, <2>2
<1>5. \A b \in HeldBuffers(holder[u]) : b.op \in Ops /\ Actor[b.op] = u
  BY HeldIsMine
<1>6. ASSUME NEW p \in Ops
      PROVE  /\ Timed(p, op'[p], holder'[Actor[p]].gen, signedIn')
             /\ Unused(p, op'[p], zeroed' \cup HeldBuffers(holder'[Actor[p]]))
  <2>1. /\ Timed(p, op[p], H(p).gen, signedIn)
        /\ Unused(p, op[p], zeroed \cup HeldBuffers(H(p)))
        /\ IsOp(op[p]) /\ H(p).gen \in Nat /\ Actor[p] \in Users /\ H(p) = holder[Actor[p]]
    <3>1. IsOp(op[p]) /\ H(p).gen \in Nat /\ Actor[p] \in Users /\ H(p) = holder[Actor[p]]
      BY <1>2, PlanKnown DEF Typed
    <3> QED BY <3>1 DEF IInv, Heap
  <2>2. CASE Actor[p] = u
    <3>1. /\ HeldBuffers(holder'[Actor[p]]) = {}
          /\ holder'[Actor[p]].gen = H(p).gen + 1
          /\ zeroed' = zeroed \cup HeldBuffers(H(p))
      BY <1>1, <1>2, <1>3, <2>1, <2>2, WipedIs
    <3>2. Timed(p, op'[p], holder'[Actor[p]].gen, signedIn')
      BY <2>1, <3>1 DEF Timed, IsOp, FetchPCs
    <3>3. Unused(p, op'[p], zeroed' \cup HeldBuffers(holder'[Actor[p]]))
      BY <2>1, <3>1 DEF Unused, FetchPCs
    <3> QED BY <3>2, <3>3
  <2>3. CASE Actor[p] # u
    <3>1. holder'[Actor[p]] = H(p) /\ (Actor[p] \in signedIn' <=> Actor[p] \in signedIn)
      BY <1>3, <2>1, <2>3
    <3>2. \A b \in HeldBuffers(holder[u]) : b.op # p
      BY <1>5, <2>3
    <3>3. Timed(p, op'[p], holder'[Actor[p]].gen, signedIn')
      BY <2>1, <3>1 DEF Timed, FetchPCs
    <3>4. Unused(p, op'[p], zeroed' \cup HeldBuffers(holder'[Actor[p]]))
      BY <1>1, <2>1, <3>1, <3>2 DEF Unused, FetchPCs
    <3> QED BY <3>3, <3>4
  <2> QED BY <2>2, <2>3
<1>7. ASSUME NEW v \in Users
      PROVE  /\ HeldFor(v, holder'[v], zeroed', Truth')
             /\ v \notin signedIn' => HeldIds(holder'[v]) = {}
  <2>1. CASE v = u
    <3>1. HeldIds(holder'[v]) = {}
      BY <1>2, <1>3, <2>1, WipedIs
    <3> QED BY <3>1 DEF HeldFor
  <2>2. CASE v # u
    <3>1. holder'[v] = holder[v] /\ (v \in signedIn' <=> v \in signedIn)
      BY <1>3, <2>2
    <3>2. HeldFor(v, holder[v], zeroed, Truth) /\ (v \notin signedIn => HeldIds(holder[v]) = {})
      BY HolderFits
    <3>3. HeldFor(v, holder[v], zeroed', Truth')
      BY <1>1, <1>5, <2>2, <3>2 DEF HeldFor, Held
    <3> QED BY <3>1, <3>2, <3>3
  <2> QED BY <2>1, <2>2
<1> QED BY <1>3, <1>4, <1>6, <1>7, HeapIs

(* A fetch is opened into the holder, no wipe having fallen since.         *)
LEMMA HeapInstalled ==
  ASSUME IInv, NEW p \in Ops, NEW h, NEW o,
         holder' = [holder EXCEPT ![Actor[p]] = h], zeroed' = zeroed \cup Orphans(H(p), h),
         op' = [op EXCEPT ![p] = o], UNCHANGED <<plan, signedIn>>, Truth \subseteq Truth',
         h = [keys |-> h.keys, live |-> h.live, gen |-> H(p).gen],
         \A k \in HeldIds(h) : /\ h.keys[k].data_key.op = p
                               /\ h.keys[k].data_key.n = op[p].fetched
                               /\ h.keys[k].data_key.since = op[p].since
                               /\ <<k, h.keys[k].data_key.mat>> \in Truth,
         op[p].pc \in FetchPCs, op[p].resp.status = "ok",
         H(p).gen \in {op[p].gen, op[p].inner},
         o.pc \notin FetchPCs, o.fetched = op[p].fetched, Timed(p, o, H(p).gen, signedIn)
  PROVE  /\ Heap' /\ holder' = [v \in Users |-> holder'[v]]
         /\ \A v \in Users : HolderTyped(holder'[v])
<1> DEFINE a == Actor[p]
<1>1. /\ Typed /\ IsOp(op[p]) /\ a \in Users /\ H(p) = holder[a] /\ H(p).gen \in Nat
      /\ Timed(p, op[p], H(p).gen, signedIn)
      /\ Unused(p, op[p], zeroed \cup HeldBuffers(H(p)))
  BY PlanKnown DEF IInv, Typed, Heap
<1>2. op[p].since = H(p).gen /\ a \in signedIn
  BY <1>1 DEF Timed, IsOp
<1>3. /\ holder' = [v \in Users |-> holder'[v]]
      /\ holder'[a] = h /\ \A v \in Users : v # a => holder'[v] = holder[v]
  BY <1>1 DEF Typed
<1>4. h.gen = H(p).gen
  OBVIOUS
<1>5. \A v \in Users : HolderTyped(holder'[v])
  BY <1>1, <1>3, <1>4 DEF Typed, HolderTyped
<1>6. \A q \in Ops : H(q) = holder[Actor[q]] /\ Actor[q] \in Users
  BY <1>1, PlanKnown
<1>7. /\ op'[p] = o /\ \A q \in Ops : q # p => op'[q] = op[q]
  BY <1>1 DEF Typed
<1>8. /\ \A b \in zeroed' : b \in zeroed \/ (b \in HeldBuffers(H(p)) /\ b \notin HeldBuffers(h))
      /\ \A b \in HeldBuffers(h) : b.op = p /\ b.n = op[p].fetched
  BY DEF Orphans, HeldBuffers, HeldIds
<1>9. \A b \in HeldBuffers(H(p)) : b.op \in Ops /\ Actor[b.op] = a
  BY <1>1, HeldIsMine
<1>10. ASSUME NEW q \in Ops
       PROVE  /\ Timed(q, op'[q], holder'[Actor[q]].gen, signedIn')
              /\ Unused(q, op'[q], zeroed' \cup HeldBuffers(holder'[Actor[q]]))
  <2>1. holder'[Actor[q]].gen = H(q).gen
    BY <1>1, <1>3, <1>4, <1>6
  <2>2. /\ Timed(q, op[q], H(q).gen, signedIn)
        /\ Unused(q, op[q], zeroed \cup HeldBuffers(H(q)))
    BY DEF IInv, Heap
  <2>3. Timed(q, op'[q], holder'[Actor[q]].gen, signedIn')
    BY <1>7, <2>1, <2>2
  <2>4. Unused(q, op'[q], zeroed' \cup HeldBuffers(holder'[Actor[q]]))
    <3>1. CASE q = p
      <4>1. op[q].fetched \in Nat
        BY <1>1, <3>1 DEF IsOp
      <4>2. HeldBuffers(holder'[Actor[q]]) = HeldBuffers(h)
        BY <1>3, <3>1
      <4> QED BY <1>1, <1>7, <1>8, <3>1, <4>1, <4>2 DEF Unused
    <3>2. CASE q # p
      <4>1. HeldBuffers(holder'[Actor[q]]) =
              IF Actor[q] = a THEN HeldBuffers(h) ELSE HeldBuffers(H(q))
        BY <1>3, <1>6
      <4>2. \A b \in HeldBuffers(H(p)) : b.op = q => b \in HeldBuffers(H(q))
        BY <1>1, <1>6, <1>9
      <4>3. \A b \in zeroed' \cup HeldBuffers(holder'[Actor[q]]) :
              b.op = q => b \in zeroed \cup HeldBuffers(H(q))
        BY <1>8, <3>2, <4>1, <4>2
      <4> QED BY <1>7, <2>2, <3>2, <4>3 DEF Unused
    <3> QED BY <3>1, <3>2
  <2> QED BY <2>3, <2>4
<1>11. ASSUME NEW v \in Users
       PROVE  /\ HeldFor(v, holder'[v], zeroed', Truth')
              /\ v \notin signedIn' => HeldIds(holder'[v]) = {}
  <2>1. CASE v = a
    <3>1. \A b \in HeldBuffers(h) : b \notin zeroed'
      <4>1. \A b \in zeroed : b.op = p => b.n # op[p].fetched
        BY <1>1 DEF Unused, IsOp
      <4> QED BY <1>8, <4>1
    <3>2. \A k \in HeldIds(h) : h.keys[k].data_key \in HeldBuffers(h)
      BY DEF HeldBuffers
    <3>3. HeldFor(v, h, zeroed', Truth')
      BY <1>2, <1>4, <2>1, <3>1, <3>2 DEF HeldFor, Held
    <3>4. v \in signedIn'
      BY <1>2, <2>1
    <3> QED BY <1>3, <2>1, <3>3, <3>4
  <2>2. CASE v # a
    <3>1. holder'[v] = holder[v]
      BY <1>3, <2>2
    <3>2. HeldFor(v, holder[v], zeroed, Truth) /\ (v \notin signedIn => HeldIds(holder[v]) = {})
      BY HolderFits
    <3>3. HeldFor(v, holder[v], zeroed', Truth')
      BY <1>8, <1>9, <2>2, <3>2 DEF HeldFor, Held
    <3> QED BY <3>1, <3>2, <3>3
  <2> QED BY <2>1, <2>2
<1> QED BY <1>3, <1>5, <1>10, <1>11, HeapIs

-----------------------------------------------------------------------------
(* What a segment of a ceremony leaves behind.  From says how an           *)
(* intermediate local state may differ from the stored one, Fit what the   *)
(* stored one has to be, Ready that no fetch is under way.                 *)
From(p, o) ==
  /\ IsOp(o)
  /\ o.fetched = op[p].fetched /\ o.since = op[p].since
  /\ o.gen <= H(p).gen /\ o.inner <= H(p).gen
  /\ Minter(p) => o.key \in {op[p].key} \cup Owned(p, op[p])
  /\ Minter(p) /\ op[p].key \in KeyIds => o.key = op[p].key
  /\ Kind[p] = "rotate" => o.rot = o.key

Fit(p, o) ==
  /\ IsOp(o) /\ Shape(p, o)
  /\ Minter(p) /\ op[p].key \in KeyIds => o.key = op[p].key
  /\ Owned(p, o) \subseteq Owned(p, op[p])
  /\ Carries(o, Truth \cup Draw(p, o))
  /\ Timed(p, o, H(p).gen, signedIn)
  /\ Unused(p, o, zeroed \cup HeldBuffers(H(p)))

Ready(p, o) == Fit(p, o) /\ o.pc \notin FetchPCs /\ o.fetched = op[p].fetched

(* Where a ceremony with the key k may stand.                              *)
MayBeAt(p, pc, k) ==
  /\ pc \notin FetchPCs \cup {"idle"}
  /\ pc \in IF Kind[p] = "init" THEN InitPCs ELSE OtherPCs
  /\ pc = "rotate" => Kind[p] = "rotate"
  /\ Minter(p) /\ pc \in MintPCs => k = NoKey
  /\ Kind[p] = "init" /\ pc = "state" => k = NoKey
  /\ pc = "revoke" => Kind[p] = "rotate" /\ k \in KeyIds

LEMMA OpKnown ==
  ASSUME IInv, NEW p \in Ops
  PROVE  /\ IsOp(op[p]) /\ Shape(p, op[p]) /\ Carries(op[p], Truth)
         /\ Timed(p, op[p], H(p).gen, signedIn)
         /\ Unused(p, op[p], zeroed \cup HeldBuffers(H(p)))
         /\ H(p).gen \in Nat /\ H(p) = holder[Actor[p]] /\ Actor[p] \in Users
<1>1. Typed
  BY DEF IInv
<1>2. H(p).gen \in Nat /\ H(p) = holder[Actor[p]] /\ Actor[p] \in Users
  BY <1>1, PlanKnown
<1> QED BY <1>1, <1>2 DEF IInv, Typed, OpsFit, Heap

LEMMA FromSelf ==
  ASSUME IInv, NEW p \in Ops
  PROVE  From(p, op[p])
<1>1. /\ IsOp(op[p]) /\ Shape(p, op[p]) /\ Timed(p, op[p], H(p).gen, signedIn)
  BY OpKnown
<1> QED BY <1>1 DEF From, Shape, Timed

(* The fields that no clause of the invariant reads may change freely.     *)
LEMMA FromSame ==
  ASSUME NEW p \in Ops, NEW o, NEW r, From(p, o), IsOp(r),
         \A f \in {"fetched", "since", "gen", "inner", "key", "rot"} : r[f] = o[f]
  PROVE  From(p, r)
<1>1. /\ r.fetched = o.fetched /\ r.since = o.since /\ r.gen = o.gen /\ r.inner = o.inner
      /\ r.key = o.key /\ r.rot = o.rot
  OBVIOUS
<1> QED BY <1>1 DEF From

LEMMA MovedFits ==
  ASSUME IInv, NEW p \in Ops, NEW o, NEW r, From(p, o), IsOp(r),
         \A f \in {"fetched", "since", "gen", "inner", "key", "rot"} : r[f] = o[f],
         MayBeAt(p, r.pc, o.key), r.resp.status \in {"none", "sent", "401"},
         r.pc \in RestPCs => r.resp.status = "none",
         r.pc \in WrapPCs => <<r.post.key, r.post.mat>> \in Truth \cup Draw(p, r)
  PROVE  Ready(p, r)
<1>1. From(p, r)
  BY FromSame
<1>2. /\ r.key = o.key /\ r.pc \notin FetchPCs
      /\ Unused(p, op[p], zeroed \cup HeldBuffers(H(p)))
      /\ IsOp(op[p]) /\ H(p).gen \in Nat
  BY OpKnown DEF MayBeAt
<1>3. Shape(p, r)
  BY <1>1, <1>2 DEF Shape, From, MayBeAt
<1>4. Owned(p, r) \subseteq Owned(p, op[p])
  BY <1>1 DEF Owned, From
<1>5. Carries(r, Truth \cup Draw(p, r))
  BY <1>2 DEF Carries
<1>6. Timed(p, r, H(p).gen, signedIn)
  <2>1. op[p].since <= H(p).gen
    BY OpKnown DEF Timed
  <2> QED BY <1>1, <1>2, <2>1 DEF Timed, From
<1>7. Unused(p, r, zeroed \cup HeldBuffers(H(p)))
  BY <1>1, <1>2 DEF Unused, From
<1> QED BY <1>1, <1>2, <1>3, <1>4, <1>5, <1>6, <1>7 DEF Ready, Fit, From

LEMMA RequestIs ==
  ASSUME NEW p \in Ops, NEW o, NEW pc, IsOp(o)
  PROVE  /\ IsOp(Request(p, o, pc)) /\ Request(p, o, pc).pc = pc
         /\ \A f \in Fields \ {"pc", "resp"} : Request(p, o, pc)[f] = o[f]
         /\ Request(p, o, pc).resp.status \in {"sent", "401"}
         /\ Request(p, o, pc).resp.status = "sent" => Actor[p] \in signedIn
<1>1. Request(p, o, pc).pc = pc /\ IsOp(Request(p, o, pc))
  BY DEF Request, IsOp, Fields
<1>2. \A f \in Fields \ {"pc", "resp"} : Request(p, o, pc)[f] = o[f]
  BY DEF Request, IsOp, Fields
<1>3. /\ Request(p, o, pc).resp.status \in {"sent", "401"}
      /\ Request(p, o, pc).resp.status = "sent" => Actor[p] \in signedIn
  BY DEF Request, IsOp, Fields
<1> QED BY <1>1, <1>2, <1>3

LEMMA RequestFits ==
  ASSUME IInv, NEW p \in Ops, NEW o, NEW pc, From(p, o), MayBeAt(p, pc, o.key),
         pc \notin RestPCs,
         pc \in WrapPCs => <<o.post.key, o.post.mat>> \in Truth \cup Draw(p, o)
  PROVE  Ready(p, Request(p, o, pc))
<1> DEFINE r == Request(p, o, pc)
<1>1. /\ IsOp(r) /\ r.pc = pc /\ r.resp.status \in {"sent", "401"}
      /\ \A f \in Fields \ {"pc", "resp"} : r[f] = o[f]
  BY RequestIs DEF From
<1> HIDE DEF r
<1>2. /\ \A f \in {"fetched", "since", "gen", "inner", "key", "rot"} : r[f] = o[f]
      /\ r.key = o.key /\ r.post = o.post
  BY <1>1 DEF Fields
<1>3. Draw(p, r) = Draw(p, o)
  BY <1>2 DEF Draw
<1>4. Ready(p, r)
  BY <1>1, <1>2, <1>3, MovedFits
<1> QED BY <1>4 DEF r

LEMMA EndFits ==
  ASSUME IInv, NEW p \in Ops, NEW o, NEW res, From(p, o)
  PROVE  /\ Ready(p, End(o, res)) /\ Ready(p, Incomplete(o)) /\ Ready(p, Abandon(p, o))
         /\ Ready(p, WrapFailed(p, o)) /\ Ready(p, UnwrapFailed(p, o))
         /\ Ready(p, NotHolder(p, o))
<1>1. ASSUME NEW x PROVE Ready(p, End(o, x))
  <2> DEFINE r == End(o, x)
  <2>1. /\ IsOp(r) /\ r.pc = "ended" /\ r.resp.status = "none"
        /\ \A f \in {"fetched", "since", "gen", "inner", "key", "rot"} : r[f] = o[f]
    BY DEF End, NoAnswer, From, IsOp, Fields
  <2> HIDE DEF r
  <2>2. MayBeAt(p, r.pc, o.key) /\ r.pc \notin WrapPCs
    BY <2>1 DEF MayBeAt, FetchPCs, MintPCs, WrapPCs, InitPCs, OtherPCs, SharedPCs
  <2>3. Ready(p, r)
    BY <2>1, <2>2, MovedFits
  <2> QED BY <2>3 DEF r
<1>2. Ready(p, Incomplete(o))
  <2> DEFINE e == End(o, "incomplete")
             r == [e EXCEPT !.pending = o.pending \cup o.todo]
  <2>1. /\ IsOp(e) /\ e.pc = "ended" /\ e.resp.status = "none"
        /\ \A f \in {"fetched", "since", "gen", "inner", "key", "rot"} : e[f] = o[f]
    BY DEF End, NoAnswer, From, IsOp, Fields
  <2> HIDE DEF e
  <2>2. /\ IsOp(r) /\ r.pc = "ended" /\ r.resp.status = "none"
        /\ \A f \in {"fetched", "since", "gen", "inner", "key", "rot"} : r[f] = o[f]
    BY <2>1 DEF IsOp, Fields
  <2>3. Incomplete(o) = r
    BY DEF Incomplete, e
  <2> HIDE DEF r
  <2>4. MayBeAt(p, r.pc, o.key) /\ r.pc \notin WrapPCs
    BY <2>2 DEF MayBeAt, FetchPCs, MintPCs, WrapPCs, InitPCs, OtherPCs, SharedPCs
  <2> QED BY <2>2, <2>3, <2>4, MovedFits
<1> QED BY <1>1, <1>2 DEF Abandon, WrapFailed, UnwrapFailed, NotHolder

LEMMA WrapMemberInFits ==
  ASSUME IInv, NEW p \in Ops, NEW o, NEW h, From(p, o), Kind[p] # "init"
  PROVE  /\ Ready(p, Capture(o, h))
         /\ h.gen \in Nat /\ h.gen <= H(p).gen => Ready(p, WrapMemberIn(p, o, h))
<1>1. Ready(p, Capture(o, h))
  <2> DEFINE r == Capture(o, h)
  <2>1. /\ IsOp(r) /\ r.pc = "sealing" /\ r.resp.status = "none"
        /\ \A f \in {"fetched", "since", "gen", "inner", "key", "rot"} : r[f] = o[f]
    BY DEF Capture, NoAnswer, From, IsOp, Fields
  <2> HIDE DEF r
  <2>2. MayBeAt(p, r.pc, o.key) /\ r.pc \notin WrapPCs
    BY <2>1 DEF MayBeAt, FetchPCs, MintPCs, WrapPCs, InitPCs, OtherPCs, SharedPCs
  <2>3. Ready(p, r)
    BY <2>1, <2>2, MovedFits
  <2> QED BY <2>3 DEF r
<1>2. ASSUME h.gen \in Nat, h.gen <= H(p).gen
      PROVE  Ready(p, Request(p, [o EXCEPT !.inner = h.gen], "state"))
  <2> DEFINE i == [o EXCEPT !.inner = h.gen]
  <2>1. IsOp(i) /\ i.inner = h.gen /\ \A f \in Fields \ {"inner"} : i[f] = o[f]
    BY <1>2 DEF From, IsOp, Fields
  <2> HIDE DEF i
  <2>2. /\ i.fetched = o.fetched /\ i.since = o.since /\ i.gen = o.gen
        /\ i.key = o.key /\ i.rot = o.rot
    BY <2>1 DEF Fields
  <2>3. From(p, i)
    BY <1>2, <2>1, <2>2 DEF From
  <2>4. MayBeAt(p, "state", i.key) /\ "state" \notin WrapPCs
    BY DEF MayBeAt, FetchPCs, MintPCs, WrapPCs, InitPCs, OtherPCs, SharedPCs
  <2>5. Ready(p, Request(p, i, "state"))
    BY <2>3, <2>4, RequestFits DEF RestPCs
  <2> QED BY <2>5 DEF i
<1> QED BY <1>1, <1>2 DEF WrapMemberIn

LEMMA NextMemberFits ==
  ASSUME IInv, NEW p \in Ops, NEW o, NEW h, From(p, o), Kind[p] # "init",
         NEW r \in NextMember(p, o, h)
  PROVE  Ready(p, r)
<1>1. /\ MayBeAt(p, "disclose", o.key) /\ MayBeAt(p, "finalize", o.key)
      /\ {"disclose", "finalize"} \cap (WrapPCs \cup RestPCs) = {}
  BY DEF MayBeAt, FetchPCs, MintPCs, WrapPCs, InitPCs, OtherPCs, SharedPCs, RestPCs
<1>2. ASSUME NEW m PROVE Ready(p, Request(p, [o EXCEPT !.cur = m], "disclose"))
  <2> DEFINE i == [o EXCEPT !.cur = m]
  <2>1. /\ IsOp(i)
        /\ \A f \in {"fetched", "since", "gen", "inner", "key", "rot"} : i[f] = o[f]
    BY DEF From, IsOp, Fields
  <2>2. From(p, i) /\ i.key = o.key
    BY <2>1, FromSame
  <2> HIDE DEF i
  <2>3. Ready(p, Request(p, i, "disclose"))
    BY <1>1, <2>2, RequestFits
  <2> QED BY <2>3 DEF i
<1>3. Ready(p, Abandon(p, o))
  BY EndFits
<1>4. Ready(p, Request(p, o, "finalize"))
  BY <1>1, RequestFits
<1> QED BY <1>2, <1>3, <1>4 DEF NextMember

(* A fetch is dated by the holder's wipe generation.                       *)
LEMMA FetchFits ==
  ASSUME IInv, NEW p \in Ops, NEW o, From(p, o), Kind[p] # "init",
         NEW pc \in FetchPCs
  PROVE  Fit(p, Fetch(p, o, pc))
<1> DEFINE q == Request(p, o, pc)
           s == [q EXCEPT !.fetched = o.fetched + 1]
           r == [s EXCEPT !.since = H(p).gen]
<1>1. /\ IsOp(q) /\ q.pc = pc /\ q.resp.status \in {"sent", "401"}
      /\ q.resp.status = "sent" => Actor[p] \in signedIn
      /\ \A f \in Fields \ {"pc", "resp"} : q[f] = o[f]
  BY RequestIs DEF From
<1> HIDE DEF q
<1>2. IsOp(s) /\ s.fetched = o.fetched + 1 /\ \A f \in Fields \ {"fetched"} : s[f] = q[f]
  BY <1>1 DEF From, IsOp, Fields
<1>3. Fetch(p, o, pc) = [q EXCEPT !.fetched = o.fetched + 1, !.since = H(p).gen]
  BY DEF Fetch, q
<1>4. Fetch(p, o, pc) = r
  BY <1>3
<1> HIDE DEF s
<1>5. H(p).gen \in Nat /\ IsOp(op[p])
  BY OpKnown
<1>6. IsOp(r) /\ r.since = H(p).gen /\ \A f \in Fields \ {"since"} : r[f] = s[f]
  BY <1>2, <1>5 DEF IsOp, Fields
<1> HIDE DEF r
<1>7. /\ r.pc = pc /\ r.resp.status \in {"sent", "401"} /\ r.fetched = op[p].fetched + 1
      /\ r.resp.status = "sent" => Actor[p] \in signedIn
      /\ r.gen = o.gen /\ r.inner = o.inner /\ r.key = o.key /\ r.rot = o.rot
  <2>1. r.resp = q.resp /\ r.pc = q.pc /\ r.fetched = s.fetched
    BY <1>2, <1>6 DEF Fields
  <2>2. r.gen = o.gen /\ r.inner = o.inner /\ r.key = o.key /\ r.rot = o.rot
    BY <1>1, <1>2, <1>6 DEF Fields
  <2> QED BY <1>1, <1>2, <2>1, <2>2 DEF From
<1>8. Shape(p, r)
  BY <1>7 DEF Shape, From, FetchPCs, MintPCs, WrapPCs, RestPCs, OtherPCs
<1>9. Owned(p, r) \subseteq Owned(p, op[p])
  BY <1>7 DEF Owned, From
<1>10. Carries(r, Truth \cup Draw(p, r))
  BY <1>7 DEF Carries, FetchPCs, WrapPCs
<1>11. Timed(p, r, H(p).gen, signedIn)
  BY <1>5, <1>6, <1>7 DEF Timed, From
<1>12. Unused(p, r, zeroed \cup HeldBuffers(H(p)))
  <2>1. Unused(p, op[p], zeroed \cup HeldBuffers(H(p)))
    BY OpKnown
  <2> QED BY <1>5, <1>7, <2>1 DEF Unused, IsOp
<1>13. Fit(p, r)
  BY <1>6, <1>7, <1>8, <1>9, <1>10, <1>11, <1>12 DEF Fit, From
<1> QED BY <1>4, <1>13

-----------------------------------------------------------------------------
(* Client segments preserve the invariant.                                 *)
LEMMA FitMoves ==
  ASSUME IInv, NEW p \in Ops, NEW o, Fit(p, o), op' = [op EXCEPT ![p] = o],
         UNCHANGED <<plan, serverVars>>
  PROVE  /\ op' = [q \in Ops |-> op'[q]] /\ \A q \in Ops : IsOp(op'[q])
         /\ op'[p] = o /\ \A q \in Ops : q # p => op'[q] = op[q]
         /\ Truth \subseteq Truth'
         /\ plan' \in Plans /\ started' \subseteq KeyIds
         /\ KeysInv' /\ RowsTrue' /\ Minting' /\ OpsFit'
<1>1. plan' = plan /\ started' = started /\ UNCHANGED keyRows /\ UNCHANGED wrapRows
  BY DEF serverVars, rotations
<1>2. KeysInv' /\ Minted' = Minted
  BY <1>1, KeysStay DEF IInv
<1>3. /\ op' = [q \in Ops |-> op'[q]] /\ \A q \in Ops : IsOp(op'[q])
      /\ op'[p] = o /\ \A q \in Ops : q # p => op'[q] = op[q]
      /\ Truth \subseteq Truth' /\ Minting' /\ OpsFit'
  BY <1>1, <1>2, OpMoves DEF Fit
<1>4. RowsTrue'
  BY <1>1, <1>3, RowsStay DEF IInv
<1> QED BY <1>1, <1>2, <1>3, <1>4 DEF IInv, Typed

LEMMA BecomeKeeps ==
  ASSUME IInv, NEW p \in Ops, NEW o, Fit(p, o), Become(p, o), plan' = plan
  PROVE  IInv'
<1>1. /\ op' = [op EXCEPT ![p] = o] /\ UNCHANGED <<plan, serverVars>>
      /\ UNCHANGED <<plan, holder, zeroed, signedIn>>
  BY DEF Become
<1>2. /\ op' = [q \in Ops |-> op'[q]] /\ \A q \in Ops : IsOp(op'[q])
      /\ op'[p] = o /\ \A q \in Ops : q # p => op'[q] = op[q]
      /\ Truth \subseteq Truth' /\ plan' \in Plans /\ started' \subseteq KeyIds
      /\ KeysInv' /\ RowsTrue' /\ Minting' /\ OpsFit'
  BY <1>1, FitMoves
<1>3. Typed'
  BY <1>1, <1>2 DEF Typed, IInv
<1>4. \A q \in Ops : /\ Timed(q, op'[q], H(q).gen, signedIn)
                     /\ Unused(q, op'[q], zeroed \cup HeldBuffers(H(q)))
  BY <1>2, OpKnown DEF Fit
<1>5. Heap'
  BY <1>1, <1>2, <1>4, HeapStays
<1> QED BY <1>2, <1>3, <1>5 DEF IInv

LEMMA InstallKeeps ==
  ASSUME IInv, NEW p \in Ops, NEW h, NEW o, Ready(p, o), Install(p, h, o), plan' = plan,
         h = [keys |-> h.keys, live |-> h.live, gen |-> H(p).gen],
         \A k \in HeldIds(h) : /\ h.keys[k].data_key.op = p
                               /\ h.keys[k].data_key.n = op[p].fetched
                               /\ h.keys[k].data_key.since = op[p].since
                               /\ <<k, h.keys[k].data_key.mat>> \in Truth,
         op[p].pc \in FetchPCs, op[p].resp.status = "ok",
         H(p).gen \in {op[p].gen, op[p].inner}
  PROVE  IInv'
<1>1. /\ op' = [op EXCEPT ![p] = o] /\ UNCHANGED <<plan, serverVars>>
      /\ UNCHANGED <<plan, signedIn>>
      /\ holder' = [holder EXCEPT ![Actor[p]] = h] /\ zeroed' = zeroed \cup Orphans(H(p), h)
  BY DEF Install
<1>2. /\ op' = [q \in Ops |-> op'[q]] /\ \A q \in Ops : IsOp(op'[q])
      /\ Truth \subseteq Truth' /\ plan' \in Plans /\ started' \subseteq KeyIds
      /\ KeysInv' /\ RowsTrue' /\ Minting' /\ OpsFit'
  BY <1>1, FitMoves DEF Ready
<1>3. /\ Heap' /\ holder' = [v \in Users |-> holder'[v]]
      /\ \A v \in Users : HolderTyped(holder'[v])
  BY <1>1, <1>2, HeapInstalled DEF Ready, Fit
<1>4. Typed'
  BY <1>2, <1>3 DEF Typed, HolderTyped
<1> QED BY <1>2, <1>3, <1>4 DEF IInv

(* A request failed; a 401 has wiped the tab.                              *)
LEMMA FailedKeeps ==
  ASSUME IInv, NEW p \in Ops, NEW o, Fit(p, o), Failed(p, o), plan' = plan,
         o.pc = "ended", o.gen = op[p].gen, o.inner = op[p].inner, o.since = op[p].since,
         o.fetched = op[p].fetched
  PROVE  IInv'
<1>1. op' = [op EXCEPT ![p] = o] /\ UNCHANGED <<plan, serverVars>>
  BY DEF Failed
<1>2. /\ op' = [q \in Ops |-> op'[q]] /\ \A q \in Ops : IsOp(op'[q])
      /\ op'[p] = o /\ \A q \in Ops : q # p => op'[q] = op[q]
      /\ Truth \subseteq Truth' /\ plan' \in Plans /\ started' \subseteq KeyIds
      /\ KeysInv' /\ RowsTrue' /\ Minting' /\ OpsFit'
  BY <1>1, FitMoves
<1>3. CASE op[p].resp.status = "401"
  <2>1. WipeTab(Actor[p]) /\ signedIn' = signedIn \ {Actor[p]} /\ Actor[p] \in Users
    BY <1>3, OpKnown DEF Failed
  <2>2. /\ Heap' /\ holder' = [v \in Users |-> holder'[v]]
        /\ \A v \in Users : HolderTyped(holder'[v])
    BY <1>1, <1>2, <2>1, HeapWiped
  <2>3. Typed'
    BY <1>2, <2>2 DEF Typed, HolderTyped
  <2> QED BY <1>2, <2>2, <2>3 DEF IInv
<1>4. CASE op[p].resp.status # "401"
  <2>1. Become(p, o)
    BY <1>4 DEF Failed, Become
  <2> QED BY <2>1, BecomeKeeps
<1> QED BY <1>3, <1>4

-----------------------------------------------------------------------------
(* The steps of a ceremony, one lemma for each group of actions.           *)
LEMMA BeginKeeps ==
  ASSUME IInv, NEW p \in Ops, Begin(p), plan' = plan
  PROVE  IInv'
<1> DEFINE o == [op[p] EXCEPT !.gen = H(p).gen, !.rest = active \ {Actor[p]},
                              !.todo = active \ {Actor[p]}]
<1>1. /\ IsOp(op[p]) /\ Shape(p, op[p]) /\ From(p, op[p]) /\ op[p].pc = "idle"
      /\ H(p).gen \in Nat /\ H(p).gen <= H(p).gen
      /\ Kind[p] \in {"init", "grant", "rotate", "resume"}
  <2>1. op[p].pc = "idle"
    BY DEF Begin
  <2>2. IsOp(op[p]) /\ Shape(p, op[p]) /\ From(p, op[p]) /\ H(p).gen \in Nat
    BY OpKnown, FromSelf
  <2>3. Kind[p] \in {"init", "grant", "rotate", "resume"}
    BY PlanKnown DEF IInv
  <2> QED BY <2>1, <2>2, <2>3
<1>2. MayBeAt(p, "state", op[p].key)
  BY <1>1 DEF MayBeAt, Minter, Shape, FetchPCs, MintPCs, InitPCs, OtherPCs, SharedPCs
<1>3. From(p, o) /\ o.key = op[p].key
  <2> DEFINE g == [op[p] EXCEPT !.gen = H(p).gen]
             r == [g EXCEPT !.rest = active \ {Actor[p]}]
             t == [r EXCEPT !.todo = active \ {Actor[p]}]
  <2>1. IsOp(g) /\ g.gen = H(p).gen /\ \A f \in Fields \ {"gen"} : g[f] = op[p][f]
    BY <1>1 DEF IsOp, Fields
  <2>2. o = [g EXCEPT !.rest = active \ {Actor[p]}, !.todo = active \ {Actor[p]}]
    BY <1>1 DEF IsOp, Fields
  <2> HIDE DEF g
  <2>3. o = t
    BY <2>2
  <2>4. IsOp(r) /\ \A f \in Fields \ {"rest"} : r[f] = g[f]
    BY <2>1 DEF IsOp, Fields
  <2> HIDE DEF r
  <2>5. IsOp(t) /\ \A f \in Fields \ {"todo"} : t[f] = r[f]
    BY <2>4 DEF IsOp, Fields
  <2> HIDE DEF t
  <2>6. /\ t.gen = H(p).gen /\ t.fetched = op[p].fetched /\ t.since = op[p].since
        /\ t.inner = op[p].inner /\ t.key = op[p].key /\ t.rot = op[p].rot
    BY <2>1, <2>4, <2>5 DEF Fields
  <2>7. From(p, t)
    BY <1>1, <2>5, <2>6 DEF From
  <2> QED BY <2>3, <2>6, <2>7
<1> HIDE DEF o
<1>4. CASE Kind[p] = "init"
  <2>1. Become(p, Request(p, op[p], "state"))
    BY <1>4 DEF Begin
  <2>2. Fit(p, Request(p, op[p], "state"))
    BY <1>1, <1>2, RequestFits DEF Ready, RestPCs, WrapPCs
  <2> QED BY <2>1, <2>2, BecomeKeeps
<1>5. CASE Kind[p] = "grant"
  <2> DEFINE i == [op[p] EXCEPT !.cur = Target[p]]
  <2>1. Become(p, WrapMemberIn(p, i, H(p)))
    BY <1>5 DEF Begin
  <2>2. /\ IsOp(i)
        /\ \A f \in {"fetched", "since", "gen", "inner", "key", "rot"} : i[f] = op[p][f]
    BY <1>1 DEF IsOp, Fields
  <2> HIDE DEF i
  <2>3. From(p, i)
    BY <1>1, <2>2, FromSame
  <2>4. Fit(p, WrapMemberIn(p, i, H(p)))
    BY <1>1, <1>5, <2>3, WrapMemberInFits DEF Ready
  <2> QED BY <2>1, <2>4, BecomeKeeps
<1>6. CASE Kind[p] = "rotate"
  <2>1. PICK pc \in {"rotate", "state"} : Become(p, Request(p, o, pc))
    BY <1>6 DEF Begin, o
  <2>2. MayBeAt(p, pc, o.key)
    BY <1>1, <1>2, <1>3, <1>6
       DEF MayBeAt, Shape, Minter, FetchPCs, MintPCs, OtherPCs, SharedPCs
  <2>3. Fit(p, Request(p, o, pc))
    BY <1>3, <2>2, RequestFits DEF Ready, RestPCs, WrapPCs
  <2> QED BY <2>1, <2>3, BecomeKeeps
<1>7. CASE Kind[p] = "resume"
  <2>1. PICK r \in started : Become(p, Fetch(p, [o EXCEPT !.rot = r, !.key = r], "allwraps"))
    BY <1>7 DEF Begin, o
  <2> DEFINE s == [o EXCEPT !.rot = r]
             i == [s EXCEPT !.key = r]
  <2>2. r \in KeyIds
    BY DEF IInv, Typed
  <2>3. IsOp(s) /\ \A f \in Fields \ {"rot"} : s[f] = o[f]
    BY <1>3 DEF From, IsOp, Fields
  <2>4. [o EXCEPT !.rot = r, !.key = r] = i
    OBVIOUS
  <2> HIDE DEF s
  <2>5. IsOp(i) /\ \A f \in Fields \ {"key"} : i[f] = s[f]
    BY <2>2, <2>3 DEF IsOp, Fields
  <2> HIDE DEF i
  <2>6. /\ i.fetched = o.fetched /\ i.since = o.since /\ i.gen = o.gen
        /\ i.inner = o.inner
    BY <2>3, <2>5 DEF Fields
  <2>7. From(p, i)
    BY <1>3, <1>7, <2>5, <2>6 DEF From, Minter
  <2>8. Fit(p, Fetch(p, i, "allwraps"))
    BY <1>7, <2>7, FetchFits DEF FetchPCs
  <2> QED BY <2>1, <2>4, <2>8, BecomeKeeps
<1> QED BY <1>1, <1>4, <1>5, <1>6, <1>7

(* A minted id becomes the key of the ceremony that asked for it.          *)
LEMMA MintedFits ==
  ASSUME IInv, NEW p \in Ops, op[p].pc \in MintPCs, op[p].resp.status = "ok",
         NEW k \in op[p].resp.data
  PROVE  /\ Kind[p] = "rotate" => op[p].pc = "rotate"
         /\ Minter(p) /\ k \in KeyIds
         /\ From(p, [op[p] EXCEPT !.rot = k, !.key = k])
<1> DEFINE s == [op[p] EXCEPT !.rot = k]
           i == [s EXCEPT !.key = k]
<1>1. IsOp(op[p]) /\ Shape(p, op[p]) /\ From(p, op[p])
  BY OpKnown, FromSelf
<1>2. /\ k \in KeyIds /\ Minter(p) /\ op[p].key = NoKey
      /\ Kind[p] = "rotate" => op[p].pc = "rotate"
  <2>1. op[p].pc = "rotate" \/ Kind[p] = "init"
    BY <1>1 DEF Shape, MintPCs, OtherPCs, SharedPCs
  <2>2. Minter(p) /\ (Kind[p] = "rotate" => op[p].pc = "rotate")
    BY <1>1, <2>1 DEF Shape, Minter
  <2> QED BY <1>1, <2>2 DEF Shape
<1>3. k \in Owned(p, op[p])
  BY <1>2 DEF Owned
<1>4. IsOp(s) /\ s.rot = k /\ \A f \in Fields \ {"rot"} : s[f] = op[p][f]
  BY <1>1 DEF IsOp, Fields
<1>5. [op[p] EXCEPT !.rot = k, !.key = k] = i
  OBVIOUS
<1> HIDE DEF s
<1>6. IsOp(i) /\ i.key = k /\ \A f \in Fields \ {"key"} : i[f] = s[f]
  BY <1>2, <1>4 DEF IsOp, Fields
<1> HIDE DEF i
<1>7. /\ i.fetched = op[p].fetched /\ i.since = op[p].since /\ i.gen = op[p].gen
      /\ i.inner = op[p].inner /\ i.rot = k
  BY <1>4, <1>6 DEF Fields
<1>8. From(p, i)
  BY <1>1, <1>2, <1>3, <1>6, <1>7, NoKeyAssumption DEF From
<1> QED BY <1>2, <1>5, <1>8

LEMMA OwnWrapFits ==
  ASSUME IInv, NEW p \in Ops, NEW o, NEW pc \in WrapPCs, From(p, o), Minter(p),
         o.key \in KeyIds, pc \in IF Kind[p] = "init" THEN InitPCs ELSE OtherPCs
  PROVE  Fit(p, Request(p, [o EXCEPT !.post = OwnWrap(p, o.key)], pc))
<1> DEFINE i == [o EXCEPT !.post = OwnWrap(p, o.key)]
<1>1. /\ IsOp(i) /\ i.post = OwnWrap(p, o.key) /\ i.key = o.key
      /\ \A f \in {"fetched", "since", "gen", "inner", "key", "rot"} : i[f] = o[f]
  BY DEF From, IsOp, Fields
<1> HIDE DEF i
<1>2. From(p, i)
  BY <1>1, FromSame
<1>3. <<i.post.key, i.post.mat>> \in Draw(p, i)
  BY <1>1 DEF Draw, OwnWrap
<1>4. MayBeAt(p, pc, i.key) /\ pc \notin RestPCs
  BY DEF MayBeAt, FetchPCs, MintPCs, WrapPCs, RestPCs
<1>5. Ready(p, Request(p, i, pc))
  BY <1>2, <1>3, <1>4, RequestFits
<1> QED BY <1>5 DEF Ready, i

LEMMA InitStepsKeep ==
  ASSUME IInv, NEW p \in Ops, plan' = plan,
         \/ InitProbed(p) \/ InitMinted(p) \/ InitRaced(p) \/ InitWrapped(p)
         \/ InitWrapLost(p) \/ InitRetired(p) \/ RepairMinted(p) \/ RepairWrapped(p)
  PROVE  IInv'
<1>1. IsOp(op[p]) /\ Shape(p, op[p]) /\ From(p, op[p])
  BY OpKnown, FromSelf
<1>2. \A res : Fit(p, End(op[p], res))
  BY <1>1, EndFits DEF Ready
<1>3. CASE InitProbed(p)
  <2>1. Kind[p] = "init" /\ op[p].pc = "state" /\ op[p].key = NoKey
    BY <1>1, <1>3 DEF InitProbed, Answered, Shape
  <2>2. ASSUME NEW pc \in {"init", "repair"} PROVE Fit(p, Request(p, op[p], pc))
    <3>1. MayBeAt(p, pc, op[p].key) /\ pc \notin RestPCs \cup WrapPCs
      BY <2>1 DEF MayBeAt, FetchPCs, InitPCs, RestPCs, WrapPCs
    <3> QED BY <1>1, <3>1, RequestFits DEF Ready
  <2>3. PICK o : Become(p, o) /\ o \in {End(op[p], "already_initialised"),
          End(op[p], "foreign_held"), Request(p, op[p], "init"), Request(p, op[p], "repair")}
    BY <1>3 DEF InitProbed
  <2>4. Fit(p, o)
    BY <1>2, <2>2, <2>3
  <2> QED BY <2>3, <2>4, BecomeKeeps
<1>4. ASSUME NEW pc \in {"firstwrap", "repairwrap"}, PostOwnWrap(p, pc),
             op[p].pc \in {"init", "repair"}, op[p].resp.status = "ok"
      PROVE  IInv'
  <2>1. PICK k \in op[p].resp.data :
          Become(p, Request(p, [op[p] EXCEPT !.rot = k, !.key = k, !.post = OwnWrap(p, k)], pc))
    BY <1>4 DEF PostOwnWrap
  <2> DEFINE i == [op[p] EXCEPT !.rot = k, !.key = k]
  <2>2. /\ Minter(p) /\ k \in KeyIds /\ Kind[p] = "init" /\ From(p, i)
    <3>1. op[p].pc # "rotate" /\ op[p].pc \in MintPCs
      BY <1>4 DEF MintPCs
    <3>2. /\ Kind[p] = "rotate" => op[p].pc = "rotate"
          /\ Minter(p) /\ k \in KeyIds /\ From(p, i)
      BY <1>4, <3>1, MintedFits
    <3> QED BY <3>1, <3>2 DEF Minter
  <2>3. /\ i.key = k
        /\ [op[p] EXCEPT !.rot = k, !.key = k, !.post = OwnWrap(p, k)]
             = [i EXCEPT !.post = OwnWrap(p, i.key)]
    BY <1>1 DEF IsOp, Fields
  <2> HIDE DEF i
  <2>4. Fit(p, Request(p, [i EXCEPT !.post = OwnWrap(p, i.key)], pc))
    BY <2>2, <2>3, OwnWrapFits DEF WrapPCs, InitPCs
  <2> QED BY <2>1, <2>3, <2>4, BecomeKeeps
<1>5. CASE InitMinted(p) \/ RepairMinted(p)
  BY <1>4, <1>5 DEF InitMinted, RepairMinted, Answered
<1>6. CASE InitRaced(p) \/ InitWrapped(p) \/ InitRetired(p)
  BY <1>2, <1>6, BecomeKeeps DEF InitRaced, InitWrapped, InitRetired
<1>7. CASE InitWrapLost(p) \/ RepairWrapped(p)
  <2>1. PICK pc \in {"retire", "finalize"} : Become(p, Request(p, op[p], pc))
    BY <1>7 DEF InitWrapLost, RepairWrapped
  <2>2. op[p].pc \in {"firstwrap", "repairwrap"}
    BY <1>7 DEF InitWrapLost, RepairWrapped, Answered
  <2>3. Kind[p] = "init"
    BY <1>1, <2>2 DEF Shape, OtherPCs, SharedPCs
  <2>4. MayBeAt(p, pc, op[p].key) /\ pc \notin RestPCs \cup WrapPCs
    BY <2>3 DEF MayBeAt, FetchPCs, InitPCs, SharedPCs, MintPCs, RestPCs, WrapPCs
  <2>5. Fit(p, Request(p, op[p], pc))
    BY <1>1, <2>4, RequestFits DEF Ready
  <2> QED BY <2>1, <2>5, BecomeKeeps
<1> QED BY <1>3, <1>5, <1>6, <1>7

(* Opening the wraps of a fetch: the holder's new map.                     *)
LEMMA PopulateIs ==
  ASSUME NEW h, NEW E
  PROVE  /\ Populate(h, E) = [keys |-> Populate(h, E).keys, live |-> Populate(h, E).live,
                              gen |-> h.gen]
         /\ \A k \in HeldIds(Populate(h, E)) : \E e \in E :
              e.key_id = k /\ Populate(h, E).keys[k].data_key = e.data_key
<1>1. ASSUME NEW k \in {e.key_id : e \in E}
      PROVE  EntryFor(E, k) \in E /\ EntryFor(E, k).key_id = k
  BY DEF EntryFor
<1>2. /\ HeldIds(Populate(h, E)) = {e.key_id : e \in E}
      /\ \A k \in {e.key_id : e \in E} :
           Populate(h, E).keys[k].data_key = EntryFor(E, k).data_key
  BY DEF Populate, HeldIds
<1>3. Populate(h, E) = [keys |-> Populate(h, E).keys, live |-> Populate(h, E).live,
                        gen |-> h.gen]
  BY DEF Populate
<1> QED BY <1>1, <1>2, <1>3

LEMMA UnwrapStepsKeep ==
  ASSUME IInv, NEW p \in Ops, plan' = plan, UnwrapProbed(p) \/ UnwrapFetched(p)
  PROVE  IInv'
<1>1. /\ IsOp(op[p]) /\ Shape(p, op[p]) /\ From(p, op[p]) /\ Carries(op[p], Truth)
  BY OpKnown, FromSelf
<1>2. Ready(p, UnwrapFailed(p, op[p]))
  BY <1>1, EndFits
<1>3. CASE UnwrapProbed(p)
  <2>1. Kind[p] # "init" => Fit(p, Fetch(p, op[p], "livewrap"))
    BY <1>1, FetchFits DEF FetchPCs
  <2> QED BY <1>2, <1>3, <2>1, BecomeKeeps DEF UnwrapProbed, Ready
<1>4. CASE UnwrapFetched(p) /\ ~(op[p].resp.data = {} \/ H(p).gen # Latch(p))
  <2>1. PICK w \in op[p].resp.data :
          Install(p, SetLive(H(p), Opened(p, w)),
                  IF Precondition(p, op[p]) THEN Request(p, op[p], "rotate")
                  ELSE Capture(op[p], SetLive(H(p), Opened(p, w))))
    BY <1>4 DEF UnwrapFetched
  <2> DEFINE e == [Opened(p, w) EXCEPT !.is_live = TRUE]
             h == Populate(H(p), {e})
             o == IF Precondition(p, op[p]) THEN Request(p, op[p], "rotate")
                  ELSE Capture(op[p], h)
  <2>2. op[p].pc = "livewrap" /\ op[p].resp.status = "ok" /\ H(p).gen = Latch(p)
    BY <1>4 DEF UnwrapFetched, Answered
  <2>3. e.key_id = w.key /\ e.data_key = Buffer(p, w)
    BY DEF Opened
  <2>4. <<w.key, w.mat>> \in Truth
    BY <1>1, <2>2 DEF Carries, Genuine, FetchPCs
  <2>5. Install(p, h, o)
    BY <2>1 DEF SetLive
  <2> HIDE DEF e
  <2>6. h = [keys |-> h.keys, live |-> h.live, gen |-> H(p).gen]
    BY PopulateIs
  <2>7. \A k \in HeldIds(h) : /\ h.keys[k].data_key.op = p
                              /\ h.keys[k].data_key.n = op[p].fetched
                              /\ h.keys[k].data_key.since = op[p].since
                              /\ <<k, h.keys[k].data_key.mat>> \in Truth
    <3>1. \A k \in HeldIds(h) : k = w.key /\ h.keys[k].data_key = Buffer(p, w)
      BY <2>3, PopulateIs
    <3> QED BY <2>4, <3>1 DEF Buffer
  <2> HIDE DEF h
  <2>8. Kind[p] # "init"
    BY <1>1, <2>2 DEF Shape, InitPCs, SharedPCs
  <2>9. Ready(p, o)
    <3>1. Ready(p, Capture(op[p], h))
      BY <1>1, <2>8, WrapMemberInFits
    <3>2. ASSUME Precondition(p, op[p]) PROVE Ready(p, Request(p, op[p], "rotate"))
      <4>1. Kind[p] = "rotate" /\ op[p].key = NoKey
        BY <1>1, <3>2 DEF Precondition, Shape
      <4>2. MayBeAt(p, "rotate", op[p].key) /\ "rotate" \notin RestPCs \cup WrapPCs
        BY <4>1 DEF MayBeAt, FetchPCs, OtherPCs, RestPCs, WrapPCs
      <4> QED BY <1>1, <4>2, RequestFits
    <3> QED BY <3>1, <3>2
  <2> HIDE DEF o
  <2>10. H(p).gen \in {op[p].gen, op[p].inner} /\ op[p].pc \in FetchPCs
    BY <2>2 DEF Latch, FetchPCs
  <2> QED BY <2>2, <2>5, <2>6, <2>7, <2>9, <2>10, InstallKeeps
<1>5. CASE UnwrapFetched(p) /\ (op[p].resp.data = {} \/ H(p).gen # Latch(p))
  BY <1>2, <1>5, BecomeKeeps DEF UnwrapFetched, Ready
<1> QED BY <1>3, <1>4, <1>5

(* What is sealed is the content of a held live buffer.                    *)
LEMMA SealKeeps ==
  ASSUME IInv, NEW p \in Ops, plan' = plan, Seal(p)
  PROVE  IInv'
<1>1. /\ IsOp(op[p]) /\ Shape(p, op[p]) /\ From(p, op[p]) /\ op[p].pc = "sealing"
      /\ H(p) = holder[Actor[p]] /\ Actor[p] \in Users
  BY OpKnown, FromSelf DEF Seal
<1>2. Kind[p] # "init"
  BY <1>1 DEF Shape, InitPCs, SharedPCs
<1>3. CASE ~HasLiveKey(H(p))
  <2> DEFINE i == [op[p] EXCEPT !.cap = NoCap]
  <2>1. /\ IsOp(i)
        /\ \A f \in {"fetched", "since", "gen", "inner", "key", "rot"} : i[f] = op[p][f]
    BY <1>1 DEF IsOp, Fields
  <2>2. Become(p, WrapFailed(p, i))
    BY <1>3 DEF Seal
  <2> HIDE DEF i
  <2>3. From(p, i)
    BY <1>1, <2>1, FromSame
  <2>4. Fit(p, WrapFailed(p, i))
    BY <2>3, EndFits DEF Ready
  <2> QED BY <2>2, <2>4, BecomeKeeps
<1>4. CASE HasLiveKey(H(p))
  <2> DEFINE w == SealedWrap(op[p], H(p))
             s == [op[p] EXCEPT !.post = w]
             i == [s EXCEPT !.cap = NoCap]
  <2>1. Become(p, Request(p, [op[p] EXCEPT !.post = w, !.cap = NoCap], "memberwrap"))
    BY <1>4 DEF Seal
  <2>2. <<w.key, w.mat>> \in Truth
    <3> DEFINE k == H(p).live
               b == H(p).keys[k].data_key
    <3>1. GetKeyId(H(p)) = k /\ k \in HeldIds(H(p))
      BY <1>4 DEF GetKeyId, HasLiveKey
    <3>2. Held(Actor[p], k, b, H(p).gen, zeroed, Truth)
      BY <1>1, <3>1, HolderFits DEF HeldFor
    <3>3. Content(b) = b.mat /\ <<k, b.mat>> \in Truth
      BY <3>2 DEF Held, Content
    <3> QED BY <3>1, <3>3 DEF SealedWrap
  <2> HIDE DEF w
  <2>3. [op[p] EXCEPT !.post = w, !.cap = NoCap] = i
    BY <1>1 DEF IsOp, Fields
  <2>4. IsOp(s) /\ s.post = w /\ \A f \in Fields \ {"post"} : s[f] = op[p][f]
    BY <1>1 DEF IsOp, Fields
  <2> HIDE DEF s
  <2>5. IsOp(i) /\ i.post = s.post /\ \A f \in Fields \ {"cap"} : i[f] = s[f]
    BY <2>4 DEF IsOp, Fields
  <2> HIDE DEF i
  <2>6. \A f \in {"fetched", "since", "gen", "inner", "key", "rot"} : i[f] = op[p][f]
    BY <2>4, <2>5 DEF Fields
  <2>7. From(p, i)
    BY <1>1, <2>5, <2>6, FromSame
  <2>8. MayBeAt(p, "memberwrap", i.key) /\ "memberwrap" \notin RestPCs
    BY <1>2 DEF MayBeAt, FetchPCs, MintPCs, OtherPCs, RestPCs
  <2>9. Fit(p, Request(p, i, "memberwrap"))
    BY <2>2, <2>4, <2>5, <2>7, <2>8, RequestFits DEF Ready
  <2> QED BY <2>1, <2>3, <2>9, BecomeKeeps
<1> QED BY <1>3, <1>4

LEMMA RotateStepsKeep ==
  ASSUME IInv, NEW p \in Ops, plan' = plan,
         \/ RotateMinted(p) \/ RotateRevoked(p) \/ RotateSelfWrapped(p)
         \/ GrantPosted(p) \/ Finalized(p)
  PROVE  IInv'
<1>1. IsOp(op[p]) /\ Shape(p, op[p]) /\ From(p, op[p])
  BY OpKnown, FromSelf
<1>2. \A res : Fit(p, End(op[p], res))
  BY <1>1, EndFits DEF Ready
<1>3. CASE RotateMinted(p)
  <2>1. /\ op[p].pc = "rotate" /\ op[p].pc \in MintPCs /\ op[p].resp.status = "ok"
        /\ Kind[p] = "rotate"
    BY <1>1, <1>3 DEF RotateMinted, Answered, MintPCs, Shape
  <2>2. PICK k \in op[p].resp.data :
          Become(p, Request(p, [op[p] EXCEPT !.rot = k, !.key = k], "revoke"))
    BY <1>3 DEF RotateMinted
  <2> DEFINE i == [op[p] EXCEPT !.rot = k, !.key = k]
  <2>3. From(p, i) /\ k \in KeyIds
    BY <2>1, MintedFits
  <2>4. i.key = k
    BY <1>1 DEF IsOp, Fields
  <2> HIDE DEF i
  <2>5. MayBeAt(p, "revoke", i.key) /\ "revoke" \notin RestPCs \cup WrapPCs
    BY <2>1, <2>3, <2>4 DEF MayBeAt, FetchPCs, MintPCs, OtherPCs, RestPCs, WrapPCs
  <2>6. Fit(p, Request(p, i, "revoke"))
    BY <2>3, <2>5, RequestFits DEF Ready
  <2> QED BY <2>2, <2>6, BecomeKeeps DEF i
<1>4. CASE RotateRevoked(p)
  <2>1. Kind[p] = "rotate" /\ op[p].key \in KeyIds
    BY <1>1, <1>4 DEF RotateRevoked, Answered, Shape
  <2>2. Fit(p, Request(p, [op[p] EXCEPT !.post = OwnWrap(p, op[p].key)], "selfwrap"))
    BY <1>1, <2>1, OwnWrapFits DEF Minter, WrapPCs, OtherPCs
  <2> QED BY <1>4, <2>2, BecomeKeeps DEF RotateRevoked
<1>5. CASE RotateSelfWrapped(p)
  <2>1. Kind[p] # "init"
    BY <1>1, <1>5 DEF RotateSelfWrapped, Answered, Shape, InitPCs, SharedPCs
  <2>2. Fit(p, Fetch(p, op[p], "allwraps"))
    BY <1>1, <2>1, FetchFits DEF FetchPCs
  <2> QED BY <1>5, <2>2, BecomeKeeps DEF RotateSelfWrapped
<1>6. CASE GrantPosted(p)
  BY <1>2, <1>6, BecomeKeeps DEF GrantPosted
<1>7. CASE Finalized(p)
  BY <1>2, <1>7, BecomeKeeps DEF Finalized
<1> QED BY <1>3, <1>4, <1>5, <1>6, <1>7

LEMMA AllFetchedKeeps ==
  ASSUME IInv, NEW p \in Ops, plan' = plan, AllFetched(p)
  PROVE  IInv'
<1>1. /\ Shape(p, op[p]) /\ From(p, op[p]) /\ Carries(op[p], Truth)
      /\ op[p].pc = "allwraps" /\ op[p].resp.status = "ok"
  BY OpKnown, FromSelf DEF AllFetched, Answered
<1>2. Kind[p] # "init" /\ op[p].pc \in FetchPCs
  BY <1>1 DEF Shape, InitPCs, SharedPCs, FetchPCs
<1>3. CASE H(p).gen # op[p].gen
  <2>1. Fit(p, Abandon(p, op[p]))
    BY <1>1, EndFits DEF Ready
  <2> QED BY <1>3, <2>1, BecomeKeeps DEF AllFetched
<1>4. CASE H(p).gen = op[p].gen
  <2> DEFINE h == Populate(H(p), OpenedAll(p))
  <2>1. PICK o : Install(p, h, o) /\ o \in {NotHolder(p, op[p])} \cup NextMember(p, op[p], h)
    BY <1>4 DEF AllFetched
  <2>2. Ready(p, NotHolder(p, op[p]))
    BY <1>1, EndFits
  <2>3. \A r \in NextMember(p, op[p], h) : Ready(p, r)
    BY <1>1, <1>2, NextMemberFits
  <2>4. Ready(p, o)
    BY <2>1, <2>2, <2>3
  <2>5. h = [keys |-> h.keys, live |-> h.live, gen |-> H(p).gen]
    BY PopulateIs
  <2>6. \A k \in HeldIds(h) : /\ h.keys[k].data_key.op = p
                              /\ h.keys[k].data_key.n = op[p].fetched
                              /\ h.keys[k].data_key.since = op[p].since
                              /\ <<k, h.keys[k].data_key.mat>> \in Truth
    <3> SUFFICES ASSUME NEW k \in HeldIds(h)
                 PROVE  /\ h.keys[k].data_key.op = p
                        /\ h.keys[k].data_key.n = op[p].fetched
                        /\ h.keys[k].data_key.since = op[p].since
                        /\ <<k, h.keys[k].data_key.mat>> \in Truth
      OBVIOUS
    <3>1. PICK e \in OpenedAll(p) : e.key_id = k /\ h.keys[k].data_key = e.data_key
      BY PopulateIs
    <3> HIDE DEF h
    <3>2. PICK w \in op[p].resp.data : e.key_id = w.key /\ e.data_key = Buffer(p, w)
      BY DEF OpenedAll
    <3>3. <<w.key, w.mat>> \in Truth
      BY <1>1, <1>2 DEF Carries, Genuine
    <3> QED BY <3>1, <3>2, <3>3 DEF Buffer
  <2> HIDE DEF h
  <2> QED BY <1>1, <1>2, <1>4, <2>1, <2>4, <2>5, <2>6, InstallKeeps
<1> QED BY <1>3, <1>4

LEMMA MemberStepsKeep ==
  ASSUME IInv, NEW p \in Ops, plan' = plan, Disclosed(p) \/ NotEnrolled(p) \/ Rewrapped(p)
  PROVE  IInv'
<1>1. /\ IsOp(op[p]) /\ Shape(p, op[p]) /\ From(p, op[p])
      /\ H(p).gen \in Nat /\ H(p).gen <= H(p).gen
  <2>1. IsOp(op[p]) /\ Shape(p, op[p]) /\ From(p, op[p]) /\ H(p).gen \in Nat
    BY OpKnown, FromSelf
  <2> QED BY <2>1
<1>2. Kind[p] # "init"
  <2>1. op[p].pc \in {"disclose", "memberwrap"}
    BY DEF Disclosed, NotEnrolled, Rewrapped, Answered
  <2> QED BY <1>1, <2>1 DEF Shape, InitPCs, SharedPCs
<1>3. CASE Disclosed(p)
  <2>1. Fit(p, Abandon(p, op[p]))
    BY <1>1, EndFits DEF Ready
  <2>2. Fit(p, WrapMemberIn(p, op[p], H(p)))
    BY <1>1, <1>2, WrapMemberInFits DEF Ready
  <2> QED BY <1>3, <2>1, <2>2, BecomeKeeps DEF Disclosed
<1>4. ASSUME NEW i, IsOp(i), \E o \in NextMember(p, Done(i), H(p)) : Become(p, o),
             \A f \in {"fetched", "since", "gen", "inner", "key", "rot"} : i[f] = op[p][f]
      PROVE  IInv'
  <2> DEFINE s == [i EXCEPT !.todo = i.todo \ {i.cur}]
             r == [s EXCEPT !.cur = NoUser]
  <2>1. IsOp(s) /\ \A f \in Fields \ {"todo"} : s[f] = i[f]
    BY <1>4 DEF IsOp, Fields
  <2>2. Done(i) = r
    BY <1>4 DEF Done, IsOp, Fields
  <2> HIDE DEF s
  <2>3. IsOp(r) /\ \A f \in Fields \ {"cur"} : r[f] = s[f]
    BY <2>1 DEF IsOp, Fields
  <2> HIDE DEF r
  <2>4. \A f \in {"fetched", "since", "gen", "inner", "key", "rot"} : r[f] = op[p][f]
    BY <1>4, <2>1, <2>3 DEF Fields
  <2>5. From(p, r)
    BY <1>1, <2>3, <2>4, FromSame
  <2>6. PICK o \in NextMember(p, r, H(p)) : Become(p, o)
    BY <1>4, <2>2
  <2>7. Fit(p, o)
    BY <1>2, <2>5, NextMemberFits DEF Ready
  <2> QED BY <2>6, <2>7, BecomeKeeps
<1>5. CASE NotEnrolled(p)
  <2> DEFINE i == [op[p] EXCEPT !.pending = @ \cup {op[p].cur}]
  <2>1. /\ IsOp(i)
        /\ \A f \in {"fetched", "since", "gen", "inner", "key", "rot"} : i[f] = op[p][f]
    BY <1>1 DEF IsOp, Fields
  <2>2. \E o \in NextMember(p, Done(i), H(p)) : Become(p, o)
    BY <1>5 DEF NotEnrolled
  <2> HIDE DEF i
  <2> QED BY <1>4, <2>1, <2>2
<1>6. CASE Rewrapped(p)
  <2> DEFINE i == [op[p] EXCEPT !.count = @ + 1]
  <2>1. /\ IsOp(i)
        /\ \A f \in {"fetched", "since", "gen", "inner", "key", "rot"} : i[f] = op[p][f]
    BY <1>1 DEF IsOp, Fields
  <2>2. \E o \in NextMember(p, Done(i), H(p)) : Become(p, o)
    BY <1>6 DEF Rewrapped
  <2> HIDE DEF i
  <2> QED BY <1>4, <2>1, <2>2
<1> QED BY <1>3, <1>5, <1>6

LEMMA FailKeeps ==
  ASSUME IInv, NEW p \in Ops, plan' = plan, Fail(p)
  PROVE  IInv'
<1> DEFINE o == FailureResult(p)
<1>1. IsOp(op[p]) /\ Shape(p, op[p]) /\ From(p, op[p])
  BY OpKnown, FromSelf
<1>2. op[p].resp.status # "none"
  BY DEF Fail, Lost
<1>3. op[p].pc \in IF Kind[p] = "init" THEN InitPCs \ RestPCs ELSE OtherPCs \ RestPCs
  BY <1>1, <1>2 DEF Shape
<1>4. \/ \E res : o = End(op[p], res)
      \/ o \in {UnwrapFailed(p, op[p]), Abandon(p, op[p]), WrapFailed(p, op[p]),
                Incomplete(op[p])}
  BY <1>3 DEF FailureResult, OtherPCs, SharedPCs, RestPCs
<1> HIDE DEF o
<1>5. o = Incomplete(op[p]) \/ \E res : o = End(op[p], res)
  BY <1>4 DEF UnwrapFailed, Abandon, WrapFailed
<1>6. /\ o.pc = "ended" /\ o.gen = op[p].gen /\ o.inner = op[p].inner
      /\ o.since = op[p].since /\ o.fetched = op[p].fetched
  <2>1. ASSUME NEW res, NEW e, e = End(op[p], res)
        PROVE  /\ IsOp(e) /\ e.pc = "ended" /\ e.gen = op[p].gen /\ e.inner = op[p].inner
               /\ e.since = op[p].since /\ e.fetched = op[p].fetched
    BY <1>1, <2>1 DEF End, IsOp, Fields
  <2> DEFINE e == End(op[p], "incomplete")
  <2>2. /\ IsOp(e) /\ e.pc = "ended" /\ e.gen = op[p].gen /\ e.inner = op[p].inner
        /\ e.since = op[p].since /\ e.fetched = op[p].fetched
    BY <2>1
  <2>3. Incomplete(op[p]) = [e EXCEPT !.pending = op[p].pending \cup op[p].todo]
    BY DEF Incomplete
  <2> HIDE DEF e
  <2>4. CASE o = Incomplete(op[p])
    BY <2>2, <2>3, <2>4 DEF IsOp, Fields
  <2> QED BY <1>5, <2>1, <2>4
<1>7. Fit(p, o)
  BY <1>1, <1>5, EndFits DEF Ready
<1>8. Failed(p, o)
  BY DEF Fail, o
<1> QED BY <1>6, <1>7, <1>8, FailedKeeps

LEMMA StepKeeps ==
  ASSUME IInv, NEW p \in Ops, plan' = plan, Step(p)
  PROVE  IInv'
  BY BeginKeeps, FailKeeps, SealKeeps, InitStepsKeep, UnwrapStepsKeep, RotateStepsKeep,
     AllFetchedKeeps, MemberStepsKeep DEF Step

-----------------------------------------------------------------------------
(* The server answers: only the answer of the request changes, and the     *)
(* tables gain rows of the true bytes and ids that were not minted before. *)
RowsGenuine ==
  /\ Genuine(wraps' \cup archive' \cup granting', Truth)
  /\ \A d \in purging' : Genuine(d.rows, Truth)

LEMMA AnswerKeeps ==
  ASSUME IInv, NEW p \in Ops, NEW status, NEW data, Answer(p, status, data),
         UNCHANGED <<plan, holder, zeroed, signedIn>>,
         op[p].resp.status \notin {"none", status}, status # "sent",
         status = "checked" => op[p].pc \in WrapPCs,
         status = "archived" => op[p].pc = "revoke" /\ Genuine(data.rows, Truth),
         status = "ok" /\ op[p].pc \in FetchPCs => InFlight(p) /\ Genuine(data, Truth),
         status = "ok" /\ op[p].pc \in MintPCs =>
           data \subseteq KeyIds /\ data \subseteq Minted' \ Minted,
         KeysInv', Minted \subseteq Minted', started' \subseteq KeyIds, RowsGenuine
  PROVE  IInv'
<1> DEFINE o == [op[p] EXCEPT !.resp = [status |-> status, data |-> data]]
<1>1. /\ IsOp(op[p]) /\ Shape(p, op[p]) /\ Carries(op[p], Truth)
      /\ Timed(p, op[p], H(p).gen, signedIn)
      /\ Unused(p, op[p], zeroed \cup HeldBuffers(H(p)))
  BY OpKnown
<1>2. op' = [op EXCEPT ![p] = o]
  BY DEF Answer
<1>3. /\ IsOp(o) /\ o.resp.status = status /\ o.resp.data = data
      /\ \A f \in Fields \ {"resp"} : o[f] = op[p][f]
  BY <1>1 DEF IsOp, Fields
<1> HIDE DEF o
<1>4. /\ o.pc = op[p].pc /\ o.key = op[p].key /\ o.rot = op[p].rot /\ o.post = op[p].post
      /\ o.gen = op[p].gen /\ o.inner = op[p].inner
      /\ o.fetched = op[p].fetched /\ o.since = op[p].since
  BY <1>3 DEF Fields
<1>5. Shape(p, o)
  BY <1>1, <1>3, <1>4 DEF Shape
<1>6. Owned(p, o) \ Owned(p, op[p]) \subseteq Minted' \ Minted
  BY <1>3, <1>4 DEF Owned
<1>7. Carries(o, Truth)
  BY <1>1, <1>3, <1>4 DEF Carries
<1>8. Carries(o, Truth \cup Draw(p, o))
  BY <1>7 DEF Carries, Genuine
<1>9. Timed(p, o, H(p).gen, signedIn)
  BY <1>1, <1>3, <1>4 DEF Timed, InFlight
<1>10. Unused(p, o, zeroed \cup HeldBuffers(H(p)))
  BY <1>1, <1>4 DEF Unused
<1>11. /\ op' = [q \in Ops |-> op'[q]] /\ \A q \in Ops : IsOp(op'[q])
       /\ op'[p] = o /\ \A q \in Ops : q # p => op'[q] = op[q]
       /\ Truth \subseteq Truth' /\ Minting' /\ OpsFit'
  BY <1>2, <1>3, <1>4, <1>5, <1>6, <1>8, OpMoves
<1>12. Typed'
  BY <1>11 DEF IInv, Typed
<1>13. \A q \in Ops : /\ Timed(q, op'[q], H(q).gen, signedIn)
                      /\ Unused(q, op'[q], zeroed \cup HeldBuffers(H(q)))
  BY <1>9, <1>10, <1>11, OpKnown
<1>14. Heap'
  BY <1>11, <1>13, HeapStays
<1>15. RowsTrue'
  BY <1>11 DEF RowsTrue, RowsGenuine, Genuine
<1> QED BY <1>11, <1>12, <1>14, <1>15 DEF IInv

LEMMA TablesStay ==
  ASSUME IInv, UNCHANGED serverVars
  PROVE  KeysInv' /\ Minted' = Minted /\ started' \subseteq KeyIds /\ RowsGenuine
<1>1. UNCHANGED keyRows /\ UNCHANGED wrapRows /\ started' = started
  BY DEF serverVars, rotations
<1> QED BY <1>1, KeysStay DEF IInv, Typed, RowsTrue, RowsGenuine, wrapRows, inFlight

LEMMA RefuseKeeps ==
  ASSUME IInv, NEW p \in Ops, plan' = plan, InFlight(p),
         NEW status \in {"lost", "401", "403", "409", "422", "423"},
         Answer(p, status, {}), UNCHANGED <<serverVars, holder, zeroed, signedIn>>
  PROVE  IInv'
<1>1. KeysInv' /\ Minted' = Minted /\ started' \subseteq KeyIds /\ RowsGenuine
  BY TablesStay
<1> QED BY <1>1, AnswerKeeps DEF InFlight

(* The transaction committed: its answer arrives, or is lost.              *)
LEMMA ReplyKeeps ==
  ASSUME IInv, NEW p \in Ops, NEW data, Reply(p, data), plan' = plan,
         op[p].resp.status \in {"sent", "checked", "archived"},
         op[p].pc \in FetchPCs => InFlight(p) /\ Genuine(data, Truth),
         op[p].pc \in MintPCs => data \subseteq KeyIds /\ data \subseteq Minted' \ Minted,
         KeysInv', Minted \subseteq Minted', started' \subseteq KeyIds, RowsGenuine
  PROVE  IInv'
<1>1. UNCHANGED <<plan, holder, zeroed, signedIn>>
  BY DEF Reply
<1>2. CASE Answer(p, "ok", data)
  BY <1>1, <1>2, AnswerKeeps
<1>3. CASE Answer(p, "lost", {})
  BY <1>1, <1>3, AnswerKeeps
<1> QED BY <1>2, <1>3 DEF Reply

LEMMA ReadsKeep ==
  ASSUME IInv, NEW p \in Ops, plan' = plan,
         \/ ServeState(p, {"state"}) \/ ServeLiveWrap(p) \/ ServeAllWraps(p, {"allwraps"})
         \/ ServeDisclose(p)
  PROVE  IInv'
<1>1. CASE ServeState(p, {"state"})
  <2>1. /\ Reply(p, KeyState(Actor[p])) /\ UNCHANGED serverVars
        /\ op[p].resp.status = "sent" /\ op[p].pc \notin FetchPCs \cup MintPCs
    BY <1>1 DEF ServeState, Serving, InFlight, FetchPCs, MintPCs
  <2> QED BY <2>1, TablesStay, ReplyKeeps
<1>2. CASE ServeLiveWrap(p)
  <2>1. /\ Reply(p, LiveWrapOf(Actor[p])) /\ UNCHANGED serverVars /\ InFlight(p)
        /\ op[p].resp.status = "sent" /\ op[p].pc \notin MintPCs
    BY <1>2 DEF ServeLiveWrap, Serving, InFlight, MintPCs
  <2>2. Genuine(LiveWrapOf(Actor[p]), Truth)
    BY DEF IInv, RowsTrue, Genuine, LiveWrapOf
  <2> QED BY <2>1, <2>2, TablesStay, ReplyKeeps
<1>3. CASE ServeAllWraps(p, {"allwraps"})
  <2>1. /\ Reply(p, AllWrapsOf(Actor[p])) /\ UNCHANGED serverVars /\ InFlight(p)
        /\ op[p].resp.status = "sent" /\ op[p].pc \notin MintPCs
    BY <1>3 DEF ServeAllWraps, Serving, InFlight, MintPCs
  <2>2. Genuine(AllWrapsOf(Actor[p]), Truth)
    <3>1. Genuine(wraps, Truth)
      BY DEF IInv, RowsTrue, Genuine
    <3>2. \A r \in AllWrapsOf(Actor[p]) : \E w \in wraps : r.key = w.key /\ r.mat = w.mat
      BY DEF AllWrapsOf, WrapsOf
    <3> QED BY <3>1, <3>2 DEF Genuine
  <2> QED BY <2>1, <2>2, TablesStay, ReplyKeeps
<1>4. CASE ServeDisclose(p)
  <2>1. /\ op[p].resp.status = "sent" /\ op[p].pc \notin FetchPCs \cup MintPCs
        /\ InFlight(p) /\ UNCHANGED serverVars
        /\ Reply(p, {}) \/ Refuse(p, "422")
    BY <1>4 DEF ServeDisclose, Serving, InFlight, FetchPCs, MintPCs, Refuse
  <2>2. CASE Reply(p, {})
    BY <2>1, <2>2, TablesStay, ReplyKeeps
  <2>3. CASE Refuse(p, "422")
    BY <2>1, <2>3, RefuseKeeps DEF Refuse
  <2> QED BY <2>1, <2>2, <2>3
<1> QED BY <1>1, <1>2, <1>3, <1>4

LEMMA MintsKeep ==
  ASSUME IInv, NEW p \in Ops, plan' = plan, ServeInit(p) \/ ServeRotate(p)
  PROVE  IInv'
<1>1. InFlight(p) /\ op[p].resp.status = "sent" /\ op[p].pc \notin FetchPCs
  BY DEF ServeInit, ServeRotate, Serving, InFlight, RotatePCs, FetchPCs
<1>2. CASE Refuse(p, "423") \/ Refuse(p, "409")
  BY <1>1, <1>2, RefuseKeeps DEF Refuse
<1>3. ASSUME NEW k \in FreshIds, Reply(p, {k}), UNCHANGED wrapRows,
             epoch' = [epoch EXCEPT ![k] = NextEpoch],
             retired' \subseteq Minted, Minted \subseteq retired',
             started' \subseteq started \cup {k}
      PROVE  IInv'
  <2>1. k \in KeyIds /\ k \notin Minted
    BY <1>3 DEF FreshIds
  <2>2. KeysInv' /\ Minted' = Minted \cup {k}
    BY <1>3, <2>1, MintKeys DEF IInv
  <2>3. started' \subseteq KeyIds
    BY <1>3, <2>1 DEF IInv, Typed
  <2>4. RowsGenuine
    BY <1>3 DEF IInv, RowsTrue, RowsGenuine, wrapRows, inFlight
  <2>5. {k} \subseteq KeyIds /\ {k} \subseteq Minted' \ Minted
    BY <2>1, <2>2
  <2> QED BY <1>1, <1>3, <2>2, <2>3, <2>4, <2>5, ReplyKeeps
<1>4. ASSUME NEW k \in FreshIds, InitKey(k), LiveKeys = {}, Reply(p, {k}) PROVE IInv'
  <2>1. Minted \subseteq retired /\ retired \subseteq Minted
    BY <1>4 DEF IInv, KeysInv, LiveKeys
  <2> QED BY <1>3, <1>4, <2>1 DEF InitKey, rotations
<1>5. ASSUME NEW k \in FreshIds, Rotate(k), Reply(p, {k}) PROVE IInv'
  <2>1. /\ NewestLive \subseteq Minted /\ Minted \subseteq retired \cup NewestLive
        /\ retired \subseteq Minted
    BY RotateRetires DEF IInv, KeysInv
  <2> QED BY <1>3, <1>5, <2>1 DEF Rotate
<1>6. CASE ServeInit(p)
  BY <1>2, <1>4, <1>6 DEF ServeInit, CanInitKey
<1>7. CASE ServeRotate(p)
  BY <1>2, <1>5, <1>7 DEF ServeRotate
<1> QED BY <1>6, <1>7

LEMMA WrapsKeep ==
  ASSUME IInv, NEW p \in Ops, plan' = plan,
         \/ ServeWrapChecks(p) \/ ServeWrapInsert(p) \/ ServeArchive(p) \/ ServeDelete(p)
         \/ ServeFinalize(p)
  PROVE  IInv'
<1>1. Shape(p, op[p]) /\ Carries(op[p], Truth)
  BY OpKnown
<1>2. /\ Genuine(wraps, Truth) /\ Genuine(archive, Truth) /\ Genuine(granting, Truth)
      /\ \A d \in purging : Genuine(d.rows, Truth)
  BY DEF IInv, RowsTrue, Genuine
<1>3. ASSUME UNCHANGED keyRows, started' = started
      PROVE  KeysInv' /\ Minted' = Minted /\ started' \subseteq KeyIds
  BY <1>3, KeysStay DEF IInv, Typed
<1>4. CASE ServeWrapChecks(p)
  <2>1. /\ InFlight(p) /\ op[p].resp.status = "sent" /\ op[p].pc \in WrapPCs
        /\ op[p].pc \notin FetchPCs \cup MintPCs
    BY <1>4 DEF ServeWrapChecks, Serving, InFlight, WrapPCs, FetchPCs, MintPCs
  <2>2. CASE Refuse(p, "403")
    BY <2>1, <2>2, RefuseKeeps DEF Refuse
  <2>3. CASE CheckWrap(op[p].post) /\ Answer(p, "checked", {})
             /\ UNCHANGED <<holder, zeroed, signedIn, outside>>
    <3>1. RowsGenuine
      BY <1>1, <1>2, <2>1, <2>3 DEF CheckWrap, RowsGenuine, Genuine, Carries
    <3>2. KeysInv' /\ Minted' = Minted /\ started' \subseteq KeyIds
      BY <1>3, <2>3 DEF CheckWrap, rotations
    <3> QED BY <2>1, <2>3, <3>1, <3>2, AnswerKeeps
  <2> QED BY <1>4, <2>2, <2>3 DEF ServeWrapChecks
<1>5. CASE ServeWrapInsert(p)
  <2>1. op[p].resp.status = "checked" /\ InsertWrap(op[p].post) /\ Reply(p, {})
    BY <1>5 DEF ServeWrapInsert
  <2>2. op[p].pc \in WrapPCs /\ op[p].pc \notin FetchPCs \cup MintPCs
    BY <1>1, <2>1 DEF Shape, WrapPCs, FetchPCs, MintPCs
  <2>3. RowsGenuine
    BY <1>1, <1>2, <2>1, <2>2 DEF InsertWrap, RowsGenuine, Genuine, Carries
  <2>4. KeysInv' /\ Minted' = Minted /\ started' \subseteq KeyIds
    BY <1>3, <2>1 DEF InsertWrap, rotations
  <2> QED BY <2>1, <2>2, <2>3, <2>4, ReplyKeeps
<1>6. CASE ServeArchive(p)
  <2>1. InFlight(p) /\ op[p].resp.status = "sent" /\ op[p].pc = "revoke"
    BY <1>6 DEF ServeArchive, Serving, InFlight
  <2>2. CASE Refuse(p, "403")
    BY <2>1, <2>2, RefuseKeeps DEF Refuse
  <2>3. CASE /\ ArchiveWraps(Target[p])
             /\ Answer(p, "archived", [member |-> Target[p], rows |-> WrapsOf(Target[p])])
             /\ UNCHANGED <<holder, zeroed, signedIn, outside>>
    <3> DEFINE d == [member |-> Target[p], rows |-> WrapsOf(Target[p])]
    <3>1. Genuine(d.rows, Truth)
      BY <1>2 DEF WrapsOf, Genuine
    <3>2. ArchiveWraps(Target[p]) /\ Answer(p, "archived", d)
          /\ UNCHANGED <<holder, zeroed, signedIn>>
      BY <2>3
    <3>3. purging' = purging \cup {d}
      BY <2>3 DEF ArchiveWraps
    <3> HIDE DEF d
    <3>4. RowsGenuine
      BY <1>2, <3>1, <3>2, <3>3 DEF ArchiveWraps, RowsGenuine, Genuine
    <3>5. KeysInv' /\ Minted' = Minted /\ started' \subseteq KeyIds
      BY <1>3, <3>2 DEF ArchiveWraps, rotations
    <3>6. op[p].resp.status \notin {"none", "archived"}
      BY <2>1
    <3> QED BY <2>1, <3>1, <3>2, <3>4, <3>5, <3>6, AnswerKeeps
  <2> QED BY <1>6, <2>2, <2>3 DEF ServeArchive
<1>7. CASE ServeDelete(p)
  <2>1. op[p].resp.status = "archived" /\ DeleteWraps(op[p].resp.data) /\ Reply(p, {})
    BY <1>7 DEF ServeDelete
  <2>2. op[p].pc = "revoke" /\ op[p].pc \notin FetchPCs \cup MintPCs
    BY <1>1, <2>1 DEF Shape, FetchPCs, MintPCs
  <2>3. RowsGenuine
    BY <1>1, <1>2, <2>1 DEF DeleteWraps, RowsGenuine, Genuine, Carries
  <2>4. KeysInv' /\ Minted' = Minted /\ started' \subseteq KeyIds
    BY <1>3, <2>1 DEF DeleteWraps, rotations
  <2> QED BY <2>1, <2>2, <2>3, <2>4, ReplyKeeps
<1>8. CASE ServeFinalize(p)
  <2>1. /\ InFlight(p) /\ op[p].resp.status = "sent"
        /\ op[p].pc \notin FetchPCs \cup MintPCs
    BY <1>8 DEF ServeFinalize, Serving, InFlight, FetchPCs, MintPCs
  <2>2. CASE Refuse(p, "422")
    BY <2>1, <2>2, RefuseKeeps DEF Refuse
  <2>3. CASE Finalize(op[p].rot, op[p].key, op[p].count) /\ Reply(p, {})
    <3>1. RowsGenuine
      BY <1>2, <2>3 DEF Finalize, RowsGenuine, Genuine, wrapRows, inFlight
    <3>2. KeysInv' /\ Minted' = Minted /\ started' \subseteq KeyIds
      BY <1>3, <2>3 DEF Finalize
    <3> QED BY <2>1, <2>3, <3>1, <3>2, ReplyKeeps
  <2> QED BY <1>8, <2>2, <2>3 DEF ServeFinalize
<1> QED BY <1>4, <1>5, <1>6, <1>7, <1>8

LEMMA ServeKeeps ==
  ASSUME IInv, NEW p \in Ops, plan' = plan, Serve(p)
  PROVE  IInv'
<1>1. CASE DropRequest(p)
  BY <1>1, RefuseKeeps DEF DropRequest
<1>2. CASE Deny(p)
  BY <1>2, RefuseKeeps DEF Deny, Refuse
<1> QED BY <1>1, <1>2, ReadsKeep, MintsKeep, WrapsKeep DEF Serve

-----------------------------------------------------------------------------
(* The tab's environment and the membership.                               *)
LEMMA OpsStay ==
  ASSUME IInv, UNCHANGED <<op, plan, keyRows, wrapRows, started>>
  PROVE  /\ Truth' = Truth /\ KeysInv' /\ Minting' /\ RowsTrue' /\ OpsFit'
         /\ plan' \in Plans /\ started' \subseteq KeyIds
         /\ op' = [p \in Ops |-> op'[p]] /\ \A p \in Ops : IsOp(op'[p])
<1>1. KeysInv' /\ Minted' = Minted
  BY KeysStay DEF IInv
<1>2. Truth' = Truth
  BY DEF Truth, Draw, Minter, Kind
<1>3. Minting'
  BY <1>1 DEF IInv, Minting, Owned, Minter, Kind
<1>4. RowsTrue'
  BY <1>2, RowsStay DEF IInv
<1>5. OpsFit'
  <2>1. \A p \in Ops : (Shape(p, op[p]) <=> Shape(p, op[p])')
    BY DEF Shape, Minter, Kind
  <2>2. \A p \in Ops : (Carries(op[p], Truth) <=> Carries(op[p], Truth)')
    BY <1>2 DEF Carries
  <2> QED BY <2>1, <2>2 DEF IInv, OpsFit
<1> QED BY <1>1, <1>2, <1>3, <1>4, <1>5 DEF IInv, Typed

LEMMA WipeKeeps ==
  ASSUME IInv, NEW u \in Users, WipeTab(u), signedIn' \in {signedIn, signedIn \ {u}},
         UNCHANGED <<op, plan, serverVars>>
  PROVE  IInv'
<1>1. UNCHANGED <<op, plan, keyRows, wrapRows, started>>
  BY DEF serverVars, rotations
<1>2. /\ Truth' = Truth /\ KeysInv' /\ Minting' /\ RowsTrue' /\ OpsFit'
      /\ plan' \in Plans /\ started' \subseteq KeyIds
      /\ op' = [p \in Ops |-> op'[p]] /\ \A p \in Ops : IsOp(op'[p])
  BY <1>1, OpsStay
<1>3. /\ Heap' /\ holder' = [v \in Users |-> holder'[v]]
      /\ \A v \in Users : HolderTyped(holder'[v])
  BY <1>2, HeapWiped
<1>4. Typed'
  BY <1>2, <1>3 DEF Typed, HolderTyped
<1> QED BY <1>2, <1>3, <1>4 DEF IInv

(* No holder, no request and no key row changes; a user may sign in.       *)
LEMMA OutsideKeeps ==
  ASSUME IInv, UNCHANGED <<op, plan, holder, zeroed, keyRows, wrapRows, started>>,
         signedIn \subseteq signedIn'
  PROVE  IInv'
<1>1. /\ Truth' = Truth /\ KeysInv' /\ Minting' /\ RowsTrue' /\ OpsFit'
      /\ plan' \in Plans /\ started' \subseteq KeyIds
      /\ op' = [p \in Ops |-> op'[p]] /\ \A p \in Ops : IsOp(op'[p])
  BY OpsStay
<1>2. Typed'
  BY <1>1 DEF Typed, HolderTyped, IInv
<1>3. \A p \in Ops :
        /\ Timed(p, op'[p], holder'[Actor[p]].gen, signedIn')
        /\ Unused(p, op'[p], zeroed' \cup HeldBuffers(holder'[Actor[p]]))
  <2> SUFFICES ASSUME NEW p \in Ops
               PROVE  /\ Timed(p, op[p], H(p).gen, signedIn')
                      /\ Unused(p, op[p], zeroed \cup HeldBuffers(H(p)))
    BY DEF H
  <2> QED BY OpKnown DEF Timed
<1>4. ASSUME NEW u \in Users
      PROVE  /\ HeldFor(u, holder'[u], zeroed', Truth')
             /\ u \notin signedIn' => HeldIds(holder'[u]) = {}
  BY <1>1, HolderFits
<1>5. Heap'
  BY <1>3, <1>4, HeapIs
<1> QED BY <1>1, <1>2, <1>5 DEF IInv

LEMMA EnvironmentKeeps ==
  ASSUME IInv, plan' = plan, Environment
  PROVE  IInv'
<1>1. PICK u \in Users :
        \/ TabEvent(u)
        \/ Enroll(u) /\ UNCHANGED <<clientVars, outside>>
        \/ Activate(u) /\ UNCHANGED <<clientVars, outside>>
        \/ RemoveMember(u) /\ UNCHANGED <<clientVars, outside>>
  BY DEF Environment
<1>2. CASE Enroll(u) /\ UNCHANGED <<clientVars, outside>>
  BY <1>2, OutsideKeeps DEF Enroll, clientVars, rotations
<1>3. CASE Activate(u) /\ UNCHANGED <<clientVars, outside>>
  BY <1>3, OutsideKeeps DEF Activate, clientVars, rotations
<1>4. CASE RemoveMember(u) /\ UNCHANGED <<clientVars, outside>>
  BY <1>4, OutsideKeeps DEF RemoveMember, clientVars, rotations
<1>5. CASE EndSession(u) /\ UNCHANGED <<clientVars, outside>>
  BY <1>5, OutsideKeeps DEF EndSession, clientVars, rotations
<1>6. CASE SignIn(u)
  BY <1>6, OutsideKeeps DEF SignIn, rotations
<1>7. CASE PanicAborted(u)
  BY <1>7, OutsideKeeps DEF PanicAborted, clientVars, serverVars, rotations
<1>8. CASE SignOut(u) \/ Unload(u) \/ PanicDestroys(u) \/ PanicCleanup(u)
  BY <1>8, WipeKeeps DEF SignOut, Unload, PanicDestroys, PanicCleanup
<1>9. CASE PanicRow(u)
  <2>1. CASE GateSession(u)
    BY <1>9, <2>1, OutsideKeeps DEF PanicRow, serverVars, rotations
  <2>2. CASE ~GateSession(u)
    BY <1>9, <2>2, WipeKeeps DEF PanicRow
  <2> QED BY <2>1, <2>2
<1> QED BY <1>1, <1>2, <1>3, <1>4, <1>5, <1>6, <1>7, <1>8, <1>9 DEF TabEvent

-----------------------------------------------------------------------------
LEMMA CeremoniesInit == Init => IInv
<1> SUFFICES ASSUME Init PROVE IInv
  OBVIOUS
<1>1. plan \in Plans /\ op = [p \in Ops |-> NewOp] /\ TabsInit
  BY DEF Init, TabsInit
<1>2. IsOp(NewOp)
  <2>1. NewOp = [f \in Fields |-> NewOp[f]]
    BY DEF NewOp, Fields
  <2> QED BY <2>1 DEF NewOp, IsOp
<1>3. /\ NewOp.pc = "idle" /\ NewOp.resp.status = "none" /\ NewOp.key = NoKey
      /\ NewOp.rot = NoKey
      /\ NewOp.gen = 0 /\ NewOp.inner = 0 /\ NewOp.since = 0 /\ NewOp.fetched = 0
  BY DEF NewOp, NoAnswer
<1>4. /\ HolderTyped(NewHolder) /\ HeldIds(NewHolder) = {} /\ HeldBuffers(NewHolder) = {}
      /\ NewHolder.gen = 0
  BY DEF HolderTyped, NewHolder, HeldIds, HeldBuffers
<1>5. Typed
  BY <1>1, <1>2, <1>4 DEF Typed, TabsInit
<1>6. \A p \in Ops : /\ op[p].pc = "idle" /\ op[p].resp.status = "none" /\ op[p].key = NoKey
                     /\ op[p].rot = NoKey
                     /\ op[p].gen = 0 /\ op[p].inner = 0 /\ op[p].since = 0
                     /\ op[p].fetched = 0
  BY <1>1, <1>3
<1> HIDE DEF NewOp
<1>7. \A p \in Ops : Owned(p, op[p]) = {}
  BY <1>6, NoKeyAssumption DEF Owned, MintPCs
<1>8. Minting
  <2>1. plan.holders # {} /\ FirstKey \in KeyIds => FirstKey \in Minted
    BY <1>1 DEF TabsInit, Minted
  <2> QED BY <1>7, <2>1 DEF Minting
<1>9. KeysInv
  <2>1. /\ epoch = [k \in KeyIds |-> IF plan.holders # {} /\ k = FirstKey THEN 1 ELSE 0]
        /\ retired = {}
    BY <1>1 DEF TabsInit
  <2>2. \A k \in KeyIds : epoch[k] = IF plan.holders # {} /\ k = FirstKey THEN 1 ELSE 0
    BY <2>1
  <2>3. ASSUME NEW k \in Minted PROVE k = FirstKey /\ epoch[k] = 1
    <3>1. k \in KeyIds /\ epoch[k] > 0
      BY DEF Minted
    <3> QED BY <2>2, <3>1
  <2>4. \A k, j \in Minted : epoch[j] <= epoch[k] /\ j = k /\ k \in LiveKeys
    <3> SUFFICES ASSUME NEW k \in Minted, NEW j \in Minted
                 PROVE  epoch[j] <= epoch[k] /\ j = k /\ k \in LiveKeys
      OBVIOUS
    <3>1. k = j /\ epoch[k] = 1
      BY <2>3
    <3>2. k \in LiveKeys
      BY <2>1 DEF LiveKeys
    <3> QED BY <3>1, <3>2
  <2>5. OneLiveNewest
    BY <2>4 DEF OneLiveNewest
  <2> QED BY <2>1, <2>5 DEF KeysInv
<1>10. RowsTrue
  <2>1. \A w \in wraps : plan.holders # {} /\ w.key = FirstKey /\ w.mat = FirstMaterial
    BY <1>1 DEF TabsInit
  <2>2. archive = {} /\ granting = {} /\ purging = {}
    BY <1>1 DEF TabsInit
  <2> QED BY <2>1, <2>2 DEF RowsTrue, Genuine, Truth
<1>11. OpsFit
  BY <1>6 DEF OpsFit, Shape, Carries, FetchPCs, WrapPCs, MintPCs, InitPCs, OtherPCs, SharedPCs
<1>12. Heap
  <2>1. /\ \A u \in Users : holder[u] = NewHolder
        /\ zeroed = {}
    BY <1>1 DEF TabsInit
  <2>2. ASSUME NEW p \in Ops PROVE H(p) = NewHolder
    BY <1>5, <2>1, PlanKnown
  <2>3. ASSUME NEW p \in Ops
        PROVE  /\ Timed(p, op[p], H(p).gen, signedIn)
               /\ Unused(p, op[p], zeroed \cup HeldBuffers(H(p)))
    BY <1>4, <1>6, <2>1, <2>2 DEF Timed, Unused, FetchPCs
  <2>4. \A u \in Users : /\ HeldFor(u, holder[u], zeroed, Truth)
                         /\ HeldIds(holder[u]) = {}
    BY <1>4, <2>1 DEF HeldFor
  <2> QED BY <2>3, <2>4 DEF Heap
<1> QED BY <1>5, <1>8, <1>9, <1>10, <1>11, <1>12 DEF IInv

LEMMA CeremoniesStep == IInv /\ [Next]_vars => IInv'
<1> SUFFICES ASSUME IInv, [Next]_vars PROVE IInv'
  OBVIOUS
<1>1. ASSUME NEW p \in Ops, Step(p) \/ Serve(p), plan' = plan PROVE IInv'
  BY <1>1, StepKeeps, ServeKeeps
<1>2. CASE Environment /\ plan' = plan
  BY <1>2, EnvironmentKeeps
<1>3. CASE UNCHANGED vars
  BY <1>3, OutsideKeeps DEF vars, clientVars, serverVars, rotations
<1> QED BY <1>1, <1>2, <1>3 DEF Next

LEMMA CeremoniesInvariant == Spec => []IInv
<1> QED BY CeremoniesInit, CeremoniesStep, PTL DEF Spec

(* Every wrap of one key_id, current, archived or being granted, seals the *)
(* same bytes and never a zeroized buffer (F-137, F-190), for any number   *)
(* of ceremonies sharing tabs in any plan, whatever is lost or wiped.      *)
THEOREM OneMaterial == Spec => []OneMaterialPerKey
<1>1. IInv => OneMaterialPerKey
  <2> SUFFICES ASSUME IInv, NEW v \in wraps \cup archive \cup granting,
                      NEW w \in wraps \cup archive \cup granting
               PROVE  v.mat # ZeroKey /\ (v.key = w.key => v.mat = w.mat)
    BY DEF OneMaterialPerKey
  <2>1. <<v.key, v.mat>> \in Truth /\ <<w.key, w.mat>> \in Truth
    BY DEF IInv, RowsTrue, Genuine
  <2>2. Minting
    BY DEF IInv
  <2> QED BY <2>1, <2>2, TruthIs
<1> QED BY <1>1, CeremoniesInvariant, PTL

(* A wipe is final: a holder only holds keys asked for since its last      *)
(* wipe, and the tab of a signed-out user holds none (F-VAL-1(b), F-195).  *)
THEOREM WipeIsFinal == Spec => []HeldSinceLastWipe
<1>1. IInv => HeldSinceLastWipe
  <2> SUFFICES ASSUME IInv, NEW u \in Users
               PROVE  /\ \A b \in HeldBuffers(holder[u]) : b.since = holder[u].gen
                      /\ u \notin signedIn => HeldBuffers(holder[u]) = {}
    BY DEF HeldSinceLastWipe
  <2>1. \A b \in HeldBuffers(holder[u]) : b.since = holder[u].gen
    BY HeldIsMine
  <2>2. u \notin signedIn => HeldIds(holder[u]) = {}
    BY HolderFits
  <2> QED BY <2>1, <2>2 DEF HeldBuffers
<1> QED BY <1>1, CeremoniesInvariant, PTL

(* The buffer a holder gives out was not zeroized under it: what is sealed *)
(* with a held key is that key's bytes, in any interleaving of the tab's   *)
(* ceremonies, wipes and installs.                                         *)
HeldKeysUsable ==
  \A u \in Users : \A k \in HeldIds(holder[u]) :
    LET b == holder[u].keys[k].data_key IN b \notin zeroed /\ Content(b) # ZeroKey

THEOREM NoHeldZeroed == Spec => []HeldKeysUsable
<1>1. IInv => HeldKeysUsable
  <2> SUFFICES ASSUME IInv, NEW u \in Users, NEW k \in HeldIds(holder[u])
               PROVE  /\ holder[u].keys[k].data_key \notin zeroed
                      /\ Content(holder[u].keys[k].data_key) # ZeroKey
    BY DEF HeldKeysUsable
  <2> DEFINE b == holder[u].keys[k].data_key
  <2>1. b \notin zeroed /\ <<k, b.mat>> \in Truth
    BY HolderFits DEF HeldFor, Held
  <2>2. Minting
    BY DEF IInv
  <2>3. b.mat # ZeroKey
    BY <2>1, <2>2, TruthIs
  <2> QED BY <2>1, <2>3 DEF Content
<1> QED BY <1>1, CeremoniesInvariant, PTL
-----------------------------------------------------------------------------
(* Part 3: the removed member.                                             *)
(*                                                                         *)
(* The argument: a row with the key a removal minted is preceded by a wrap *)
(* that passed its checks, so it names an active member.  If nobody is     *)
(* reactivated the removed member is not one.  If somebody may be, the     *)
(* lists and targets of the ceremonies do not name it (Bar), and what is   *)
(* not from a list is the minting ceremony's wrap to its own actor.        *)

(* What the code that ends a ceremony, or sends its next request, changes  *)
(* of the local state o.                                                   *)
Alike(r, o, S) == \A f \in Fields \ S : r[f] = o[f]

LEMMA EndIs ==
  ASSUME NEW o, NEW res, IsOp(o)
  PROVE  /\ IsOp(End(o, res)) /\ End(o, res).pc = "ended" /\ End(o, res).res = res
         /\ End(o, res).resp.status = "none"
         /\ Alike(End(o, res), o, {"pc", "res", "resp"})
<1>1. /\ IsOp(End(o, res)) /\ End(o, res).pc = "ended" /\ End(o, res).res = res
      /\ End(o, res).resp.status = "none"
  BY DEF End, NoAnswer, IsOp, Fields
<1>2. Alike(End(o, res), o, {"pc", "res", "resp"})
  BY DEF End, NoAnswer, IsOp, Fields, Alike
<1> QED BY <1>1, <1>2

LEMMA IncompleteIs ==
  ASSUME NEW o, IsOp(o)
  PROVE  /\ IsOp(Incomplete(o)) /\ Incomplete(o).pc = "ended"
         /\ Incomplete(o).res = "incomplete" /\ Incomplete(o).resp.status = "none"
         /\ Incomplete(o).pending = o.pending \cup o.todo
         /\ Alike(Incomplete(o), o, {"pc", "res", "resp", "pending"})
<1> DEFINE e == End(o, "incomplete")
           r == [e EXCEPT !.pending = o.pending \cup o.todo]
<1>1. /\ IsOp(e) /\ e.pc = "ended" /\ e.res = "incomplete" /\ e.resp.status = "none"
      /\ Alike(e, o, {"pc", "res", "resp"})
  BY EndIs
<1>2. Incomplete(o) = r
  BY DEF Incomplete
<1> HIDE DEF e
<1>3. IsOp(r) /\ r.pending = o.pending \cup o.todo /\ \A f \in Fields \ {"pending"} : r[f] = e[f]
  BY <1>1 DEF IsOp, Fields
<1> HIDE DEF r
<1>4. r.pc = "ended" /\ r.res = "incomplete" /\ r.resp.status = "none"
  BY <1>1, <1>3 DEF Fields
<1>5. Alike(r, o, {"pc", "res", "resp", "pending"})
  BY <1>1, <1>3 DEF Alike
<1> QED BY <1>2, <1>3, <1>4, <1>5

LEMMA AskIs ==
  ASSUME NEW p \in Ops, NEW o, NEW pc, IsOp(o)
  PROVE  /\ IsOp(Request(p, o, pc)) /\ Request(p, o, pc).pc = pc
         /\ Request(p, o, pc).resp.status \in {"sent", "401"}
         /\ Alike(Request(p, o, pc), o, {"pc", "resp"})
  BY RequestIs DEF Alike

LEMMA FetchIs ==
  ASSUME IInv, NEW p \in Ops, NEW o, NEW pc, IsOp(o)
  PROVE  /\ IsOp(Fetch(p, o, pc)) /\ Fetch(p, o, pc).pc = pc
         /\ Fetch(p, o, pc).resp.status \in {"sent", "401"}
         /\ Alike(Fetch(p, o, pc), o, {"pc", "resp", "fetched", "since"})
<1> DEFINE q == Request(p, o, pc)
           s == [q EXCEPT !.fetched = o.fetched + 1]
           r == [s EXCEPT !.since = H(p).gen]
<1>1. /\ IsOp(q) /\ q.pc = pc /\ q.resp.status \in {"sent", "401"}
      /\ Alike(q, o, {"pc", "resp"})
  BY AskIs
<1>2. Fetch(p, o, pc) = r
  BY DEF Fetch
<1> HIDE DEF q
<1>3. IsOp(s) /\ \A f \in Fields \ {"fetched"} : s[f] = q[f]
  BY <1>1 DEF IsOp, Fields
<1> HIDE DEF s
<1>4. H(p).gen \in Nat
  BY OpKnown
<1>5. IsOp(r) /\ \A f \in Fields \ {"since"} : r[f] = s[f]
  BY <1>3, <1>4 DEF IsOp, Fields
<1> HIDE DEF r
<1>6. r.pc = pc /\ r.resp.status \in {"sent", "401"}
  BY <1>1, <1>3, <1>5 DEF Fields
<1>7. Alike(r, o, {"pc", "resp", "fetched", "since"})
  BY <1>1, <1>3, <1>5 DEF Alike
<1> QED BY <1>2, <1>5, <1>6, <1>7

LEMMA CaptureIs ==
  ASSUME NEW o, NEW h, IsOp(o)
  PROVE  /\ IsOp(Capture(o, h)) /\ Capture(o, h).pc = "sealing"
         /\ Capture(o, h).resp.status = "none"
         /\ Alike(Capture(o, h), o, {"pc", "resp", "cap"})
<1>1. IsOp(Capture(o, h)) /\ Capture(o, h).pc = "sealing" /\ Capture(o, h).resp.status = "none"
  BY DEF Capture, NoAnswer, IsOp, Fields
<1>2. Alike(Capture(o, h), o, {"pc", "resp", "cap"})
  BY DEF Capture, NoAnswer, IsOp, Fields, Alike
<1> QED BY <1>1, <1>2

(* The next member of a rotation, or its last request.                     *)
LEMMA NextIs ==
  ASSUME NEW p \in Ops, NEW o, NEW h, IsOp(o), NEW r \in NextMember(p, o, h)
  PROVE  \/ /\ IsOp(r) /\ r.pc = "disclose" /\ r.resp.status \in {"sent", "401"}
            /\ r.cur \in o.todo /\ Alike(r, o, {"pc", "resp", "cur"})
         \/ o.todo = {} /\ r = Abandon(p, o)
         \/ /\ IsOp(r) /\ o.todo = {} /\ r.pc = "finalize" /\ r.resp.status \in {"sent", "401"}
            /\ Alike(r, o, {"pc", "resp"})
<1>1. CASE o.todo # {}
  <2>1. PICK m \in o.todo : r = Request(p, [o EXCEPT !.cur = m], "disclose")
    BY <1>1 DEF NextMember
  <2> DEFINE i == [o EXCEPT !.cur = m]
  <2>2. IsOp(i) /\ i.cur = m /\ \A f \in Fields \ {"cur"} : i[f] = o[f]
    BY DEF IsOp, Fields
  <2> HIDE DEF i
  <2>3. /\ IsOp(r) /\ r.pc = "disclose" /\ r.resp.status \in {"sent", "401"}
        /\ Alike(r, i, {"pc", "resp"})
    BY <2>1, <2>2, AskIs DEF i
  <2>4. r.cur = m /\ Alike(r, o, {"pc", "resp", "cur"})
    BY <2>2, <2>3 DEF Alike, Fields
  <2> QED BY <2>3, <2>4
<1>2. CASE o.todo = {}
  BY <1>2, AskIs DEF NextMember
<1> QED BY <1>1, <1>2

LEMMA WrapMemberInIs ==
  ASSUME NEW p \in Ops, NEW o, NEW h, IsOp(o), h.gen \in Nat
  PROVE  LET r == WrapMemberIn(p, o, h) IN
           /\ IsOp(r) /\ Alike(r, o, {"pc", "resp", "cap", "inner"})
           /\ IF HasLiveKey(h) THEN r.pc = "sealing" /\ r.resp.status = "none"
              ELSE r.pc = "state" /\ r.resp.status \in {"sent", "401"}
<1> DEFINE r == WrapMemberIn(p, o, h)
<1>1. CASE HasLiveKey(h)
  <2>1. r = Capture(o, h)
    BY <1>1 DEF WrapMemberIn
  <2> HIDE DEF r
  <2> QED BY <1>1, <2>1, CaptureIs DEF Alike, r
<1>2. CASE ~HasLiveKey(h)
  <2> DEFINE i == [o EXCEPT !.inner = h.gen]
  <2>1. r = Request(p, i, "state")
    BY <1>2 DEF WrapMemberIn
  <2>2. IsOp(i) /\ \A f \in Fields \ {"inner"} : i[f] = o[f]
    BY DEF IsOp, Fields
  <2> HIDE DEF i, r
  <2>3. /\ IsOp(r) /\ r.pc = "state" /\ r.resp.status \in {"sent", "401"}
        /\ Alike(r, i, {"pc", "resp"})
    BY <2>1, <2>2, AskIs
  <2>4. Alike(r, o, {"pc", "resp", "cap", "inner"})
    BY <2>2, <2>3 DEF Alike
  <2> QED BY <1>2, <2>3, <2>4 DEF r
<1> QED BY <1>1, <1>2

-----------------------------------------------------------------------------
(* The removed member.                                                     *)
OwnPCs == {"firstwrap", "repairwrap", "selfwrap"}

(* No ceremony of the plan gives the member that p removes a key again: it *)
(* stays removed, or it may be reactivated but is granted nothing, no one  *)
(* resumes, and no other removal re-wraps for it.                          *)
NoRegrant(p) ==
  \/ ~Happens("activate")
  \/ \A q \in Ops : /\ Kind[q] # "resume"
                    /\ Kind[q] = "grant" => Target[q] # Target[p]
                    /\ Kind[q] = "rotate" => Target[q] = Target[p]

(* What a ceremony posts, and to whom.                                     *)
Posts(p, o) ==
  /\ o.pc \in OwnPCs => o.post.user = Actor[p] /\ o.post.key = o.key
  /\ o.pc = "memberwrap" => o.post.user = o.cur
  /\ o.pc = "revoke" /\ o.resp.status \in {"archived", "ok"} => Actor[p] # Target[p]
  /\ o.pc = "selfwrap" => Kind[p] = "rotate" /\ Actor[p] # Target[p]

Leaks(p, w) == w.user = Target[p] /\ w.key \in Owned(p, op[p])
Bar(o, t) == t \notin o.todo /\ o.cur # t

(* The key that p mints has not reached the member, and is not on its way. *)
NoLeak(p) ==
  /\ \A w \in wraps \cup archive : ~Leaks(p, w)
  /\ \A q \in Ops :
       /\ op[q].resp.status = "checked" => ~Leaks(p, op[q].post)
       /\ op[q].resp.status = "archived" => \A w \in op[q].resp.data.rows : ~Leaks(p, w)
  /\ IF Happens("activate") THEN \A q \in Ops : Bar(op[q], Target[p])
     ELSE op[p].pc # "idle" => Target[p] \notin active

RemovedInv ==
  /\ \A p \in Ops : Posts(p, op[p])
  /\ \A p \in Ops : Kind[p] = "rotate" /\ NoRegrant(p) => NoLeak(p)

(* A client segment leaves the state r: it owns no more, and turns to      *)
(* nobody it was not to turn to, except when it begins.                    *)
Begun(p, r) ==
  /\ Kind[p] \in {"init", "grant"} => r.todo = op[p].todo
  /\ Kind[p] \in {"init", "rotate"} => r.cur = op[p].cur
  /\ Kind[p] = "grant" => r.cur = Target[p]
  /\ Kind[p] = "rotate" => r.todo \subseteq active /\ Target[p] \notin active

Calm(p, o) ==
  /\ IsOp(o)
  /\ Minter(p) => o.key \in {op[p].key} \cup Owned(p, op[p])
  /\ IF op[p].pc = "idle" THEN Begun(p, o)
     ELSE \A t \in Users : Bar(op[p], t) => Bar(o, t)

Quiet(p, r) ==
  /\ Calm(p, r) /\ Posts(p, r)
  /\ r.resp.status \in {"none", "sent", "401"}

(* The bytes of a key id are only known once it was minted.                *)
LEMMA TruthMinted ==
  ASSUME IInv, NEW pair \in Truth, pair[1] \in KeyIds
  PROVE  pair[1] \in Minted
<1>1. \/ plan.holders # {} /\ pair = <<FirstKey, FirstMaterial>>
      \/ \E q \in Ops : /\ op[q].key \in KeyIds /\ op[q].key \in Owned(q, op[q])
                        /\ pair = <<op[q].key, FreshKey(q, op[q].key)>>
  BY DEF Truth, Draw, Owned
<1> QED BY <1>1 DEF IInv, Minting

LEMMA TargetKnown ==
  ASSUME IInv, NEW p \in Ops
  PROVE  Target[p] \in Users
<1>1. plan \in Plans
  BY DEF IInv, Typed
<1> QED BY <1>1, KeyPlansAssumption DEF Target

LEMMA OpIs ==
  ASSUME IInv, NEW p \in Ops, NEW o, op' = [op EXCEPT ![p] = o]
  PROVE  op'[p] = o /\ \A q \in Ops : q # p => op'[q] = op[q]
  BY DEF IInv, Typed

LEMMA QuietKeeps ==
  ASSUME IInv, RemovedInv, NEW p \in Ops, NEW r, Quiet(p, r),
         op' = [op EXCEPT ![p] = r], UNCHANGED <<plan, serverVars>>
  PROVE  RemovedInv'
<1>1. op'[p] = r /\ \A q \in Ops : q # p => op'[q] = op[q]
  BY OpIs
<1>2. wraps' = wraps /\ archive' = archive /\ active' = active
  BY DEF serverVars, wrapRows, membership
<1>3. Owned(p, r) \subseteq Owned(p, op[p])
  BY DEF Quiet, Calm, Owned
<1>4. \A q \in Ops : Owned(q, op[q])' \subseteq Owned(q, op[q])
  <2>1. \A q \in Ops : Owned(q, op[q])' = Owned(q, op'[q])
    BY DEF Owned, Minter, Kind
  <2> QED BY <1>1, <1>3, <2>1
<1>5. \A q \in Ops : Posts(q, op[q])'
  <2>1. \A q \in Ops : Posts(q, op[q])' <=> Posts(q, op'[q])
    BY DEF Posts, Actor, Target, Kind
  <2> QED BY <1>1, <2>1 DEF Quiet, RemovedInv
<1>6. ASSUME NEW q \in Ops, Kind[q] = "rotate", NoRegrant(q) PROVE NoLeak(q)'
  <2>1. NoLeak(q) /\ Target' = Target /\ (Happens("activate") <=> Happens("activate")')
    BY <1>6 DEF RemovedInv, Target, Happens
  <2>2. \A w : Leaks(q, w)' => Leaks(q, w)
    BY <1>4, <2>1 DEF Leaks
  <2>3. \A w \in (wraps \cup archive)' : ~Leaks(q, w)'
    BY <1>2, <2>1, <2>2 DEF NoLeak
  <2>4. ASSUME NEW s \in Ops
        PROVE  /\ op'[s].resp.status = "checked" => ~Leaks(q, op[s].post)'
               /\ op'[s].resp.status = "archived" =>
                    \A w \in op'[s].resp.data.rows : ~Leaks(q, w)'
    <3>1. CASE s = p
      BY <1>1, <3>1 DEF Quiet
    <3>2. CASE s # p
      BY <1>1, <2>1, <2>2, <3>2 DEF NoLeak
    <3> QED BY <3>1, <3>2
  <2>5. ASSUME Happens("activate"), NEW s \in Ops PROVE Bar(op'[s], Target[q])
    <3>1. Bar(op[s], Target[q]) /\ Target[q] \in Users
      BY <2>1, <2>5, TargetKnown DEF NoLeak
    <3>2. CASE s # p
      BY <1>1, <3>1, <3>2
    <3>3. CASE s = p /\ op[p].pc # "idle"
      BY <1>1, <3>1, <3>3 DEF Quiet, Calm
    <3>4. CASE s = p /\ op[p].pc = "idle"
      <4>1. /\ Kind[p] # "resume"
            /\ Kind[p] = "grant" => Target[p] # Target[q]
            /\ Kind[p] = "rotate" => Target[p] = Target[q]
        BY <1>6, <2>5 DEF NoRegrant
      <4>2. Kind[p] \in {"init", "grant", "rotate"} /\ Begun(p, r)
        BY <3>4, <4>1, PlanKnown DEF Quiet, Calm, IInv
      <4> QED BY <1>1, <3>1, <3>4, <4>1, <4>2 DEF Begun, Bar
    <3> QED BY <3>2, <3>3, <3>4
  <2>6. ASSUME ~Happens("activate"), op'[q].pc # "idle" PROVE Target[q] \notin active
    <3>1. CASE op[q].pc # "idle"
      BY <2>1, <2>6, <3>1 DEF NoLeak
    <3>2. CASE op[q].pc = "idle"
      <4>1. q = p
        BY <1>1, <2>6, <3>2
      <4> QED BY <1>6, <3>2, <4>1 DEF Quiet, Calm, Begun
    <3> QED BY <3>1, <3>2
  <2>7. IF Happens("activate")' THEN \A s \in Ops : Bar(op'[s], Target'[q])
        ELSE op'[q].pc # "idle" => Target'[q] \notin active'
    BY <1>2, <2>1, <2>5, <2>6
  <2>8. \A s \in Ops : Bar(op'[s], Target'[q]) <=> Bar(op[s], Target[q])'
    BY DEF Bar
  <2> QED BY <2>3, <2>4, <2>7, <2>8 DEF NoLeak
<1>7. \A q \in Ops : (Kind[q] = "rotate" /\ NoRegrant(q))' => Kind[q] = "rotate" /\ NoRegrant(q)
  BY DEF Kind, NoRegrant, Happens, Target
<1> QED BY <1>5, <1>6, <1>7 DEF RemovedInv

(* Steps that change neither the key, nor the lists, nor whom it turns to. *)
Minor == Fields \ {"key", "todo", "cur"}

LEMMA CalmStays ==
  ASSUME NEW p \in Ops, NEW o, NEW r, Calm(p, o), IsOp(r),
         r.key = o.key, r.todo = o.todo, r.cur = o.cur
  PROVE  Calm(p, r)
  BY DEF Calm, Begun, Bar

LEMMA CalmQuiet ==
  ASSUME NEW p \in Ops, NEW o, NEW r, Calm(p, o), IsOp(r), Alike(r, o, Minor),
         r.resp.status \in {"none", "sent", "401"}, r.pc \notin WrapPCs
  PROVE  Quiet(p, r)
<1>1. r.key = o.key /\ r.todo = o.todo /\ r.cur = o.cur
  BY DEF Alike, Minor, Fields
<1>2. Posts(p, r)
  BY DEF Posts, OwnPCs, WrapPCs
<1> QED BY <1>1, <1>2, CalmStays DEF Quiet

LEMMA EndQuiet ==
  ASSUME NEW p \in Ops, NEW o, Calm(p, o)
  PROVE  /\ \A res : Quiet(p, End(o, res))
         /\ Quiet(p, Incomplete(o)) /\ Quiet(p, Abandon(p, o)) /\ Quiet(p, WrapFailed(p, o))
         /\ Quiet(p, UnwrapFailed(p, o)) /\ Quiet(p, NotHolder(p, o))
<1>1. ASSUME NEW res PROVE Quiet(p, End(o, res))
  <2> DEFINE r == End(o, res)
  <2>1. /\ IsOp(r) /\ r.pc = "ended" /\ r.resp.status = "none"
        /\ Alike(r, o, {"pc", "res", "resp"})
    BY EndIs DEF Calm
  <2> HIDE DEF r
  <2>2. Alike(r, o, Minor) /\ r.pc \notin WrapPCs
    BY <2>1 DEF Alike, Minor, Fields, WrapPCs
  <2>3. Quiet(p, r)
    BY <2>1, <2>2, CalmQuiet
  <2> QED BY <2>3 DEF r
<1>2. Quiet(p, Incomplete(o))
  <2> DEFINE r == Incomplete(o)
  <2>1. /\ IsOp(r) /\ r.pc = "ended" /\ r.resp.status = "none"
        /\ Alike(r, o, {"pc", "res", "resp", "pending"})
    BY IncompleteIs DEF Calm
  <2> HIDE DEF r
  <2>2. Alike(r, o, Minor) /\ r.pc \notin WrapPCs
    BY <2>1 DEF Alike, Minor, Fields, WrapPCs
  <2>3. Quiet(p, r)
    BY <2>1, <2>2, CalmQuiet
  <2> QED BY <2>3 DEF r
<1> QED BY <1>1, <1>2 DEF Abandon, WrapFailed, UnwrapFailed, NotHolder

LEMMA AskQuiet ==
  ASSUME NEW p \in Ops, NEW o, NEW pc, Calm(p, o), pc \notin WrapPCs
  PROVE  Quiet(p, Request(p, o, pc))
<1> DEFINE r == Request(p, o, pc)
<1>1. /\ IsOp(r) /\ r.pc = pc /\ r.resp.status \in {"sent", "401"}
      /\ Alike(r, o, {"pc", "resp"})
  BY AskIs DEF Calm
<1> HIDE DEF r
<1>2. Alike(r, o, Minor)
  BY <1>1 DEF Alike, Minor, Fields
<1>3. Quiet(p, r)
  BY <1>1, <1>2, CalmQuiet
<1> QED BY <1>3 DEF r

LEMMA FetchQuiet ==
  ASSUME IInv, NEW p \in Ops, NEW o, NEW pc \in FetchPCs, Calm(p, o)
  PROVE  Quiet(p, Fetch(p, o, pc))
<1> DEFINE r == Fetch(p, o, pc)
<1>1. /\ IsOp(r) /\ r.pc = pc /\ r.resp.status \in {"sent", "401"}
      /\ Alike(r, o, {"pc", "resp", "fetched", "since"})
  BY FetchIs DEF Calm
<1> HIDE DEF r
<1>2. Alike(r, o, Minor) /\ r.pc \notin WrapPCs
  BY <1>1 DEF Alike, Minor, Fields, FetchPCs, WrapPCs
<1>3. Quiet(p, r)
  BY <1>1, <1>2, CalmQuiet
<1> QED BY <1>3 DEF r

LEMMA WrapMemberInQuiet ==
  ASSUME NEW p \in Ops, NEW o, NEW h, Calm(p, o)
  PROVE  /\ Quiet(p, Capture(o, h))
         /\ h.gen \in Nat => Quiet(p, WrapMemberIn(p, o, h))
<1>1. Quiet(p, Capture(o, h))
  <2> DEFINE r == Capture(o, h)
  <2>1. /\ IsOp(r) /\ r.pc = "sealing" /\ r.resp.status = "none"
        /\ Alike(r, o, {"pc", "resp", "cap"})
    BY CaptureIs DEF Calm
  <2> HIDE DEF r
  <2>2. Alike(r, o, Minor) /\ r.pc \notin WrapPCs
    BY <2>1 DEF Alike, Minor, Fields, WrapPCs
  <2>3. Quiet(p, r)
    BY <2>1, <2>2, CalmQuiet
  <2> QED BY <2>3 DEF r
<1>2. ASSUME h.gen \in Nat PROVE Quiet(p, WrapMemberIn(p, o, h))
  <2> DEFINE r == WrapMemberIn(p, o, h)
  <2>1. /\ IsOp(r) /\ Alike(r, o, {"pc", "resp", "cap", "inner"})
        /\ r.pc \in {"sealing", "state"} /\ r.resp.status \in {"none", "sent", "401"}
    BY <1>2, WrapMemberInIs DEF Calm
  <2> HIDE DEF r
  <2>2. Alike(r, o, Minor) /\ r.pc \notin WrapPCs
    BY <2>1 DEF Alike, Minor, Fields, WrapPCs
  <2>3. Quiet(p, r)
    BY <2>1, <2>2, CalmQuiet
  <2> QED BY <2>3 DEF r
<1> QED BY <1>1, <1>2

LEMMA NextQuiet ==
  ASSUME NEW p \in Ops, NEW o, NEW h, Calm(p, o), op[p].pc # "idle",
         NEW r \in NextMember(p, o, h)
  PROVE  Quiet(p, r)
<1>1. CASE /\ IsOp(r) /\ r.pc = "disclose" /\ r.resp.status \in {"sent", "401"}
           /\ r.cur \in o.todo /\ Alike(r, o, {"pc", "resp", "cur"})
  <2>1. r.key = o.key /\ r.todo = o.todo
    BY <1>1 DEF Alike, Fields
  <2>2. Calm(p, r)
    BY <1>1, <2>1 DEF Calm, Bar
  <2> QED BY <1>1, <2>2 DEF Quiet, Posts, OwnPCs
<1>2. CASE r = Abandon(p, o)
  BY <1>2, EndQuiet
<1>3. CASE /\ IsOp(r) /\ r.pc = "finalize" /\ r.resp.status \in {"sent", "401"}
           /\ Alike(r, o, {"pc", "resp"})
  <2>1. Alike(r, o, Minor) /\ r.pc \notin WrapPCs
    BY <1>3 DEF Alike, Minor, Fields, WrapPCs
  <2> QED BY <1>3, <2>1, CalmQuiet
<1> QED BY <1>1, <1>2, <1>3, NextIs DEF Calm

(* The member in hand is done with.                                        *)
LEMMA DoneIs ==
  ASSUME NEW i, IsOp(i)
  PROVE  /\ IsOp(Done(i)) /\ Done(i).todo = i.todo \ {i.cur} /\ Done(i).cur = NoUser
         /\ Alike(Done(i), i, {"todo", "cur"})
<1> DEFINE s == [i EXCEPT !.todo = i.todo \ {i.cur}]
           r == [s EXCEPT !.cur = NoUser]
<1>1. IsOp(s) /\ s.todo = i.todo \ {i.cur} /\ \A f \in Fields \ {"todo"} : s[f] = i[f]
  BY DEF IsOp, Fields
<1>2. Done(i) = r
  BY DEF Done, IsOp, Fields
<1> HIDE DEF s
<1>3. IsOp(r) /\ r.cur = NoUser /\ \A f \in Fields \ {"cur"} : r[f] = s[f]
  BY <1>1 DEF IsOp, Fields
<1> HIDE DEF r
<1>4. r.todo = i.todo \ {i.cur} /\ Alike(r, i, {"todo", "cur"})
  BY <1>1, <1>3 DEF Alike, Fields
<1> QED BY <1>2, <1>3, <1>4

LEMMA DoneCalm ==
  ASSUME NEW p \in Ops, NEW i, Calm(p, i), op[p].pc # "idle"
  PROVE  Calm(p, Done(i))
<1>1. /\ IsOp(Done(i)) /\ Done(i).todo = i.todo \ {i.cur} /\ Done(i).cur = NoUser
      /\ Alike(Done(i), i, {"todo", "cur"})
  BY DoneIs DEF Calm
<1>2. Done(i).key = i.key
  BY <1>1 DEF Alike, Fields
<1> QED BY <1>1, <1>2, NoUserAssumption DEF Calm, Bar

-----------------------------------------------------------------------------
(* Every client segment is quiet.                                          *)
Moves(p, r) == op' = [op EXCEPT ![p] = r] /\ UNCHANGED <<plan, serverVars>>

LEMMA CalmSelf ==
  ASSUME IInv, NEW p \in Ops, op[p].pc # "idle"
  PROVE  Calm(p, op[p])
  BY OpKnown DEF Calm

(* A ceremony takes the key k; it is about to post w.                      *)
Keyed(o, k) == [o EXCEPT !.rot = k, !.key = k]
Posting(o, w) == [o EXCEPT !.post = w]

LEMMA KeyedIs ==
  ASSUME NEW o, NEW k \in KeyIds, IsOp(o)
  PROVE  /\ IsOp(Keyed(o, k)) /\ Keyed(o, k).rot = k /\ Keyed(o, k).key = k
         /\ Alike(Keyed(o, k), o, {"rot", "key"})
<1> DEFINE s == [o EXCEPT !.rot = k]
           t == [s EXCEPT !.key = k]
<1>1. IsOp(s) /\ s.rot = k /\ \A f \in Fields \ {"rot"} : s[f] = o[f]
  BY DEF IsOp, Fields
<1>2. Keyed(o, k) = t
  BY DEF Keyed
<1> HIDE DEF s
<1>3. IsOp(t) /\ t.key = k /\ \A f \in Fields \ {"key"} : t[f] = s[f]
  BY <1>1 DEF IsOp, Fields
<1> HIDE DEF t
<1>4. t.rot = k /\ Alike(t, o, {"rot", "key"})
  BY <1>1, <1>3 DEF Alike, Fields
<1> QED BY <1>2, <1>3, <1>4

LEMMA PostingIs ==
  ASSUME NEW o, NEW w, IsOp(o)
  PROVE  /\ IsOp(Posting(o, w)) /\ Posting(o, w).post = w
         /\ Alike(Posting(o, w), o, {"post"})
<1> DEFINE j == [o EXCEPT !.post = w]
<1>1. IsOp(j) /\ j.post = w /\ \A f \in Fields \ {"post"} : j[f] = o[f]
  BY DEF IsOp, Fields
<1>2. j = Posting(o, w)
  BY DEF Posting
<1> HIDE DEF j
<1> QED BY <1>1, <1>2 DEF Alike

LEMMA OwnWrapQuiet ==
  ASSUME NEW p \in Ops, NEW o, NEW pc \in OwnPCs, Calm(p, o),
         o.post = OwnWrap(p, o.key),
         pc = "selfwrap" => Kind[p] = "rotate" /\ Actor[p] # Target[p]
  PROVE  Quiet(p, Request(p, o, pc))
<1> DEFINE r == Request(p, o, pc)
<1>1. /\ IsOp(r) /\ r.pc = pc /\ r.resp.status \in {"sent", "401"}
      /\ Alike(r, o, {"pc", "resp"})
  BY AskIs DEF Calm
<1> HIDE DEF r
<1>2. r.key = o.key /\ r.todo = o.todo /\ r.cur = o.cur /\ r.post = o.post
  BY <1>1 DEF Alike, Fields
<1>3. Calm(p, r) /\ Posts(p, r)
  BY <1>1, <1>2, CalmStays DEF Posts, OwnPCs, OwnWrap
<1> QED BY <1>1, <1>3 DEF Quiet, r

LEMMA BeginQuiet ==
  ASSUME IInv, NEW p \in Ops, plan' = plan, Begin(p)
  PROVE  \E r : Moves(p, r) /\ Quiet(p, r)
<1> DEFINE g == [op[p] EXCEPT !.gen = H(p).gen]
           n == [g EXCEPT !.rest = active \ {Actor[p]}]
           o == [n EXCEPT !.todo = active \ {Actor[p]}]
<1>1. /\ IsOp(op[p]) /\ Shape(p, op[p]) /\ op[p].pc = "idle" /\ H(p).gen \in Nat
      /\ Kind[p] \in {"init", "grant", "rotate", "resume"}
  BY OpKnown, PlanKnown DEF Begin, IInv
<1>2. IsOp(g) /\ \A f \in Fields \ {"gen"} : g[f] = op[p][f]
  BY <1>1 DEF IsOp, Fields
<1>3. [op[p] EXCEPT !.gen = H(p).gen, !.rest = active \ {Actor[p]},
                    !.todo = active \ {Actor[p]}] = o
  BY <1>1 DEF IsOp, Fields
<1> HIDE DEF g
<1>4. IsOp(n) /\ \A f \in Fields \ {"rest"} : n[f] = g[f]
  BY <1>2 DEF IsOp, Fields
<1> HIDE DEF n
<1>5. IsOp(o) /\ o.todo = active \ {Actor[p]} /\ \A f \in Fields \ {"todo"} : o[f] = n[f]
  BY <1>4 DEF IsOp, Fields
<1> HIDE DEF o
<1>6. o.key = op[p].key /\ o.cur = op[p].cur
  BY <1>2, <1>4, <1>5 DEF Fields
<1>7. CASE Kind[p] = "init"
  <2>1. Moves(p, Request(p, op[p], "state"))
    BY <1>7 DEF Begin, Become, Moves
  <2>2. Calm(p, op[p])
    BY <1>1, <1>7 DEF Calm, Begun
  <2> QED BY <2>1, <2>2, AskQuiet DEF WrapPCs
<1>8. CASE Kind[p] = "grant"
  <2> DEFINE i == [op[p] EXCEPT !.cur = Target[p]]
  <2>1. Moves(p, WrapMemberIn(p, i, H(p)))
    BY <1>8 DEF Begin, Become, Moves
  <2>2. IsOp(i) /\ i.cur = Target[p] /\ i.todo = op[p].todo /\ i.key = op[p].key
    BY <1>1 DEF IsOp, Fields
  <2> HIDE DEF i
  <2>3. Calm(p, i)
    BY <1>1, <1>8, <2>2 DEF Calm, Begun
  <2> QED BY <1>1, <2>1, <2>3, WrapMemberInQuiet
<1>9. CASE Kind[p] = "rotate"
  <2>1. PICK pc \in {"rotate", "state"} : Moves(p, Request(p, o, pc))
    BY <1>3, <1>9 DEF Begin, Become, Moves
  <2>2. Calm(p, o)
    BY <1>1, <1>5, <1>6, <1>9 DEF Calm, Begun, Begin
  <2>3. pc \notin WrapPCs
    BY DEF WrapPCs
  <2> QED BY <2>1, <2>2, <2>3, AskQuiet
<1>10. CASE Kind[p] = "resume"
  <2>1. PICK k \in started : Moves(p, Fetch(p, Keyed(o, k), "allwraps"))
    BY <1>3, <1>10 DEF Begin, Become, Moves, Keyed
  <2> DEFINE i == Keyed(o, k)
  <2>2. k \in KeyIds
    BY DEF IInv, Typed
  <2>3. IsOp(i)
    BY <1>5, <2>2, KeyedIs
  <2> HIDE DEF i
  <2>4. Calm(p, i)
    BY <1>1, <1>10, <2>3 DEF Calm, Begun, Minter
  <2>5. Quiet(p, Fetch(p, i, "allwraps"))
    BY <2>4, FetchQuiet DEF FetchPCs
  <2> QED BY <2>1, <2>5 DEF i
<1> QED BY <1>1, <1>7, <1>8, <1>9, <1>10

(* Every other segment acts on an answer, or seals.                        *)
LEMMA SegmentStarts ==
  ASSUME IInv, NEW p \in Ops, Step(p), ~Begin(p)
  PROVE  op[p].pc \notin {"idle", "ended"}
<1>1. Shape(p, op[p])
  BY OpKnown
<1>2. op[p].resp.status # "none" \/ op[p].pc = "sealing"
  BY DEF Step, Fail, Lost, Seal, InitProbed, InitMinted, InitRaced, InitWrapped, InitWrapLost,
     InitRetired, RepairMinted, RepairWrapped, UnwrapProbed, UnwrapFetched, GrantPosted,
     RotateMinted, RotateRevoked, RotateSelfWrapped, AllFetched, Disclosed, NotEnrolled,
     Rewrapped, Finalized, Answered
<1> QED BY <1>1, <1>2 DEF Shape, RestPCs

LEMMA InitStepsQuiet ==
  ASSUME IInv, NEW p \in Ops, plan' = plan, op[p].pc # "idle",
         \/ InitProbed(p) \/ InitMinted(p) \/ InitRaced(p) \/ InitWrapped(p)
         \/ InitWrapLost(p) \/ InitRetired(p) \/ RepairMinted(p) \/ RepairWrapped(p)
  PROVE  \E r : Moves(p, r) /\ Quiet(p, r)
<1>1. Calm(p, op[p]) /\ IsOp(op[p]) /\ Shape(p, op[p])
  BY CalmSelf, OpKnown
<1>2. CASE InitMinted(p) \/ RepairMinted(p)
  <2>1. PICK pc \in {"firstwrap", "repairwrap"}, k \in op[p].resp.data :
          Moves(p, Request(p, Posting(Keyed(op[p], k), OwnWrap(p, k)), pc))
    BY <1>2 DEF InitMinted, RepairMinted, PostOwnWrap, Become, Moves, Keyed, Posting
  <2> DEFINE i == Posting(Keyed(op[p], k), OwnWrap(p, k))
  <2>2. op[p].pc \in MintPCs /\ op[p].resp.status = "ok"
    BY <1>2 DEF InitMinted, RepairMinted, Answered, MintPCs
  <2>3. Minter(p) /\ k \in KeyIds
    BY <2>2, MintedFits
  <2>4. /\ IsOp(i) /\ i.key = k /\ i.post = OwnWrap(p, k)
        /\ i.todo = op[p].todo /\ i.cur = op[p].cur
    BY <1>1, <2>3, KeyedIs, PostingIs DEF Alike, Fields
  <2> HIDE DEF i
  <2>5. k \in Owned(p, op[p])
    BY <2>2, <2>3 DEF Owned
  <2>6. Calm(p, i)
    BY <1>1, <2>4, <2>5 DEF Calm, Bar
  <2>7. Quiet(p, Request(p, i, pc))
    BY <2>4, <2>6, OwnWrapQuiet DEF OwnPCs
  <2> QED BY <2>1, <2>7 DEF i
<1>3. CASE InitProbed(p) \/ InitWrapLost(p) \/ RepairWrapped(p)
           \/ InitRaced(p) \/ InitWrapped(p) \/ InitRetired(p)
  <2>1. \/ \E res : Moves(p, End(op[p], res))
        \/ \E pc \in {"init", "repair", "retire", "finalize"} : Moves(p, Request(p, op[p], pc))
    BY <1>3 DEF InitProbed, InitWrapLost, RepairWrapped, InitRaced, InitWrapped, InitRetired,
       Become, Moves
  <2>2. {"init", "repair", "retire", "finalize"} \cap WrapPCs = {}
    BY DEF WrapPCs
  <2> QED BY <1>1, <2>1, <2>2, EndQuiet, AskQuiet
<1> QED BY <1>2, <1>3

LEMMA UnwrapStepsQuiet ==
  ASSUME IInv, NEW p \in Ops, plan' = plan, op[p].pc # "idle",
         UnwrapProbed(p) \/ UnwrapFetched(p)
  PROVE  \E r : Moves(p, r) /\ Quiet(p, r)
<1>1. Calm(p, op[p])
  BY CalmSelf
<1>2. \/ Moves(p, Fetch(p, op[p], "livewrap"))
      \/ Moves(p, UnwrapFailed(p, op[p]))
      \/ Moves(p, Request(p, op[p], "rotate"))
      \/ \E h : Moves(p, Capture(op[p], h))
  BY DEF UnwrapProbed, UnwrapFetched, Become, Install, Moves
<1>3. "rotate" \notin WrapPCs /\ "livewrap" \in FetchPCs
  BY DEF WrapPCs, FetchPCs
<1> QED BY <1>1, <1>2, <1>3, FetchQuiet, EndQuiet, AskQuiet, WrapMemberInQuiet

LEMMA SealQuiet ==
  ASSUME IInv, NEW p \in Ops, plan' = plan, Seal(p)
  PROVE  \E r : Moves(p, r) /\ Quiet(p, r)
<1>1. op[p].pc = "sealing" /\ IsOp(op[p])
  BY OpKnown DEF Seal
<1>2. Calm(p, op[p])
  BY <1>1, CalmSelf
<1>3. CASE ~HasLiveKey(H(p))
  <2> DEFINE i == [op[p] EXCEPT !.cap = NoCap]
  <2>1. Moves(p, WrapFailed(p, i))
    BY <1>3 DEF Seal, Become, Moves
  <2>2. IsOp(i) /\ i.key = op[p].key /\ i.todo = op[p].todo /\ i.cur = op[p].cur
    BY <1>1 DEF IsOp, Fields
  <2> HIDE DEF i
  <2>3. Calm(p, i)
    BY <1>2, <2>2, CalmStays
  <2> QED BY <2>1, <2>3, EndQuiet
<1>4. CASE HasLiveKey(H(p))
  <2> DEFINE w == SealedWrap(op[p], H(p))
             s == [op[p] EXCEPT !.post = w]
             i == [s EXCEPT !.cap = NoCap]
             r == Request(p, i, "memberwrap")
  <2>1. Moves(p, Request(p, [op[p] EXCEPT !.post = w, !.cap = NoCap], "memberwrap"))
    BY <1>4 DEF Seal, Become, Moves
  <2>2. w.user = op[p].cur
    BY DEF SealedWrap
  <2> HIDE DEF w
  <2>3. [op[p] EXCEPT !.post = w, !.cap = NoCap] = i
    BY <1>1 DEF IsOp, Fields
  <2>4. IsOp(s) /\ s.post = w /\ \A f \in Fields \ {"post"} : s[f] = op[p][f]
    BY <1>1 DEF IsOp, Fields
  <2> HIDE DEF s
  <2>5. IsOp(i) /\ i.post = s.post /\ \A f \in Fields \ {"cap"} : i[f] = s[f]
    BY <2>4 DEF IsOp, Fields
  <2> HIDE DEF i
  <2>6. i.key = op[p].key /\ i.todo = op[p].todo /\ i.cur = op[p].cur /\ i.post.user = i.cur
    BY <2>2, <2>4, <2>5 DEF Fields
  <2>7. /\ IsOp(r) /\ r.pc = "memberwrap" /\ r.resp.status \in {"sent", "401"}
        /\ Alike(r, i, {"pc", "resp"})
    BY <2>5, AskIs
  <2>8. Moves(p, r)
    BY <2>1, <2>3
  <2> HIDE DEF r
  <2>9. r.key = op[p].key /\ r.todo = op[p].todo /\ r.cur = op[p].cur /\ r.post.user = r.cur
    BY <2>6, <2>7 DEF Alike, Fields
  <2>10. Calm(p, r) /\ Posts(p, r)
    BY <1>2, <2>7, <2>9, CalmStays DEF Posts, OwnPCs
  <2> QED BY <2>7, <2>8, <2>10 DEF Quiet
<1> QED BY <1>3, <1>4

LEMMA RotateStepsQuiet ==
  ASSUME IInv, NEW p \in Ops, plan' = plan, op[p].pc # "idle", Posts(p, op[p]),
         \/ RotateMinted(p) \/ RotateRevoked(p) \/ RotateSelfWrapped(p)
         \/ GrantPosted(p) \/ Finalized(p)
  PROVE  \E r : Moves(p, r) /\ Quiet(p, r)
<1>1. Calm(p, op[p]) /\ IsOp(op[p]) /\ Shape(p, op[p])
  BY CalmSelf, OpKnown
<1>2. CASE RotateMinted(p)
  <2>1. PICK k \in op[p].resp.data : Moves(p, Request(p, Keyed(op[p], k), "revoke"))
    BY <1>2 DEF RotateMinted, Become, Moves, Keyed
  <2> DEFINE i == Keyed(op[p], k)
  <2>2. op[p].pc \in MintPCs /\ op[p].resp.status = "ok"
    BY <1>2 DEF RotateMinted, Answered, MintPCs
  <2>3. Minter(p) /\ k \in KeyIds
    BY <2>2, MintedFits
  <2>4. IsOp(i) /\ i.key = k /\ i.todo = op[p].todo /\ i.cur = op[p].cur
    BY <1>1, <2>3, KeyedIs DEF Alike, Fields
  <2> HIDE DEF i
  <2>5. k \in Owned(p, op[p])
    BY <2>2, <2>3 DEF Owned
  <2>6. Calm(p, i)
    BY <1>1, <2>4, <2>5 DEF Calm, Bar
  <2>7. Quiet(p, Request(p, i, "revoke"))
    BY <2>6, AskQuiet DEF WrapPCs
  <2> QED BY <2>1, <2>7 DEF i
<1>3. CASE RotateRevoked(p)
  <2> DEFINE i == Posting(op[p], OwnWrap(p, op[p].key))
  <2>1. Moves(p, Request(p, i, "selfwrap"))
    BY <1>3 DEF RotateRevoked, Become, Moves, Posting
  <2>2. Kind[p] = "rotate" /\ Actor[p] # Target[p]
    BY <1>1, <1>3 DEF RotateRevoked, Answered, Shape, Posts
  <2>3. /\ IsOp(i) /\ i.key = op[p].key /\ i.post = OwnWrap(p, i.key)
        /\ i.todo = op[p].todo /\ i.cur = op[p].cur
    BY <1>1, PostingIs DEF Alike, Fields
  <2> HIDE DEF i
  <2>4. Calm(p, i)
    BY <1>1, <2>3, CalmStays
  <2> QED BY <2>1, <2>2, <2>3, <2>4, OwnWrapQuiet DEF OwnPCs
<1>4. CASE RotateSelfWrapped(p)
  <2>1. Moves(p, Fetch(p, op[p], "allwraps"))
    BY <1>4 DEF RotateSelfWrapped, Become, Moves
  <2> QED BY <1>1, <2>1, FetchQuiet DEF FetchPCs
<1>5. CASE GrantPosted(p) \/ Finalized(p)
  <2>1. \E res : Moves(p, End(op[p], res))
    BY <1>5 DEF GrantPosted, Finalized, Become, Moves
  <2> QED BY <1>1, <2>1, EndQuiet
<1> QED BY <1>2, <1>3, <1>4, <1>5

LEMMA MemberStepsQuiet ==
  ASSUME IInv, NEW p \in Ops, plan' = plan, op[p].pc # "idle",
         AllFetched(p) \/ Disclosed(p) \/ NotEnrolled(p) \/ Rewrapped(p)
  PROVE  \E r : Moves(p, r) /\ Quiet(p, r)
<1>1. Calm(p, op[p]) /\ IsOp(op[p]) /\ H(p).gen \in Nat
  BY CalmSelf, OpKnown
<1>2. CASE AllFetched(p)
  <2>1. \/ Moves(p, Abandon(p, op[p])) \/ Moves(p, NotHolder(p, op[p]))
        \/ \E h : \E r \in NextMember(p, op[p], h) : Moves(p, r)
    BY <1>2 DEF AllFetched, Become, Install, Moves
  <2> QED BY <1>1, <2>1, EndQuiet, NextQuiet
<1>3. CASE Disclosed(p)
  <2>1. Moves(p, Abandon(p, op[p])) \/ Moves(p, WrapMemberIn(p, op[p], H(p)))
    BY <1>3 DEF Disclosed, Become, Moves
  <2> QED BY <1>1, <2>1, EndQuiet, WrapMemberInQuiet
<1>4. ASSUME NEW i, IsOp(i), \E r \in NextMember(p, Done(i), H(p)) : Become(p, r),
             i.key = op[p].key, i.todo = op[p].todo, i.cur = op[p].cur
      PROVE  \E r : Moves(p, r) /\ Quiet(p, r)
  <2>1. PICK r \in NextMember(p, Done(i), H(p)) : Moves(p, r)
    BY <1>4 DEF Become, Moves
  <2>2. Calm(p, Done(i))
    BY <1>1, <1>4, CalmStays, DoneCalm
  <2> QED BY <2>1, <2>2, NextQuiet
<1>5. CASE NotEnrolled(p)
  <2> DEFINE i == [op[p] EXCEPT !.pending = @ \cup {op[p].cur}]
  <2>1. IsOp(i) /\ i.key = op[p].key /\ i.todo = op[p].todo /\ i.cur = op[p].cur
    BY <1>1 DEF IsOp, Fields
  <2>2. \E r \in NextMember(p, Done(i), H(p)) : Become(p, r)
    BY <1>5 DEF NotEnrolled
  <2> HIDE DEF i
  <2> QED BY <1>4, <2>1, <2>2
<1>6. CASE Rewrapped(p)
  <2> DEFINE i == [op[p] EXCEPT !.count = @ + 1]
  <2>1. IsOp(i) /\ i.key = op[p].key /\ i.todo = op[p].todo /\ i.cur = op[p].cur
    BY <1>1 DEF IsOp, Fields
  <2>2. \E r \in NextMember(p, Done(i), H(p)) : Become(p, r)
    BY <1>6 DEF Rewrapped
  <2> HIDE DEF i
  <2> QED BY <1>4, <2>1, <2>2
<1> QED BY <1>2, <1>3, <1>5, <1>6

LEMMA FailQuiet ==
  ASSUME IInv, NEW p \in Ops, plan' = plan, op[p].pc # "idle", Fail(p)
  PROVE  \E r : Moves(p, r) /\ Quiet(p, r)
<1>1. Calm(p, op[p]) /\ Shape(p, op[p])
  BY CalmSelf, OpKnown
<1>2. op[p].resp.status # "none"
  BY DEF Fail, Lost
<1>3. op[p].pc \in IF Kind[p] = "init" THEN InitPCs \ RestPCs ELSE OtherPCs \ RestPCs
  BY <1>1, <1>2 DEF Shape
<1>4. \/ \E res : FailureResult(p) = End(op[p], res)
      \/ FailureResult(p) \in {UnwrapFailed(p, op[p]), Abandon(p, op[p]),
                               WrapFailed(p, op[p]), Incomplete(op[p])}
  BY <1>3 DEF FailureResult, OtherPCs, SharedPCs, RestPCs
<1>5. Moves(p, FailureResult(p))
  BY DEF Fail, Failed, Moves
<1> QED BY <1>1, <1>4, <1>5, EndQuiet

LEMMA StepQuiet ==
  ASSUME IInv, NEW p \in Ops, plan' = plan, Posts(p, op[p]), Step(p)
  PROVE  \E r : Moves(p, r) /\ Quiet(p, r)
<1>1. CASE Begin(p)
  BY <1>1, BeginQuiet
<1>2. CASE ~Begin(p)
  <2>1. op[p].pc # "idle"
    BY <1>2, SegmentStarts
  <2> QED BY <1>2, <2>1, InitStepsQuiet, UnwrapStepsQuiet, SealQuiet, RotateStepsQuiet,
             MemberStepsQuiet, FailQuiet DEF Step
<1> QED BY <1>1, <1>2

-----------------------------------------------------------------------------
(* The server's answers.  A wrap that passes its checks names an active    *)
(* member, and the ceremony's own wraps name its actor.                    *)
LEMMA OwnKeyOfOthers ==
  ASSUME IInv, NEW p \in Ops, op[p].pc \in OwnPCs, Posts(p, op[p]),
         NEW q \in Ops, Kind[q] = "rotate"
  PROVE  ~Leaks(q, op[p].post)
<1> SUFFICES ASSUME Leaks(q, op[p].post) PROVE FALSE
  OBVIOUS
<1>1. Shape(p, op[p])
  BY OpKnown
<1>2. op[p].post.user = Actor[p] /\ op[p].post.key = op[p].key
  BY DEF Posts
<1>3. op[p].key \in Owned(q, op[q]) /\ Actor[p] = Target[q] /\ op[p].key \in KeyIds
  BY <1>2 DEF Leaks, Owned
<1>4. Minter(p)
  BY <1>1 DEF Posts, Shape, OwnPCs, OtherPCs, SharedPCs, Minter
<1>5. op[p].key \in Owned(p, op[p])
  BY <1>3, <1>4 DEF Owned
<1>6. p = q
  BY <1>3, <1>5 DEF IInv, Minting
<1>7. op[p].pc = "selfwrap"
  BY <1>1, <1>6 DEF Shape, OwnPCs, OtherPCs, SharedPCs
<1> QED BY <1>3, <1>6, <1>7 DEF Posts

LEMMA CheckedIsNoLeak ==
  ASSUME IInv, RemovedInv, NEW p \in Ops, op[p].pc \in WrapPCs, op[p].post.user \in active,
         NEW q \in Ops, Kind[q] = "rotate", NoRegrant(q)
  PROVE  ~Leaks(q, op[p].post)
<1>1. Posts(p, op[p]) /\ NoLeak(q)
  BY DEF RemovedInv
<1>2. CASE op[p].pc \in OwnPCs
  BY <1>1, <1>2, OwnKeyOfOthers
<1>3. CASE op[p].pc = "memberwrap" /\ Happens("activate")
  BY <1>1, <1>3 DEF Posts, NoLeak, Bar, Leaks
<1>4. CASE ~Happens("activate")
  <2> SUFFICES ASSUME Leaks(q, op[p].post) PROVE FALSE
    OBVIOUS
  <2>1. Owned(q, op[q]) # {} /\ Shape(q, op[q])
    BY OpKnown DEF Leaks
  <2>2. op[q].pc # "idle"
    BY <2>1, NoKeyAssumption DEF Owned, Shape, MintPCs
  <2> QED BY <1>1, <1>4, <2>2 DEF NoLeak, Leaks
<1> QED BY <1>2, <1>3, <1>4 DEF WrapPCs, OwnPCs

LEMMA AnswerQuiet ==
  ASSUME IInv, RemovedInv, NEW p \in Ops, NEW status, NEW data, Answer(p, status, data),
         UNCHANGED <<plan, active>>, Minted \subseteq Minted',
         status = "ok" /\ op[p].pc \in MintPCs => data \subseteq Minted' \ Minted,
         status = "ok" /\ op[p].pc = "revoke" => op[p].resp.status = "archived",
         status = "checked" => op[p].pc \in WrapPCs /\ op[p].post.user \in active,
         status = "archived" =>
           op[p].pc = "revoke" /\ Actor[p] # Target[p] /\ data.rows \subseteq wraps,
         \A w \in (wraps \cup archive)' :
           \/ w \in wraps \cup archive
           \/ op[p].resp.status = "checked" /\ w = op[p].post
           \/ op[p].resp.status = "archived" /\ w \in op[p].resp.data.rows
  PROVE  RemovedInv'
<1> DEFINE o == [op[p] EXCEPT !.resp = [status |-> status, data |-> data]]
<1>1. IsOp(op[p])
  BY OpKnown
<1>2. op'[p] = o /\ \A q \in Ops : q # p => op'[q] = op[q]
  BY OpIs DEF Answer
<1>3. /\ o.resp.status = status /\ o.resp.data = data
      /\ \A f \in Fields \ {"resp"} : o[f] = op[p][f]
  BY <1>1 DEF IsOp, Fields
<1> HIDE DEF o
<1>4. /\ o.pc = op[p].pc /\ o.key = op[p].key /\ o.post = op[p].post
      /\ o.todo = op[p].todo /\ o.cur = op[p].cur
  BY <1>3 DEF Fields
<1>5. \A q \in Ops : Owned(q, op[q])' \ Owned(q, op[q]) \subseteq Minted' \ Minted
  <2>1. Owned(p, o) \ Owned(p, op[p]) \subseteq Minted' \ Minted
    BY <1>3, <1>4 DEF Owned
  <2>2. \A q \in Ops : Owned(q, op[q])' = Owned(q, op'[q])
    BY DEF Owned, Minter, Kind
  <2> QED BY <1>2, <2>1, <2>2
<1>6. \A q \in Ops : \A w : (w.key \in KeyIds => w.key \in Minted) /\ Leaks(q, w)' => Leaks(q, w)
  <2> SUFFICES ASSUME NEW q \in Ops, NEW w, w.key \in KeyIds => w.key \in Minted,
                      Leaks(q, w)'
               PROVE  Leaks(q, w)
    OBVIOUS
  <2>1. w.user = Target[q] /\ w.key \in Owned(q, op[q])'
    BY DEF Leaks, Target
  <2>2. w.key \in KeyIds
    BY <2>1 DEF Owned
  <2> QED BY <1>5, <2>1, <2>2 DEF Leaks
<1>7. \A w \in wraps \cup archive : w.key \in KeyIds => w.key \in Minted
  <2>1. \A w \in wraps \cup archive : <<w.key, w.mat>> \in Truth
    BY DEF IInv, RowsTrue, Genuine
  <2> QED BY <2>1, TruthMinted
<1>8. \A q \in Ops :
        /\ op[q].pc \in WrapPCs => (op[q].post.key \in KeyIds => op[q].post.key \in Minted)
        /\ op[q].resp.status = "archived" =>
             \A w \in op[q].resp.data.rows : w.key \in KeyIds => w.key \in Minted
        /\ op[q].resp.status = "checked" => op[q].pc \in WrapPCs
  <2> SUFFICES ASSUME NEW q \in Ops
               PROVE  /\ op[q].pc \in WrapPCs =>
                           (op[q].post.key \in KeyIds => op[q].post.key \in Minted)
                      /\ op[q].resp.status = "archived" =>
                           \A w \in op[q].resp.data.rows : w.key \in KeyIds => w.key \in Minted
                      /\ op[q].resp.status = "checked" => op[q].pc \in WrapPCs
    OBVIOUS
  <2>1. Carries(op[q], Truth) /\ Shape(q, op[q])
    BY OpKnown
  <2> QED BY <2>1, TruthMinted DEF Carries, Genuine, Shape
<1>9. \A q \in Ops : Posts(q, op[q])'
  <2>1. \A q \in Ops : Posts(q, op[q])' <=> Posts(q, op'[q])
    BY DEF Posts, Actor, Target, Kind
  <2>2. Posts(p, op[p])
    BY DEF RemovedInv
  <2>3. Posts(p, o)
    BY <1>3, <1>4, <2>2 DEF Posts
  <2> QED BY <1>2, <2>1, <2>3 DEF RemovedInv
<1>10. ASSUME NEW q \in Ops, Kind[q] = "rotate", NoRegrant(q) PROVE NoLeak(q)'
  <2>1. NoLeak(q) /\ Target' = Target /\ (Happens("activate") <=> Happens("activate")')
    BY <1>10 DEF RemovedInv, Target, Happens
  <2>2. ASSUME NEW w \in (wraps \cup archive)' PROVE ~Leaks(q, w)'
    <3>1. ~Leaks(q, w) /\ (w.key \in KeyIds => w.key \in Minted)
      BY <1>7, <1>8, <2>1 DEF NoLeak
    <3> QED BY <1>6, <3>1
  <2>3. ASSUME NEW s \in Ops
        PROVE  /\ op'[s].resp.status = "checked" => ~Leaks(q, op[s].post)'
               /\ op'[s].resp.status = "archived" =>
                    \A w \in op'[s].resp.data.rows : ~Leaks(q, w)'
    <3>1. CASE s # p
      BY <1>2, <1>6, <1>8, <2>1, <3>1 DEF NoLeak
    <3>2. CASE s = p
      <4>1. status = "checked" => ~Leaks(q, op[p].post)
        BY <1>10, CheckedIsNoLeak
      <4>2. status = "archived" => \A w \in data.rows : ~Leaks(q, w)
        BY <2>1 DEF NoLeak
      <4> QED BY <1>2, <1>3, <1>4, <1>6, <1>7, <1>8, <3>2, <4>1, <4>2
    <3> QED BY <3>1, <3>2
  <2>4. IF Happens("activate")' THEN \A s \in Ops : Bar(op'[s], Target'[q])
        ELSE op'[q].pc # "idle" => Target'[q] \notin active'
    BY <1>2, <1>4, <2>1 DEF NoLeak, Bar
  <2>5. \A s \in Ops : Bar(op'[s], Target'[q]) <=> Bar(op[s], Target[q])'
    BY DEF Bar
  <2> QED BY <2>2, <2>3, <2>4, <2>5 DEF NoLeak
<1>11. \A q \in Ops : (Kind[q] = "rotate" /\ NoRegrant(q))' => Kind[q] = "rotate" /\ NoRegrant(q)
  BY DEF Kind, NoRegrant, Happens, Target
<1> QED BY <1>9, <1>10, <1>11 DEF RemovedInv

LEMMA MintedGrows ==
  ASSUME KeysInv, NEW k \in KeyIds, epoch' = [epoch EXCEPT ![k] = NextEpoch]
  PROVE  Minted' = Minted \cup {k}
<1>1. NextEpoch \in Nat /\ \A j \in KeyIds : epoch[j] < NextEpoch
  BY NextEpochAbove DEF KeysInv
<1>2. epoch'[k] = NextEpoch /\ \A j \in KeyIds : j # k => epoch'[j] = epoch[j]
  BY DEF KeysInv
<1>3. NextEpoch > 0
  BY <1>1 DEF KeysInv
<1> QED BY <1>2, <1>3 DEF Minted

LEMMA RefuseQuiet ==
  ASSUME IInv, RemovedInv, NEW p \in Ops, plan' = plan,
         NEW status \in {"lost", "401", "403", "409", "422", "423"},
         Answer(p, status, {}), UNCHANGED serverVars
  PROVE  RemovedInv'
<1>1. UNCHANGED <<active, wraps, archive, epoch>>
  BY DEF serverVars, membership, wrapRows, keyRows
<1>2. Minted' = Minted
  BY <1>1 DEF Minted
<1> QED BY <1>1, <1>2, AnswerQuiet

LEMMA ReplyQuiet ==
  ASSUME IInv, RemovedInv, NEW p \in Ops, NEW data, Reply(p, data),
         UNCHANGED <<plan, active>>, Minted \subseteq Minted',
         op[p].pc \in MintPCs => data \subseteq Minted' \ Minted,
         op[p].pc = "revoke" => op[p].resp.status = "archived",
         \A w \in (wraps \cup archive)' :
           \/ w \in wraps \cup archive
           \/ op[p].resp.status = "checked" /\ w = op[p].post
           \/ op[p].resp.status = "archived" /\ w \in op[p].resp.data.rows
  PROVE  RemovedInv'
<1>1. CASE Answer(p, "ok", data)
  BY <1>1, AnswerQuiet
<1>2. CASE Answer(p, "lost", {})
  BY <1>2, AnswerQuiet
<1> QED BY <1>1, <1>2 DEF Reply

LEMMA ReadsQuiet ==
  ASSUME IInv, RemovedInv, NEW p \in Ops, plan' = plan,
         \/ DropRequest(p) \/ Deny(p)
         \/ ServeState(p, {"state"}) \/ ServeLiveWrap(p) \/ ServeAllWraps(p, {"allwraps"})
         \/ ServeDisclose(p) \/ ServeFinalize(p)
  PROVE  RemovedInv'
<1>1. CASE \/ \E status \in {"lost", "401", "403", "422"} : Answer(p, status, {})
           /\ UNCHANGED serverVars
  BY <1>1, RefuseQuiet
<1>2. ASSUME NEW data, Reply(p, data), op[p].pc \notin MintPCs \cup {"revoke"},
             UNCHANGED <<active, wraps, archive, epoch>>
      PROVE  RemovedInv'
  <2>1. Minted' = Minted
    BY <1>2 DEF Minted
  <2> QED BY <1>2, <2>1, ReplyQuiet
<1>3. CASE DropRequest(p) \/ Deny(p)
  BY <1>1, <1>3 DEF DropRequest, Deny, Refuse
<1>4. CASE \/ ServeState(p, {"state"}) \/ ServeLiveWrap(p) \/ ServeAllWraps(p, {"allwraps"})
           \/ ServeDisclose(p)
  <2>1. /\ op[p].pc \notin MintPCs \cup {"revoke"} /\ UNCHANGED serverVars
        /\ (\E data : Reply(p, data)) \/ Answer(p, "422", {})
    BY <1>4 DEF ServeState, ServeLiveWrap, ServeAllWraps, ServeDisclose, Serving, MintPCs, Refuse
  <2>2. UNCHANGED <<active, wraps, archive, epoch>>
    BY <2>1 DEF serverVars, membership, wrapRows, keyRows
  <2> QED BY <1>1, <1>2, <2>1, <2>2
<1>5. CASE ServeFinalize(p)
  <2>1. /\ op[p].pc \notin MintPCs \cup {"revoke"}
        /\ \/ Reply(p, {}) /\ Finalize(op[p].rot, op[p].key, op[p].count)
           \/ Answer(p, "422", {}) /\ UNCHANGED serverVars
    BY <1>5 DEF ServeFinalize, Serving, MintPCs, Refuse
  <2>2. CASE Reply(p, {}) /\ Finalize(op[p].rot, op[p].key, op[p].count)
    BY <1>2, <2>1, <2>2 DEF Finalize, membership, wrapRows, keyRows
  <2> QED BY <1>1, <2>1, <2>2
<1> QED BY <1>3, <1>4, <1>5

LEMMA MintsQuiet ==
  ASSUME IInv, RemovedInv, NEW p \in Ops, plan' = plan, ServeInit(p) \/ ServeRotate(p)
  PROVE  RemovedInv'
<1>1. CASE \E status \in {"409", "423"} : Refuse(p, status)
  BY <1>1, RefuseQuiet DEF Refuse
<1>2. op[p].pc # "revoke"
  BY DEF ServeInit, ServeRotate, Serving, RotatePCs
<1>3. ASSUME NEW k \in FreshIds, Reply(p, {k}), InitKey(k) \/ Rotate(k) PROVE RemovedInv'
  <2>1. k \in KeyIds /\ k \notin Minted
    BY DEF FreshIds
  <2>2. /\ epoch' = [epoch EXCEPT ![k] = NextEpoch]
        /\ UNCHANGED <<active, wraps, archive>>
    BY <1>3 DEF InitKey, Rotate, membership, wrapRows
  <2>3. Minted' = Minted \cup {k}
    BY <2>1, <2>2, MintedGrows DEF IInv
  <2> QED BY <1>2, <1>3, <2>1, <2>2, <2>3, ReplyQuiet
<1> QED BY <1>1, <1>3 DEF ServeInit, ServeRotate

LEMMA WrapsQuiet ==
  ASSUME IInv, RemovedInv, NEW p \in Ops, plan' = plan,
         \/ ServeWrapChecks(p) \/ ServeWrapInsert(p) \/ ServeArchive(p) \/ ServeDelete(p)
  PROVE  RemovedInv'
<1>1. Shape(p, op[p])
  BY OpKnown
<1>2. CASE Refuse(p, "403")
  BY <1>2, RefuseQuiet DEF Refuse
<1>3. epoch' = epoch => Minted' = Minted
  BY DEF Minted
<1>4. CASE ServeWrapChecks(p)
  <2>1. /\ op[p].pc \in WrapPCs
        /\ CanWrap(Actor[p], op[p].post.user, op[p].post.key) \/ Refuse(p, "403")
    BY <1>4 DEF ServeWrapChecks, Serving
  <2>2. CASE CanWrap(Actor[p], op[p].post.user, op[p].post.key)
    <3>1. /\ CheckWrap(op[p].post) /\ Answer(p, "checked", {})
          /\ op[p].post.user \in active
      BY <1>4, <2>2 DEF ServeWrapChecks, CanWrap
    <3>2. UNCHANGED <<active, wraps, archive, epoch>>
      BY <3>1 DEF CheckWrap, membership, keyRows
    <3> QED BY <1>3, <2>1, <3>1, <3>2, AnswerQuiet
  <2> QED BY <1>2, <2>1, <2>2
<1>5. CASE ServeWrapInsert(p)
  <2>1. op[p].resp.status = "checked" /\ InsertWrap(op[p].post) /\ Reply(p, {})
    BY <1>5 DEF ServeWrapInsert
  <2>2. op[p].pc \notin MintPCs \cup {"revoke"}
    BY <1>1, <2>1 DEF Shape, WrapPCs, MintPCs
  <2>3. /\ UNCHANGED <<active, archive, epoch>>
        /\ wraps' \subseteq wraps \cup {op[p].post}
    BY <2>1 DEF InsertWrap, membership, keyRows
  <2> QED BY <1>3, <2>1, <2>2, <2>3, ReplyQuiet
<1>6. CASE ServeArchive(p)
  <2>1. op[p].pc = "revoke" /\ (CanRevoke(Actor[p], Target[p]) \/ Refuse(p, "403"))
    BY <1>6 DEF ServeArchive, Serving
  <2>2. CASE CanRevoke(Actor[p], Target[p])
    <3> DEFINE d == [member |-> Target[p], rows |-> WrapsOf(Target[p])]
    <3>1. ArchiveWraps(Target[p]) /\ Answer(p, "archived", d) /\ Actor[p] # Target[p]
      BY <1>6, <2>2 DEF ServeArchive, CanRevoke
    <3>2. UNCHANGED <<active, wraps, archive, epoch>>
      BY <3>1 DEF ArchiveWraps, membership, keyRows
    <3>3. d.rows \subseteq wraps
      BY DEF WrapsOf
    <3> HIDE DEF d
    <3> QED BY <1>3, <2>1, <3>1, <3>2, <3>3, AnswerQuiet
  <2> QED BY <1>2, <2>1, <2>2
<1>7. CASE ServeDelete(p)
  <2>1. op[p].resp.status = "archived" /\ DeleteWraps(op[p].resp.data) /\ Reply(p, {})
    BY <1>7 DEF ServeDelete
  <2>2. op[p].pc \notin MintPCs
    BY <1>1, <2>1 DEF Shape, MintPCs
  <2>3. /\ UNCHANGED <<active, epoch>> /\ wraps' \subseteq wraps
        /\ archive' = archive \cup op[p].resp.data.rows
    BY <2>1 DEF DeleteWraps, membership, keyRows
  <2> QED BY <1>3, <2>1, <2>2, <2>3, ReplyQuiet
<1> QED BY <1>4, <1>5, <1>6, <1>7

LEMMA ServeQuiet ==
  ASSUME IInv, RemovedInv, NEW p \in Ops, plan' = plan, Serve(p)
  PROVE  RemovedInv'
  BY ReadsQuiet, MintsQuiet, WrapsQuiet DEF Serve

(* The environment moves no ceremony and no row; who becomes active is     *)
(* nobody a ceremony turns to.                                             *)
LEMMA OutsideQuiet ==
  ASSUME IInv, RemovedInv, UNCHANGED <<plan, op, wraps, archive, epoch>>,
         Happens("activate") \/ active' \subseteq active
  PROVE  RemovedInv'
<1>1. \A p \in Ops : Posts(p, op[p]) => Posts(p, op[p])'
  BY DEF Posts, Actor, Target, Kind
<1>2. \A p \in Ops : (Kind[p] = "rotate" /\ NoRegrant(p))' => Kind[p] = "rotate" /\ NoRegrant(p)
  BY DEF Kind, NoRegrant, Happens, Target
<1>3. ASSUME NEW p \in Ops, NoLeak(p) PROVE NoLeak(p)'
  <2>1. /\ \A w : Leaks(p, w)' <=> Leaks(p, w)
        /\ Target' = Target /\ (Happens("activate") <=> Happens("activate")')
    BY DEF Leaks, Owned, Minter, Kind, Target, Happens
  <2>2. \A w \in (wraps \cup archive)' : ~Leaks(p, w)'
    BY <1>3, <2>1 DEF NoLeak
  <2>3. \A q \in Ops :
          /\ op'[q].resp.status = "checked" => ~Leaks(p, op[q].post)'
          /\ op'[q].resp.status = "archived" => \A w \in op'[q].resp.data.rows : ~Leaks(p, w)'
    BY <1>3, <2>1 DEF NoLeak
  <2>4. IF Happens("activate")' THEN \A q \in Ops : Bar(op[q], Target[p])'
        ELSE op'[p].pc # "idle" => Target'[p] \notin active'
    BY <1>3, <2>1 DEF NoLeak, Bar
  <2> QED BY <2>2, <2>3, <2>4 DEF NoLeak
<1> QED BY <1>1, <1>2, <1>3 DEF RemovedInv

LEMMA EnvironmentQuiet ==
  ASSUME IInv, RemovedInv, plan' = plan, Environment
  PROVE  RemovedInv'
<1>1. PICK u \in Users :
        \/ TabEvent(u)
        \/ Enroll(u) /\ UNCHANGED <<clientVars, outside>>
        \/ Happens("activate") /\ Activate(u) /\ UNCHANGED <<clientVars, outside>>
        \/ RemoveMember(u) /\ UNCHANGED <<clientVars, outside>>
  BY DEF Environment
<1>2. CASE UNCHANGED <<op, serverVars>>
  BY <1>2, OutsideQuiet DEF serverVars, membership, keyRows, wrapRows
<1>3. CASE TabEvent(u)
  <2>1. CASE SignOut(u) \/ Unload(u) \/ PanicRow(u) \/ PanicAborted(u)
             \/ PanicDestroys(u) \/ PanicCleanup(u)
    BY <1>2, <2>1 DEF SignOut, Unload, PanicRow, PanicAborted, PanicDestroys, PanicCleanup,
       clientVars
  <2>2. CASE SignIn(u) \/ (EndSession(u) /\ UNCHANGED <<clientVars, outside>>)
    <3>1. UNCHANGED <<op, wraps, archive, epoch, active>>
      BY <2>2 DEF SignIn, EndSession, clientVars, membership, keyRows, wrapRows
    <3> QED BY <3>1, OutsideQuiet
  <2> QED BY <1>3, <2>1, <2>2 DEF TabEvent
<1>4. CASE /\ Enroll(u) \/ (Happens("activate") /\ Activate(u)) \/ RemoveMember(u)
           /\ UNCHANGED <<clientVars, outside>>
  <2>1. /\ UNCHANGED <<op, wraps, archive, epoch>>
        /\ Happens("activate") \/ active' \subseteq active
    BY <1>4 DEF Enroll, Activate, RemoveMember, clientVars, membership, keyRows, wrapRows
  <2> QED BY <2>1, OutsideQuiet
<1> QED BY <1>1, <1>3, <1>4

LEMMA RemovedInit == Init => RemovedInv
<1> SUFFICES ASSUME Init PROVE RemovedInv
  OBVIOUS
<1>1. IInv
  BY CeremoniesInit
<1>2. /\ op = [p \in Ops |-> NewOp] /\ archive = {}
      /\ \A w \in wraps : plan.holders # {} /\ w.key = FirstKey
  BY DEF Init, TabsInit
<1>3. /\ NewOp.pc = "idle" /\ NewOp.resp.status = "none" /\ NewOp.todo = {}
      /\ NewOp.cur = NoUser
  BY DEF NewOp, NoAnswer
<1> HIDE DEF NewOp
<1>4. \A p \in Ops : op[p] = NewOp
  BY <1>2
<1>5. \A p \in Ops : Posts(p, op[p])
  BY <1>3, <1>4 DEF Posts, OwnPCs
<1>6. ASSUME NEW p \in Ops PROVE NoLeak(p)
  <2>1. Target[p] \in Users
    BY <1>1, TargetKnown
  <2>2. \A w \in wraps \cup archive : ~Leaks(p, w)
    BY <1>1, <1>2 DEF Leaks, IInv, Minting
  <2>3. \A q \in Ops : Bar(op[q], Target[p])
    BY <1>3, <1>4, <2>1, NoUserAssumption DEF Bar
  <2> QED BY <1>3, <1>4, <2>2, <2>3 DEF NoLeak
<1> QED BY <1>5, <1>6 DEF RemovedInv

LEMMA RemovedStep == IInv /\ RemovedInv /\ [Next]_vars => RemovedInv'
<1> SUFFICES ASSUME IInv, RemovedInv, [Next]_vars PROVE RemovedInv'
  OBVIOUS
<1>1. ASSUME NEW p \in Ops, Step(p), plan' = plan PROVE RemovedInv'
  <2>1. Posts(p, op[p])
    BY DEF RemovedInv
  <2>2. PICK r : Moves(p, r) /\ Quiet(p, r)
    BY <1>1, <2>1, StepQuiet
  <2> QED BY <2>2, QuietKeeps DEF Moves
<1>2. ASSUME NEW p \in Ops, Serve(p), plan' = plan PROVE RemovedInv'
  BY <1>2, ServeQuiet
<1>3. CASE Environment /\ plan' = plan
  BY <1>3, EnvironmentQuiet
<1>4. CASE UNCHANGED vars
  BY <1>4, OutsideQuiet DEF vars, clientVars, serverVars, membership, keyRows, wrapRows
<1> QED BY <1>1, <1>2, <1>3, <1>4 DEF Next

(* The key minted on a removal never reaches the removed member, whatever  *)
(* is lost, reordered or done by the other ceremonies, as long as no       *)
(* ceremony of the plan is there to give a reactivated member a key again. *)
NoRegrants == \A p \in Ops : Kind[p] = "rotate" => NoRegrant(p)

THEOREM RemovedStaysOut == Spec => [](NoRegrants => RemovedNeverGetsNewKey)
<1>1. IInv /\ RemovedInv => (NoRegrants => RemovedNeverGetsNewKey)
  <2> SUFFICES ASSUME IInv, RemovedInv, NEW p \in Ops, Kind[p] = "rotate", NoRegrant(p),
                      op[p].key # NoKey, NEW w \in wraps \cup archive,
                      w.user = Target[p], w.key = op[p].key
               PROVE  FALSE
    BY DEF NoRegrants, RemovedNeverGetsNewKey, EverWrapped
  <2>1. op[p].key \in KeyIds
    BY OpKnown DEF IsOp
  <2>2. Leaks(p, w)
    BY <2>1 DEF Leaks, Owned, Minter
  <2> QED BY <2>2 DEF RemovedInv, NoLeak
<1>2. Spec => []RemovedInv
  <2>1. Init => IInv /\ RemovedInv
    BY CeremoniesInit, RemovedInit
  <2>2. (IInv /\ RemovedInv) /\ [Next]_vars => (IInv /\ RemovedInv)'
    BY CeremoniesStep, RemovedStep
  <2> QED BY <2>1, <2>2, PTL DEF Spec
<1> QED BY <1>1, <1>2, CeremoniesInvariant, PTL

-----------------------------------------------------------------------------
(* Part 4: no silent dead key.                                             *)
(*                                                                         *)
(* The argument: a key that nobody was given has a ceremony that answers   *)
(* for it (Debt), from the transaction that mints it until the actor's own *)
(* wrap is in the table or the ceremony has reported a failure; and what a *)
(* ceremony goes on to do after its own wrap it does with a key its actor  *)
(* was given (PastOwn).                                                    *)
MemberPCs == {"disclose", "sealing", "memberwrap"}
UnwrapPCs == {"state", "livewrap"}
ReportResults == {"ok", "ok_with_pending", "incomplete"}
DebtPCs == {"retire", "revoke"} \cup MintPCs \cup OwnPCs

Rows == wraps \cup archive
Given(R, u, k) == \E w \in R : w.user = u /\ w.key = k
Owns(p, o) == Given(Rows, Actor[p], o.key)

Rotates(p) == Kind[p] \in {"rotate", "resume"}

(* The ceremony's own wrap of its key is behind it.                        *)
PastOwn(p, o) ==
  \/ Kind[p] = "init" /\ (o.pc = "finalize" \/ o.res \in {"ok", "ok_with_pending"})
  \/ /\ Rotates(p)
     /\ \/ o.pc \in MemberPCs \cup {"finalize"} \/ o.res \in ReportResults
        \/ o.pc \in UnwrapPCs /\ ~Precondition(p, o)
        \/ o.pc = "allwraps" /\ Kind[p] = "rotate"

(* What a ceremony was told, R being the rows.                             *)
Told(p, o, R) ==
  /\ o.pc # "ended" => o.res = "none"
  /\ Kind[p] = "resume" /\ o.pc # "idle" => o.key \in KeyIds
  /\ o.pc \in MintPCs /\ o.resp.status = "ok" => \A j, k \in o.resp.data : j = k
  /\ o.pc \in WrapPCs /\ o.resp.status = "ok" => Given(R, o.post.user, o.post.key)
  /\ o.pc = "allwraps" /\ o.resp.status = "ok" =>
       \A w \in o.resp.data : Given(R, Actor[p], w.key)
  /\ PastOwn(p, o) => Given(R, Actor[p], o.key)

(* The ceremony answers for the key k.                                     *)
Debt(o, k) ==
  \/ o.res \in LoudResults
  \/ o.pc = "retire"
  \/ o.pc \in MintPCs /\ (o.resp.status = "lost" \/ (o.resp.status = "ok" /\ k \in o.resp.data))
  \/ o.pc \in OwnPCs \cup {"revoke"} /\ o.key = k

Accounted ==
  \A k \in Minted : (\E u \in Users : Given(Rows, u, k)) \/ \E p \in Ops : Debt(op[p], k)

ToldInv == (\A p \in Ops : Told(p, op[p], Rows)) /\ Accounted

(* No purge deletes a row that was inserted between its two statements.    *)
RowsKept == Rows \subseteq Rows'

(* What a client segment makes of the local state.                         *)
Settles(p, r) ==
  /\ r.pc # "ended" => r.res = "none"
  /\ Kind[p] = "resume" => r.key \in KeyIds
  /\ PastOwn(p, r) => Owns(p, r)
  /\ \A k : Debt(op[p], k) => Debt(r, k) \/ Given(Rows, Actor[p], k)

LEMMA ToldIs ==
  ASSUME plan' = plan, NEW p \in Ops
  PROVE  Told(p, op[p], Rows)' <=> Told(p, op'[p], Rows')
  BY DEF Told, PastOwn, Rotates, Precondition, Kind, Actor

LEMMA GivenStays ==
  ASSUME RowsKept, NEW u, NEW k, Given(Rows, u, k)
  PROVE  Given(Rows', u, k) /\ Given(Rows, u, k)'
  BY DEF RowsKept, Given

LEMMA SettlesKeeps ==
  ASSUME IInv, ToldInv, NEW p \in Ops, NEW r, Moves(p, r), Settles(p, r),
         r.resp.status \in {"none", "sent", "401"}
  PROVE  ToldInv'
<1>1. /\ op'[p] = r /\ \A q \in Ops : q # p => op'[q] = op[q]
      /\ plan' = plan /\ Rows' = Rows /\ Minted' = Minted /\ Actor[p] \in Users
  BY OpIs, OpKnown DEF Moves, serverVars, wrapRows, keyRows, Rows, Minted
<1>2. \A q \in Ops : Told(q, op'[q], Rows')
  <2>1. Told(p, r, Rows)
    BY DEF Settles, Told, Owns
  <2> QED BY <1>1, <2>1 DEF ToldInv
<1>3. ASSUME NEW k \in Minted'
      PROVE  (\E u \in Users : Given(Rows, u, k)') \/ \E q \in Ops : Debt(op[q], k)'
  <2>1. (\E u \in Users : Given(Rows, u, k)) \/ \E q \in Ops : Debt(op[q], k)
    BY <1>1 DEF ToldInv, Accounted
  <2>2. \A u : Given(Rows, u, k)' <=> Given(Rows, u, k)
    BY <1>1 DEF Given
  <2>3. \A q \in Ops : Debt(op[q], k)' <=> Debt(op'[q], k)
    BY DEF Debt
  <2>4. \A q \in Ops : Debt(op[q], k) => Debt(op'[q], k) \/ Given(Rows, Actor[p], k)
    BY <1>1 DEF Settles
  <2> QED BY <1>1, <2>1, <2>2, <2>3, <2>4
<1>4. Accounted'
  BY <1>3 DEF Accounted
<1> QED BY <1>1, <1>2, <1>4, ToldIs DEF ToldInv

(* Where no key is owed.                                                   *)
Steady(p, o) ==
  /\ IsOp(o) /\ o.res = "none" /\ (Kind[p] = "resume" => o.key \in KeyIds)
  /\ \A k : ~Debt(op[p], k)

LEMMA SteadySelf ==
  ASSUME IInv, ToldInv, NEW p \in Ops, op[p].pc \notin {"idle", "ended"} \cup DebtPCs
  PROVE  Steady(p, op[p]) /\ (PastOwn(p, op[p]) => Owns(p, op[p]))
<1>1. IsOp(op[p]) /\ Told(p, op[p], Rows)
  BY OpKnown DEF ToldInv
<1>2. op[p].res = "none"
  BY <1>1 DEF Told
<1>3. \A k : ~Debt(op[p], k)
  BY <1>2 DEF Debt, DebtPCs, LoudResults
<1> QED BY <1>1, <1>2, <1>3 DEF Steady, Told, Owns

LEMMA EndSettles ==
  ASSUME NEW p \in Ops, NEW o, Steady(p, o)
  PROVE  /\ \A res : res \notin ReportResults \/ Kind[p] = "grant" \/ Owns(p, o) =>
                       Settles(p, End(o, res))
         /\ ~Rotates(p) \/ Owns(p, o) => Settles(p, Incomplete(o))
<1>1. ASSUME NEW res, res \notin ReportResults \/ Kind[p] = "grant" \/ Owns(p, o)
      PROVE  Settles(p, End(o, res))
  <2> DEFINE r == End(o, res)
  <2>1. r.pc = "ended" /\ r.res = res /\ Alike(r, o, {"pc", "res", "resp"})
    BY EndIs DEF Steady
  <2> HIDE DEF r
  <2>2. r.key = o.key
    BY <2>1 DEF Alike, Fields
  <2>3. PastOwn(p, r) => Owns(p, r)
    BY <1>1, <2>1, <2>2 DEF PastOwn, Owns, ReportResults, MemberPCs, UnwrapPCs, Rotates
  <2>4. Settles(p, r)
    BY <2>1, <2>2, <2>3 DEF Settles, Steady
  <2> QED BY <2>4 DEF r
<1>2. ASSUME ~Rotates(p) \/ Owns(p, o)
      PROVE  Settles(p, Incomplete(o))
  <2> DEFINE r == Incomplete(o)
  <2>1. r.pc = "ended" /\ r.res = "incomplete" /\ Alike(r, o, {"pc", "res", "resp", "pending"})
    BY IncompleteIs DEF Steady
  <2> HIDE DEF r
  <2>2. r.key = o.key
    BY <2>1 DEF Alike, Fields
  <2>3. PastOwn(p, r) => Owns(p, r)
    BY <1>2, <2>1, <2>2 DEF PastOwn, Owns, ReportResults, MemberPCs, UnwrapPCs, Rotates
  <2>4. Settles(p, r)
    BY <2>1, <2>2, <2>3 DEF Settles, Steady
  <2> QED BY <2>4 DEF r
<1> QED BY <1>1, <1>2

LEMMA FailSettles ==
  ASSUME NEW p \in Ops, NEW o, Steady(p, o)
  PROVE  /\ ~Rotates(p) \/ Owns(p, o) =>
              Settles(p, Abandon(p, o)) /\ Settles(p, WrapFailed(p, o))
         /\ Precondition(p, o) \/ ~Rotates(p) \/ Owns(p, o) => Settles(p, UnwrapFailed(p, o))
         /\ Kind[p] = "resume" \/ Owns(p, o) =>
              Settles(p, Abandon(p, o)) /\ Settles(p, NotHolder(p, o))
<1>1. Settles(p, End(o, "failed")) /\ Settles(p, End(o, "cannot_resume_not_holder"))
  BY EndSettles DEF ReportResults
<1> QED BY <1>1, EndSettles DEF Abandon, WrapFailed, UnwrapFailed, NotHolder

(* A failure that is reported answers for every key.                       *)
LEMMA LoudSettles ==
  ASSUME NEW p \in Ops, NEW o, NEW res \in {"failed", "orphaned"}, IsOp(o),
         Kind[p] = "resume" => o.key \in KeyIds
  PROVE  Settles(p, End(o, res))
<1> DEFINE r == End(o, res)
<1>1. r.pc = "ended" /\ r.res = res /\ Alike(r, o, {"pc", "res", "resp"})
  BY EndIs
<1> HIDE DEF r
<1>2. r.key = o.key
  BY <1>1 DEF Alike, Fields
<1>3. ~PastOwn(p, r)
  BY <1>1 DEF PastOwn, ReportResults, MemberPCs, UnwrapPCs, Rotates
<1>4. \A k : Debt(r, k)
  BY <1>1 DEF Debt, LoudResults
<1>5. Settles(p, r)
  BY <1>1, <1>2, <1>3, <1>4 DEF Settles
<1> QED BY <1>5 DEF r

LEMMA RunSettles ==
  ASSUME NEW p \in Ops, NEW o, Steady(p, o), NEW r,
         r.key = o.key, r.res = o.res, PastOwn(p, r) => Owns(p, o)
  PROVE  Settles(p, r)
  BY DEF Settles, Steady, Owns

LEMMA AskSettles ==
  ASSUME NEW p \in Ops, NEW o, NEW pc, Steady(p, o), pc # "allwraps",
         \/ pc \notin UnwrapPCs \cup MemberPCs \cup {"finalize"}
         \/ pc \in UnwrapPCs /\ (~Rotates(p) \/ Precondition(p, o))
         \/ Owns(p, o)
  PROVE  Settles(p, Request(p, o, pc))
<1> DEFINE r == Request(p, o, pc)
<1>1. r.pc = pc /\ Alike(r, o, {"pc", "resp"})
  BY AskIs DEF Steady
<1> HIDE DEF r
<1>2. r.key = o.key /\ r.res = o.res /\ r.rot = o.rot /\ o.res = "none"
  BY <1>1 DEF Alike, Fields, Steady
<1>3. PastOwn(p, r) => Owns(p, o)
  BY <1>1, <1>2 DEF PastOwn, Rotates, Precondition, ReportResults, UnwrapPCs, MemberPCs
<1> QED BY <1>2, <1>3, RunSettles DEF r

LEMMA FetchSettles ==
  ASSUME IInv, NEW p \in Ops, NEW o, NEW pc \in FetchPCs, Steady(p, o),
         \/ pc = "allwraps" /\ Kind[p] = "resume"
         \/ pc = "livewrap" /\ (~Rotates(p) \/ Precondition(p, o))
         \/ Owns(p, o)
  PROVE  Settles(p, Fetch(p, o, pc))
<1> DEFINE r == Fetch(p, o, pc)
<1>1. r.pc = pc /\ Alike(r, o, {"pc", "resp", "fetched", "since"})
  BY FetchIs DEF Steady
<1> HIDE DEF r
<1>2. r.key = o.key /\ r.res = o.res /\ r.rot = o.rot /\ o.res = "none"
  BY <1>1 DEF Alike, Fields, Steady
<1>3. PastOwn(p, r) => Owns(p, o)
  BY <1>1, <1>2 DEF PastOwn, Rotates, Precondition, ReportResults, UnwrapPCs, MemberPCs, FetchPCs
<1> QED BY <1>2, <1>3, RunSettles DEF r

LEMMA WrapMemberInSettles ==
  ASSUME NEW p \in Ops, NEW o, NEW h, Steady(p, o), ~Rotates(p) \/ Owns(p, o),
         Kind[p] # "init"
  PROVE  /\ Settles(p, Capture(o, h))
         /\ h.gen \in Nat => Settles(p, WrapMemberIn(p, o, h))
<1>1. Settles(p, Capture(o, h))
  <2> DEFINE r == Capture(o, h)
  <2>1. Alike(r, o, {"pc", "resp", "cap"})
    BY CaptureIs DEF Steady
  <2> HIDE DEF r
  <2>2. r.key = o.key /\ r.res = o.res /\ o.res = "none"
    BY <2>1 DEF Alike, Fields, Steady
  <2>3. PastOwn(p, r) => Owns(p, o)
    BY <2>2 DEF PastOwn, Rotates
  <2> QED BY <2>2, <2>3, RunSettles DEF r
<1>2. ASSUME h.gen \in Nat PROVE Settles(p, WrapMemberIn(p, o, h))
  <2> DEFINE r == WrapMemberIn(p, o, h)
  <2>1. Alike(r, o, {"pc", "resp", "cap", "inner"})
    BY <1>2, WrapMemberInIs DEF Steady
  <2> HIDE DEF r
  <2>2. r.key = o.key /\ r.res = o.res /\ o.res = "none"
    BY <2>1 DEF Alike, Fields, Steady
  <2>3. PastOwn(p, r) => Owns(p, o)
    BY <2>2 DEF PastOwn, Rotates
  <2> QED BY <2>2, <2>3, RunSettles DEF r
<1> QED BY <1>1, <1>2

LEMMA NextSettles ==
  ASSUME NEW p \in Ops, NEW o, NEW h, Steady(p, o), ~Rotates(p) \/ Owns(p, o),
         Kind[p] # "init", NEW r \in NextMember(p, o, h)
  PROVE  Settles(p, r)
<1>1. CASE Alike(r, o, {"pc", "resp", "cur"})
  <2>1. r.key = o.key /\ r.res = o.res /\ o.res = "none"
    BY <1>1 DEF Alike, Fields, Steady
  <2>2. PastOwn(p, r) => Owns(p, o)
    BY <2>1 DEF PastOwn, Rotates
  <2> QED BY <2>1, <2>2, RunSettles
<1>2. CASE r = Abandon(p, o)
  BY <1>2, FailSettles
<1>3. IsOp(o)
  BY DEF Steady
<1> QED BY <1>1, <1>2, <1>3, NextIs DEF Alike

LEMMA SteadyAs ==
  ASSUME NEW p \in Ops, NEW o, NEW i, Steady(p, o), IsOp(i), i.res = o.res, i.key = o.key
  PROVE  Steady(p, i) /\ (Owns(p, o) => Owns(p, i))
  BY DEF Steady, Owns

-----------------------------------------------------------------------------
LEMMA BeginSettles ==
  ASSUME IInv, ToldInv, NEW p \in Ops, plan' = plan, Begin(p)
  PROVE  \E r : Moves(p, r) /\ Settles(p, r)
<1> DEFINE g == [op[p] EXCEPT !.gen = H(p).gen]
           n == [g EXCEPT !.rest = active \ {Actor[p]}]
           o == [n EXCEPT !.todo = active \ {Actor[p]}]
<1>1. /\ IsOp(op[p]) /\ Shape(p, op[p]) /\ op[p].pc = "idle" /\ H(p).gen \in Nat
      /\ Kind[p] \in {"init", "grant", "rotate", "resume"} /\ Told(p, op[p], Rows)
  BY OpKnown, PlanKnown DEF Begin, IInv, ToldInv
<1>2. IsOp(g) /\ \A f \in Fields \ {"gen"} : g[f] = op[p][f]
  BY <1>1 DEF IsOp, Fields
<1>3. [op[p] EXCEPT !.gen = H(p).gen, !.rest = active \ {Actor[p]},
                    !.todo = active \ {Actor[p]}] = o
  BY <1>1 DEF IsOp, Fields
<1> HIDE DEF g
<1>4. IsOp(n) /\ \A f \in Fields \ {"rest"} : n[f] = g[f]
  BY <1>2 DEF IsOp, Fields
<1> HIDE DEF n
<1>5. IsOp(o) /\ \A f \in Fields \ {"todo"} : o[f] = n[f]
  BY <1>4 DEF IsOp, Fields
<1> HIDE DEF o
<1>6. o.key = op[p].key /\ o.res = op[p].res /\ o.rot = op[p].rot /\ op[p].res = "none"
  BY <1>1, <1>2, <1>4, <1>5 DEF Fields, Told
<1>7. \A k : ~Debt(op[p], k)
  BY <1>1, <1>6 DEF Debt, LoudResults, MintPCs, OwnPCs
<1>8. CASE Kind[p] = "init"
  <2>1. Moves(p, Request(p, op[p], "state"))
    BY <1>8 DEF Begin, Become, Moves
  <2>2. Steady(p, op[p]) /\ ~Rotates(p)
    BY <1>1, <1>6, <1>7, <1>8 DEF Steady, Rotates
  <2> QED BY <2>1, <2>2, AskSettles DEF UnwrapPCs
<1>9. CASE Kind[p] = "grant"
  <2> DEFINE i == [op[p] EXCEPT !.cur = Target[p]]
  <2>1. Moves(p, WrapMemberIn(p, i, H(p)))
    BY <1>9 DEF Begin, Become, Moves
  <2>2. IsOp(i) /\ i.res = op[p].res
    BY <1>1 DEF IsOp, Fields
  <2> HIDE DEF i
  <2>3. Steady(p, i) /\ ~Rotates(p)
    BY <1>6, <1>7, <1>9, <2>2 DEF Steady, Rotates
  <2> QED BY <1>1, <1>9, <2>1, <2>3, WrapMemberInSettles
<1>10. CASE Kind[p] = "rotate"
  <2>1. PICK pc \in {"rotate", "state"} : Moves(p, Request(p, o, pc))
    BY <1>3, <1>10 DEF Begin, Become, Moves
  <2>2. Steady(p, o) /\ Precondition(p, o)
    BY <1>1, <1>5, <1>6, <1>7, <1>10 DEF Steady, Precondition, Shape, Minter
  <2> QED BY <2>1, <2>2, AskSettles DEF UnwrapPCs, MemberPCs
<1>11. CASE Kind[p] = "resume"
  <2>1. PICK k \in started : Moves(p, Fetch(p, Keyed(o, k), "allwraps"))
    BY <1>3, <1>11 DEF Begin, Become, Moves, Keyed
  <2> DEFINE i == Keyed(o, k)
  <2>2. k \in KeyIds
    BY DEF IInv, Typed
  <2>3. IsOp(i) /\ i.key = k /\ i.res = o.res
    BY <1>5, <2>2, KeyedIs DEF Alike, Fields
  <2> HIDE DEF i
  <2>4. Steady(p, i)
    BY <1>6, <1>7, <2>2, <2>3 DEF Steady
  <2>5. Settles(p, Fetch(p, i, "allwraps"))
    BY <1>11, <2>4, FetchSettles DEF FetchPCs
  <2> QED BY <2>1, <2>5 DEF i
<1> QED BY <1>1, <1>8, <1>9, <1>10, <1>11

(* The answer to the actor's own wrap.                                     *)
LEMMA OwnWrapped ==
  ASSUME ToldInv, RemovedInv, NEW p \in Ops, op[p].pc \in OwnPCs, op[p].resp.status = "ok"
  PROVE  Owns(p, op[p]) /\ \A k : Debt(op[p], k) => Given(Rows, Actor[p], k)
<1>1. Told(p, op[p], Rows) /\ Posts(p, op[p])
  BY DEF ToldInv, RemovedInv
<1>2. op[p].pc \in WrapPCs /\ op[p].pc \notin MintPCs \cup {"retire", "ended"}
  BY DEF OwnPCs, WrapPCs, MintPCs
<1>3. Given(Rows, Actor[p], op[p].key)
  BY <1>1, <1>2 DEF Told, Posts
<1>4. op[p].res = "none"
  BY <1>1, <1>2 DEF Told
<1> QED BY <1>2, <1>3, <1>4 DEF Owns, Debt, LoudResults

(* The answer to a request that minted a key.                              *)
LEMMA MintedSettles ==
  ASSUME IInv, ToldInv, NEW p \in Ops, op[p].pc \in MintPCs, op[p].resp.status = "ok",
         NEW k \in op[p].resp.data, NEW r, r.key = k, r.res = "none",
         \/ r.pc \in {"firstwrap", "repairwrap"} /\ Kind[p] = "init"
         \/ r.pc = "revoke" /\ Kind[p] = "rotate"
  PROVE  Settles(p, r)
<1>1. Told(p, op[p], Rows)
  BY DEF ToldInv
<1>2. op[p].res = "none" /\ op[p].pc \notin OwnPCs \cup {"retire", "revoke"}
  BY <1>1 DEF Told, MintPCs, OwnPCs
<1>3. \A j : Debt(op[p], j) => j = k
  BY <1>1, <1>2 DEF Debt, LoudResults, Told
<1>4. \A j : j = k => Debt(r, j)
  BY DEF Debt, OwnPCs
<1>5. ~PastOwn(p, r)
  BY DEF PastOwn, Rotates, MemberPCs, UnwrapPCs, ReportResults
<1> QED BY <1>3, <1>4, <1>5 DEF Settles

LEMMA InitStepsSettle ==
  ASSUME IInv, RemovedInv, ToldInv, NEW p \in Ops, plan' = plan,
         \/ InitProbed(p) \/ InitMinted(p) \/ InitRaced(p) \/ InitWrapped(p)
         \/ InitWrapLost(p) \/ InitRetired(p) \/ RepairMinted(p) \/ RepairWrapped(p)
  PROVE  \E r : Moves(p, r) /\ Settles(p, r)
<1>1. /\ IsOp(op[p]) /\ Shape(p, op[p]) /\ Told(p, op[p], Rows)
      /\ op[p].pc # "ended" => op[p].res = "none"
  BY OpKnown DEF ToldInv, Told
<1>2. Kind[p] = "init" /\ op[p].pc \notin {"idle", "ended"}
  BY <1>1 DEF InitProbed, InitMinted, InitRaced, InitWrapped, InitWrapLost, InitRetired,
     RepairMinted, RepairWrapped, Answered, Shape, OtherPCs, SharedPCs
<1>3. CASE InitProbed(p)
  <2>1. \/ \E res \in {"already_initialised", "foreign_held"} : Moves(p, End(op[p], res))
        \/ \E pc \in {"init", "repair"} : Moves(p, Request(p, op[p], pc))
    BY <1>3 DEF InitProbed, Become, Moves
  <2>2. op[p].pc \notin {"idle", "ended"} \cup DebtPCs
    BY <1>3 DEF InitProbed, Answered, DebtPCs, MintPCs, OwnPCs
  <2>3. Steady(p, op[p])
    BY <2>2, SteadySelf
  <2>4. {"already_initialised", "foreign_held"} \cap ReportResults = {}
    BY DEF ReportResults
  <2>5. {"init", "repair"} \cap (UnwrapPCs \cup MemberPCs \cup {"finalize"}) = {}
    BY DEF UnwrapPCs, MemberPCs
  <2> QED BY <2>1, <2>3, <2>4, <2>5, EndSettles, AskSettles
<1>4. CASE InitMinted(p) \/ RepairMinted(p)
  <2>1. PICK pc \in {"firstwrap", "repairwrap"}, k \in op[p].resp.data :
          Moves(p, Request(p, Posting(Keyed(op[p], k), OwnWrap(p, k)), pc))
    BY <1>4 DEF InitMinted, RepairMinted, PostOwnWrap, Become, Moves, Keyed, Posting
  <2> DEFINE i == Posting(Keyed(op[p], k), OwnWrap(p, k))
             r == Request(p, i, pc)
  <2>2. op[p].pc \in MintPCs /\ op[p].resp.status = "ok" /\ op[p].res = "none"
    BY <1>1, <1>4 DEF InitMinted, RepairMinted, Answered, MintPCs
  <2>3. k \in KeyIds
    BY <2>2, MintedFits
  <2>4. IsOp(i) /\ i.key = k /\ i.res = "none"
    BY <1>1, <2>2, <2>3, KeyedIs, PostingIs DEF Alike, Fields
  <2> HIDE DEF i
  <2>5. r.pc = pc /\ Alike(r, i, {"pc", "resp"})
    BY <2>4, AskIs
  <2> HIDE DEF r
  <2>6. r.key = k /\ r.res = "none"
    BY <2>4, <2>5 DEF Alike, Fields
  <2>7. Settles(p, r)
    BY <1>2, <2>2, <2>5, <2>6, MintedSettles
  <2> QED BY <2>1, <2>7 DEF i, r
<1>5. CASE InitRaced(p)
  <2>1. Moves(p, End(op[p], "already_initialised"))
    BY <1>5 DEF InitRaced, Become, Moves
  <2>2. \A k : ~Debt(op[p], k)
    BY <1>1, <1>5 DEF InitRaced, Debt, LoudResults, MintPCs, OwnPCs
  <2>3. Steady(p, op[p])
    BY <1>1, <1>2, <2>2 DEF Steady
  <2> QED BY <2>1, <2>3, EndSettles DEF ReportResults
<1>6. CASE InitWrapped(p) \/ RepairWrapped(p)
  <2>1. PICK r : /\ Moves(p, r) /\ IsOp(r) /\ Alike(r, op[p], {"pc", "resp", "res"})
                 /\ r.pc = "finalize" => r.res = "none"
                 /\ r.pc \in {"ended", "finalize"}
    <3>1. CASE InitWrapped(p)
      <4> DEFINE r == End(op[p], "ok")
      <4>1. Moves(p, r)
        BY <3>1 DEF InitWrapped, Become, Moves
      <4>2. IsOp(r) /\ r.pc = "ended" /\ Alike(r, op[p], {"pc", "res", "resp"})
        BY <1>1, EndIs
      <4> HIDE DEF r
      <4> QED BY <4>1, <4>2 DEF Alike, Fields
    <3>2. CASE RepairWrapped(p)
      <4> DEFINE r == Request(p, op[p], "finalize")
      <4>1. Moves(p, r) /\ op[p].res = "none"
        BY <1>1, <3>2 DEF RepairWrapped, Become, Moves, Answered
      <4>2. IsOp(r) /\ r.pc = "finalize" /\ Alike(r, op[p], {"pc", "resp"})
        BY <1>1, AskIs
      <4> HIDE DEF r
      <4> QED BY <4>1, <4>2 DEF Alike, Fields
    <3> QED BY <1>6, <3>1, <3>2
  <2>2. r.key = op[p].key
    BY <2>1 DEF Alike, Fields
  <2>3. Owns(p, op[p]) /\ \A k : Debt(op[p], k) => Given(Rows, Actor[p], k)
    BY <1>6, OwnWrapped DEF InitWrapped, RepairWrapped, Answered, OwnPCs
  <2> QED BY <1>2, <2>1, <2>2, <2>3 DEF Settles, Owns
<1>7. CASE InitWrapLost(p)
  <2> DEFINE r == Request(p, op[p], "retire")
  <2>1. Moves(p, r) /\ op[p].res = "none"
    BY <1>1, <1>7 DEF InitWrapLost, Become, Moves
  <2>2. r.pc = "retire" /\ Alike(r, op[p], {"pc", "resp"})
    BY <1>1, AskIs
  <2> HIDE DEF r
  <2>3. r.res = "none"
    BY <2>1, <2>2 DEF Alike, Fields
  <2>4. Settles(p, r)
    BY <1>2, <2>2, <2>3 DEF Settles, PastOwn, Rotates, Debt
  <2> QED BY <2>1, <2>4
<1>8. CASE InitRetired(p)
  BY <1>1, <1>2, <1>8, LoudSettles DEF InitRetired, Become, Moves
<1> QED BY <1>3, <1>4, <1>5, <1>6, <1>7, <1>8

(* After its own wrap, or in the unwrap before it, a ceremony owes no key. *)
LEMMA MidSteady ==
  ASSUME IInv, ToldInv, NEW p \in Ops,
         op[p].pc \in MemberPCs \cup UnwrapPCs \cup {"allwraps", "finalize"}
  PROVE  /\ Steady(p, op[p]) /\ IsOp(op[p]) /\ op[p].res = "none"
         /\ op[p].pc \in MemberPCs => ~Rotates(p) \/ Owns(p, op[p])
         /\ op[p].pc \in UnwrapPCs => ~Rotates(p) \/ Precondition(p, op[p]) \/ Owns(p, op[p])
         /\ op[p].pc = "allwraps" => ~Rotates(p) \/ Kind[p] = "resume" \/ Owns(p, op[p])
         /\ op[p].pc = "finalize" => Kind[p] = "grant" \/ Owns(p, op[p])
         /\ op[p].pc \notin {"state", "finalize"} => Kind[p] # "init"
<1>1. Steady(p, op[p]) /\ (PastOwn(p, op[p]) => Owns(p, op[p]))
  <2>1. op[p].pc \notin {"idle", "ended"} \cup DebtPCs
    BY DEF MemberPCs, UnwrapPCs, DebtPCs, MintPCs, OwnPCs
  <2> QED BY <2>1, SteadySelf
<1>2. Kind[p] \in {"init", "grant", "rotate", "resume"} /\ Shape(p, op[p])
  BY PlanKnown, OpKnown DEF IInv
<1>3. op[p].pc \notin {"state", "finalize"} => Kind[p] # "init"
  BY <1>2 DEF Shape, InitPCs, SharedPCs, MemberPCs, UnwrapPCs
<1> QED BY <1>1, <1>2, <1>3 DEF PastOwn, Rotates, Steady

LEMMA UnwrapStepsSettle ==
  ASSUME IInv, ToldInv, NEW p \in Ops, plan' = plan, UnwrapProbed(p) \/ UnwrapFetched(p)
  PROVE  \E r : Moves(p, r) /\ Settles(p, r)
<1>1. op[p].pc \in UnwrapPCs /\ (op[p].pc = "state" => Kind[p] # "init")
  BY DEF UnwrapProbed, UnwrapFetched, Answered, UnwrapPCs
<1>2. /\ Steady(p, op[p]) /\ Kind[p] # "init"
      /\ ~Rotates(p) \/ Precondition(p, op[p]) \/ Owns(p, op[p])
  BY <1>1, MidSteady DEF UnwrapPCs
<1>3. \/ Moves(p, Fetch(p, op[p], "livewrap"))
      \/ Moves(p, UnwrapFailed(p, op[p]))
      \/ Precondition(p, op[p]) /\ Moves(p, Request(p, op[p], "rotate"))
      \/ ~Precondition(p, op[p]) /\ \E h : Moves(p, Capture(op[p], h))
  BY DEF UnwrapProbed, UnwrapFetched, Become, Install, Moves
<1>4. Settles(p, Fetch(p, op[p], "livewrap")) /\ Settles(p, UnwrapFailed(p, op[p]))
  BY <1>2, FetchSettles, FailSettles DEF FetchPCs
<1>5. Settles(p, Request(p, op[p], "rotate"))
  BY <1>2, AskSettles DEF UnwrapPCs, MemberPCs
<1>6. ~Precondition(p, op[p]) => \A h : Settles(p, Capture(op[p], h))
  BY <1>2, WrapMemberInSettles
<1> QED BY <1>3, <1>4, <1>5, <1>6

LEMMA SealSettles ==
  ASSUME IInv, ToldInv, NEW p \in Ops, plan' = plan, Seal(p)
  PROVE  \E r : Moves(p, r) /\ Settles(p, r)
<1>1. op[p].pc = "sealing"
  BY DEF Seal
<1>2. /\ Steady(p, op[p]) /\ IsOp(op[p]) /\ op[p].res = "none" /\ Kind[p] # "init"
      /\ ~Rotates(p) \/ Owns(p, op[p])
  BY <1>1, MidSteady DEF MemberPCs
<1>3. CASE ~HasLiveKey(H(p))
  <2> DEFINE i == [op[p] EXCEPT !.cap = NoCap]
  <2>1. Moves(p, WrapFailed(p, i))
    BY <1>3 DEF Seal, Become, Moves
  <2>2. IsOp(i) /\ i.key = op[p].key /\ i.res = op[p].res
    BY <1>2 DEF IsOp, Fields
  <2> HIDE DEF i
  <2>3. Steady(p, i) /\ (~Rotates(p) \/ Owns(p, i))
    BY <1>2, <2>2, SteadyAs
  <2> QED BY <2>1, <2>3, FailSettles
<1>4. CASE HasLiveKey(H(p))
  <2> DEFINE w == SealedWrap(op[p], H(p))
             s == [op[p] EXCEPT !.post = w]
             i == [s EXCEPT !.cap = NoCap]
             r == Request(p, i, "memberwrap")
  <2>1. Moves(p, Request(p, [op[p] EXCEPT !.post = w, !.cap = NoCap], "memberwrap"))
    BY <1>4 DEF Seal, Become, Moves
  <2> HIDE DEF w
  <2>2. [op[p] EXCEPT !.post = w, !.cap = NoCap] = i
    BY <1>2 DEF IsOp, Fields
  <2>3. IsOp(s) /\ \A f \in Fields \ {"post"} : s[f] = op[p][f]
    BY <1>2 DEF IsOp, Fields
  <2> HIDE DEF s
  <2>4. IsOp(i) /\ \A f \in Fields \ {"cap"} : i[f] = s[f]
    BY <2>3 DEF IsOp, Fields
  <2> HIDE DEF i
  <2>5. Alike(r, i, {"pc", "resp"})
    BY <2>4, AskIs
  <2>6. Moves(p, r)
    BY <2>1, <2>2
  <2> HIDE DEF r
  <2>7. r.key = op[p].key /\ r.res = op[p].res
    BY <2>3, <2>4, <2>5 DEF Alike, Fields
  <2>8. PastOwn(p, r) => Owns(p, op[p])
    BY <1>2 DEF PastOwn
  <2> QED BY <1>2, <2>6, <2>7, <2>8, RunSettles
<1> QED BY <1>3, <1>4

LEMMA RotateStepsSettle ==
  ASSUME IInv, RemovedInv, ToldInv, NEW p \in Ops, plan' = plan,
         \/ RotateMinted(p) \/ RotateRevoked(p) \/ RotateSelfWrapped(p)
         \/ GrantPosted(p) \/ Finalized(p)
  PROVE  \E r : Moves(p, r) /\ Settles(p, r)
<1>1. IsOp(op[p]) /\ Shape(p, op[p]) /\ Told(p, op[p], Rows) /\ Posts(p, op[p])
  BY OpKnown DEF ToldInv, RemovedInv
<1>2. CASE RotateMinted(p)
  <2>1. PICK k \in op[p].resp.data : Moves(p, Request(p, Keyed(op[p], k), "revoke"))
    BY <1>2 DEF RotateMinted, Become, Moves, Keyed
  <2> DEFINE i == Keyed(op[p], k)
             r == Request(p, i, "revoke")
  <2>2. op[p].pc = "rotate" /\ op[p].pc \in MintPCs /\ op[p].resp.status = "ok"
    BY <1>2 DEF RotateMinted, Answered, MintPCs
  <2>3. k \in KeyIds /\ op[p].res = "none" /\ Kind[p] = "rotate"
    BY <1>1, <2>2, MintedFits DEF Told, Shape
  <2>4. IsOp(i) /\ i.key = k /\ i.res = "none"
    BY <1>1, <2>3, KeyedIs DEF Alike, Fields
  <2> HIDE DEF i
  <2>5. r.pc = "revoke" /\ Alike(r, i, {"pc", "resp"})
    BY <2>4, AskIs
  <2> HIDE DEF r
  <2>6. r.key = k /\ r.res = "none"
    BY <2>4, <2>5 DEF Alike, Fields
  <2>7. Settles(p, r)
    BY <2>2, <2>3, <2>5, <2>6, MintedSettles
  <2> QED BY <2>1, <2>7 DEF i, r
<1>3. CASE RotateRevoked(p)
  <2> DEFINE i == Posting(op[p], OwnWrap(p, op[p].key))
             r == Request(p, i, "selfwrap")
  <2>1. Moves(p, r)
    BY <1>3 DEF RotateRevoked, Become, Moves, Posting
  <2>2. op[p].pc = "revoke" /\ Kind[p] = "rotate" /\ op[p].res = "none"
    BY <1>1, <1>3 DEF RotateRevoked, Answered, Shape, Told
  <2>3. IsOp(i) /\ Alike(i, op[p], {"post"})
    BY <1>1, PostingIs
  <2> HIDE DEF i
  <2>4. r.pc = "selfwrap" /\ Alike(r, i, {"pc", "resp"})
    BY <2>3, AskIs
  <2> HIDE DEF r
  <2>5. r.key = op[p].key /\ r.res = "none"
    BY <2>2, <2>3, <2>4 DEF Alike, Fields
  <2>6. ~PastOwn(p, r)
    BY <2>2, <2>4, <2>5 DEF PastOwn, MemberPCs, UnwrapPCs, ReportResults
  <2>7. \A k : Debt(op[p], k) => Debt(r, k)
    BY <2>2, <2>4, <2>5 DEF Debt, LoudResults, MintPCs, OwnPCs
  <2>8. Settles(p, r)
    BY <2>2, <2>5, <2>6, <2>7 DEF Settles
  <2> QED BY <2>1, <2>8
<1>4. CASE RotateSelfWrapped(p)
  <2> DEFINE r == Fetch(p, op[p], "allwraps")
  <2>1. Moves(p, r) /\ op[p].pc = "selfwrap" /\ op[p].resp.status = "ok"
    BY <1>4 DEF RotateSelfWrapped, Become, Moves, Answered
  <2>2. Owns(p, op[p]) /\ \A k : Debt(op[p], k) => Given(Rows, Actor[p], k)
    BY <2>1, OwnWrapped DEF OwnPCs
  <2>3. op[p].res = "none" /\ Kind[p] = "rotate"
    BY <1>1, <2>1 DEF Told, Posts
  <2>4. Alike(r, op[p], {"pc", "resp", "fetched", "since"})
    BY <1>1, FetchIs
  <2> HIDE DEF r
  <2>5. r.key = op[p].key /\ r.res = "none"
    BY <2>3, <2>4 DEF Alike, Fields
  <2> QED BY <2>1, <2>2, <2>3, <2>5 DEF Settles, Owns
<1>5. CASE GrantPosted(p)
  <2>1. Moves(p, End(op[p], "ok")) /\ op[p].pc = "memberwrap" /\ Kind[p] = "grant"
    BY <1>5 DEF GrantPosted, Become, Moves, Answered
  <2>2. Steady(p, op[p])
    BY <2>1, MidSteady DEF MemberPCs
  <2> QED BY <2>1, <2>2, EndSettles
<1>6. CASE Finalized(p)
  <2>1. (\E res : Moves(p, End(op[p], res))) /\ op[p].pc = "finalize"
    BY <1>6 DEF Finalized, Become, Moves, Answered
  <2>2. Steady(p, op[p]) /\ (Kind[p] = "grant" \/ Owns(p, op[p]))
    BY <2>1, MidSteady
  <2> QED BY <2>1, <2>2, EndSettles
<1> QED BY <1>2, <1>3, <1>4, <1>5, <1>6

(* The actor was given every key of the wraps it opens.                    *)
LEMMA OpenedIsOwned ==
  ASSUME ToldInv, NEW p \in Ops, op[p].pc = "allwraps", op[p].resp.status = "ok",
         op[p].key \in KeyIds, GetKeyId(Populate(H(p), OpenedAll(p))) = op[p].key
  PROVE  Owns(p, op[p])
<1> DEFINE h == Populate(H(p), OpenedAll(p))
<1>1. op[p].key \in HeldIds(h)
  BY NoKeyAssumption DEF GetKeyId, HasLiveKey
<1>2. PICK e \in OpenedAll(p) : e.key_id = op[p].key
  BY <1>1, PopulateIs
<1>3. PICK w \in op[p].resp.data : e.key_id = w.key
  BY DEF OpenedAll
<1> QED BY <1>2, <1>3 DEF ToldInv, Told, Owns

LEMMA MemberStepsSettle ==
  ASSUME IInv, ToldInv, NEW p \in Ops, plan' = plan,
         AllFetched(p) \/ Disclosed(p) \/ NotEnrolled(p) \/ Rewrapped(p)
  PROVE  \E r : Moves(p, r) /\ Settles(p, r)
<1>1. op[p].pc \in MemberPCs \cup {"allwraps"} /\ H(p).gen \in Nat
  BY OpKnown DEF AllFetched, Disclosed, NotEnrolled, Rewrapped, Answered, MemberPCs
<1>2. /\ Steady(p, op[p]) /\ IsOp(op[p]) /\ op[p].res = "none" /\ Kind[p] # "init"
      /\ op[p].pc \in MemberPCs => ~Rotates(p) \/ Owns(p, op[p])
      /\ op[p].pc = "allwraps" => ~Rotates(p) \/ Kind[p] = "resume" \/ Owns(p, op[p])
  BY <1>1, MidSteady DEF MemberPCs
<1>3. CASE AllFetched(p)
  <2>1. op[p].pc = "allwraps" /\ op[p].resp.status = "ok"
    BY <1>3 DEF AllFetched, Answered
  <2>2. Settles(p, Abandon(p, op[p]))
    BY <1>2, <2>1, FailSettles
  <2>3. Settles(p, NotHolder(p, op[p]))
    <3>1. CASE Rotates(p)
      BY <1>2, <2>1, <3>1, FailSettles
    <3>2. CASE ~Rotates(p)
      BY <1>2, <3>2, EndSettles DEF NotHolder, Rotates
    <3> QED BY <3>1, <3>2
  <2> DEFINE h == Populate(H(p), OpenedAll(p))
  <2>4. \/ Moves(p, Abandon(p, op[p])) \/ Moves(p, NotHolder(p, op[p]))
        \/ GetKeyId(h) = op[p].key /\ \E r \in NextMember(p, op[p], h) : Moves(p, r)
    BY <1>3 DEF AllFetched, Become, Install, Moves
  <2>5. GetKeyId(h) = op[p].key => ~Rotates(p) \/ Owns(p, op[p])
    BY <1>2, <2>1, OpenedIsOwned DEF Steady
  <2> HIDE DEF h
  <2>6. GetKeyId(h) = op[p].key => \A r \in NextMember(p, op[p], h) : Settles(p, r)
    BY <1>2, <2>5, NextSettles
  <2> QED BY <2>2, <2>3, <2>4, <2>6
<1>4. CASE Disclosed(p)
  <2>1. Moves(p, Abandon(p, op[p])) \/ Moves(p, WrapMemberIn(p, op[p], H(p)))
    BY <1>4 DEF Disclosed, Become, Moves
  <2>2. op[p].pc \in MemberPCs
    BY <1>4 DEF Disclosed, Answered, MemberPCs
  <2> QED BY <1>1, <1>2, <2>1, <2>2, FailSettles, WrapMemberInSettles
<1>5. ASSUME NEW i, IsOp(i), \E r \in NextMember(p, Done(i), H(p)) : Become(p, r),
             i.key = op[p].key, i.res = op[p].res, op[p].pc \in MemberPCs
      PROVE  \E r : Moves(p, r) /\ Settles(p, r)
  <2>1. PICK r \in NextMember(p, Done(i), H(p)) : Moves(p, r)
    BY <1>5 DEF Become, Moves
  <2>2. IsOp(Done(i)) /\ Alike(Done(i), i, {"todo", "cur"})
    BY <1>5, DoneIs
  <2>3. Done(i).key = op[p].key /\ Done(i).res = op[p].res
    BY <1>5, <2>2 DEF Alike, Fields
  <2>4. Steady(p, Done(i)) /\ (~Rotates(p) \/ Owns(p, Done(i)))
    BY <1>2, <1>5, <2>2, <2>3, SteadyAs
  <2> QED BY <1>2, <2>1, <2>4, NextSettles
<1>6. CASE NotEnrolled(p)
  <2> DEFINE i == [op[p] EXCEPT !.pending = @ \cup {op[p].cur}]
  <2>1. IsOp(i) /\ i.key = op[p].key /\ i.res = op[p].res
    BY <1>2 DEF IsOp, Fields
  <2>2. (\E r \in NextMember(p, Done(i), H(p)) : Become(p, r)) /\ op[p].pc \in MemberPCs
    BY <1>6 DEF NotEnrolled, MemberPCs
  <2> HIDE DEF i
  <2> QED BY <1>5, <2>1, <2>2
<1>7. CASE Rewrapped(p)
  <2> DEFINE i == [op[p] EXCEPT !.count = @ + 1]
  <2>1. IsOp(i) /\ i.key = op[p].key /\ i.res = op[p].res
    BY <1>2 DEF IsOp, Fields
  <2>2. (\E r \in NextMember(p, Done(i), H(p)) : Become(p, r)) /\ op[p].pc \in MemberPCs
    BY <1>7 DEF Rewrapped, Answered, MemberPCs
  <2> HIDE DEF i
  <2> QED BY <1>5, <2>1, <2>2
<1> QED BY <1>3, <1>4, <1>6, <1>7

LEMMA FailStepSettles ==
  ASSUME IInv, ToldInv, NEW p \in Ops, plan' = plan, Fail(p)
  PROVE  \E r : Moves(p, r) /\ Settles(p, r)
<1>1. IsOp(op[p]) /\ Shape(p, op[p]) /\ Told(p, op[p], Rows)
  BY OpKnown DEF ToldInv
<1>2. op[p].resp.status # "none"
  BY DEF Fail, Lost
<1>3. op[p].pc \in IF Kind[p] = "init" THEN InitPCs \ RestPCs ELSE OtherPCs \ RestPCs
  BY <1>1, <1>2 DEF Shape
<1>4. Moves(p, FailureResult(p))
  BY DEF Fail, Failed, Moves
<1>5. Kind[p] = "resume" => op[p].key \in KeyIds
  BY <1>1, <1>3 DEF Told, RestPCs
<1>6. \A res \in {"failed", "orphaned"} : Settles(p, End(op[p], res))
  BY <1>1, <1>5, LoudSettles
<1>7. CASE FailureResult(p) \in {End(op[p], "failed"), End(op[p], "orphaned")}
  BY <1>4, <1>6, <1>7
<1>8. CASE op[p].pc \in UnwrapPCs /\ FailureResult(p) = UnwrapFailed(p, op[p])
  <2>1. Steady(p, op[p]) /\ (~Rotates(p) \/ Precondition(p, op[p]) \/ Owns(p, op[p]))
    BY <1>8, MidSteady
  <2> QED BY <1>4, <1>8, <2>1, FailSettles
<1>9. CASE op[p].pc = "allwraps" /\ FailureResult(p) = Abandon(p, op[p])
  <2>1. Steady(p, op[p]) /\ (~Rotates(p) \/ Kind[p] = "resume" \/ Owns(p, op[p]))
    BY <1>9, MidSteady
  <2> QED BY <1>4, <1>9, <2>1, FailSettles
<1>10. CASE op[p].pc \in {"memberwrap", "disclose", "finalize"}
            /\ FailureResult(p) \in {WrapFailed(p, op[p]), Incomplete(op[p])}
  <2>1. Steady(p, op[p]) /\ (~Rotates(p) \/ Owns(p, op[p]))
    BY <1>10, MidSteady DEF MemberPCs, Rotates
  <2> QED BY <1>4, <1>10, <2>1, FailSettles, EndSettles
<1>11. \/ FailureResult(p) \in {End(op[p], "failed"), End(op[p], "orphaned")}
       \/ op[p].pc \in UnwrapPCs /\ FailureResult(p) = UnwrapFailed(p, op[p])
       \/ op[p].pc = "allwraps" /\ FailureResult(p) = Abandon(p, op[p])
       \/ /\ op[p].pc \in {"memberwrap", "disclose", "finalize"}
          /\ FailureResult(p) \in {WrapFailed(p, op[p]), Incomplete(op[p])}
  BY <1>3 DEF FailureResult, OtherPCs, SharedPCs, RestPCs, UnwrapPCs
<1> QED BY <1>7, <1>8, <1>9, <1>10, <1>11

LEMMA StepSettles ==
  ASSUME IInv, RemovedInv, ToldInv, NEW p \in Ops, plan' = plan, Step(p)
  PROVE  \E r : Moves(p, r) /\ Settles(p, r)
  BY BeginSettles, InitStepsSettle, UnwrapStepsSettle, SealSettles, RotateStepsSettle,
     MemberStepsSettle, FailStepSettles DEF Step

-----------------------------------------------------------------------------
LEMMA AnswerTells ==
  ASSUME IInv, ToldInv, RowsKept, NEW p \in Ops, NEW status, NEW data,
         Answer(p, status, data), plan' = plan,
         op[p].resp.status \in {"sent", "checked", "archived"},
         status = "ok" /\ op[p].pc \in MintPCs => \A j, k \in data : j = k,
         status = "ok" /\ op[p].pc \in WrapPCs => Given(Rows', op[p].post.user, op[p].post.key),
         status = "ok" /\ op[p].pc = "allwraps" =>
           \A w \in data : Given(Rows, Actor[p], w.key),
         \A k \in Minted' \ Minted :
           \/ op[p].pc = "retire"
           \/ op[p].pc \in MintPCs /\ (status = "lost" \/ (status = "ok" /\ k \in data))
  PROVE  ToldInv'
<1> DEFINE o == [op[p] EXCEPT !.resp = [status |-> status, data |-> data]]
<1>1. IsOp(op[p]) /\ Told(p, op[p], Rows)
  BY OpKnown DEF ToldInv
<1>2. op'[p] = o /\ \A q \in Ops : q # p => op'[q] = op[q]
  BY OpIs DEF Answer
<1>3. /\ o.resp.status = status /\ o.resp.data = data
      /\ \A f \in Fields \ {"resp"} : o[f] = op[p][f]
  BY <1>1 DEF IsOp, Fields
<1> HIDE DEF o
<1>4. /\ o.pc = op[p].pc /\ o.key = op[p].key /\ o.post = op[p].post
      /\ o.res = op[p].res /\ o.rot = op[p].rot
  BY <1>3 DEF Fields
<1>5. \A u, k : Given(Rows, u, k) => Given(Rows', u, k) /\ Given(Rows, u, k)'
  BY GivenStays
<1>6. ASSUME NEW q \in Ops PROVE Told(q, op'[q], Rows')
  <2>1. CASE q # p
    <3>1. Told(q, op[q], Rows)
      BY DEF ToldInv
    <3> QED BY <1>2, <1>5, <2>1, <3>1 DEF Told
  <2>2. CASE q = p
    <3>1. PastOwn(p, o) <=> PastOwn(p, op[p])
      BY <1>4 DEF PastOwn, Precondition
    <3>2. Told(p, o, Rows')
      BY <1>1, <1>3, <1>4, <1>5, <3>1 DEF Told
    <3> QED BY <1>2, <2>2, <3>2
  <2> QED BY <2>1, <2>2
<1>7. ASSUME NEW k \in Minted'
      PROVE  (\E u \in Users : Given(Rows, u, k)') \/ \E q \in Ops : Debt(op[q], k)'
  <2>1. \A q \in Ops : Debt(op[q], k)' <=> Debt(op'[q], k)
    BY DEF Debt
  <2>2. Debt(op[p], k) => Debt(o, k)
    BY <1>3, <1>4 DEF Debt
  <2>3. CASE k \in Minted
    <3>1. (\E u \in Users : Given(Rows, u, k)) \/ \E q \in Ops : Debt(op[q], k)
      BY <2>3 DEF ToldInv, Accounted
    <3>2. ASSUME NEW q \in Ops, Debt(op[q], k) PROVE Debt(op'[q], k)
      BY <1>2, <2>2, <3>2
    <3> QED BY <1>5, <2>1, <3>1, <3>2
  <2>4. CASE k \notin Minted
    <3>1. Debt(o, k)
      BY <1>3, <1>4, <2>4 DEF Debt
    <3> QED BY <1>2, <2>1, <3>1
  <2> QED BY <2>3, <2>4
<1>8. Accounted'
  BY <1>7 DEF Accounted
<1> QED BY <1>6, <1>8, ToldIs DEF ToldInv

LEMMA RefuseTells ==
  ASSUME IInv, ToldInv, RowsKept, NEW p \in Ops, plan' = plan, InFlight(p),
         NEW status \in {"lost", "401", "403", "409", "422", "423"},
         Answer(p, status, {}), UNCHANGED serverVars
  PROVE  ToldInv'
<1>1. Minted' = Minted
  BY DEF serverVars, keyRows, Minted
<1> QED BY <1>1, AnswerTells DEF InFlight

LEMMA ReplyTells ==
  ASSUME IInv, ToldInv, RowsKept, NEW p \in Ops, NEW data, Reply(p, data), plan' = plan,
         op[p].resp.status \in {"sent", "checked", "archived"},
         op[p].pc \notin MintPCs \cup {"retire"} => Minted' = Minted,
         op[p].pc \in MintPCs => (\A j, k \in data : j = k) /\ Minted' \ Minted \subseteq data,
         op[p].pc \in WrapPCs => Given(Rows', op[p].post.user, op[p].post.key),
         op[p].pc = "allwraps" => \A w \in data : Given(Rows, Actor[p], w.key)
  PROVE  ToldInv'
<1>1. CASE Answer(p, "ok", data)
  BY <1>1, AnswerTells
<1>2. CASE Answer(p, "lost", {})
  BY <1>2, AnswerTells
<1> QED BY <1>1, <1>2 DEF Reply

LEMMA ReadsTell ==
  ASSUME IInv, ToldInv, RowsKept, NEW p \in Ops, plan' = plan,
         \/ DropRequest(p) \/ Deny(p)
         \/ ServeState(p, {"state"}) \/ ServeLiveWrap(p) \/ ServeAllWraps(p, {"allwraps"})
         \/ ServeDisclose(p) \/ ServeFinalize(p)
  PROVE  ToldInv'
<1>1. InFlight(p) /\ op[p].resp.status = "sent"
  BY DEF DropRequest, Deny, ServeState, ServeLiveWrap, ServeAllWraps, ServeDisclose,
     ServeFinalize, Serving, InFlight
<1>2. CASE (\E status \in {"lost", "401", "403", "422"} : Answer(p, status, {}))
           /\ UNCHANGED serverVars
  BY <1>1, <1>2, RefuseTells
<1>3. ASSUME NEW data, Reply(p, data), epoch' = epoch,
             op[p].pc \notin MintPCs \cup WrapPCs \cup {"retire"},
             op[p].pc = "allwraps" => \A w \in data : Given(Rows, Actor[p], w.key)
      PROVE  ToldInv'
  <2>1. Minted' = Minted
    BY <1>3 DEF Minted
  <2> QED BY <1>1, <1>3, <2>1, ReplyTells
<1>4. CASE DropRequest(p) \/ Deny(p)
  BY <1>2, <1>4 DEF DropRequest, Deny, Refuse
<1>5. CASE ServeState(p, {"state"}) \/ ServeLiveWrap(p) \/ ServeDisclose(p)
  <2>1. /\ op[p].pc \in {"state", "livewrap", "disclose"} /\ UNCHANGED serverVars
        /\ (\E data : Reply(p, data)) \/ Answer(p, "422", {})
    BY <1>5 DEF ServeState, ServeLiveWrap, ServeDisclose, Serving, Refuse
  <2>2. op[p].pc \notin MintPCs \cup WrapPCs \cup {"retire", "allwraps"}
    BY <2>1 DEF MintPCs, WrapPCs
  <2>3. epoch' = epoch
    BY <2>1 DEF serverVars, keyRows
  <2> QED BY <1>2, <1>3, <2>1, <2>2, <2>3
<1>6. CASE ServeAllWraps(p, {"allwraps"})
  <2>1. op[p].pc = "allwraps" /\ UNCHANGED serverVars /\ Reply(p, AllWrapsOf(Actor[p]))
    BY <1>6 DEF ServeAllWraps, Serving
  <2>2. \A w \in AllWrapsOf(Actor[p]) : Given(Rows, Actor[p], w.key)
    BY DEF AllWrapsOf, WrapsOf, Given, Rows
  <2>3. epoch' = epoch /\ op[p].pc \notin MintPCs \cup WrapPCs \cup {"retire"}
    BY <2>1 DEF serverVars, keyRows, MintPCs, WrapPCs
  <2> QED BY <1>3, <2>1, <2>2, <2>3
<1>7. CASE ServeFinalize(p)
  <2>1. /\ op[p].pc = "finalize"
        /\ \/ Reply(p, {}) /\ Finalize(op[p].rot, op[p].key, op[p].count)
           \/ Answer(p, "422", {}) /\ UNCHANGED serverVars
    BY <1>7 DEF ServeFinalize, Serving, Refuse
  <2>2. op[p].pc \notin MintPCs \cup WrapPCs \cup {"retire", "allwraps"}
    BY <2>1 DEF MintPCs, WrapPCs
  <2>3. CASE Reply(p, {}) /\ Finalize(op[p].rot, op[p].key, op[p].count)
    BY <1>3, <2>2, <2>3 DEF Finalize, keyRows
  <2> QED BY <1>2, <2>1, <2>3
<1> QED BY <1>4, <1>5, <1>6, <1>7

LEMMA MintsTell ==
  ASSUME IInv, ToldInv, RowsKept, NEW p \in Ops, plan' = plan, ServeInit(p) \/ ServeRotate(p)
  PROVE  ToldInv'
<1>1. /\ InFlight(p) /\ op[p].resp.status = "sent"
      /\ op[p].pc \in MintPCs \cup {"retire"} /\ op[p].pc \notin WrapPCs \cup {"allwraps"}
  BY DEF ServeInit, ServeRotate, Serving, RotatePCs, InFlight, MintPCs, WrapPCs
<1>2. CASE \E status \in {"409", "423"} : Refuse(p, status)
  BY <1>1, <1>2, RefuseTells DEF Refuse
<1>3. ASSUME NEW k \in FreshIds, Reply(p, {k}), InitKey(k) \/ Rotate(k) PROVE ToldInv'
  <2>1. k \in KeyIds
    BY DEF FreshIds
  <2>2. epoch' = [epoch EXCEPT ![k] = NextEpoch]
    BY <1>3 DEF InitKey, Rotate
  <2>3. Minted' = Minted \cup {k}
    BY <2>1, <2>2, MintedGrows DEF IInv
  <2> QED BY <1>1, <1>3, <2>3, ReplyTells
<1> QED BY <1>2, <1>3 DEF ServeInit, ServeRotate

LEMMA WrapsTell ==
  ASSUME IInv, ToldInv, RowsKept, NEW p \in Ops, plan' = plan,
         \/ ServeWrapChecks(p) \/ ServeWrapInsert(p) \/ ServeArchive(p) \/ ServeDelete(p)
  PROVE  ToldInv'
<1>1. Shape(p, op[p])
  BY OpKnown
<1>2. CASE Refuse(p, "403") /\ InFlight(p)
  BY <1>2, RefuseTells DEF Refuse
<1>3. epoch' = epoch => Minted' = Minted
  BY DEF Minted
<1>4. CASE ServeWrapChecks(p)
  <2>1. /\ InFlight(p) /\ op[p].resp.status = "sent"
        /\ (CheckWrap(op[p].post) /\ Answer(p, "checked", {})) \/ Refuse(p, "403")
    BY <1>4 DEF ServeWrapChecks, Serving, InFlight
  <2>2. CASE CheckWrap(op[p].post) /\ Answer(p, "checked", {})
    <3>1. epoch' = epoch
      BY <2>2 DEF CheckWrap, keyRows
    <3> QED BY <1>3, <2>1, <2>2, <3>1, AnswerTells
  <2> QED BY <1>2, <2>1, <2>2
<1>5. CASE ServeWrapInsert(p)
  <2>1. op[p].resp.status = "checked" /\ InsertWrap(op[p].post) /\ Reply(p, {})
    BY <1>5 DEF ServeWrapInsert
  <2>2. op[p].pc \in WrapPCs /\ op[p].pc \notin MintPCs \cup {"retire", "allwraps"}
    BY <1>1, <2>1 DEF Shape, WrapPCs, MintPCs
  <2>3. epoch' = epoch /\ Given(Rows', op[p].post.user, op[p].post.key)
    BY <2>1 DEF InsertWrap, HasWrap, keyRows, Given, Rows
  <2> QED BY <1>3, <2>1, <2>2, <2>3, ReplyTells
<1>6. CASE ServeArchive(p)
  <2>1. /\ op[p].pc = "revoke" /\ InFlight(p) /\ op[p].resp.status = "sent"
        /\ (ArchiveWraps(Target[p]) /\ \E d : Answer(p, "archived", d)) \/ Refuse(p, "403")
    BY <1>6 DEF ServeArchive, Serving, InFlight
  <2>2. CASE ArchiveWraps(Target[p]) /\ \E d : Answer(p, "archived", d)
    <3>1. epoch' = epoch
      BY <2>2 DEF ArchiveWraps, keyRows
    <3> QED BY <1>3, <2>1, <2>2, <3>1, AnswerTells
  <2> QED BY <1>2, <2>1, <2>2
<1>7. CASE ServeDelete(p)
  <2>1. op[p].resp.status = "archived" /\ DeleteWraps(op[p].resp.data) /\ Reply(p, {})
    BY <1>7 DEF ServeDelete
  <2>2. op[p].pc \notin MintPCs \cup WrapPCs \cup {"allwraps", "retire"}
    BY <1>1, <2>1 DEF Shape, MintPCs, WrapPCs
  <2>3. epoch' = epoch
    BY <2>1 DEF DeleteWraps, keyRows
  <2> QED BY <1>3, <2>1, <2>2, <2>3, ReplyTells
<1> QED BY <1>4, <1>5, <1>6, <1>7

(* The environment moves no ceremony, and no row of the key tables.        *)
LEMMA OutsideTells ==
  ASSUME ToldInv, RowsKept, UNCHANGED <<plan, op, epoch>>
  PROVE  ToldInv'
<1>1. \A u, k : Given(Rows, u, k) => Given(Rows', u, k) /\ Given(Rows, u, k)'
  BY GivenStays
<1>2. Minted' = Minted
  BY DEF Minted
<1>3. \A p \in Ops : Told(p, op'[p], Rows')
  BY <1>1 DEF ToldInv, Told
<1>4. \A q \in Ops : \A k : Debt(op[q], k)' <=> Debt(op[q], k)
  BY DEF Debt
<1>5. Accounted'
  BY <1>1, <1>2, <1>4 DEF ToldInv, Accounted
<1> QED BY <1>3, <1>5, ToldIs DEF ToldInv

LEMMA EnvironmentKeys ==
  ASSUME Environment
  PROVE  UNCHANGED <<op, epoch>>
<1>1. PICK u \in Users :
        \/ TabEvent(u)
        \/ (Enroll(u) \/ Activate(u) \/ RemoveMember(u)) /\ UNCHANGED <<clientVars, outside>>
  BY DEF Environment
<1>2. CASE TabEvent(u)
  BY <1>2 DEF TabEvent, SignOut, Unload, PanicRow, PanicAborted, PanicDestroys, PanicCleanup,
     SignIn, EndSession, clientVars, serverVars, keyRows
<1>3. CASE (Enroll(u) \/ Activate(u) \/ RemoveMember(u)) /\ UNCHANGED <<clientVars, outside>>
  BY <1>3 DEF Enroll, Activate, RemoveMember, clientVars, keyRows
<1> QED BY <1>1, <1>2, <1>3

LEMMA ToldInit == Init => ToldInv
<1> SUFFICES ASSUME Init PROVE ToldInv
  OBVIOUS
<1>1. /\ op = [p \in Ops |-> NewOp] /\ plan \in Plans
      /\ epoch = [k \in KeyIds |-> IF plan.holders # {} /\ k = FirstKey THEN 1 ELSE 0]
      /\ wraps = {[user |-> u, key |-> FirstKey, mat |-> FirstMaterial] : u \in plan.holders}
  BY DEF Init, TabsInit
<1>2. NewOp.pc = "idle" /\ NewOp.resp.status = "none" /\ NewOp.res = "none"
  BY DEF NewOp, NoAnswer
<1> HIDE DEF NewOp
<1>3. \A p \in Ops : Told(p, op[p], Rows)
  BY <1>1, <1>2 DEF Told, PastOwn, MemberPCs, UnwrapPCs, ReportResults, MintPCs, WrapPCs
<1>4. plan.holders \subseteq Users
  BY <1>1, PlansAssumption, FirstAssumption
<1>5. ASSUME NEW k \in Minted PROVE \E u \in Users : Given(Rows, u, k)
  <2>1. k = FirstKey /\ plan.holders # {}
    BY <1>1 DEF Minted
  <2>2. PICK u \in plan.holders : TRUE
    BY <2>1
  <2>3. [user |-> u, key |-> FirstKey, mat |-> FirstMaterial] \in Rows
    BY <1>1 DEF Rows
  <2> QED BY <1>4, <2>1, <2>2, <2>3 DEF Given
<1> QED BY <1>3, <1>5 DEF ToldInv, Accounted

LEMMA ToldStep == IInv /\ RemovedInv /\ ToldInv /\ RowsKept /\ [Next]_vars => ToldInv'
<1> SUFFICES ASSUME IInv, RemovedInv, ToldInv, RowsKept, [Next]_vars PROVE ToldInv'
  OBVIOUS
<1>1. ASSUME NEW p \in Ops, Step(p), plan' = plan PROVE ToldInv'
  <2>1. Posts(p, op[p])
    BY DEF RemovedInv
  <2>2. PICK r : Moves(p, r) /\ Quiet(p, r)
    BY <1>1, <2>1, StepQuiet
  <2>3. PICK s : Moves(p, s) /\ Settles(p, s)
    BY <1>1, StepSettles
  <2>4. r = s
    <3>1. op'[p] = r
      BY <2>2, OpIs DEF Moves
    <3>2. op'[p] = s
      BY <2>3, OpIs DEF Moves
    <3> QED BY <3>1, <3>2
  <2> QED BY <2>2, <2>3, <2>4, SettlesKeeps DEF Quiet
<1>2. ASSUME NEW p \in Ops, Serve(p), plan' = plan PROVE ToldInv'
  BY <1>2, ReadsTell, MintsTell, WrapsTell DEF Serve
<1>3. CASE Environment /\ plan' = plan
  BY <1>3, EnvironmentKeys, OutsideTells
<1>4. CASE UNCHANGED vars
  BY <1>4, OutsideTells DEF vars, clientVars, serverVars, keyRows
<1> QED BY <1>1, <1>2, <1>3, <1>4 DEF Next

(* No silent dead key, under the one condition that no purge deletes a     *)
(* row inserted between its two statements: a live key that nobody was     *)
(* ever given has a ceremony under way or one that reported a failure,     *)
(* and a set-up that reports success gave its actor the key (AC-5d),       *)
(* whatever is lost, retried or done by ceremonies that share a tab.       *)
THEOREM NoDeadKeyIsSilent == Spec /\ [][RowsKept]_vars => []NoSilentDeadKey
<1>1. ToldInv => NoSilentDeadKey
  <2> SUFFICES ASSUME ToldInv PROVE NoSilentDeadKey
    OBVIOUS
  <2>1. \A u, k : EverWrapped(u, k) <=> Given(Rows, u, k)
    BY DEF EverWrapped, Given, Rows
  <2>2. ASSUME NEW k \in LiveKeys, \A u \in Users : ~EverWrapped(u, k)
        PROVE  \E p \in Ops : op[p].pc \notin {"idle", "ended"} \/ op[p].res \in LoudResults
    <3>1. PICK p \in Ops : Debt(op[p], k)
      BY <2>1, <2>2 DEF ToldInv, Accounted, LiveKeys
    <3> QED BY <3>1 DEF Debt, MintPCs, OwnPCs
  <2>3. ASSUME NEW p \in Ops, Kind[p] = "init", op[p].res = "ok"
        PROVE  EverWrapped(Actor[p], op[p].key)
    BY <2>1, <2>3 DEF ToldInv, Told, PastOwn
  <2> QED BY <2>2, <2>3 DEF NoSilentDeadKey
<1>2. Init => IInv /\ RemovedInv /\ ToldInv
  BY CeremoniesInit, RemovedInit, ToldInit
<1>3. (IInv /\ RemovedInv /\ ToldInv) /\ [Next /\ RowsKept]_vars
        => (IInv /\ RemovedInv /\ ToldInv)'
  <2>1. UNCHANGED vars => RowsKept
    BY DEF vars, serverVars, wrapRows, RowsKept, Rows
  <2> QED BY <2>1, CeremoniesStep, RemovedStep, ToldStep
<1>4. Spec /\ [][RowsKept]_vars => Init /\ [][Next /\ RowsKept]_vars
  BY PTL DEF Spec
<1> QED BY <1>1, <1>2, <1>3, <1>4, PTL

-----------------------------------------------------------------------------
(* Part 5: what a rotation reports.                                        *)
(*                                                                         *)
(* The argument: the members a rotation is through with are those of its   *)
(* list that are neither left nor pending, and each has been given its key *)
(* (Covered); their number is what it counts (Tally).  What it seals for a *)
(* member is its own key as no one else installs into its tab, and a wipe  *)
(* shows in the generation (Seals).                                        *)
GrantPCs == {"idle", "ended", "sealing", "memberwrap"} \cup UnwrapPCs

(* The remaining members a rotation has dealt with, but for the pending.   *)
Through(o) == o.rest \ (o.todo \cup o.pending)
Covered(o, R) == \A m \in Through(o) : Given(R, m, o.key)

Tally(p, o) ==
  /\ o.rest \subseteq Users \ {Actor[p]}
  /\ o.todo \subseteq o.rest /\ o.todo \cap o.pending = {}
  /\ o.count = 1 + Cardinality(Through(o))

(* How far a rotation under way is with its list.                          *)
Place(p, o) ==
  /\ o.pc \notin MemberPCs \cup {"finalize"} => o.todo = o.rest /\ o.pending = {}
  /\ o.pc \in UnwrapPCs => Precondition(p, o)
  /\ o.pc \in {"selfwrap", "allwraps"} \cup MemberPCs => o.key \in KeyIds
  /\ o.pc \in MemberPCs => o.cur \in o.todo
  /\ o.pc = "memberwrap" => o.post.user = o.cur /\ o.post.key = o.key
  /\ o.pc = "finalize" => o.todo = {}

Lists(p, o, R) ==
  /\ Kind[p] = "init" => o.count = 1
  /\ Kind[p] = "grant" => o.pc \in GrantPCs
  /\ Rotates(p) =>
       /\ Covered(o, R)
       /\ IF o.pc = "ended" THEN o.res \in ReportResults => o.todo \subseteq o.pending
          ELSE Tally(p, o) /\ Place(p, o)

(* The live key of the holder h is the one the rotation is to give out.    *)
Seals(p, o, h) ==
  Rotates(p) /\ o.pc \in MemberPCs =>
    /\ h.gen = o.gen => GetKeyId(h) = o.key
    /\ o.pc = "sealing" /\ HasLiveKey(h) => GetKeyId(h) = o.key

Lister(p, o, h) == Lists(p, o, Rows) /\ Seals(p, o, h)

Reach(R, k) == {u \in Users : Given(R, u, k)}
Counted ==
  \A d \in completed : d.count \in Nat /\ d.count <= Cardinality(Reach(Rows, d.key))

CoverInv ==
  /\ active \subseteq Users
  /\ TabsOfTheirOwn => Counted /\ \A p \in Ops : Lister(p, op[p], H(p))

(* A rotation's state, but for where it is.                                *)
Sound(p, o) == IsOp(o) /\ Tally(p, o) /\ Covered(o, Rows)

LEMMA SoundAs ==
  ASSUME NEW p \in Ops, NEW o, Sound(p, o), NEW i, IsOp(i),
         NEW S \in SUBSET (Fields \ {"rest", "todo", "pending", "count", "key"}),
         Alike(i, o, S)
  PROVE  Sound(p, i)
<1>1. i.rest = o.rest /\ i.todo = o.todo /\ i.pending = o.pending /\ i.count = o.count
      /\ i.key = o.key
  BY DEF Alike, Fields
<1> QED BY <1>1 DEF Sound, Tally, Covered, Through

LEMMA StopLists ==
  ASSUME NEW p \in Ops, NEW o, Sound(p, o), Rotates(p), NEW h
  PROVE  /\ \A res : res \notin ReportResults \/ o.todo \subseteq o.pending
                       => Lister(p, End(o, res), h)
         /\ Lister(p, Incomplete(o), h)
<1>1. ASSUME NEW res, res \notin ReportResults \/ o.todo \subseteq o.pending
      PROVE  Lister(p, End(o, res), h)
  <2> DEFINE r == End(o, res)
  <2>1. r.pc = "ended" /\ r.res = res /\ Alike(r, o, {"pc", "res", "resp"})
    BY EndIs DEF Sound
  <2> HIDE DEF r
  <2>2. r.rest = o.rest /\ r.todo = o.todo /\ r.pending = o.pending /\ r.key = o.key
    BY <2>1 DEF Alike, Fields
  <2>3. Lister(p, r, h)
    BY <1>1, <2>1, <2>2 DEF Lister, Lists, Seals, Sound, Covered, Through, Rotates, MemberPCs
  <2> QED BY <2>3 DEF r
<1>2. Lister(p, Incomplete(o), h)
  <2> DEFINE r == Incomplete(o)
  <2>1. /\ r.pc = "ended" /\ r.pending = o.pending \cup o.todo
        /\ Alike(r, o, {"pc", "res", "resp", "pending"})
    BY IncompleteIs DEF Sound
  <2> HIDE DEF r
  <2>2. r.rest = o.rest /\ r.todo = o.todo /\ r.key = o.key
    BY <2>1 DEF Alike, Fields
  <2>3. Lister(p, r, h)
    BY <2>1, <2>2 DEF Lister, Lists, Seals, Sound, Covered, Through, Rotates, MemberPCs
  <2> QED BY <2>3 DEF r
<1> QED BY <1>1, <1>2

(* However a rotation stops short, it lists who is left.                   *)
LEMMA FailLists ==
  ASSUME NEW p \in Ops, NEW o, Sound(p, o), Rotates(p), NEW h
  PROVE  /\ Lister(p, Abandon(p, o), h) /\ Lister(p, WrapFailed(p, o), h)
         /\ Lister(p, UnwrapFailed(p, o), h) /\ Lister(p, NotHolder(p, o), h)
<1>1. Lister(p, End(o, "failed"), h) /\ Lister(p, End(o, "cannot_resume_not_holder"), h)
  BY StopLists DEF ReportResults
<1>2. Lister(p, Incomplete(o), h)
  BY StopLists
<1>3. Kind[p] # "grant"
  BY DEF Rotates
<1> QED BY <1>1, <1>2, <1>3 DEF Abandon, WrapFailed, UnwrapFailed, NotHolder

LEMMA GoLists ==
  ASSUME NEW p \in Ops, NEW r, Sound(p, r), Rotates(p), r.pc # "ended", Place(p, r), NEW h,
         r.pc \in MemberPCs =>
           /\ h.gen = r.gen => GetKeyId(h) = r.key
           /\ r.pc = "sealing" /\ HasLiveKey(h) => GetKeyId(h) = r.key
  PROVE  Lister(p, r, h)
  BY DEF Lister, Lists, Seals, Sound, Rotates

(* The next member, or the end of the list.                                *)
LEMMA NextLists ==
  ASSUME NEW p \in Ops, NEW o, Sound(p, o), Rotates(p), o.key \in KeyIds, NEW h,
         h.gen = o.gen => GetKeyId(h) = o.key, NEW g, NEW r \in NextMember(p, o, g)
  PROVE  Lister(p, r, h)
<1>1. CASE IsOp(r) /\ r.pc = "disclose" /\ r.cur \in o.todo /\ Alike(r, o, {"pc", "resp", "cur"})
  <2>1. Sound(p, r)
    BY <1>1, SoundAs DEF Fields
  <2>2. r.key = o.key /\ r.gen = o.gen /\ r.todo = o.todo
    BY <1>1 DEF Alike, Fields
  <2>3. Place(p, r)
    BY <1>1, <2>2 DEF Place, MemberPCs, UnwrapPCs
  <2> QED BY <1>1, <2>1, <2>2, <2>3, GoLists
<1>2. CASE r = Abandon(p, o)
  BY <1>2, FailLists
<1>3. CASE IsOp(r) /\ o.todo = {} /\ r.pc = "finalize" /\ Alike(r, o, {"pc", "resp"})
  <2>1. Sound(p, r)
    BY <1>3, SoundAs DEF Fields
  <2>2. r.todo = o.todo
    BY <1>3 DEF Alike, Fields
  <2>3. Place(p, r)
    BY <1>3, <2>2 DEF Place, MemberPCs, UnwrapPCs
  <2> QED BY <1>3, <2>1, <2>3, GoLists DEF MemberPCs
<1>4. IsOp(o)
  BY DEF Sound
<1> QED BY <1>1, <1>2, <1>3, <1>4, NextIs

-----------------------------------------------------------------------------
(* Every client segment of a rotation.                                     *)
LEMMA SoundSelf ==
  ASSUME IInv, NEW p \in Ops, Rotates(p), op[p].pc # "ended", Lister(p, op[p], H(p))
  PROVE  /\ IsOp(op[p]) /\ Shape(p, op[p]) /\ H(p).gen \in Nat
         /\ Sound(p, op[p]) /\ Place(p, op[p]) /\ Kind[p] \notin {"init", "grant"}
<1>1. IsOp(op[p]) /\ Shape(p, op[p]) /\ H(p).gen \in Nat
  BY OpKnown
<1> QED BY <1>1 DEF Lister, Lists, Sound, Rotates

LEMMA BeginLists ==
  ASSUME IInv, CoverInv, NEW p \in Ops, plan' = plan, Begin(p), Rotates(p),
         Lister(p, op[p], H(p))
  PROVE  \E r : Moves(p, r) /\ Lister(p, r, H(p)')
<1> DEFINE g == [op[p] EXCEPT !.gen = H(p).gen]
           n == [g EXCEPT !.rest = active \ {Actor[p]}]
           o == [n EXCEPT !.todo = active \ {Actor[p]}]
<1>1. /\ IsOp(op[p]) /\ Shape(p, op[p]) /\ op[p].pc = "idle" /\ H(p).gen \in Nat
      /\ Sound(p, op[p]) /\ Place(p, op[p]) /\ Kind[p] \in {"rotate", "resume"}
  BY SoundSelf DEF Begin, Rotates
<1>2. IsOp(g) /\ \A f \in Fields \ {"gen"} : g[f] = op[p][f]
  BY <1>1 DEF IsOp, Fields
<1>3. [op[p] EXCEPT !.gen = H(p).gen, !.rest = active \ {Actor[p]},
                    !.todo = active \ {Actor[p]}] = o
  BY <1>1 DEF IsOp, Fields
<1> HIDE DEF g
<1>4. IsOp(n) /\ n.rest = active \ {Actor[p]} /\ \A f \in Fields \ {"rest"} : n[f] = g[f]
  BY <1>2 DEF IsOp, Fields
<1> HIDE DEF n
<1>5. IsOp(o) /\ o.todo = active \ {Actor[p]} /\ \A f \in Fields \ {"todo"} : o[f] = n[f]
  BY <1>4 DEF IsOp, Fields
<1> HIDE DEF o
<1>6. /\ o.rest = active \ {Actor[p]} /\ o.pending = {} /\ o.count = op[p].count
      /\ o.rot = op[p].rot /\ o.key = op[p].key
  <2>1. op[p].pending = {}
    BY <1>1 DEF Place, MemberPCs
  <2> QED BY <1>2, <1>4, <1>5, <2>1 DEF Fields
<1>7. Sound(p, o)
  <2>1. Through(o) = {} /\ Through(op[p]) = {}
    BY <1>1, <1>5, <1>6 DEF Through, Place, MemberPCs
  <2>2. Tally(p, o)
    BY <1>1, <1>5, <1>6, <2>1 DEF CoverInv, Sound, Tally
  <2> QED BY <1>5, <2>1, <2>2 DEF Sound, Covered
<1>8. CASE Kind[p] = "rotate"
  <2>1. PICK pc \in {"rotate", "state"} : Moves(p, Request(p, o, pc))
    BY <1>3, <1>8 DEF Begin, Become, Moves
  <2> DEFINE r == Request(p, o, pc)
  <2>2. IsOp(r) /\ r.pc = pc /\ Alike(r, o, {"pc", "resp"})
    BY <1>5, AskIs
  <2> HIDE DEF r
  <2>3. Sound(p, r)
    BY <1>7, <2>2, SoundAs DEF Fields
  <2>4. /\ r.rest = o.rest /\ r.todo = o.todo /\ r.pending = o.pending /\ r.rot = o.rot
    BY <2>2 DEF Alike, Fields
  <2>5. op[p].rot = NoKey
    BY <1>1, <1>8 DEF Shape, Minter
  <2>6. Place(p, r)
    BY <1>5, <1>6, <1>8, <2>2, <2>4, <2>5
    DEF Place, MemberPCs, UnwrapPCs, Precondition
  <2>7. Lister(p, r, H(p)')
    BY <2>2, <2>3, <2>6, GoLists DEF MemberPCs
  <2> QED BY <2>1, <2>7 DEF r
<1>9. CASE Kind[p] = "resume"
  <2>1. PICK k \in started : Moves(p, Fetch(p, Keyed(o, k), "allwraps"))
    BY <1>3, <1>9 DEF Begin, Become, Moves, Keyed
  <2> DEFINE i == Keyed(o, k)
             r == Fetch(p, i, "allwraps")
  <2>2. k \in KeyIds
    BY DEF IInv, Typed
  <2>3. IsOp(i) /\ i.key = k /\ Alike(i, o, {"rot", "key"})
    BY <1>5, <2>2, KeyedIs
  <2> HIDE DEF i
  <2>4. i.rest = o.rest /\ i.todo = o.todo /\ i.pending = o.pending /\ i.count = o.count
    BY <2>3 DEF Alike, Fields
  <2>5. Sound(p, i)
    BY <1>5, <1>6, <1>7, <2>3, <2>4 DEF Sound, Tally, Covered, Through
  <2>6. IsOp(r) /\ r.pc = "allwraps" /\ Alike(r, i, {"pc", "resp", "fetched", "since"})
    BY <2>3, FetchIs
  <2> HIDE DEF r
  <2>7. Sound(p, r)
    BY <2>5, <2>6, SoundAs DEF Fields
  <2>8. r.rest = i.rest /\ r.todo = i.todo /\ r.pending = i.pending /\ r.key = i.key
    BY <2>6 DEF Alike, Fields
  <2>9. Place(p, r)
    BY <1>5, <1>6, <2>2, <2>3, <2>4, <2>6, <2>8 DEF Place, MemberPCs, UnwrapPCs
  <2>10. Lister(p, r, H(p)')
    BY <2>6, <2>7, <2>9, GoLists DEF MemberPCs
  <2> QED BY <2>1, <2>10 DEF r, i
<1> QED BY <1>1, <1>8, <1>9

LEMMA UnwrapStepsList ==
  ASSUME IInv, NEW p \in Ops, plan' = plan, UnwrapProbed(p) \/ UnwrapFetched(p), Rotates(p),
         Lister(p, op[p], H(p))
  PROVE  \E r : Moves(p, r) /\ Lister(p, r, H(p)')
<1>1. op[p].pc \in UnwrapPCs
  BY DEF UnwrapProbed, UnwrapFetched, Answered, UnwrapPCs
<1>2. IsOp(op[p]) /\ Sound(p, op[p]) /\ Place(p, op[p])
  BY <1>1, SoundSelf DEF UnwrapPCs
<1>3. /\ Precondition(p, op[p]) /\ op[p].todo = op[p].rest /\ op[p].pending = {}
  BY <1>1, <1>2 DEF Place, UnwrapPCs, MemberPCs
<1>4. \/ Moves(p, Fetch(p, op[p], "livewrap"))
      \/ Moves(p, UnwrapFailed(p, op[p]))
      \/ Moves(p, Request(p, op[p], "rotate"))
  BY <1>3 DEF UnwrapProbed, UnwrapFetched, Become, Install, Moves
<1>5. Lister(p, UnwrapFailed(p, op[p]), H(p)')
  BY <1>2, FailLists
<1>6. ASSUME NEW r, IsOp(r), r.pc \in {"livewrap", "rotate"},
             Alike(r, op[p], {"pc", "resp", "fetched", "since"})
      PROVE  Lister(p, r, H(p)')
  <2>1. Sound(p, r)
    BY <1>2, <1>6, SoundAs DEF Fields
  <2>2. r.rest = op[p].rest /\ r.todo = op[p].todo /\ r.pending = op[p].pending
        /\ r.rot = op[p].rot
    BY <1>6 DEF Alike, Fields
  <2>3. Place(p, r)
    BY <1>3, <1>6, <2>2 DEF Place, UnwrapPCs, MemberPCs, Precondition
  <2> QED BY <1>6, <2>1, <2>3, GoLists DEF MemberPCs
<1>7. Lister(p, Fetch(p, op[p], "livewrap"), H(p)')
  BY <1>2, <1>6, FetchIs
<1>8. Lister(p, Request(p, op[p], "rotate"), H(p)')
  BY <1>2, <1>6, AskIs DEF Alike
<1> QED BY <1>4, <1>5, <1>7, <1>8

LEMMA SealLists ==
  ASSUME IInv, NEW p \in Ops, plan' = plan, Seal(p), Rotates(p), Lister(p, op[p], H(p))
  PROVE  \E r : Moves(p, r) /\ Lister(p, r, H(p)')
<1>1. op[p].pc = "sealing" /\ H(p)' = H(p)
  BY DEF Seal, Become, H, Actor
<1>2. /\ IsOp(op[p]) /\ Sound(p, op[p]) /\ Place(p, op[p])
  BY <1>1, SoundSelf
<1>3. /\ H(p).gen = op[p].gen => GetKeyId(H(p)) = op[p].key
      /\ HasLiveKey(H(p)) => GetKeyId(H(p)) = op[p].key
  BY <1>1 DEF Lister, Seals, MemberPCs
<1>4. CASE ~HasLiveKey(H(p))
  <2> DEFINE i == [op[p] EXCEPT !.cap = NoCap]
  <2>1. Moves(p, WrapFailed(p, i))
    BY <1>4 DEF Seal, Become, Moves
  <2>2. IsOp(i) /\ Alike(i, op[p], {"cap"})
    BY <1>2 DEF IsOp, Fields, Alike
  <2> HIDE DEF i
  <2>3. Sound(p, i)
    BY <1>2, <2>2, SoundAs DEF Fields
  <2> QED BY <2>1, <2>3, FailLists
<1>5. CASE HasLiveKey(H(p))
  <2> DEFINE w == SealedWrap(op[p], H(p))
             s == [op[p] EXCEPT !.post = w]
             i == [s EXCEPT !.cap = NoCap]
             r == Request(p, i, "memberwrap")
  <2>1. Moves(p, Request(p, [op[p] EXCEPT !.post = w, !.cap = NoCap], "memberwrap"))
    BY <1>5 DEF Seal, Become, Moves
  <2>2. w.user = op[p].cur /\ w.key = op[p].key
    BY <1>3, <1>5 DEF SealedWrap
  <2> HIDE DEF w
  <2>3. [op[p] EXCEPT !.post = w, !.cap = NoCap] = i
    BY <1>2 DEF IsOp, Fields
  <2>4. IsOp(s) /\ s.post = w /\ \A f \in Fields \ {"post"} : s[f] = op[p][f]
    BY <1>2 DEF IsOp, Fields
  <2> HIDE DEF s
  <2>5. IsOp(i) /\ \A f \in Fields \ {"cap"} : i[f] = s[f]
    BY <2>4 DEF IsOp, Fields
  <2> HIDE DEF i
  <2>6. IsOp(r) /\ r.pc = "memberwrap" /\ Alike(r, i, {"pc", "resp"})
    BY <2>5, AskIs
  <2>7. Moves(p, r)
    BY <2>1, <2>3
  <2> HIDE DEF r
  <2>8. r.post = w /\ Alike(r, op[p], {"pc", "resp", "post", "cap"})
    BY <2>4, <2>5, <2>6 DEF Alike, Fields
  <2>9. Sound(p, r)
    BY <1>2, <2>6, <2>8, SoundAs DEF Fields
  <2>10. /\ r.todo = op[p].todo /\ r.cur = op[p].cur /\ r.key = op[p].key
         /\ r.gen = op[p].gen
    BY <2>8 DEF Alike, Fields
  <2>11. Place(p, r)
    BY <1>1, <1>2, <2>2, <2>6, <2>8, <2>10 DEF Place, MemberPCs, UnwrapPCs
  <2>12. Lister(p, r, H(p)')
    BY <1>1, <1>3, <2>6, <2>9, <2>10, <2>11, GoLists
  <2> QED BY <2>7, <2>12
<1> QED BY <1>4, <1>5

LEMMA RotateStepsList ==
  ASSUME IInv, NEW p \in Ops, plan' = plan, Rotates(p), Lister(p, op[p], H(p)),
         RotateMinted(p) \/ RotateRevoked(p) \/ RotateSelfWrapped(p) \/ Finalized(p)
  PROVE  \E r : Moves(p, r) /\ Lister(p, r, H(p)')
<1>1. op[p].pc \in {"rotate", "revoke", "selfwrap", "finalize"}
  BY DEF RotateMinted, RotateRevoked, RotateSelfWrapped, Finalized, Answered
<1>2. /\ IsOp(op[p]) /\ Sound(p, op[p]) /\ Place(p, op[p]) /\ Shape(p, op[p])
  BY <1>1, SoundSelf
<1>3. op[p].pc # "finalize" => op[p].todo = op[p].rest /\ op[p].pending = {}
  BY <1>1, <1>2 DEF Place, MemberPCs
<1>4. CASE RotateMinted(p)
  <2>1. PICK k \in op[p].resp.data : Moves(p, Request(p, Keyed(op[p], k), "revoke"))
    BY <1>4 DEF RotateMinted, Become, Moves, Keyed
  <2> DEFINE i == Keyed(op[p], k)
             r == Request(p, i, "revoke")
  <2>2. op[p].pc = "rotate" /\ op[p].pc \in MintPCs /\ op[p].resp.status = "ok"
    BY <1>4 DEF RotateMinted, Answered, MintPCs
  <2>3. k \in KeyIds
    BY <1>2, <2>2 DEF Shape
  <2>4. IsOp(i) /\ i.key = k /\ Alike(i, op[p], {"rot", "key"})
    BY <1>2, <2>3, KeyedIs
  <2> HIDE DEF i
  <2>5. /\ i.rest = op[p].rest /\ i.todo = op[p].todo /\ i.pending = op[p].pending
        /\ i.count = op[p].count
    BY <2>4 DEF Alike, Fields
  <2>6. Sound(p, i)
    BY <1>2, <1>3, <2>2, <2>4, <2>5 DEF Sound, Tally, Covered, Through
  <2>7. IsOp(r) /\ r.pc = "revoke" /\ Alike(r, i, {"pc", "resp"})
    BY <2>4, AskIs
  <2> HIDE DEF r
  <2>8. r.rest = i.rest /\ r.todo = i.todo /\ r.pending = i.pending
    BY <2>7 DEF Alike, Fields
  <2>9. Sound(p, r)
    BY <2>6, <2>7, SoundAs DEF Fields
  <2>10. Place(p, r)
    BY <1>3, <2>2, <2>5, <2>7, <2>8 DEF Place, UnwrapPCs, MemberPCs
  <2>11. Lister(p, r, H(p)')
    BY <2>7, <2>9, <2>10, GoLists DEF MemberPCs
  <2> QED BY <2>1, <2>11 DEF i, r
<1>5. CASE RotateRevoked(p)
  <2> DEFINE i == Posting(op[p], OwnWrap(p, op[p].key))
             r == Request(p, i, "selfwrap")
  <2>1. Moves(p, r) /\ op[p].pc = "revoke"
    BY <1>5 DEF RotateRevoked, Become, Moves, Posting, Answered
  <2>2. op[p].key \in KeyIds
    BY <1>2, <2>1 DEF Shape
  <2>3. IsOp(i) /\ Alike(i, op[p], {"post"})
    BY <1>2, PostingIs
  <2> HIDE DEF i
  <2>4. IsOp(r) /\ r.pc = "selfwrap" /\ Alike(r, i, {"pc", "resp"})
    BY <2>3, AskIs
  <2> HIDE DEF r
  <2>5. Alike(r, op[p], {"pc", "resp", "post"})
    BY <2>3, <2>4 DEF Alike
  <2>6. Sound(p, r)
    BY <1>2, <2>4, <2>5, SoundAs DEF Fields
  <2>7. /\ r.rest = op[p].rest /\ r.todo = op[p].todo /\ r.pending = op[p].pending
        /\ r.key = op[p].key
    BY <2>5 DEF Alike, Fields
  <2>8. Place(p, r)
    BY <1>3, <2>1, <2>2, <2>4, <2>7 DEF Place, UnwrapPCs, MemberPCs
  <2>9. Lister(p, r, H(p)')
    BY <2>4, <2>6, <2>8, GoLists DEF MemberPCs
  <2> QED BY <2>1, <2>9
<1>6. CASE RotateSelfWrapped(p)
  <2> DEFINE r == Fetch(p, op[p], "allwraps")
  <2>1. Moves(p, r) /\ op[p].pc = "selfwrap"
    BY <1>6 DEF RotateSelfWrapped, Become, Moves, Answered
  <2>2. IsOp(r) /\ r.pc = "allwraps" /\ Alike(r, op[p], {"pc", "resp", "fetched", "since"})
    BY <1>2, FetchIs
  <2> HIDE DEF r
  <2>3. Sound(p, r)
    BY <1>2, <2>2, SoundAs DEF Fields
  <2>4. /\ r.rest = op[p].rest /\ r.todo = op[p].todo /\ r.pending = op[p].pending
        /\ r.key = op[p].key
    BY <2>2 DEF Alike, Fields
  <2>5. Place(p, r)
    BY <1>2, <1>3, <2>1, <2>2, <2>4 DEF Place, UnwrapPCs, MemberPCs
  <2>6. Lister(p, r, H(p)')
    BY <2>2, <2>3, <2>5, GoLists DEF MemberPCs
  <2> QED BY <2>1, <2>6
<1>7. CASE Finalized(p)
  <2>1. (\E res : Moves(p, End(op[p], res))) /\ op[p].pc = "finalize"
    BY <1>7 DEF Finalized, Become, Moves, Answered
  <2>2. op[p].todo = {}
    BY <1>2, <2>1 DEF Place
  <2> QED BY <1>2, <2>1, <2>2, StopLists
<1> QED BY <1>4, <1>5, <1>6, <1>7

LEMMA AllFetchedLists ==
  ASSUME IInv, NEW p \in Ops, plan' = plan, Rotates(p), Lister(p, op[p], H(p)), AllFetched(p)
  PROVE  \E r : Moves(p, r) /\ Lister(p, r, H(p)')
<1> DEFINE h == Populate(H(p), OpenedAll(p))
<1>1. /\ IsOp(op[p]) /\ Sound(p, op[p]) /\ Place(p, op[p]) /\ op[p].pc = "allwraps"
  BY SoundSelf DEF AllFetched, Answered
<1>2. op[p].key \in KeyIds
  BY <1>1 DEF Place
<1>3. \/ Moves(p, Abandon(p, op[p])) \/ Moves(p, NotHolder(p, op[p]))
      \/ /\ H(p)' = h /\ GetKeyId(h) = op[p].key
         /\ \E r \in NextMember(p, op[p], h) : Moves(p, r)
  <2>1. Actor[p] \in Users /\ holder = [u \in Users |-> holder[u]] /\ Actor' = Actor
    BY PlanKnown DEF IInv, Typed, Actor
  <2>2. \A o : Install(p, h, o) => H(p)' = h
    BY <2>1 DEF Install, H
  <2> HIDE DEF h
  <2>3. \/ Become(p, Abandon(p, op[p])) \/ Install(p, h, NotHolder(p, op[p]))
        \/ GetKeyId(h) = op[p].key /\ \E r \in NextMember(p, op[p], h) : Install(p, h, r)
    BY DEF AllFetched, h
  <2> QED BY <2>2, <2>3 DEF Become, Install, Moves
<1> HIDE DEF h
<1>4. /\ Lister(p, Abandon(p, op[p]), H(p)') /\ Lister(p, NotHolder(p, op[p]), H(p)')
  BY <1>1, FailLists
<1>5. GetKeyId(h) = op[p].key => \A r \in NextMember(p, op[p], h) : Lister(p, r, h)
  BY <1>1, <1>2, NextLists
<1> QED BY <1>3, <1>4, <1>5

LEMMA MemberStepsList ==
  ASSUME IInv, ToldInv, NEW p \in Ops, plan' = plan, Rotates(p), Lister(p, op[p], H(p)),
         Disclosed(p) \/ NotEnrolled(p) \/ Rewrapped(p)
  PROVE  \E r : Moves(p, r) /\ Lister(p, r, H(p)')
<1>1. op[p].pc \in {"disclose", "memberwrap"}
  BY DEF Disclosed, NotEnrolled, Rewrapped, Answered
<1>2. /\ IsOp(op[p]) /\ Sound(p, op[p]) /\ Place(p, op[p]) /\ H(p).gen \in Nat
      /\ op[p].key \in KeyIds /\ op[p].cur \in op[p].todo
  BY <1>1, SoundSelf DEF Place, MemberPCs
<1>3. H(p).gen = op[p].gen => GetKeyId(H(p)) = op[p].key
  BY <1>1 DEF Lister, Seals, MemberPCs
<1>4. H(p)' = H(p)
  BY DEF Disclosed, NotEnrolled, Rewrapped, Become, H, Actor
<1>5. CASE Disclosed(p)
  <2>1. CASE H(p).gen # op[p].gen
    <3>1. Moves(p, Abandon(p, op[p]))
      BY <1>5, <2>1 DEF Disclosed, Become, Moves
    <3> QED BY <1>2, <3>1, FailLists
  <2>2. CASE H(p).gen = op[p].gen
    <3> DEFINE r == WrapMemberIn(p, op[p], H(p))
    <3>1. Moves(p, r)
      BY <1>5, <2>2 DEF Disclosed, Become, Moves
    <3>2. HasLiveKey(H(p)) /\ GetKeyId(H(p)) = op[p].key
      BY <1>2, <1>3, <2>2, NoKeyAssumption DEF GetKeyId
    <3>3. /\ IsOp(r) /\ r.pc = "sealing" /\ Alike(r, op[p], {"pc", "resp", "cap", "inner"})
      BY <1>2, <3>2, WrapMemberInIs
    <3> HIDE DEF r
    <3>4. Sound(p, r)
      BY <1>2, <3>3, SoundAs DEF Fields
    <3>5. r.key = op[p].key /\ r.todo = op[p].todo /\ r.cur = op[p].cur
      BY <3>3 DEF Alike, Fields
    <3>6. Place(p, r)
      BY <1>2, <3>3, <3>5 DEF Place, UnwrapPCs, MemberPCs
    <3>7. Lister(p, r, H(p)')
      BY <1>4, <3>2, <3>3, <3>4, <3>5, <3>6, GoLists
    <3> QED BY <3>1, <3>7
  <2> QED BY <2>1, <2>2
<1>6. CASE NotEnrolled(p)
  <2> DEFINE i == [op[p] EXCEPT !.pending = @ \cup {op[p].cur}]
             o == Done(i)
  <2>1. PICK r \in NextMember(p, o, H(p)) : Moves(p, r)
    BY <1>6 DEF NotEnrolled, Become, Moves
  <2>2. /\ IsOp(i) /\ i.pending = op[p].pending \cup {op[p].cur}
        /\ \A f \in Fields \ {"pending"} : i[f] = op[p][f]
    BY <1>2 DEF IsOp, Fields
  <2> HIDE DEF i
  <2>3. IsOp(o) /\ o.todo = i.todo \ {i.cur} /\ Alike(o, i, {"todo", "cur"})
    BY <2>2, DoneIs
  <2> HIDE DEF o
  <2>4. /\ o.rest = op[p].rest /\ o.todo = op[p].todo \ {op[p].cur}
        /\ o.pending = op[p].pending \cup {op[p].cur} /\ o.count = op[p].count
        /\ o.key = op[p].key /\ o.gen = op[p].gen
    BY <2>2, <2>3 DEF Alike, Fields
  <2>5. Through(o) = Through(op[p])
    BY <1>2, <2>4 DEF Through, Sound, Tally
  <2>6. Tally(p, o)
    BY <1>2, <2>4, <2>5 DEF Sound, Tally
  <2>7. Sound(p, o)
    BY <1>2, <2>3, <2>4, <2>5, <2>6 DEF Sound, Covered
  <2>8. Lister(p, r, H(p)')
    BY <1>2, <1>3, <1>4, <2>1, <2>4, <2>7, NextLists
  <2> QED BY <2>1, <2>8
<1>7. CASE Rewrapped(p)
  <2> DEFINE i == [op[p] EXCEPT !.count = @ + 1]
             o == Done(i)
  <2>1. PICK r \in NextMember(p, o, H(p)) : Moves(p, r)
    BY <1>7 DEF Rewrapped, Become, Moves
  <2>2. /\ IsOp(i) /\ i.count = op[p].count + 1
        /\ \A f \in Fields \ {"count"} : i[f] = op[p][f]
    BY <1>2 DEF IsOp, Fields
  <2> HIDE DEF i
  <2>3. IsOp(o) /\ o.todo = i.todo \ {i.cur} /\ Alike(o, i, {"todo", "cur"})
    BY <2>2, DoneIs
  <2> HIDE DEF o
  <2>4. /\ o.rest = op[p].rest /\ o.todo = op[p].todo \ {op[p].cur}
        /\ o.pending = op[p].pending /\ o.count = op[p].count + 1
        /\ o.key = op[p].key /\ o.gen = op[p].gen
    BY <2>2, <2>3 DEF Alike, Fields
  <2>5. Given(Rows, op[p].cur, op[p].key)
    <3>1. op[p].pc = "memberwrap" /\ op[p].resp.status = "ok"
      BY <1>7 DEF Rewrapped, Answered
    <3> QED BY <1>2, <3>1 DEF ToldInv, Told, WrapPCs, Place
  <2>6. Through(o) = Through(op[p]) \cup {op[p].cur} /\ op[p].cur \notin Through(op[p])
    BY <1>2, <2>4 DEF Through, Sound, Tally
  <2>7. Tally(p, o)
    <3>1. IsFiniteSet(Through(op[p]))
      <4>1. Through(op[p]) \subseteq Users
        BY <1>2 DEF Through, Sound, Tally
      <4> QED BY <4>1, UsersAssumption, FS_Subset
    <3>2. Cardinality(Through(o)) = Cardinality(Through(op[p])) + 1
      BY <2>6, <3>1, FS_AddElement
    <3>3. Cardinality(Through(op[p])) \in Nat
      BY <3>1, FS_CardinalityType
    <3>4. o.count = 1 + Cardinality(Through(o))
      BY <1>2, <2>4, <3>2, <3>3 DEF Sound, Tally
    <3> QED BY <1>2, <2>4, <3>4 DEF Sound, Tally
  <2>8. Sound(p, o)
    BY <1>2, <2>3, <2>4, <2>5, <2>6, <2>7 DEF Sound, Covered
  <2>9. Lister(p, r, H(p)')
    BY <1>2, <1>3, <1>4, <2>1, <2>4, <2>8, NextLists
  <2> QED BY <2>1, <2>9
<1> QED BY <1>5, <1>6, <1>7

LEMMA FailStepLists ==
  ASSUME IInv, NEW p \in Ops, plan' = plan, Rotates(p), Lister(p, op[p], H(p)), Fail(p)
  PROVE  \E r : Moves(p, r) /\ Lister(p, r, H(p)')
<1>1. Shape(p, op[p]) /\ op[p].resp.status # "none"
  BY OpKnown DEF Fail, Lost
<1>2. op[p].pc \in OtherPCs \ RestPCs
  BY <1>1 DEF Shape, Rotates
<1>3. Sound(p, op[p]) /\ Kind[p] \notin {"init", "grant"}
  BY <1>2, SoundSelf DEF RestPCs
<1>4. Moves(p, FailureResult(p))
  BY DEF Fail, Failed, Moves
<1>5. FailureResult(p) \in
        {End(op[p], "failed"), End(op[p], "orphaned"), UnwrapFailed(p, op[p]),
         Abandon(p, op[p]), WrapFailed(p, op[p]), Incomplete(op[p])}
  BY <1>2, <1>3 DEF FailureResult, OtherPCs, SharedPCs, RestPCs
<1>6. Lister(p, End(op[p], "failed"), H(p)') /\ Lister(p, End(op[p], "orphaned"), H(p)')
  BY <1>3, StopLists DEF ReportResults
<1> QED BY <1>3, <1>4, <1>5, <1>6, StopLists, FailLists

-----------------------------------------------------------------------------
(* The other ceremonies: set-up counts its actor alone, and a grant does   *)
(* not finalize.                                                           *)
LEMMA InitKindLists ==
  ASSUME IInv, NEW p \in Ops, plan' = plan, Step(p), Kind[p] = "init", op[p].count = 1
  PROVE  \E r : Moves(p, r) /\ Lister(p, r, H(p)')
<1>1. IsOp(op[p]) /\ Shape(p, op[p]) /\ op[p].pc \in InitPCs
  BY OpKnown DEF Shape
<1>2. ASSUME NEW r, r.count = 1 PROVE Lister(p, r, H(p)')
  BY <1>2 DEF Lister, Lists, Seals, Rotates
<1>3. ASSUME NEW o, IsOp(o), o.count = 1, NEW pc PROVE Lister(p, Request(p, o, pc), H(p)')
  <2>1. Request(p, o, pc).count = 1
    BY <1>3, AskIs DEF Alike, Fields
  <2> QED BY <1>2, <2>1
<1>4. ASSUME NEW res PROVE Lister(p, End(op[p], res), H(p)')
  <2>1. End(op[p], res).count = 1
    BY <1>1, EndIs DEF Alike, Fields
  <2> QED BY <1>2, <2>1
<1>5. CASE InitMinted(p) \/ RepairMinted(p)
  <2>1. PICK pc \in {"firstwrap", "repairwrap"}, k \in op[p].resp.data :
          Moves(p, Request(p, Posting(Keyed(op[p], k), OwnWrap(p, k)), pc))
    BY <1>5 DEF InitMinted, RepairMinted, PostOwnWrap, Become, Moves, Keyed, Posting
  <2> DEFINE i == Posting(Keyed(op[p], k), OwnWrap(p, k))
  <2>2. op[p].pc \in MintPCs /\ op[p].resp.status = "ok"
    BY <1>5 DEF InitMinted, RepairMinted, Answered, MintPCs
  <2>3. k \in KeyIds
    BY <2>2, MintedFits
  <2>4. IsOp(i) /\ i.count = 1
    BY <1>1, <2>3, KeyedIs, PostingIs DEF Alike, Fields
  <2> HIDE DEF i
  <2>5. Lister(p, Request(p, i, pc), H(p)')
    BY <1>3, <2>4
  <2> QED BY <2>1, <2>5 DEF i
<1>6. CASE \/ InitProbed(p) \/ InitWrapLost(p) \/ RepairWrapped(p)
           \/ InitRaced(p) \/ InitWrapped(p) \/ InitRetired(p) \/ Begin(p) \/ Finalized(p)
  <2>1. \/ \E res : Moves(p, End(op[p], res))
        \/ \E pc : Moves(p, Request(p, op[p], pc))
    BY <1>6 DEF InitProbed, InitWrapLost, RepairWrapped, InitRaced, InitWrapped, InitRetired,
       Begin, Finalized, Become, Moves
  <2> QED BY <1>1, <1>3, <1>4, <2>1
<1>7. CASE Fail(p)
  <2>1. FailureResult(p) = End(op[p], "failed")
    BY <1>1 DEF FailureResult, InitPCs, SharedPCs
  <2>2. Moves(p, FailureResult(p))
    BY <1>7 DEF Fail, Failed, Moves
  <2> QED BY <1>4, <2>1, <2>2
<1>8. op[p].pc \notin {"sealing", "livewrap", "memberwrap", "rotate", "revoke", "selfwrap",
                       "allwraps", "disclose"}
  BY <1>1 DEF InitPCs, SharedPCs
<1>9. ~(\/ Seal(p) \/ UnwrapProbed(p) \/ UnwrapFetched(p) \/ GrantPosted(p) \/ RotateMinted(p)
        \/ RotateRevoked(p) \/ RotateSelfWrapped(p) \/ AllFetched(p) \/ Disclosed(p)
        \/ NotEnrolled(p) \/ Rewrapped(p))
  BY <1>8 DEF Seal, UnwrapProbed, UnwrapFetched, GrantPosted, RotateMinted, RotateRevoked,
     RotateSelfWrapped, AllFetched, Disclosed, NotEnrolled, Rewrapped, Answered
<1> QED BY <1>5, <1>6, <1>7, <1>9 DEF Step

LEMMA GrantKindLists ==
  ASSUME IInv, NEW p \in Ops, plan' = plan, Step(p), Kind[p] = "grant", op[p].pc \in GrantPCs
  PROVE  \E r : Moves(p, r) /\ Lister(p, r, H(p)')
<1>1. IsOp(op[p]) /\ Shape(p, op[p]) /\ H(p).gen \in Nat
  BY OpKnown
<1>2. ASSUME NEW r, r.pc \in GrantPCs PROVE Lister(p, r, H(p)')
  BY <1>2 DEF Lister, Lists, Seals, Rotates
<1>3. ASSUME NEW o, IsOp(o)
      PROVE  /\ \A res : Lister(p, End(o, res), H(p)')
             /\ Lister(p, WrapFailed(p, o), H(p)') /\ Lister(p, UnwrapFailed(p, o), H(p)')
  <2>1. \A res : Lister(p, End(o, res), H(p)')
    BY <1>2, <1>3, EndIs DEF GrantPCs
  <2> QED BY <2>1 DEF WrapFailed, UnwrapFailed
<1>4. CASE Begin(p)
  <2> DEFINE i == [op[p] EXCEPT !.cur = Target[p]]
  <2>1. Moves(p, WrapMemberIn(p, i, H(p)))
    BY <1>4 DEF Begin, Become, Moves
  <2>2. IsOp(i)
    BY <1>1 DEF IsOp, Fields
  <2> HIDE DEF i
  <2>3. WrapMemberIn(p, i, H(p)).pc \in {"sealing", "state"}
    BY <1>1, <2>2, WrapMemberInIs
  <2> QED BY <1>2, <2>1, <2>3 DEF GrantPCs, UnwrapPCs
<1>5. CASE Seal(p)
  <2>1. (\E i : Moves(p, WrapFailed(p, i)) /\ i = [op[p] EXCEPT !.cap = NoCap])
        \/ \E w : Moves(p, Request(p, [op[p] EXCEPT !.post = w, !.cap = NoCap], "memberwrap"))
    BY <1>5 DEF Seal, Become, Moves
  <2>2. IsOp([op[p] EXCEPT !.cap = NoCap])
    BY <1>1 DEF IsOp, Fields
  <2>3. ASSUME NEW w, Moves(p, Request(p, [op[p] EXCEPT !.post = w, !.cap = NoCap], "memberwrap"))
        PROVE  \E r : Moves(p, r) /\ Lister(p, r, H(p)')
    <3> DEFINE s == [op[p] EXCEPT !.post = w]
               i == [s EXCEPT !.cap = NoCap]
    <3>1. [op[p] EXCEPT !.post = w, !.cap = NoCap] = i
      BY <1>1 DEF IsOp, Fields
    <3>2. IsOp(s)
      BY <1>1 DEF IsOp, Fields
    <3> HIDE DEF s
    <3>3. IsOp(i)
      BY <3>2 DEF IsOp, Fields
    <3> HIDE DEF i
    <3>4. Request(p, i, "memberwrap").pc = "memberwrap"
      BY <3>3, AskIs
    <3> QED BY <1>2, <2>3, <3>1, <3>4 DEF GrantPCs
  <2> QED BY <1>3, <2>1, <2>2, <2>3
<1>6. CASE UnwrapProbed(p) \/ UnwrapFetched(p)
  <2>1. \/ Moves(p, Fetch(p, op[p], "livewrap"))
        \/ Moves(p, UnwrapFailed(p, op[p]))
        \/ \E h : Moves(p, Capture(op[p], h))
    BY <1>6 DEF UnwrapProbed, UnwrapFetched, Become, Install, Moves, Precondition
  <2>2. Fetch(p, op[p], "livewrap").pc = "livewrap"
    BY <1>1, FetchIs
  <2>3. \A h : Capture(op[p], h).pc = "sealing"
    BY <1>1, CaptureIs
  <2> QED BY <1>1, <1>2, <1>3, <2>1, <2>2, <2>3 DEF GrantPCs, UnwrapPCs
<1>7. CASE GrantPosted(p)
  <2>1. Moves(p, End(op[p], "ok"))
    BY <1>7 DEF GrantPosted, Become, Moves
  <2> QED BY <1>1, <1>3, <2>1
<1>8. CASE Fail(p)
  <2>1. op[p].pc \in {"memberwrap"} \cup UnwrapPCs
    <3>1. op[p].resp.status # "none"
      BY <1>8 DEF Fail, Lost
    <3> QED BY <1>1, <3>1 DEF GrantPCs, Shape, RestPCs
  <2>2. FailureResult(p) \in {UnwrapFailed(p, op[p]), WrapFailed(p, op[p])}
    BY <2>1 DEF FailureResult, UnwrapPCs
  <2>3. Moves(p, FailureResult(p))
    BY <1>8 DEF Fail, Failed, Moves
  <2> QED BY <1>1, <1>3, <2>2, <2>3
<1>9. ~(\/ InitProbed(p) \/ InitMinted(p) \/ InitRaced(p) \/ InitWrapped(p) \/ InitWrapLost(p)
        \/ InitRetired(p) \/ RepairMinted(p) \/ RepairWrapped(p) \/ RotateMinted(p)
        \/ RotateRevoked(p) \/ RotateSelfWrapped(p) \/ AllFetched(p) \/ Disclosed(p)
        \/ NotEnrolled(p) \/ Rewrapped(p) \/ Finalized(p))
  BY DEF GrantPCs, UnwrapPCs, InitProbed, InitMinted, InitRaced, InitWrapped, InitWrapLost,
     InitRetired, RepairMinted, RepairWrapped, RotateMinted, RotateRevoked,
     RotateSelfWrapped, AllFetched, Disclosed, NotEnrolled, Rewrapped, Finalized, Answered
<1> QED BY <1>4, <1>5, <1>6, <1>7, <1>8, <1>9 DEF Step

LEMMA StepLists ==
  ASSUME IInv, ToldInv, CoverInv, NEW p \in Ops, plan' = plan, Step(p),
         Lister(p, op[p], H(p))
  PROVE  \E r : Moves(p, r) /\ Lister(p, r, H(p)')
<1>1. Kind[p] \in {"init", "grant", "rotate", "resume"} /\ Shape(p, op[p])
  BY PlanKnown, OpKnown DEF IInv
<1>2. CASE Kind[p] = "init"
  BY <1>2, InitKindLists DEF Lister, Lists
<1>3. CASE Kind[p] = "grant"
  BY <1>3, GrantKindLists DEF Lister, Lists
<1>4. CASE Rotates(p)
  <2>1. op[p].pc \in OtherPCs /\ Kind[p] \notin {"init", "grant"}
    BY <1>1, <1>4 DEF Shape, Rotates
  <2>2. ~(\/ InitProbed(p) \/ InitMinted(p) \/ InitRaced(p) \/ InitWrapped(p) \/ InitWrapLost(p)
          \/ InitRetired(p) \/ RepairMinted(p) \/ RepairWrapped(p) \/ GrantPosted(p))
    BY <2>1 DEF OtherPCs, SharedPCs, InitProbed, InitMinted, InitRaced, InitWrapped,
       InitWrapLost, InitRetired, RepairMinted, RepairWrapped, GrantPosted, Answered
  <2> QED BY <1>4, <2>2, BeginLists, UnwrapStepsList, SealLists, RotateStepsList,
             AllFetchedLists, MemberStepsList, FailStepLists DEF Step
<1> QED BY <1>1, <1>2, <1>3, <1>4 DEF Rotates

(* A segment changes no holder but its tab's, and no table.                *)
Aside(u) == \A v \in Users \ {u} : holder'[v] = holder[v]

LEMMA StepAside ==
  ASSUME IInv, NEW p \in Ops, Step(p)
  PROVE  Aside(Actor[p]) /\ UNCHANGED serverVars
<1>1. Actor[p] \in Users /\ holder = [u \in Users |-> holder[u]]
  BY PlanKnown DEF IInv, Typed
<1>2. ASSUME NEW h, holder' = [holder EXCEPT ![Actor[p]] = h] PROVE Aside(Actor[p])
  BY <1>1, <1>2 DEF Aside
<1>3. \A o : Become(p, o) => Aside(Actor[p]) /\ UNCHANGED serverVars
  BY DEF Become, Aside
<1>4. \A h, o : Install(p, h, o) => Aside(Actor[p]) /\ UNCHANGED serverVars
  BY <1>2 DEF Install
<1>5. \A o : Failed(p, o) => Aside(Actor[p]) /\ UNCHANGED serverVars
  <2>1. WipeTab(Actor[p]) => Aside(Actor[p])
    BY <1>2 DEF WipeTab
  <2> QED BY <2>1 DEF Failed, Aside
<1>6. CASE \/ Begin(p) \/ Fail(p) \/ Seal(p) \/ UnwrapProbed(p) \/ UnwrapFetched(p)
           \/ GrantPosted(p) \/ AllFetched(p)
  <2>1. Kind[p] \in {"init", "grant", "rotate", "resume"}
    BY PlanKnown DEF IInv
  <2>2. Begin(p) => \E o : Become(p, o)
    BY <2>1 DEF Begin
  <2>3. Fail(p) => \E o : Failed(p, o)
    BY DEF Fail
  <2>4. Seal(p) \/ UnwrapProbed(p) \/ GrantPosted(p) => \E o : Become(p, o)
    BY DEF Seal, UnwrapProbed, GrantPosted
  <2>5. UnwrapFetched(p) \/ AllFetched(p)
          => (\E o : Become(p, o)) \/ \E h, o : Install(p, h, o)
    BY DEF UnwrapFetched, AllFetched
  <2> QED BY <1>3, <1>4, <1>5, <1>6, <2>2, <2>3, <2>4, <2>5
<1>7. CASE \/ InitProbed(p) \/ InitMinted(p) \/ InitRaced(p) \/ InitWrapped(p)
           \/ InitWrapLost(p) \/ InitRetired(p) \/ RepairMinted(p) \/ RepairWrapped(p)
           \/ RotateMinted(p) \/ RotateRevoked(p) \/ RotateSelfWrapped(p)
           \/ Disclosed(p) \/ NotEnrolled(p) \/ Rewrapped(p) \/ Finalized(p)
  <2>1. \E o : Become(p, o)
    BY <1>7 DEF InitProbed, InitMinted, PostOwnWrap, InitRaced, InitWrapped, InitWrapLost,
       InitRetired, RepairMinted, RepairWrapped, RotateMinted, RotateRevoked,
       RotateSelfWrapped, Disclosed, NotEnrolled, Rewrapped, Finalized
  <2> QED BY <1>3, <2>1
<1> QED BY <1>6, <1>7 DEF Step

-----------------------------------------------------------------------------
LEMMA ReachGrows ==
  ASSUME RowsKept, NEW k
  PROVE  /\ IsFiniteSet(Reach(Rows, k)) /\ Cardinality(Reach(Rows, k)) \in Nat
         /\ Cardinality(Reach(Rows', k)) \in Nat
         /\ Cardinality(Reach(Rows, k)) <= Cardinality(Reach(Rows', k))
<1>1. Reach(Rows, k) \subseteq Reach(Rows', k) /\ Reach(Rows', k) \subseteq Users
  BY GivenStays DEF Reach
<1>2. IsFiniteSet(Reach(Rows', k))
  BY <1>1, UsersAssumption, FS_Subset
<1>3. IsFiniteSet(Reach(Rows, k)) /\ Cardinality(Reach(Rows, k)) <= Cardinality(Reach(Rows', k))
  BY <1>1, <1>2, FS_Subset
<1> QED BY <1>2, <1>3, FS_CardinalityType

LEMMA CountedStays ==
  ASSUME RowsKept, Counted, completed' = completed
  PROVE  Counted'
<1>1. Counted' <=>
        \A d \in completed' : d.count \in Nat /\ d.count <= Cardinality(Reach(Rows', d.key))
  BY DEF Counted, Reach, Given
<1> QED BY <1>1, ReachGrows DEF Counted

LEMMA ListerIs ==
  ASSUME plan' = plan, NEW p \in Ops
  PROVE  Lister(p, op[p], H(p))' <=> Lists(p, op'[p], Rows') /\ Seals(p, op'[p], H(p)')
  BY DEF Lister, Lists, Seals, Tally, Place, Covered, Through, Given, Rotates, Precondition,
     Kind, Actor

(* What a list says stays true while its ceremony does not move.           *)
LEMMA ListsStay ==
  ASSUME RowsKept, NEW p \in Ops, NEW o, Lists(p, o, Rows), NEW r, Alike(r, o, {"resp"})
  PROVE  Lists(p, r, Rows')
<1>1. /\ r.rest = o.rest /\ r.todo = o.todo /\ r.pending = o.pending /\ r.count = o.count
      /\ r.key = o.key /\ r.rot = o.rot /\ r.pc = o.pc /\ r.res = o.res /\ r.post = o.post
      /\ r.cur = o.cur
  BY DEF Alike, Fields
<1>2. Covered(o, Rows) => Covered(r, Rows')
  BY <1>1, GivenStays DEF Covered, Through
<1>3. Tally(p, o) => Tally(p, r)
  BY <1>1 DEF Tally, Through
<1>4. Place(p, o) => Place(p, r)
  BY <1>1 DEF Place, Precondition
<1> QED BY <1>1, <1>2, <1>3, <1>4 DEF Lists

LEMMA CoverMoves ==
  ASSUME IInv, CoverInv, RowsKept, NEW p \in Ops, NEW r, Moves(p, r), Aside(Actor[p]),
         TabsOfTheirOwn => Lister(p, r, H(p)')
  PROVE  CoverInv'
<1>1. /\ op'[p] = r /\ \A q \in Ops : q # p => op'[q] = op[q]
      /\ plan' = plan /\ Rows' = Rows /\ completed' = completed /\ active' = active
  BY OpIs DEF Moves, serverVars, wrapRows, rotations, membership, Rows
<1>2. SUFFICES ASSUME TabsOfTheirOwn PROVE Counted' /\ \A q \in Ops : Lister(q, op[q], H(q))'
  <2>1. TabsOfTheirOwn' <=> TabsOfTheirOwn
    BY <1>1 DEF TabsOfTheirOwn, Actor
  <2> QED BY <1>1, <2>1 DEF CoverInv
<1>3. Counted'
  BY <1>1, <1>2, CountedStays DEF CoverInv
<1>4. Lister(p, op[p], H(p))'
  BY <1>1, <1>2, ListerIs DEF Lister
<1>5. ASSUME NEW q \in Ops, q # p PROVE Lister(q, op[q], H(q))'
  <2>1. Actor[q] \in Users \ {Actor[p]}
    BY <1>2, <1>5, PlanKnown DEF IInv, TabsOfTheirOwn
  <2>2. H(q)' = H(q)
    BY <1>1, <2>1 DEF Aside, H, Actor
  <2>3. Lister(q, op[q], H(q))
    BY <1>2 DEF CoverInv
  <2> QED BY <1>1, <1>5, <2>2, <2>3, ListerIs DEF Lister
<1> QED BY <1>3, <1>4, <1>5

(* The server answers p: no holder changes.                                *)
LEMMA AnswerCovers ==
  ASSUME IInv, CoverInv, RowsKept, NEW p \in Ops, NEW status, NEW data,
         Answer(p, status, data), UNCHANGED <<plan, holder, active>>,
         TabsOfTheirOwn => Counted'
  PROVE  CoverInv'
<1> DEFINE o == [op[p] EXCEPT !.resp = [status |-> status, data |-> data]]
<1>1. IsOp(op[p])
  BY OpKnown
<1>2. op'[p] = o /\ \A q \in Ops : q # p => op'[q] = op[q]
  BY OpIs DEF Answer
<1>3. Alike(o, op[p], {"resp"})
  BY <1>1 DEF IsOp, Fields, Alike
<1>4. o.pc = op[p].pc /\ o.gen = op[p].gen /\ o.key = op[p].key
  BY <1>1 DEF IsOp, Fields
<1> HIDE DEF o
<1>5. ASSUME TabsOfTheirOwn, NEW q \in Ops PROVE Lister(q, op[q], H(q))'
  <2>1. Lists(q, op[q], Rows) /\ Seals(q, op[q], H(q))
    BY <1>5 DEF CoverInv, Lister
  <2>2. H(q)' = H(q)
    BY DEF H, Actor
  <2>3. Lists(q, op'[q], Rows')
    <3>1. Alike(op[q], op[q], {"resp"})
      BY DEF Alike
    <3> QED BY <1>2, <1>3, <2>1, <3>1, ListsStay
  <2>4. Seals(q, op'[q], H(q)')
    BY <1>2, <1>4, <2>1, <2>2 DEF Seals
  <2> QED BY <2>3, <2>4, ListerIs
<1>6. TabsOfTheirOwn' <=> TabsOfTheirOwn
  BY DEF TabsOfTheirOwn, Actor
<1>7. TabsOfTheirOwn' => Counted' /\ \A q \in Ops : Lister(q, op[q], H(q))'
  BY <1>5, <1>6
<1> QED BY <1>7 DEF CoverInv

(* A rotation that completes has given its key to all it counts.           *)
LEMMA FinalizeCovers ==
  ASSUME IInv, ToldInv, CoverInv, RowsKept, NEW p \in Ops, plan' = plan,
         op[p].pc = "finalize", Finalize(op[p].rot, op[p].key, op[p].count), TabsOfTheirOwn
  PROVE  Counted'
<1>1. IsOp(op[p]) /\ Shape(p, op[p]) /\ Actor[p] \in Users
      /\ Kind[p] \in {"init", "grant", "rotate", "resume"}
  BY OpKnown, PlanKnown DEF IInv
<1>2. Told(p, op[p], Rows) /\ Lister(p, op[p], H(p)) /\ Counted
  BY DEF ToldInv, CoverInv
<1>3. Kind[p] # "grant"
  BY <1>2 DEF Lister, Lists, GrantPCs, UnwrapPCs
<1>4. Actor[p] \in Reach(Rows, op[p].key)
  BY <1>1, <1>2, <1>3 DEF Told, PastOwn, Rotates, Reach
<1>5. IsFiniteSet(Reach(Rows, op[p].key)) /\ Cardinality(Reach(Rows, op[p].key)) \in Nat
  BY ReachGrows
<1>6. op[p].count \in Nat /\ op[p].count <= Cardinality(Reach(Rows, op[p].key))
  <2>1. CASE Kind[p] = "init"
    <3>1. op[p].count = 1
      BY <1>2, <2>1 DEF Lister, Lists
    <3>2. Cardinality(Reach(Rows, op[p].key)) # 0
      BY <1>4, <1>5, FS_EmptySet
    <3> QED BY <1>5, <3>1, <3>2
  <2>2. CASE Rotates(p)
    <3> DEFINE done == Through(op[p])
    <3>1. Sound(p, op[p])
      BY <1>2, <2>2, SoundSelf
    <3>2. done \subseteq Reach(Rows, op[p].key) /\ Actor[p] \notin done
      BY <3>1 DEF Sound, Tally, Covered, Through, Reach
    <3>3. op[p].count = 1 + Cardinality(done)
      BY <3>1 DEF Sound, Tally
    <3> HIDE DEF done
    <3>4. IsFiniteSet(done)
      BY <1>5, <3>2, FS_Subset
    <3>5. Cardinality(done) \in Nat /\ Cardinality(done \cup {Actor[p]}) = Cardinality(done) + 1
      BY <3>2, <3>4, FS_CardinalityType, FS_AddElement
    <3>6. Cardinality(done \cup {Actor[p]}) <= Cardinality(Reach(Rows, op[p].key))
      <4>1. done \cup {Actor[p]} \subseteq Reach(Rows, op[p].key)
        BY <1>4, <3>2
      <4> QED BY <1>5, <4>1, FS_Subset
    <3> QED BY <3>3, <3>5, <3>6
  <2> QED BY <1>1, <1>3, <2>1, <2>2 DEF Rotates
<1> DEFINE c == [rotation |-> op[p].rot, key |-> op[p].key, count |-> op[p].count]
<1>7. completed' = completed \cup {c} /\ c.key = op[p].key /\ c.count = op[p].count
  BY DEF Finalize
<1> HIDE DEF c
<1>8. \A d \in completed' : d.count \in Nat /\ d.count <= Cardinality(Reach(Rows, d.key))
  BY <1>2, <1>6, <1>7 DEF Counted
<1>9. Counted' <=>
        \A d \in completed' : d.count \in Nat /\ d.count <= Cardinality(Reach(Rows', d.key))
  BY DEF Counted, Reach, Given
<1> QED BY <1>8, <1>9, ReachGrows

LEMMA ServeCovers ==
  ASSUME IInv, ToldInv, CoverInv, RowsKept, NEW p \in Ops, plan' = plan, Serve(p)
  PROVE  CoverInv'
<1>1. ASSUME completed' = completed, TabsOfTheirOwn PROVE Counted'
  BY <1>1, CountedStays DEF CoverInv
<1>2. ASSUME NEW status, NEW data, Answer(p, status, data),
             UNCHANGED <<holder, active, completed>>
      PROVE  CoverInv'
  BY <1>1, <1>2, AnswerCovers
<1>3. ASSUME NEW status, Refuse(p, status) PROVE CoverInv'
  <2>1. Answer(p, status, {}) /\ UNCHANGED <<holder, active, completed>>
    BY <1>3 DEF Refuse, serverVars, membership, rotations
  <2> QED BY <1>2, <2>1
<1>4. ASSUME NEW data, Reply(p, data), UNCHANGED <<active, completed>> PROVE CoverInv'
  <2>1. holder' = holder /\ \E status, answer : Answer(p, status, answer)
    BY <1>4 DEF Reply
  <2> QED BY <1>2, <1>4, <2>1
<1>5. CASE DropRequest(p) \/ Deny(p)
  <2>1. DropRequest(p) => \E status, answer :
          Answer(p, status, answer) /\ UNCHANGED <<holder, active, completed>>
    BY DEF DropRequest, serverVars, membership, rotations
  <2> QED BY <1>2, <1>3, <1>5, <2>1 DEF Deny
<1>6. CASE ServeState(p, {"state"}) \/ ServeLiveWrap(p) \/ ServeAllWraps(p, {"allwraps"})
  <2>1. (\E data : Reply(p, data)) /\ UNCHANGED <<active, completed>>
    BY <1>6 DEF ServeState, ServeLiveWrap, ServeAllWraps, serverVars, membership, rotations
  <2> QED BY <1>4, <2>1
<1>7. CASE ServeDisclose(p)
  <2>1. \/ Reply(p, {}) /\ UNCHANGED <<active, completed>>
        \/ Refuse(p, "422")
    BY <1>7 DEF ServeDisclose, serverVars, membership, rotations
  <2> QED BY <1>3, <1>4, <2>1
<1>8. CASE ServeInit(p) \/ ServeRotate(p)
  <2>1. \/ \E k : Reply(p, {k}) /\ UNCHANGED <<active, completed>>
        \/ \E status : Refuse(p, status)
    BY <1>8 DEF ServeInit, ServeRotate, InitKey, Rotate, membership, rotations
  <2> QED BY <1>3, <1>4, <2>1
<1>9. CASE ServeWrapChecks(p) \/ ServeArchive(p)
  <2>1. \/ \E status, data : Answer(p, status, data) /\ UNCHANGED <<holder, active, completed>>
        \/ Refuse(p, "403")
    BY <1>9 DEF ServeWrapChecks, ServeArchive, CheckWrap, ArchiveWraps, membership, rotations
  <2> QED BY <1>2, <1>3, <2>1
<1>10. CASE ServeWrapInsert(p) \/ ServeDelete(p)
  <2>1. Reply(p, {}) /\ UNCHANGED <<active, completed>>
    BY <1>10 DEF ServeWrapInsert, ServeDelete, InsertWrap, DeleteWraps, membership, rotations
  <2> QED BY <1>4, <2>1
<1>11. CASE ServeFinalize(p)
  <2>1. op[p].pc = "finalize"
    BY <1>11 DEF ServeFinalize, Serving
  <2>2. CASE Refuse(p, "422")
    BY <1>3, <2>2
  <2>3. CASE Finalize(op[p].rot, op[p].key, op[p].count) /\ Reply(p, {})
    <3>1. TabsOfTheirOwn => Counted'
      BY <2>1, <2>3, FinalizeCovers
    <3>2. UNCHANGED <<holder, active>> /\ \E status, answer : Answer(p, status, answer)
      BY <2>3 DEF Finalize, Reply, membership
    <3> QED BY <3>1, <3>2, AnswerCovers
  <2> QED BY <1>11, <2>2, <2>3 DEF ServeFinalize
<1> QED BY <1>5, <1>6, <1>7, <1>8, <1>9, <1>10, <1>11 DEF Serve

(* A wipe from outside shows in the generation, and leaves no live key.    *)
LEMMA SealsWiped ==
  ASSUME IInv, NEW p \in Ops, Seals(p, op[p], H(p))
  PROVE  Seals(p, op[p], Wipe(H(p)))
<1>1. H(p).gen \in Nat /\ op[p].gen \in Nat /\ op[p].gen <= H(p).gen
  BY OpKnown DEF IInv, Heap, Timed, IsOp
<1>2. Wipe(H(p)).gen = H(p).gen + 1 /\ ~HasLiveKey(Wipe(H(p)))
  BY DEF Wipe, NewHolder, HasLiveKey
<1>3. Wipe(H(p)).gen # op[p].gen
  BY <1>1, <1>2
<1> QED BY <1>2, <1>3 DEF Seals

LEMMA EnvironmentHolders ==
  ASSUME IInv, Environment
  PROVE  /\ \A u \in Users : holder'[u] \in {holder[u], Wipe(holder[u])}
         /\ UNCHANGED <<completed, op>>
         /\ active \subseteq Users => active' \subseteq Users
<1>1. holder = [u \in Users |-> holder[u]]
  BY DEF IInv, Typed
<1>2. ASSUME NEW u \in Users, WipeTab(u)
      PROVE  \A v \in Users : holder'[v] \in {holder[v], Wipe(holder[v])}
  BY <1>1, <1>2 DEF WipeTab
<1>3. PICK u \in Users :
        \/ TabEvent(u)
        \/ (Enroll(u) \/ Activate(u) \/ RemoveMember(u)) /\ UNCHANGED <<clientVars, outside>>
  BY DEF Environment
<1>4. CASE TabEvent(u)
  <2>1. WipeTab(u) \/ holder' = holder
    BY <1>4 DEF TabEvent, SignOut, Unload, PanicRow, PanicAborted, PanicDestroys,
       PanicCleanup, SignIn, clientVars
  <2>2. UNCHANGED <<completed, op, active>>
    <3>1. CASE SignOut(u) \/ Unload(u) \/ PanicRow(u) \/ PanicAborted(u)
               \/ PanicDestroys(u) \/ PanicCleanup(u)
      BY <3>1 DEF SignOut, Unload, PanicRow, PanicAborted, PanicDestroys, PanicCleanup,
         clientVars, serverVars, membership, rotations
    <3>2. CASE SignIn(u) \/ (EndSession(u) /\ UNCHANGED <<clientVars, outside>>)
      BY <3>2 DEF SignIn, EndSession, clientVars, membership, rotations
    <3> QED BY <1>4, <3>1, <3>2 DEF TabEvent
  <2> QED BY <1>2, <2>1, <2>2
<1>5. CASE (Enroll(u) \/ Activate(u) \/ RemoveMember(u)) /\ UNCHANGED <<clientVars, outside>>
  <2>1. UNCHANGED <<holder, op, completed>>
    BY <1>5 DEF Enroll, Activate, RemoveMember, clientVars, rotations
  <2>2. active \subseteq Users => active' \subseteq Users
    BY <1>5 DEF Enroll, Activate, RemoveMember, membership
  <2> QED BY <2>1, <2>2
<1> QED BY <1>3, <1>4, <1>5

LEMMA OutsideCovers ==
  ASSUME IInv, CoverInv, RowsKept, UNCHANGED <<plan, op, completed>>,
         \A u \in Users : holder'[u] \in {holder[u], Wipe(holder[u])},
         active \subseteq Users => active' \subseteq Users
  PROVE  CoverInv'
<1>1. TabsOfTheirOwn' <=> TabsOfTheirOwn
  BY DEF TabsOfTheirOwn, Actor
<1>2. ASSUME TabsOfTheirOwn, NEW q \in Ops PROVE Lister(q, op[q], H(q))'
  <2>1. Lists(q, op[q], Rows) /\ Seals(q, op[q], H(q))
    BY <1>2 DEF CoverInv, Lister
  <2>2. H(q)' \in {H(q), Wipe(H(q))}
    BY PlanKnown DEF IInv, H, Actor
  <2>3. Lists(q, op'[q], Rows')
    BY <2>1, ListsStay DEF Alike
  <2>4. Seals(q, op[q], H(q)')
    BY <2>1, <2>2, SealsWiped
  <2> QED BY <2>3, <2>4, ListerIs
<1>3. TabsOfTheirOwn => Counted'
  BY CountedStays DEF CoverInv
<1>4. TabsOfTheirOwn' => Counted' /\ \A q \in Ops : Lister(q, op[q], H(q))'
  BY <1>1, <1>2, <1>3
<1> QED BY <1>4 DEF CoverInv

LEMMA CoverInit == Init => CoverInv
<1> SUFFICES ASSUME Init PROVE CoverInv
  OBVIOUS
<1>1. /\ op = [p \in Ops |-> NewOp] /\ plan \in Plans /\ completed = {}
      /\ active = plan.members
  BY DEF Init, TabsInit
<1>2. /\ NewOp.pc = "idle" /\ NewOp.count = 1 /\ NewOp.rest = {} /\ NewOp.todo = {}
      /\ NewOp.pending = {}
  BY DEF NewOp
<1> HIDE DEF NewOp
<1>3. Through(NewOp) = {} /\ Cardinality({}) = 0
  BY <1>2, FS_EmptySet DEF Through
<1>4. ASSUME NEW p \in Ops PROVE Lister(p, op[p], H(p))
  <2>1. op[p] = NewOp
    BY <1>1
  <2>2. Tally(p, NewOp) /\ Covered(NewOp, Rows)
    BY <1>2, <1>3 DEF Tally, Covered
  <2>3. Place(p, NewOp)
    BY <1>2 DEF Place, MemberPCs, UnwrapPCs
  <2> QED BY <1>2, <2>1, <2>2, <2>3 DEF Lister, Lists, Seals, GrantPCs, MemberPCs
<1>5. active \subseteq Users
  BY <1>1, PlansAssumption, FirstAssumption
<1> QED BY <1>1, <1>4, <1>5 DEF CoverInv, Counted

LEMMA CoverStep == IInv /\ ToldInv /\ CoverInv /\ RowsKept /\ [Next]_vars => CoverInv'
<1> SUFFICES ASSUME IInv, ToldInv, CoverInv, RowsKept, [Next]_vars PROVE CoverInv'
  OBVIOUS
<1>1. ASSUME NEW p \in Ops, Step(p), plan' = plan PROVE CoverInv'
  <2>1. Aside(Actor[p]) /\ UNCHANGED serverVars
    BY <1>1, StepAside
  <2>2. CASE TabsOfTheirOwn
    <3>1. Lister(p, op[p], H(p))
      BY <2>2 DEF CoverInv
    <3>2. PICK r : Moves(p, r) /\ Lister(p, r, H(p)')
      BY <1>1, <3>1, StepLists
    <3> QED BY <2>1, <3>2, CoverMoves
  <2>3. CASE ~TabsOfTheirOwn
    <3>1. TabsOfTheirOwn' <=> TabsOfTheirOwn
      BY <1>1 DEF TabsOfTheirOwn, Actor
    <3>2. active' = active
      BY <2>1 DEF serverVars, membership
    <3> QED BY <2>3, <3>1, <3>2 DEF CoverInv
  <2> QED BY <2>2, <2>3
<1>2. ASSUME NEW p \in Ops, Serve(p), plan' = plan PROVE CoverInv'
  BY <1>2, ServeCovers
<1>3. CASE Environment /\ plan' = plan
  BY <1>3, EnvironmentHolders, OutsideCovers
<1>4. CASE UNCHANGED vars
  BY <1>4, OutsideCovers DEF vars, clientVars, serverVars, membership, rotations
<1> QED BY <1>1, <1>2, <1>3, <1>4 DEF Next

(* What a rotation reports, under the one condition that no purge deletes  *)
(* a row inserted between its two statements: the actor and every          *)
(* remaining member not listed as pending were given the new key, and the  *)
(* members_rewrapped_count of a completed rotation does not exceed those   *)
(* who were (AC-B11, F-137), for any number of ceremonies with tabs of     *)
(* their own, whatever is lost, wiped or done by others meanwhile.         *)
THEOREM ReportsAreCovered == Spec /\ [][RowsKept]_vars => []ReportedCoverage
<1>1. IInv /\ ToldInv /\ CoverInv => ReportedCoverage
  <2> SUFFICES ASSUME IInv, ToldInv, CoverInv, TabsOfTheirOwn
               PROVE  /\ \A p \in Ops : Reports(p) => CoverageOf(p)
                      /\ \A c \in completed :
                           c.count <= Cardinality({u \in Users : EverWrapped(u, c.key)})
    BY DEF ReportedCoverage
  <2>1. \A u, k : EverWrapped(u, k) <=> Given(Rows, u, k)
    BY DEF EverWrapped, Given, Rows
  <2>2. ASSUME NEW p \in Ops, Reports(p) PROVE CoverageOf(p)
    <3>1. /\ Rotates(p) /\ op[p].res \in ReportResults
          /\ Told(p, op[p], Rows) /\ Lister(p, op[p], H(p))
      BY <2>2 DEF Reports, Rotates, ReportResults, ToldInv, CoverInv
    <3>2. op[p].pc = "ended"
      BY <3>1 DEF Told, ReportResults
    <3>3. Covered(op[p], Rows) /\ op[p].todo \subseteq op[p].pending
      BY <3>1, <3>2 DEF Lister, Lists
    <3>4. Given(Rows, Actor[p], op[p].key)
      BY <3>1 DEF Told, PastOwn
    <3>5. \A m \in op[p].rest \ op[p].pending : Given(Rows, m, op[p].key)
      BY <3>3 DEF Covered, Through
    <3> QED BY <2>1, <3>4, <3>5 DEF CoverageOf
  <2>3. ASSUME NEW c \in completed
        PROVE  c.count <= Cardinality({u \in Users : EverWrapped(u, c.key)})
    <3>1. {u \in Users : EverWrapped(u, c.key)} = Reach(Rows, c.key)
      BY <2>1 DEF Reach
    <3> QED BY <3>1 DEF CoverInv, Counted
  <2> QED BY <2>2, <2>3
<1>2. Init => IInv /\ RemovedInv /\ ToldInv /\ CoverInv
  BY CeremoniesInit, RemovedInit, ToldInit, CoverInit
<1>3. (IInv /\ RemovedInv /\ ToldInv /\ CoverInv) /\ [Next /\ RowsKept]_vars
        => (IInv /\ RemovedInv /\ ToldInv /\ CoverInv)'
  <2>1. UNCHANGED vars => RowsKept
    BY DEF vars, serverVars, wrapRows, RowsKept, Rows
  <2> QED BY <2>1, CeremoniesStep, RemovedStep, ToldStep, CoverStep
<1>4. Spec /\ [][RowsKept]_vars => Init /\ [][Next /\ RowsKept]_vars
  BY PTL DEF Spec
<1> QED BY <1>1, <1>2, <1>3, <1>4, PTL
=============================================================================
