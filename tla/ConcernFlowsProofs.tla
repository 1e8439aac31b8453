-------------------------- MODULE ConcernFlowsProofs --------------------------
(***************************************************************************)
(* The committee-key holder, for every set of keys and buffers and every   *)
(* sequence of calls; then the operations that use it, of ConcernFlows,    *)
(* for any number of operations under any plan.                            *)
(***************************************************************************)
EXTENDS ConcernFlows, CommitteeKeyHolder, TLAPS

-----------------------------------------------------------------------------
(* Part 1: the holder.                                                     *)

(* A holder whose flags and designation agree and whose entries carry the  *)
(* server's epochs.                                                        *)
SoundHolder(h) ==
  /\ IsHolder(h)
  /\ LiveFlags(h) = IF h.live = NoKey THEN {} ELSE {h.live}
  /\ \A k \in HeldIds(h) : h.keys[k].epoch = EpochOf[k]

(* The inductive invariant: the checked invariants, and what they need:    *)
(* a held buffer was installed, and a held entry has the server's epoch.   *)
HolderInv ==
  /\ HolderTypeOK
  /\ SoundHolder(keyHolder)
  /\ HeldBuffers(keyHolder) \subseteq installed
  /\ HeldNeverZeroed
  /\ EvictedAreZeroed

-----------------------------------------------------------------------------
(* populate() and set() produce a sound holder that holds exactly the      *)
(* entries' buffers.                                                       *)
LEMMA PopulateSound ==
  ASSUME NEW h, h.gen \in Nat,
         NEW E, E \subseteq Entry, WellFormedEntries(E),
         \A e \in E : e.epoch = EpochOf[e.key_id]
  PROVE  /\ SoundHolder(Populate(h, E))
         /\ HeldBuffers(Populate(h, E)) = {e.data_key : e \in E}
<1> DEFINE ids == {e.key_id : e \in E}
           p == Populate(h, E)
<1>1. \A k \in ids : EntryFor(E, k) \in E /\ EntryFor(E, k).key_id = k
  BY DEF EntryFor
<1>2. \A e \in E : EntryFor(E, e.key_id) = e
  BY <1>1 DEF WellFormedEntries
<1>3. ids \subseteq KeyIds
  BY DEF Entry
<1>4. /\ p = [keys |-> p.keys, live |-> p.live, gen |-> p.gen]
      /\ p.gen = h.gen
      /\ p.keys = [k \in ids |->
               [data_key |-> EntryFor(E, k).data_key,
                epoch    |-> EntryFor(E, k).epoch,
                is_live  |-> EntryFor(E, k).is_live]]
      /\ p.live = IF \E e \in E : e.is_live
                  THEN (CHOOSE e \in E : e.is_live).key_id ELSE NoKey
  BY DEF Populate
<1>5. HeldIds(p) = ids
  BY <1>4 DEF HeldIds
<1>6. \A k \in ids : /\ p.keys[k].data_key = EntryFor(E, k).data_key
                     /\ p.keys[k].epoch = EntryFor(E, k).epoch
                     /\ p.keys[k].is_live = EntryFor(E, k).is_live
  BY <1>4
<1> HIDE DEF p
<1>7. p.live \in KeyIds \cup {NoKey}
  BY <1>4 DEF Entry
<1>8. p.keys \in [ids -> HeldKey]
  BY <1>1, <1>4 DEF Entry, HeldKey
<1>9. IsHolder(p)
  BY <1>3, <1>4, <1>5, <1>7, <1>8 DEF IsHolder, HeldIds
<1>10. HeldBuffers(p) = {e.data_key : e \in E}
  BY <1>1, <1>2, <1>5, <1>6 DEF HeldBuffers
<1>11. \A k \in HeldIds(p) : p.keys[k].epoch = EpochOf[k]
  BY <1>1, <1>5, <1>6
<1>12. LiveFlags(p) = {e.key_id : e \in {f \in E : f.is_live}}
  BY <1>1, <1>2, <1>5, <1>6 DEF LiveFlags
<1>13. LiveFlags(p) = IF p.live = NoKey THEN {} ELSE {p.live}
  <2>1. CASE \E e \in E : e.is_live
    <3>1. PICK e \in E : e.is_live
      BY <2>1
    <3>2. {f \in E : f.is_live} = {e}
      BY <3>1 DEF WellFormedEntries
    <3>3. (CHOOSE f \in E : f.is_live) = e
      BY <3>1 DEF WellFormedEntries
    <3>4. p.live = e.key_id /\ e.key_id # NoKey
      BY <2>1, <3>3, <1>4, NoKeyAssumption DEF Entry
    <3> QED BY <1>12, <3>2, <3>4
  <2>2. CASE ~ \E e \in E : e.is_live
    BY <2>2, <1>4, <1>12
  <2> QED BY <2>1, <2>2
<1> QED BY <1>9, <1>10, <1>11, <1>13 DEF SoundHolder, p

(* Moving the designation keeps a sound holder sound and every buffer in   *)
(* place.                                                                  *)
LEMMA DesignateSound ==
  ASSUME NEW h, SoundHolder(h), NEW k \in HeldIds(h)
  PROVE  /\ SoundHolder(Designate(h, k))
         /\ HeldIds(Designate(h, k)) = HeldIds(h)
         /\ HeldBuffers(Designate(h, k)) = HeldBuffers(h)
         /\ Designate(h, k).live = k
         /\ Designate(h, k).gen = h.gen
<1> DEFINE d == Designate(h, k)
           keys == [j \in HeldIds(h) |->
                      Flagged(h.keys[j],
                        (j = k) \/ (j # h.live /\ h.keys[j].is_live))]
<1>1. /\ h = [keys |-> h.keys, live |-> h.live, gen |-> h.gen]
      /\ HeldIds(h) \subseteq KeyIds
      /\ \A j \in HeldIds(h) : h.keys[j] \in HeldKey
      /\ h.gen \in Nat
  BY DEF SoundHolder, IsHolder, HeldIds
<1>2. d = [keys |-> keys, live |-> k, gen |-> h.gen]
  BY Zenon DEF Designate
<1>3. \A j \in HeldIds(h) :
        /\ keys[j] \in HeldKey
        /\ keys[j].data_key = h.keys[j].data_key
        /\ keys[j].epoch = h.keys[j].epoch
        /\ keys[j].is_live = ((j = k) \/ (j # h.live /\ h.keys[j].is_live))
  BY <1>1 DEF HeldKey, Flagged
<1>4. keys \in [HeldIds(h) -> HeldKey]
  BY <1>3
<1> HIDE DEF keys, d
<1>5. HeldIds(d) = HeldIds(h)
  BY <1>2, <1>4 DEF HeldIds
<1>6. IsHolder(d)
  BY <1>1, <1>2, <1>4, <1>5 DEF IsHolder, HeldIds
<1>7. LiveFlags(d) = {k}
  <2>1. \A j \in HeldIds(h) : h.keys[j].is_live <=> j = h.live
    BY NoKeyAssumption, <1>1 DEF SoundHolder, LiveFlags
  <2>2. \A j \in HeldIds(h) : d.keys[j].is_live <=> j = k
    BY <2>1, <1>2, <1>3
  <2>3. LiveFlags(d) = {j \in HeldIds(h) : d.keys[j].is_live}
    BY <1>5 DEF LiveFlags
  <2> QED BY <2>2, <2>3
<1>8. HeldBuffers(d) = HeldBuffers(h)
  BY <1>2, <1>3, <1>5 DEF HeldBuffers
<1>9. k # NoKey
  BY <1>1, NoKeyAssumption
<1> QED BY <1>2, <1>3, <1>5, <1>6, <1>7, <1>8, <1>9 DEF SoundHolder, d

(* Dropping the designation keeps a sound holder sound and every buffer in *)
(* place.                                                                  *)
LEMMA DemoteSound ==
  ASSUME NEW h, SoundHolder(h)
  PROVE  /\ SoundHolder(Demote(h))
         /\ HeldBuffers(Demote(h)) = HeldBuffers(h)
         /\ Demote(h).live = NoKey
         /\ Demote(h).gen = h.gen
<1> DEFINE d == Demote(h)
           keys == [j \in HeldIds(h) |->
                      Flagged(h.keys[j], j # h.live /\ h.keys[j].is_live)]
<1>1. /\ h = [keys |-> h.keys, live |-> h.live, gen |-> h.gen]
      /\ HeldIds(h) \subseteq KeyIds
      /\ \A j \in HeldIds(h) : h.keys[j] \in HeldKey
      /\ h.gen \in Nat
  BY DEF SoundHolder, IsHolder, HeldIds
<1>2. d = [keys |-> keys, live |-> NoKey, gen |-> h.gen]
  BY Zenon DEF Demote
<1>3. \A j \in HeldIds(h) :
        /\ keys[j] \in HeldKey
        /\ keys[j].data_key = h.keys[j].data_key
        /\ keys[j].epoch = h.keys[j].epoch
        /\ keys[j].is_live = (j # h.live /\ h.keys[j].is_live)
  BY <1>1 DEF HeldKey, Flagged
<1>4. keys \in [HeldIds(h) -> HeldKey]
  BY <1>3
<1> HIDE DEF keys, d
<1>5. HeldIds(d) = HeldIds(h)
  BY <1>2, <1>4 DEF HeldIds
<1>6. IsHolder(d)
  BY <1>1, <1>2, <1>4, <1>5 DEF IsHolder, HeldIds
<1>7. LiveFlags(d) = {}
  <2>1. \A j \in HeldIds(h) : h.keys[j].is_live => j = h.live
    BY NoKeyAssumption, <1>1 DEF SoundHolder, LiveFlags
  <2> QED BY <2>1, <1>2, <1>3, <1>5 DEF LiveFlags
<1>8. HeldBuffers(d) = HeldBuffers(h)
  BY <1>2, <1>3, <1>5 DEF HeldBuffers
<1> QED BY <1>2, <1>3, <1>5, <1>6, <1>7, <1>8 DEF SoundHolder, d

(* An observed rotation, authoritative or hinted, keeps a sound holder     *)
(* sound and every buffer in place.                                        *)
LEMMA ObservationSound ==
  ASSUME NEW h, SoundHolder(h), NEW k \in KeyIds
  PROVE  /\ SoundHolder(OnKeyRotationObserved(h, k))
         /\ HeldBuffers(OnKeyRotationObserved(h, k)) = HeldBuffers(h)
         /\ GetKeyId(OnKeyRotationObserved(h, k)) \in {k, NoKey}
         /\ SoundHolder(RedesignateLiveIfHeld(h, k))
         /\ HeldBuffers(RedesignateLiveIfHeld(h, k)) = HeldBuffers(h)
  BY DesignateSound, DemoteSound
     DEF OnKeyRotationObserved, RedesignateLiveIfHeld, GetKeyId, HasLiveKey

(* The arguments the model enumerates for populate() meet its contract.    *)
LEMMA EntrySetWellFormed ==
  ASSUME NEW S \in SUBSET KeyIds, NEW live \in KeyIds \cup {NoKey},
         NEW buf \in [S -> Buffers]
  PROVE  /\ EntrySet(S, buf, live) \subseteq Entry
         /\ WellFormedEntries(EntrySet(S, buf, live))
         /\ \A e \in EntrySet(S, buf, live) : e.epoch = EpochOf[e.key_id]
         /\ {e.data_key : e \in EntrySet(S, buf, live)} = {buf[k] : k \in S}
<1> DEFINE row(k) == [key_id |-> k, data_key |-> buf[k], epoch |-> EpochOf[k],
                      is_live |-> (k = live)]
           E == EntrySet(S, buf, live)
<1>1. E = {row(k) : k \in S}
  BY DEF EntrySet
<1>2. \A k \in S : /\ row(k) \in Entry
                   /\ row(k).key_id = k
                   /\ row(k).data_key = buf[k]
                   /\ row(k).epoch = EpochOf[k]
  BY EpochOfAssumption DEF Entry
<1>3. \A k \in S : row(k).is_live => k = live
  BY Zenon
<1> HIDE DEF row, E
<1>4. WellFormedEntries(E)
  BY <1>1, <1>2, <1>3 DEF WellFormedEntries
<1> QED BY <1>1, <1>2, <1>4 DEF E

-----------------------------------------------------------------------------
(* Replacing the map preserves the invariant: what is dropped is zeroized, *)
(* and what comes in was never zeroized.                                   *)
LEMMA ReplaceSafe ==
  ASSUME HolderInv, NEW next, NEW bufs \in SUBSET Buffers,
         SoundHolder(next), HeldBuffers(next) = bufs,
         bufs \cap filled = {},
         Replace(next, bufs)
  PROVE  HolderInv'
<1>1. /\ keyHolder' = next
      /\ filled' = filled \cup (HeldBuffers(keyHolder) \ bufs)
      /\ installed' = installed \cup bufs
  BY DEF Replace, Orphans
<1>2. SoundHolder(keyHolder') /\ HeldBuffers(keyHolder') = bufs
  BY <1>1
<1>3. HeldBuffers(keyHolder) \subseteq Buffers
  BY DEF HolderInv, HolderTypeOK, IsHolder, HeldBuffers, HeldIds, HeldKey
<1>4. HolderTypeOK'
  BY <1>1, <1>2, <1>3 DEF HolderInv, HolderTypeOK, SoundHolder
<1>5. HeldNeverZeroed'
  BY <1>1, <1>2 DEF HolderInv, HeldNeverZeroed
<1>6. EvictedAreZeroed'
  BY <1>1, <1>2 DEF HolderInv, EvictedAreZeroed
<1> QED BY <1>1, <1>2, <1>4, <1>5, <1>6 DEF HolderInv, SoundHolder, IsHolder,
           LiveFlags, HeldIds, HeldBuffers

(* The new holder is empty.                                                *)
LEMMA HolderInitInv == HolderInit => HolderInv
<1> SUFFICES ASSUME HolderInit PROVE HolderInv
  OBVIOUS
<1>1. NewHolder.keys = [k \in {} |-> NoKey] /\ HeldIds(NewHolder) = {}
  BY DEF NewHolder, HeldIds
<1>2. /\ NewHolder.live = NoKey
      /\ NewHolder.gen = 0
      /\ NewHolder = [keys |-> NewHolder.keys, live |-> NewHolder.live,
                      gen |-> NewHolder.gen]
  BY DEF NewHolder
<1>3. IsHolder(NewHolder)
  BY <1>1, <1>2 DEF IsHolder, HeldIds
<1>4. HeldBuffers(NewHolder) = {} /\ LiveFlags(NewHolder) = {}
  BY <1>1 DEF HeldBuffers, LiveFlags
<1> QED BY <1>1, <1>2, <1>3, <1>4
        DEF HolderInit, HolderInv, HolderTypeOK, SoundHolder, HeldNeverZeroed, EvictedAreZeroed

(* A wiped holder is a sound, empty one.                                   *)
LEMMA WipeSound ==
  ASSUME NEW h, h.gen \in Nat
  PROVE  /\ SoundHolder(Wipe(h))
         /\ HeldIds(Wipe(h)) = {}
         /\ HeldBuffers(Wipe(h)) = {}
<1> DEFINE w == Wipe(h)
<1>1. w = [keys |-> [k \in {} |-> NoKey], live |-> NoKey, gen |-> h.gen + 1]
  BY DEF Wipe, NewHolder
<1> HIDE DEF w
<1>2. HeldIds(w) = {}
  BY <1>1 DEF HeldIds
<1>3. HeldBuffers(w) = {} /\ LiveFlags(w) = {}
  BY <1>2 DEF HeldBuffers, LiveFlags
<1>4. IsHolder(w)
  BY <1>1, <1>2 DEF IsHolder, HeldIds
<1> QED BY <1>1, <1>2, <1>3, <1>4 DEF SoundHolder, w

(* Every method keeps the invariant.                                       *)
LEMMA HolderStepInv == HolderInv /\ [HolderNext]_holderVars => HolderInv'
<1> SUFFICES ASSUME HolderInv, [HolderNext]_holderVars PROVE HolderInv'
  OBVIOUS
<1> USE DEF HolderInv
<1>0. keyHolder.gen \in Nat
  BY DEF SoundHolder, IsHolder
<1>1. CASE DoPopulate
  <2>1. PICK S \in SUBSET KeyIds, live \in KeyIds \cup {NoKey} :
          \E buf \in [S -> Buffers] :
            /\ \A k \in S : Installable(k, buf[k])
            /\ Replace(Populate(keyHolder, EntrySet(S, buf, live)),
                       {buf[k] : k \in S})
    BY <1>1 DEF DoPopulate
  <2>2. PICK buf \in [S -> Buffers] :
          /\ \A k \in S : Installable(k, buf[k])
          /\ Replace(Populate(keyHolder, EntrySet(S, buf, live)),
                     {buf[k] : k \in S})
    BY <2>1
  <2> DEFINE E == EntrySet(S, buf, live)
             bufs == {buf[k] : k \in S}
  <2>3. SoundHolder(Populate(keyHolder, E)) /\ HeldBuffers(Populate(keyHolder, E)) = bufs
    BY <1>0, PopulateSound, EntrySetWellFormed
  <2>4. \A k \in S : buf[k] \notin filled
    BY <2>2 DEF Installable, HeldNeverZeroed, HeldBuffers
  <2>5. bufs \in SUBSET Buffers /\ bufs \cap filled = {}
    BY <2>4
  <2> QED BY <2>2, <2>3, <2>5, ReplaceSafe
<1>2. CASE DoSet
  <2>1. PICK k \in KeyIds, b \in Buffers :
          /\ Installable(k, b)
          /\ Replace(SetLive(keyHolder, [key_id |-> k, data_key |-> b,
                                      epoch |-> EpochOf[k], is_live |-> FALSE]),
                     {b})
    BY <1>2 DEF DoSet
  <2> DEFINE e == [key_id |-> k, data_key |-> b,
                   epoch |-> EpochOf[k], is_live |-> TRUE]
             next == Populate(keyHolder, {e})
  <2>2. SetLive(keyHolder, [key_id |-> k, data_key |-> b,
                         epoch |-> EpochOf[k], is_live |-> FALSE]) = next
    BY DEF SetLive
  <2>3. {e} \subseteq Entry /\ WellFormedEntries({e}) /\ e.epoch = EpochOf[e.key_id]
    BY EpochOfAssumption DEF Entry, WellFormedEntries
  <2>4. {f.data_key : f \in {e}} = {b}
    OBVIOUS
  <2>5. SoundHolder(next) /\ HeldBuffers(next) = {b}
    BY <1>0, <2>3, <2>4, PopulateSound
  <2>6. b \notin filled
    BY <2>1 DEF Installable, HeldNeverZeroed, HeldBuffers
  <2> HIDE DEF next
  <2> QED BY <2>1, <2>2, <2>5, <2>6, ReplaceSafe
<1>3. CASE DoWipe
  <2>1. /\ keyHolder' = Wipe(keyHolder)
        /\ filled' = filled \cup HeldBuffers(keyHolder)
        /\ installed' = installed
    BY <1>3 DEF DoWipe
  <2>2. SoundHolder(keyHolder') /\ HeldBuffers(keyHolder') = {}
    BY <1>0, <2>1, WipeSound
  <2>3. HeldBuffers(keyHolder)' = {} /\ SoundHolder(keyHolder)'
    BY <2>2 DEF SoundHolder, IsHolder, LiveFlags, HeldIds, HeldBuffers
  <2>4. HolderTypeOK' /\ HeldNeverZeroed' /\ EvictedAreZeroed'
    BY <2>1, <2>3 DEF HolderTypeOK, SoundHolder, HeldNeverZeroed, EvictedAreZeroed
  <2> QED BY <2>1, <2>3, <2>4
<1>4. CASE DoRotationObserved \/ DoRowHint
  <2>1. PICK k \in KeyIds : \/ keyHolder' = OnKeyRotationObserved(keyHolder, k)
                            \/ keyHolder' = RedesignateLiveIfHeld(keyHolder, k)
    BY <1>4 DEF DoRotationObserved, DoRowHint
  <2>2. filled' = filled /\ installed' = installed
    BY <1>4 DEF DoRotationObserved, DoRowHint
  <2>3. SoundHolder(keyHolder') /\ HeldBuffers(keyHolder') = HeldBuffers(keyHolder)
    BY <2>1, ObservationSound
  <2>4. SoundHolder(keyHolder)' /\ HeldBuffers(keyHolder)' = HeldBuffers(keyHolder)
    BY <2>3 DEF SoundHolder, IsHolder, LiveFlags, HeldIds, HeldBuffers
  <2>5. HolderTypeOK' /\ HeldNeverZeroed' /\ EvictedAreZeroed'
    BY <2>2, <2>4 DEF HolderTypeOK, SoundHolder, HeldNeverZeroed, EvictedAreZeroed
  <2> QED BY <2>2, <2>4, <2>5
<1>5. CASE UNCHANGED holderVars
  BY <1>5 DEF holderVars, HolderTypeOK, SoundHolder, IsHolder, LiveFlags, HeldIds,
              HeldBuffers, HeldNeverZeroed, EvictedAreZeroed
<1> QED BY <1>1, <1>2, <1>3, <1>4, <1>5 DEF HolderNext

(* The invariant of the holder.                                            *)
LEMMA HolderInvariant == HolderSpec => []HolderInv
<1> QED BY HolderInitInv, HolderStepInv, PTL DEF HolderSpec

-----------------------------------------------------------------------------
(* Type correctness of the holder and its heap.                            *)
THEOREM HolderTypeCorrect == HolderSpec => []HolderTypeOK
<1>1. HolderInv => HolderTypeOK
  BY DEF HolderInv
<1> QED BY <1>1, HolderInvariant, PTL

(* For every set of keys and buffers and every sequence of calls: the live *)
(* flags agree with the designation, no held buffer has been zeroized, and *)
(* every buffer that left the map has been.                                *)
THEOREM HolderSafe ==
  HolderSpec => [](LiveDesignationAgrees /\ BuffersAccounted)
<1>1. HolderInv => LiveDesignationAgrees /\ BuffersAccounted
  BY DEF HolderInv, SoundHolder, LiveDesignationAgrees, BuffersAccounted
<1> QED BY <1>1, HolderInvariant, PTL

(* The is_live flags and the live id, kept in step by hand in four methods,*)
(* never disagree.                                                         *)
THEOREM LiveDesignation == HolderSpec => []LiveDesignationAgrees
<1>1. LiveDesignationAgrees /\ BuffersAccounted => LiveDesignationAgrees
  OBVIOUS
<1> QED BY <1>1, HolderSafe, PTL

(* A row hint only ever adds: it drops no key, bootstraps no live key and  *)
(* never moves the designation to an older epoch.                          *)
THEOREM RowHintSafe == HolderSpec => RowHintIsAddOnly
<1>1. ASSUME HolderInv, DoRowHint
      PROVE  /\ HeldBuffers(keyHolder') = HeldBuffers(keyHolder)
             /\ (keyHolder.live = NoKey) = (keyHolder'.live = NoKey)
             /\ keyHolder.live # NoKey =>
                  EpochOf[keyHolder'.live] >= EpochOf[keyHolder.live]
  <2>1. PICK k \in KeyIds : keyHolder' = RedesignateLiveIfHeld(keyHolder, k)
    BY <1>1 DEF DoRowHint
  <2>2. SoundHolder(keyHolder) /\ \A j \in HeldIds(keyHolder) : EpochOf[j] \in Nat
    BY <1>1, EpochOfAssumption DEF HolderInv, SoundHolder, IsHolder, HeldIds
  <2>3. HeldBuffers(keyHolder') = HeldBuffers(keyHolder)
    BY <2>1, <2>2, ObservationSound
  <2>4. CASE /\ k \in HeldIds(keyHolder)
             /\ HasLiveKey(keyHolder)
             /\ keyHolder.keys[k].epoch > keyHolder.keys[keyHolder.live].epoch
    <3>1. keyHolder'.live = k
      BY <2>1, <2>2, <2>4, DesignateSound DEF RedesignateLiveIfHeld
    <3>2. k # NoKey /\ keyHolder.live # NoKey
      BY <2>4, NoKeyAssumption DEF HasLiveKey
    <3>3. EpochOf[k] > EpochOf[keyHolder.live]
      BY <2>2, <2>4 DEF SoundHolder, HasLiveKey
    <3>4. EpochOf[k] \in Nat /\ EpochOf[keyHolder.live] \in Nat
      BY <2>2, <2>4 DEF HasLiveKey
    <3> QED BY <2>3, <3>1, <3>2, <3>3, <3>4
  <2>5. CASE ~ (/\ k \in HeldIds(keyHolder)
                /\ HasLiveKey(keyHolder)
                /\ keyHolder.keys[k].epoch > keyHolder.keys[keyHolder.live].epoch)
    <3>1. keyHolder' = keyHolder
      BY <2>1, <2>5 DEF RedesignateLiveIfHeld
    <3>2. keyHolder.live # NoKey => EpochOf[keyHolder.live] \in Nat
      BY <1>1, EpochOfAssumption DEF HolderInv, SoundHolder, IsHolder
    <3> QED BY <2>3, <3>1, <3>2
  <2> QED BY <2>4, <2>5
<1>2. HolderInv /\ [HolderNext]_holderVars =>
        [DoRowHint =>
          /\ HeldBuffers(keyHolder') = HeldBuffers(keyHolder)
          /\ (keyHolder.live = NoKey) = (keyHolder'.live = NoKey)
          /\ keyHolder.live # NoKey =>
               EpochOf[keyHolder'.live] >= EpochOf[keyHolder.live]]_holderVars
  BY <1>1
<1> QED BY <1>2, HolderInvariant, PTL DEF HolderSpec, RowHintIsAddOnly

(* An observed rotation keeps every read key, and afterwards only the      *)
(* observed key can seal.                                                  *)
THEOREM RotationSafe == HolderSpec => RotationRetainsReadKeys
<1>1. ASSUME HolderInv, NEW k \in KeyIds,
             keyHolder' = OnKeyRotationObserved(keyHolder, k)
      PROVE  /\ HeldBuffers(keyHolder') = HeldBuffers(keyHolder)
             /\ GetKeyId(keyHolder') \in {k, NoKey}
  BY <1>1, ObservationSound DEF HolderInv
<1>2. HolderInv /\ [HolderNext]_holderVars =>
        [\A k \in KeyIds :
           keyHolder' = OnKeyRotationObserved(keyHolder, k) /\ keyHolder' # keyHolder =>
             /\ HeldBuffers(keyHolder') = HeldBuffers(keyHolder)
             /\ GetKeyId(keyHolder') \in {k, NoKey}]_holderVars
  BY <1>1
<1> QED BY <1>2, HolderInvariant, PTL DEF HolderSpec, RotationRetainsReadKeys

-----------------------------------------------------------------------------
(* Part 2: filing, listing and revealing concerns.                         *)
(*                                                                         *)
(* The probe tells an operation of a key that was live, and minted keys    *)
(* only ever get newer: the key it then designates is none older (Fresh).  *)
(* The wraps a member had at the start are there until a purge archives    *)
(* them (Wrapped), so a fetch of all of them brings every such key, unless *)
(* an answer was lost, the holder wiped or the key rotated (Sure).  The    *)
(* guard of an operation counts its disclosures (Shape).  The date of a    *)
(* fetch tells whether a wipe came since (Timed); what a holder has was    *)
(* fetched since the last one and is in no other holder (HeldFor, Unused). *)

(* The inductive invariant and its parts.                                  *)
Fields ==
  {"pc", "resp", "gen", "fetched", "since", "used", "then", "rows", "row", "trying",
   "retried", "post", "res", "begun", "mine", "probed", "disclosures"}

IsOp(o) ==
  /\ o = [f \in Fields |-> o[f]]
  /\ o.gen \in Nat /\ o.since \in Nat /\ o.fetched \in Nat /\ o.begun \in Nat

FetchPCs == {"heal", "escalate", "livewrap"}
WrapsPCs == {"heal", "escalate"}
PCs == FetchPCs \cup {"idle", "ended", "probe", "state", "sealing", "submit",
                      "list", "reveal", "trial"}

(* What the local state of an operation says by itself.                    *)
Shape(o) ==
  /\ o.pc \in PCs
  /\ o.pc \in {"idle", "ended", "sealing", "trial"} => o.resp.status = "none"
  /\ o.disclosures = IF o.used THEN 1 ELSE 0
  /\ o.pc \in {"idle", "probe"} => ~o.used /\ o.post = NoKey
  /\ o.pc \in WrapsPCs => o.used
  /\ o.pc = "trial" /\ o.retried => o.used
  /\ o.res = "decrypt_failed" => o.pc = "ended"

(* The rows of wraps that an answer or the table holds name minted keys,   *)
(* and seal the bytes of the key they name.                                *)
KeysIn(E) == {k \in KeyIds : E[k] > 0}
Named(rows, E) == \A w \in rows : w.key \in KeysIn(E) /\ w.mat = w.key

(* What the operation was told, E being the epochs: of a minted key by the *)
(* probe, of minted keys by a fetch, the live one no older than the key    *)
(* the probe told of.                                                      *)
Told(o, E) ==
  /\ o.probed \in KeysIn(E) \cup {NoKey}
  /\ o.pc \notin {"idle", "probe", "ended"} => o.probed # NoKey
  /\ o.pc = "probe" /\ o.resp.status = "ok" =>
       \A s, t \in o.resp.data : s.key \in KeysIn(E) /\ s = t
  /\ o.pc \in FetchPCs /\ o.resp.status = "ok" => Named(o.resp.data, E)
  /\ o.pc \in WrapsPCs /\ o.resp.status = "ok" =>
       \A w \in o.resp.data : w.live => E[w.key] >= E[o.probed]
  /\ o.pc = "livewrap" /\ o.resp.status = "ok" =>
       \A w \in o.resp.data : E[w.key] >= E[o.probed]
  /\ o.post # NoKey => o.post \in KeysIn(E) /\ o.probed \in KeysIn(E)

(* When operations do not overlap, the designated key is none older than   *)
(* the one the running operation was told of; nor is the key it sealed     *)
(* under.                                                                  *)
Fresh(o, h, E) ==
  ~plan.overlap =>
    /\ o.pc \notin {"idle", "probe", "ended"} /\ HasLiveKey(h) => E[h.live] >= E[o.probed]
    /\ o.post # NoKey => E[o.post] >= E[o.probed]

(* When operations do not overlap, at most one runs.                       *)
Solo == ~plan.overlap => \A p, q \in Ops : Running(p) /\ Running(q) => p = q

(* The keys the actor had a wrap of when the operation began, and that no  *)
(* purge has archived.                                                     *)
Lasting(p, o, A) == {k \in o.mine : ~\E a \in A : a.user = Actor[p] /\ a.key = k}
WrapIn(W, u, k) == \E w \in W : w.user = u /\ w.key = k

(* Those wraps are still there, W being the wraps rows and A the archive:  *)
(* a purge archives all of them.                                           *)
Wrapped(p, o, W, A) ==
  /\ \A k \in Lasting(p, o, A) : WrapIn(W, Actor[p], k)
  /\ Lasting(p, o, A) # {} =>
       /\ o.pc \notin {"idle", "probe", "ended"} => WrapIn(W, Actor[p], o.probed)
       /\ o.pc = "probe" /\ o.resp.status = "ok" =>
            \A s \in o.resp.data : s.mine => WrapIn(W, Actor[p], s.key)

(* Nothing excuses a miss.                                                 *)
Unhurt(o, h, L, f) ==
  ~plan.overlap /\ f = 0 /\ o.begun = h.gen /\ o.probed \in L

(* Then the fetch of every wrap brings the keys of S and a live one; once  *)
(* opened, the holder h has them; a retried row of S has its key among     *)
(* those left to try; and it does not end as a miss.                       *)
Complete(o, h, S) ==
  /\ o.pc \in WrapsPCs /\ o.resp.status = "ok" =>
       S \subseteq {w.key : w \in o.resp.data} /\ \E w \in o.resp.data : w.live
  /\ o.used /\ o.pc \notin WrapsPCs \cup {"ended"} =>
       S \subseteq HeldIds(h) /\ o.pc \notin {"state", "livewrap"}
  /\ o.pc = "trial" /\ o.retried /\ o.row \in S => h.keys[o.row] \in o.trying
  /\ o.pc = "ended" /\ o.res = "decrypt_failed" => o.row \notin S

(* So it is with the lasting keys of a blameless operation, L being the    *)
(* live keys and f the losses.                                             *)
Sure(p, o, h, L, f, A) ==
  Unhurt(o, h, L, f) /\ Lasting(p, o, A) # {} => Complete(o, h, Lasting(p, o, A))

(* The latches of an operation and the date of its last fetch, against the *)
(* wipe generation g of its tab's holder and the users in S, signed in.    *)
Timed(p, o, g, S) ==
  /\ o.gen <= g /\ o.since <= g /\ o.begun <= g
  /\ o.pc \in FetchPCs => o.gen <= o.since
  /\ o.pc \in FetchPCs /\ o.resp.status \in {"sent", "ok"} /\ Actor[p] \notin S => o.since < g

(* A fetch not yet opened has buffers that none of B is.                   *)
Unused(p, o, B) ==
  \A b \in B : b.op = p =>
    b.n \in Nat /\ b.n <= o.fetched /\ (o.pc \in FetchPCs => b.n < o.fetched)

(* What a user's holder holds: the bytes of the key, not zeroized, asked   *)
(* for since the last wipe by an operation of that user's tab.             *)
Held(u, k, b, g, Z, E) ==
  k \in KeysIn(E) /\ b.mat = k /\ b \notin Z /\ b.since = g /\ b.op \in Ops /\ Actor[b.op] = u
HeldFor(u, h, Z, E) == \A k \in HeldIds(h) : Held(u, k, h.keys[k].data_key, h.gen, Z, E)

(* The types, as far as the steps need them.                               *)
HolderTyped(h) == h = [keys |-> h.keys, live |-> h.live, gen |-> h.gen] /\ h.gen \in Nat

Typed ==
  /\ plan \in Plans /\ faults \in Nat
  /\ op = [p \in Ops |-> op[p]] /\ \A p \in Ops : IsOp(op[p])
  /\ holder = [u \in Users |-> holder[u]]
  /\ \A u \in Users : HolderTyped(holder[u])

(* The key rows: one live key, the newest; the wraps rows are as named.    *)
KeysInv ==
  /\ epoch \in [KeyIds -> Nat]
  /\ retired \subseteq Minted
  /\ OneLiveNewest

RowsNamed == Named(wraps, epoch)

(* A loss was counted.                                                     *)
LossCounted == \A p \in Ops : op[p].resp.status = "lost" => faults > 0

(* The operations, and the holders and buffers they work on.               *)
Flows ==
  \A p \in Ops :
    /\ Shape(op[p]) /\ Told(op[p], epoch)
    /\ Fresh(op[p], H(p), epoch)
    /\ Wrapped(p, op[p], wraps, archive)
    /\ Sure(p, op[p], H(p), LiveKeys, faults, archive)

Heap ==
  /\ \A p \in Ops :
       /\ Timed(p, op[p], H(p).gen, signedIn)
       /\ Unused(p, op[p], zeroed \cup HeldBuffers(H(p)))
  /\ \A u \in Users :
       /\ HeldFor(u, holder[u], zeroed, epoch)
       /\ u \notin signedIn => HeldIds(holder[u]) = {}

IInv == Typed /\ KeysInv /\ RowsNamed /\ LossCounted /\ Solo /\ Flows /\ Heap

-----------------------------------------------------------------------------
(* max(epoch) + 1 is above every minted epoch.                             *)
LEMMA NextEpochAbove ==
  ASSUME epoch \in [KeyIds -> Nat], OneLiveNewest
  PROVE  /\ NextEpoch \in Nat
         /\ \A k \in KeyIds : epoch[k] < NextEpoch
<1> DEFINE S == {0} \cup {epoch[k] : k \in KeyIds}
           max == CHOOSE n \in S : \A k \in KeyIds : epoch[k] <= n
<1>1. epoch \in [KeyIds -> Nat] /\ S \subseteq Nat
  OBVIOUS
<1>2. \E n \in S : \A k \in KeyIds : epoch[k] <= n
  <2>1. CASE Minted = {}
    BY <1>1, <2>1 DEF Minted
  <2>2. CASE Minted # {}
    <3>1. PICK k \in LiveKeys : \A j \in Minted : epoch[j] <= epoch[k]
      BY <2>2 DEF OneLiveNewest
    <3>2. k \in KeyIds /\ epoch[k] \in S
      BY <3>1 DEF LiveKeys, Minted
    <3>3. ASSUME NEW j \in KeyIds PROVE epoch[j] <= epoch[k]
      <4>1. epoch[j] \in Nat /\ epoch[k] \in Nat
        BY <1>1, <3>2
      <4>2. CASE j \in Minted
        BY <3>1, <4>2
      <4>3. CASE j \notin Minted
        BY <4>1, <4>3 DEF Minted
      <4> QED BY <4>2, <4>3
    <3> QED BY <3>2, <3>3
  <2> QED BY <2>1, <2>2
<1>3. max \in S /\ \A k \in KeyIds : epoch[k] <= max
  BY <1>2
<1>4. NextEpoch = 1 + max
  BY DEF NextEpoch
<1> HIDE DEF max
<1> QED BY <1>1, <1>3, <1>4

(* Minting a key while every older one is retired leaves it the one live   *)
(* key, and the newest.                                                    *)
LEMMA MintKeys ==
  ASSUME KeysInv, NEW k \in KeyIds, k \notin Minted,
         epoch' = [epoch EXCEPT ![k] = NextEpoch],
         retired' \subseteq Minted, Minted \subseteq retired'
  PROVE  KeysInv' /\ Minted' = Minted \cup {k}
<1>1. /\ NextEpoch \in Nat
      /\ \A j \in KeyIds : epoch[j] < NextEpoch
      /\ epoch \in [KeyIds -> Nat]
  BY NextEpochAbove DEF KeysInv
<1>2. /\ epoch'[k] = NextEpoch
      /\ \A j \in KeyIds : j # k => epoch'[j] = epoch[j]
      /\ epoch' \in [KeyIds -> Nat]
  BY <1>1
<1>3. NextEpoch > 0
  BY <1>1
<1>4. Minted' = Minted \cup {k}
  BY <1>2, <1>3 DEF Minted
<1>5. k \in LiveKeys'
  BY <1>4 DEF LiveKeys
<1>6. \A j \in Minted' :
        /\ epoch'[j] <= epoch'[k]
        /\ j # k => j \in retired' /\ epoch'[j] < epoch'[k]
  <2> TAKE j \in Minted'
  <2>1. CASE j = k
    BY <1>1, <1>2, <2>1
  <2>2. CASE j # k
    BY <1>1, <1>2, <1>4, <2>2 DEF Minted
  <2> QED BY <2>1, <2>2
<1>7. OneLiveNewest'
  BY <1>5, <1>6 DEF OneLiveNewest
<1> QED BY <1>2, <1>4, <1>7 DEF KeysInv

(* rotate retires every minted key that is not yet retired.                *)
LEMMA RotateRetires ==
  ASSUME OneLiveNewest, epoch \in [KeyIds -> Nat]
  PROVE  NewestLive \subseteq Minted /\ Minted \subseteq retired \cup NewestLive
<1>1. CASE Minted = {}
  BY <1>1 DEF NewestLive, LiveKeys
<1>2. CASE Minted # {}
  <2>1. PICK n \in LiveKeys : \A j \in Minted :
          /\ epoch[j] <= epoch[n]
          /\ j # n => j \in retired /\ epoch[j] < epoch[n]
    BY <1>2 DEF OneLiveNewest
  <2>2. LiveKeys = {n}
    BY <2>1 DEF LiveKeys
  <2>3. NewestLive = {n}
    BY <2>2 DEF NewestLive, LiveKeys, Minted
  <2> QED BY <2>1, <2>3 DEF LiveKeys
<1> QED BY <1>1, <1>2

-----------------------------------------------------------------------------
(* What a plan says of an operation.                                       *)
LEMMA PlanKnown ==
  ASSUME Typed, NEW p \in Ops
  PROVE  /\ Actor[p] \in Users
         /\ Kind[p] \in {"submit", "list", "reveal"}
         /\ H(p) = holder[Actor[p]] /\ H(p).gen \in Nat
<1>1. plan \in Plans
  BY DEF Typed
<1>2. plan.actor \in [Ops -> Users]
  BY <1>1, PlansAssumption
<1>3. plan.kind \in [Ops -> {"submit", "list", "reveal"}]
  BY <1>1, ConcernPlansAssumption
<1> QED BY <1>2, <1>3 DEF Typed, HolderTyped, H, Actor, Kind

(* The invariant, read for one operation.                                  *)
LEMMA OpKnown ==
  ASSUME IInv, NEW p \in Ops
  PROVE  /\ IsOp(op[p]) /\ Shape(op[p]) /\ Told(op[p], epoch)
         /\ Fresh(op[p], H(p), epoch)
         /\ Wrapped(p, op[p], wraps, archive)
         /\ Sure(p, op[p], H(p), LiveKeys, faults, archive)
         /\ Timed(p, op[p], H(p).gen, signedIn)
         /\ Unused(p, op[p], zeroed \cup HeldBuffers(H(p)))
         /\ H(p).gen \in Nat /\ H(p) = holder[Actor[p]] /\ Actor[p] \in Users
<1>1. Typed
  BY DEF IInv
<1>2. H(p).gen \in Nat /\ H(p) = holder[Actor[p]] /\ Actor[p] \in Users
  BY <1>1, PlanKnown
<1> QED BY <1>1, <1>2 DEF IInv, Typed, Flows, Heap

(* The invariant, read for one user's holder.                              *)
LEMMA HolderFits ==
  ASSUME IInv, NEW u \in Users
  PROVE  /\ HeldFor(u, holder[u], zeroed, epoch)
         /\ u \notin signedIn => HeldIds(holder[u]) = {}
         /\ HolderTyped(holder[u])
<1>1. Heap /\ Typed
  BY DEF IInv
<1>2. \A v \in Users :
        /\ HeldFor(v, holder[v], zeroed, epoch)
        /\ v \notin signedIn => HeldIds(holder[v]) = {}
  BY <1>1 DEF Heap
<1> QED BY <1>1, <1>2 DEF Typed

(* The buffers a holder holds were fetched by an operation of its own tab, *)
(* since its last wipe.                                                    *)
LEMMA HeldIsMine ==
  ASSUME IInv, NEW u \in Users
  PROVE  \A b \in HeldBuffers(holder[u]) :
           b.op \in Ops /\ Actor[b.op] = u /\ b.since = holder[u].gen /\ b \notin zeroed
<1>1. HeldFor(u, holder[u], zeroed, epoch)
  BY HolderFits
<1> QED BY <1>1 DEF HeldFor, Held, HeldBuffers

-----------------------------------------------------------------------------
(* The holder's methods: what they hold afterwards.                        *)
SameBuffers(h, i) ==
  HeldIds(h) = HeldIds(i) /\ \A k \in HeldIds(i) : h.keys[k].data_key = i.keys[k].data_key

(* An observed rotation moves no buffer, and only the observed key can be  *)
(* designated afterwards.                                                  *)
LEMMA ObservedIs ==
  ASSUME NEW h, HolderTyped(h), NEW k
  PROVE  /\ HolderTyped(OnKeyRotationObserved(h, k))
         /\ OnKeyRotationObserved(h, k).gen = h.gen
         /\ SameBuffers(OnKeyRotationObserved(h, k), h)
         /\ HasLiveKey(OnKeyRotationObserved(h, k)) => OnKeyRotationObserved(h, k).live = k
<1>1. CASE k \in HeldIds(h)
  <2> DEFINE d == Designate(h, k)
  <2>1. d = [keys |-> [j \in HeldIds(h) |->
                         Flagged(h.keys[j], (j = k) \/ (j # h.live /\ h.keys[j].is_live))],
             live |-> k, gen |-> h.gen]
    BY Zenon DEF Designate
  <2>2. OnKeyRotationObserved(h, k) = d
    BY <1>1 DEF OnKeyRotationObserved
  <2> HIDE DEF d
  <2>3. /\ d = [keys |-> d.keys, live |-> d.live, gen |-> d.gen] /\ d.gen = h.gen /\ d.live = k
        /\ HeldIds(d) = HeldIds(h)
    BY <2>1 DEF HeldIds
  <2>4. \A j \in HeldIds(h) : d.keys[j].data_key = h.keys[j].data_key
    BY <2>1 DEF Flagged
  <2> QED BY <2>2, <2>3, <2>4 DEF HolderTyped, SameBuffers
<1>2. CASE k \notin HeldIds(h) /\ h.live # NoKey
  <2> DEFINE d == Demote(h)
  <2>1. d = [keys |-> [j \in HeldIds(h) |->
                         Flagged(h.keys[j], j # h.live /\ h.keys[j].is_live)],
             live |-> NoKey, gen |-> h.gen]
    BY Zenon DEF Demote
  <2>2. OnKeyRotationObserved(h, k) = d
    BY <1>2 DEF OnKeyRotationObserved
  <2> HIDE DEF d
  <2>3. /\ d = [keys |-> d.keys, live |-> d.live, gen |-> d.gen] /\ d.gen = h.gen
        /\ d.live = NoKey /\ HeldIds(d) = HeldIds(h)
    BY <2>1 DEF HeldIds
  <2>4. \A j \in HeldIds(h) : d.keys[j].data_key = h.keys[j].data_key
    BY <2>1 DEF Flagged
  <2> QED BY <2>2, <2>3, <2>4 DEF HolderTyped, SameBuffers, HasLiveKey
<1>3. CASE k \notin HeldIds(h) /\ h.live = NoKey
  BY <1>3 DEF OnKeyRotationObserved, HasLiveKey, SameBuffers
<1> QED BY <1>1, <1>2, <1>3

(* populate() holds the keys it is given, and designates a live one of     *)
(* them if there is one.                                                   *)
LEMMA PopulatedIs ==
  ASSUME NEW h, HolderTyped(h), NEW E, \A e \in E : e.key_id # NoKey
  PROVE  /\ HolderTyped(Populate(h, E)) /\ Populate(h, E).gen = h.gen
         /\ HeldIds(Populate(h, E)) = {e.key_id : e \in E}
         /\ \A k \in HeldIds(Populate(h, E)) : \E e \in E :
              e.key_id = k /\ Populate(h, E).keys[k].data_key = e.data_key
         /\ HasLiveKey(Populate(h, E)) =>
              \E e \in E : e.is_live /\ Populate(h, E).live = e.key_id
         /\ (\E e \in E : e.is_live) => HasLiveKey(Populate(h, E))
<1> DEFINE d == Populate(h, E)
<1>1. \A k \in {e.key_id : e \in E} : EntryFor(E, k) \in E /\ EntryFor(E, k).key_id = k
  BY DEF EntryFor
<1>2. /\ d = [keys |-> d.keys, live |-> d.live, gen |-> d.gen] /\ d.gen = h.gen
      /\ d.live = IF \E e \in E : e.is_live THEN (CHOOSE e \in E : e.is_live).key_id ELSE NoKey
  BY DEF Populate
<1>3. /\ HeldIds(d) = {e.key_id : e \in E}
      /\ \A k \in {e.key_id : e \in E} : d.keys[k].data_key = EntryFor(E, k).data_key
  BY DEF Populate, HeldIds
<1> HIDE DEF d
<1>4. \A k \in HeldIds(d) : \E e \in E : e.key_id = k /\ d.keys[k].data_key = e.data_key
  BY <1>1, <1>3
<1>5. CASE \E e \in E : e.is_live
  <2> DEFINE c == CHOOSE e \in E : e.is_live
  <2>1. c \in E /\ c.is_live
    BY <1>5
  <2>2. d.live = c.key_id
    BY <1>2, <1>5
  <2> HIDE DEF c
  <2>3. HasLiveKey(d)
    BY <1>3, <2>1, <2>2 DEF HasLiveKey
  <2> QED BY <1>2, <1>3, <1>4, <2>1, <2>2, <2>3 DEF HolderTyped, d
<1>6. CASE ~\E e \in E : e.is_live
  <2>1. ~HasLiveKey(d)
    BY <1>2, <1>6 DEF HasLiveKey
  <2> QED BY <1>2, <1>3, <1>4, <1>6, <2>1 DEF HolderTyped, d
<1> QED BY <1>5, <1>6

(* wipe() leaves nothing, and advances the generation.                     *)
LEMMA WipedIs ==
  ASSUME Typed, NEW u \in Users
  PROVE  /\ HolderTyped(Wipe(holder[u]))
         /\ HeldIds(Wipe(holder[u])) = {} /\ HeldBuffers(Wipe(holder[u])) = {}
         /\ Wipe(holder[u]).gen = holder[u].gen + 1
         /\ ~HasLiveKey(Wipe(holder[u]))
         /\ holder[u].gen \in Nat
  BY DEF Typed, HolderTyped, Wipe, NewHolder, HeldIds, HeldBuffers, HasLiveKey

-----------------------------------------------------------------------------
(* The heap after a step, said of the new state.                           *)
LEMMA HeapIs ==
  ASSUME plan' = plan,
         \A p \in Ops :
           /\ Timed(p, op'[p], holder'[Actor[p]].gen, signedIn')
           /\ Unused(p, op'[p], zeroed' \cup HeldBuffers(holder'[Actor[p]])),
         \A u \in Users : /\ HeldFor(u, holder'[u], zeroed', epoch')
                          /\ u \notin signedIn' => HeldIds(holder'[u]) = {}
  PROVE  Heap'
<1>1. Actor' = Actor
  BY DEF Actor
<1>2. \A p \in Ops : H(p)' = holder'[Actor[p]]
  BY <1>1 DEF H
<1>3. \A p \in Ops : /\ Timed(p, op[p], H(p).gen, signedIn)'
                     /\ Unused(p, op[p], zeroed \cup HeldBuffers(H(p)))'
  BY <1>1, <1>2 DEF Timed, Unused
<1>4. ASSUME NEW u \in Users PROVE HeldFor(u, holder[u], zeroed, epoch)'
  BY <1>1 DEF HeldFor, Held
<1> QED BY <1>3, <1>4 DEF Heap

(* An operation moves on and no buffer does.                               *)
LEMMA HeapSame ==
  ASSUME IInv, NEW p \in Ops, NEW h, NEW o, HolderTyped(h), h.gen = H(p).gen,
         SameBuffers(h, H(p)), holder' = [holder EXCEPT ![Actor[p]] = h],
         op' = [op EXCEPT ![p] = o], UNCHANGED <<plan, zeroed, signedIn, epoch>>,
         Timed(p, o, H(p).gen, signedIn), Unused(p, o, zeroed \cup HeldBuffers(H(p)))
  PROVE  /\ Heap' /\ holder' = [v \in Users |-> holder'[v]]
         /\ \A v \in Users : HolderTyped(holder'[v])
<1> DEFINE a == Actor[p]
<1>1. Typed /\ a \in Users /\ H(p) = holder[a]
  BY OpKnown DEF IInv
<1>2. /\ holder' = [v \in Users |-> holder'[v]]
      /\ holder'[a] = h /\ \A v \in Users : v # a => holder'[v] = holder[v]
      /\ op'[p] = o /\ \A q \in Ops : q # p => op'[q] = op[q]
  BY <1>1 DEF Typed
<1>3. HeldBuffers(h) = HeldBuffers(H(p))
  BY DEF SameBuffers, HeldBuffers
<1>4. \A v \in Users : HolderTyped(holder'[v])
  BY <1>1, <1>2 DEF Typed
<1>5. ASSUME NEW q \in Ops
      PROVE  /\ Timed(q, op'[q], holder'[Actor[q]].gen, signedIn')
             /\ Unused(q, op'[q], zeroed' \cup HeldBuffers(holder'[Actor[q]]))
  <2>1. /\ Timed(q, op[q], H(q).gen, signedIn)
        /\ Unused(q, op[q], zeroed \cup HeldBuffers(H(q)))
        /\ H(q) = holder[Actor[q]] /\ Actor[q] \in Users
    BY OpKnown
  <2>2. /\ holder'[Actor[q]].gen = H(q).gen
        /\ HeldBuffers(holder'[Actor[q]]) = HeldBuffers(H(q))
    BY <1>1, <1>2, <1>3, <2>1
  <2>3. CASE q = p
    BY <1>2, <2>2, <2>3
  <2>4. CASE q # p
    BY <1>2, <2>1, <2>2, <2>4
  <2> QED BY <2>3, <2>4
<1>6. ASSUME NEW v \in Users
      PROVE  /\ HeldFor(v, holder'[v], zeroed', epoch')
             /\ v \notin signedIn' => HeldIds(holder'[v]) = {}
  <2>1. /\ HeldFor(v, holder[v], zeroed, epoch)
        /\ v \notin signedIn => HeldIds(holder[v]) = {}
    BY HolderFits
  <2>2. CASE v = a
    BY <1>1, <1>2, <2>1, <2>2 DEF HeldFor, SameBuffers
  <2>3. CASE v # a
    BY <1>2, <2>1, <2>3
  <2> QED BY <2>2, <2>3
<1> QED BY <1>2, <1>4, <1>5, <1>6, HeapIs

(* A tab is wiped; its operations are where they were, or have ended.      *)
LEMMA HeapWiped ==
  ASSUME IInv, NEW u \in Users, WipeTab(u), UNCHANGED <<plan, epoch>>,
         signedIn' \in {signedIn, signedIn \ {u}},
         \A p \in Ops : op'[p] = op[p] \/
           /\ op'[p].pc = "ended" /\ op'[p].gen = op[p].gen /\ op'[p].begun = op[p].begun
           /\ op'[p].since = op[p].since /\ op'[p].fetched = op[p].fetched
  PROVE  /\ Heap' /\ holder' = [v \in Users |-> holder'[v]]
         /\ \A v \in Users : HolderTyped(holder'[v])
         /\ holder'[u] = Wipe(holder[u]) /\ \A v \in Users : v # u => holder'[v] = holder[v]
<1>1. /\ holder' = [holder EXCEPT ![u] = Wipe(holder[u])]
      /\ zeroed' = zeroed \cup HeldBuffers(holder[u])
  BY DEF WipeTab
<1>2. Typed
  BY DEF IInv
<1>3. /\ HeldBuffers(Wipe(holder[u])) = {} /\ HeldIds(Wipe(holder[u])) = {}
      /\ Wipe(holder[u]).gen = holder[u].gen + 1
  BY <1>2, WipedIs
<1>4. /\ holder' = [v \in Users |-> holder'[v]]
      /\ holder'[u] = Wipe(holder[u]) /\ \A v \in Users : v # u => holder'[v] = holder[v]
  BY <1>1, <1>2 DEF Typed
<1>5. \A v \in Users : HolderTyped(holder'[v])
  <2>1. HolderTyped(Wipe(holder[u]))
    BY <1>2, WipedIs
  <2>2. \A v \in Users : HolderTyped(holder[v])
    BY <1>2 DEF Typed
  <2> QED BY <1>4, <2>1, <2>2
<1>6. \A b \in HeldBuffers(holder[u]) : b.op \in Ops /\ Actor[b.op] = u
  BY HeldIsMine
<1>7. ASSUME NEW p \in Ops
      PROVE  /\ Timed(p, op'[p], holder'[Actor[p]].gen, signedIn')
             /\ Unused(p, op'[p], zeroed' \cup HeldBuffers(holder'[Actor[p]]))
  <2>1. /\ Timed(p, op[p], H(p).gen, signedIn)
        /\ Unused(p, op[p], zeroed \cup HeldBuffers(H(p)))
        /\ IsOp(op[p]) /\ H(p).gen \in Nat /\ Actor[p] \in Users /\ H(p) = holder[Actor[p]]
    BY OpKnown
  <2>2. CASE Actor[p] = u
    <3>1. /\ HeldBuffers(holder'[Actor[p]]) = {}
          /\ holder'[Actor[p]].gen = H(p).gen + 1
          /\ zeroed' = zeroed \cup HeldBuffers(H(p))
      BY <1>1, <1>4, <1>3, <2>1, <2>2
    <3>2. Timed(p, op'[p], holder'[Actor[p]].gen, signedIn')
      BY <2>1, <3>1 DEF Timed, IsOp, FetchPCs
    <3>3. Unused(p, op'[p], zeroed' \cup HeldBuffers(holder'[Actor[p]]))
      BY <2>1, <3>1 DEF Unused, FetchPCs
    <3> QED BY <3>2, <3>3
  <2>3. CASE Actor[p] # u
    <3>1. holder'[Actor[p]] = H(p) /\ (Actor[p] \in signedIn' <=> Actor[p] \in signedIn)
      BY <1>4, <2>1, <2>3
    <3>2. \A b \in HeldBuffers(holder[u]) : b.op # p
      BY <1>6, <2>3
    <3>3. Timed(p, op'[p], holder'[Actor[p]].gen, signedIn')
      BY <2>1, <3>1 DEF Timed, FetchPCs
    <3>4. Unused(p, op'[p], zeroed' \cup HeldBuffers(holder'[Actor[p]]))
      BY <1>1, <2>1, <3>1, <3>2 DEF Unused, FetchPCs
    <3> QED BY <3>3, <3>4
  <2> QED BY <2>2, <2>3
<1>8. ASSUME NEW v \in Users
      PROVE  /\ HeldFor(v, holder'[v], zeroed', epoch')
             /\ v \notin signedIn' => HeldIds(holder'[v]) = {}
  <2>1. CASE v = u
    <3>1. HeldIds(holder'[v]) = {}
      BY <1>2, <1>4, <2>1, WipedIs
    <3> QED BY <3>1 DEF HeldFor
  <2>2. CASE v # u
    <3>1. holder'[v] = holder[v] /\ (v \in signedIn' <=> v \in signedIn)
      BY <1>4, <2>2
    <3>2. HeldFor(v, holder[v], zeroed, epoch) /\ (v \notin signedIn => HeldIds(holder[v]) = {})
      BY HolderFits
    <3>3. HeldFor(v, holder[v], zeroed', epoch')
      BY <1>1, <1>6, <2>2, <3>2 DEF HeldFor, Held
    <3> QED BY <3>1, <3>2, <3>3
  <2> QED BY <2>1, <2>2
<1> QED BY <1>4, <1>5, <1>7, <1>8, HeapIs

(* A fetch is opened into the holder, no wipe having fallen since.         *)
LEMMA HeapInstalled ==
  ASSUME IInv, NEW p \in Ops, NEW h, NEW o,
         holder' = [holder EXCEPT ![Actor[p]] = h], zeroed' = zeroed \cup Orphans(H(p), h),
         op' = [op EXCEPT ![p] = o], UNCHANGED <<plan, signedIn, epoch>>,
         HolderTyped(h), h.gen = H(p).gen,
         \A k \in HeldIds(h) : /\ h.keys[k].data_key.op = p
                               /\ h.keys[k].data_key.n = op[p].fetched
                               /\ h.keys[k].data_key.since = op[p].since
                               /\ h.keys[k].data_key.mat = k /\ k \in KeysIn(epoch),
         op[p].pc \in FetchPCs, op[p].resp.status = "ok", H(p).gen = op[p].gen,
         o.pc \notin FetchPCs, o.fetched = op[p].fetched, Timed(p, o, H(p).gen, signedIn)
  PROVE  /\ Heap' /\ holder' = [v \in Users |-> holder'[v]]
         /\ \A v \in Users : HolderTyped(holder'[v])
<1> DEFINE a == Actor[p]
<1>1. /\ Typed /\ IsOp(op[p]) /\ a \in Users /\ H(p) = holder[a] /\ H(p).gen \in Nat
      /\ Timed(p, op[p], H(p).gen, signedIn)
      /\ Unused(p, op[p], zeroed \cup HeldBuffers(H(p)))
  BY OpKnown DEF IInv
<1>2. op[p].since = H(p).gen /\ a \in signedIn
  BY <1>1 DEF Timed, IsOp
<1>3. /\ holder' = [v \in Users |-> holder'[v]]
      /\ holder'[a] = h /\ \A v \in Users : v # a => holder'[v] = holder[v]
  BY <1>1 DEF Typed
<1>4. \A v \in Users : HolderTyped(holder'[v])
  BY <1>1, <1>3 DEF Typed
<1>5. \A q \in Ops : H(q) = holder[Actor[q]] /\ Actor[q] \in Users
  BY <1>1, PlanKnown
<1>6. /\ op'[p] = o /\ \A q \in Ops : q # p => op'[q] = op[q]
  BY <1>1 DEF Typed
<1>7. /\ \A b \in zeroed' : b \in zeroed \/ (b \in HeldBuffers(H(p)) /\ b \notin HeldBuffers(h))
      /\ \A b \in HeldBuffers(h) : b.op = p /\ b.n = op[p].fetched
  BY DEF Orphans, HeldBuffers, HeldIds
<1>8. \A b \in HeldBuffers(H(p)) : b.op \in Ops /\ Actor[b.op] = a
  BY <1>1, HeldIsMine
<1>9. ASSUME NEW q \in Ops
       PROVE  /\ Timed(q, op'[q], holder'[Actor[q]].gen, signedIn')
             /\ Unused(q, op'[q], zeroed' \cup HeldBuffers(holder'[Actor[q]]))
  <2>1. holder'[Actor[q]].gen = H(q).gen
    BY <1>1, <1>3, <1>5
  <2>2. /\ Timed(q, op[q], H(q).gen, signedIn)
        /\ Unused(q, op[q], zeroed \cup HeldBuffers(H(q)))
    BY OpKnown
  <2>3. Timed(q, op'[q], holder'[Actor[q]].gen, signedIn')
    BY <1>6, <2>1, <2>2
  <2>4. Unused(q, op'[q], zeroed' \cup HeldBuffers(holder'[Actor[q]]))
    <3>1. CASE q = p
      <4>1. op[q].fetched \in Nat
        BY <1>1, <3>1 DEF IsOp
      <4>2. HeldBuffers(holder'[Actor[q]]) = HeldBuffers(h)
        BY <1>3, <3>1
      <4> QED BY <1>1, <1>6, <1>7, <3>1, <4>1, <4>2 DEF Unused
    <3>2. CASE q # p
      <4>1. HeldBuffers(holder'[Actor[q]]) =
              IF Actor[q] = a THEN HeldBuffers(h) ELSE HeldBuffers(H(q))
        BY <1>3, <1>5
      <4>2. \A b \in HeldBuffers(H(p)) : b.op = q => b \in HeldBuffers(H(q))
        BY <1>1, <1>5, <1>8
      <4>3. \A b \in zeroed' \cup HeldBuffers(holder'[Actor[q]]) :
              b.op = q => b \in zeroed \cup HeldBuffers(H(q))
        BY <1>7, <3>2, <4>1, <4>2
      <4> QED BY <1>6, <2>2, <3>2, <4>3 DEF Unused
    <3> QED BY <3>1, <3>2
  <2> QED BY <2>3, <2>4
<1>10. ASSUME NEW v \in Users
       PROVE  /\ HeldFor(v, holder'[v], zeroed', epoch')
              /\ v \notin signedIn' => HeldIds(holder'[v]) = {}
  <2>1. CASE v = a
    <3>1. \A b \in HeldBuffers(h) : b \notin zeroed'
      <4>1. \A b \in zeroed : b.op = p => b.n # op[p].fetched
        BY <1>1 DEF Unused, IsOp
      <4> QED BY <1>7, <4>1
    <3>2. \A k \in HeldIds(h) : h.keys[k].data_key \in HeldBuffers(h)
      BY DEF HeldBuffers
    <3>3. HeldFor(v, h, zeroed', epoch')
      BY <1>2, <2>1, <3>1, <3>2 DEF HeldFor, Held
    <3>4. v \in signedIn'
      BY <1>2, <2>1
    <3> QED BY <1>3, <2>1, <3>3, <3>4
  <2>2. CASE v # a
    <3>1. holder'[v] = holder[v]
      BY <1>3, <2>2
    <3>2. HeldFor(v, holder[v], zeroed, epoch) /\ (v \notin signedIn => HeldIds(holder[v]) = {})
      BY HolderFits
    <3>3. HeldFor(v, holder[v], zeroed', epoch')
      BY <1>7, <1>8, <2>2, <3>2 DEF HeldFor, Held
    <3> QED BY <3>1, <3>2, <3>3
  <2> QED BY <2>1, <2>2
<1> QED BY <1>3, <1>4, <1>9, <1>10, HeapIs

-----------------------------------------------------------------------------
(* The invariant after a step.                                             *)
LEMMA KeysAre ==
  ASSUME IInv
  PROVE  /\ Minted = KeysIn(epoch) /\ LiveKeys \subseteq KeysIn(epoch)
         /\ \A k \in LiveKeys, j \in KeysIn(epoch) : epoch[k] >= epoch[j]
         /\ \A k, j \in LiveKeys : k = j
         /\ \A k \in KeysIn(epoch) : k \in KeyIds /\ k # NoKey /\ k # ZeroKey /\ epoch[k] \in Nat
<1>1. KeysInv
  BY DEF IInv
<1>2. Minted = KeysIn(epoch) /\ LiveKeys \subseteq KeysIn(epoch)
  BY DEF Minted, KeysIn, LiveKeys
<1>3. \A k \in KeysIn(epoch) : k \in KeyIds /\ k # NoKey /\ k # ZeroKey /\ epoch[k] \in Nat
  BY <1>1, NoKeyAssumption, ZeroKeyAssumption DEF KeysIn, KeysInv
<1>4. CASE Minted = {}
  BY <1>2, <1>3, <1>4
<1>5. CASE Minted # {}
  <2>1. PICK n \in LiveKeys : \A j \in Minted :
          /\ epoch[j] <= epoch[n]
          /\ j # n => j \in retired /\ epoch[j] < epoch[n]
    BY <1>1, <1>5 DEF KeysInv, OneLiveNewest
  <2>2. \A k \in LiveKeys : k = n
    BY <1>2, <2>1 DEF LiveKeys
  <2> QED BY <1>2, <1>3, <2>1, <2>2
<1> QED BY <1>4, <1>5

(* Flows after a step, said of the new state.                              *)
LEMMA FlowsAre ==
  ASSUME plan' = plan,
         \A q \in Ops :
           /\ Shape(op'[q]) /\ Told(op'[q], epoch')
           /\ Fresh(op'[q], holder'[Actor[q]], epoch')
           /\ Wrapped(q, op'[q], wraps', archive')
           /\ Sure(q, op'[q], holder'[Actor[q]], LiveKeys', faults', archive')
  PROVE  Flows'
<1>1. Actor' = Actor
  BY DEF Actor
<1>2. \A q \in Ops : H(q)' = holder'[Actor[q]]
  BY <1>1 DEF H
<1>3. ASSUME NEW q \in Ops PROVE Shape(op[q])' /\ Told(op[q], epoch)'
  BY DEF Shape, Told
<1>4. ASSUME NEW q \in Ops PROVE Fresh(op[q], H(q), epoch)'
  BY <1>2 DEF Fresh
<1>5. ASSUME NEW q \in Ops PROVE Wrapped(q, op[q], wraps, archive)'
  BY <1>1 DEF Wrapped, Lasting
<1>6. ASSUME NEW q \in Ops PROVE Sure(q, op[q], H(q), LiveKeys, faults, archive)'
  <2>1. Lasting(q, op[q], archive)' = Lasting(q, op'[q], archive')
    BY <1>1 DEF Lasting
  <2>2. Unhurt(op[q], H(q), LiveKeys, faults)'
          <=> Unhurt(op'[q], holder'[Actor[q]], LiveKeys', faults')
    BY <1>2 DEF Unhurt
  <2> QED BY <1>2, <2>1, <2>2 DEF Sure
<1> QED BY <1>3, <1>4, <1>5, <1>6 DEF Flows

(* An operation that does not move, while another one of its tab may, or   *)
(* its tab is wiped.                                                       *)
LEMMA StandsStill ==
  ASSUME IInv, NEW q \in Ops, NEW h, NEW f \in Nat, h.gen \in Nat, H(q).gen <= h.gen,
         faults <= f, plan.overlap \/ op[q].pc \in {"idle", "ended"} \/ h = H(q)
  PROVE  Fresh(op[q], h, epoch) /\ Sure(q, op[q], h, LiveKeys, f, archive)
<1>1. /\ Shape(op[q]) /\ Fresh(op[q], H(q), epoch) /\ IsOp(op[q])
      /\ Sure(q, op[q], H(q), LiveKeys, faults, archive)
      /\ op[q].begun <= H(q).gen /\ H(q).gen \in Nat
  BY OpKnown DEF Timed
<1>2. Fresh(op[q], h, epoch)
  BY <1>1 DEF Fresh
<1>3. ASSUME Unhurt(op[q], h, LiveKeys, f), Lasting(q, op[q], archive) # {}
      PROVE  Complete(op[q], h, Lasting(q, op[q], archive))
  <2>1. faults \in Nat
    BY DEF IInv, Typed
  <2>2. ~plan.overlap /\ faults = 0 /\ op[q].begun = H(q).gen
    BY <1>1, <1>3, <2>1 DEF Unhurt, IsOp
  <2>3. Complete(op[q], H(q), Lasting(q, op[q], archive))
    BY <1>1, <1>3, <2>2 DEF Sure, Unhurt
  <2>4. CASE h = H(q)
    BY <2>3, <2>4
  <2>5. CASE op[q].pc \in {"idle", "ended"}
    BY <1>1, <2>3, <2>5 DEF Complete, Shape, WrapsPCs
  <2> QED BY <2>2, <2>4, <2>5
<1> QED BY <1>2, <1>3 DEF Sure

(* No other operation runs, if they may not overlap.                       *)
Alone(p) == plan.overlap \/ \A q \in Ops : q # p => op[q].pc \in {"idle", "ended"}

(* So it is while an operation runs.                                       *)
LEMMA RunsAlone ==
  ASSUME IInv, NEW p \in Ops, op[p].pc \notin {"idle", "ended"}
  PROVE  Alone(p)
  BY DEF IInv, Solo, Running, Alone

(* An operation moves to the local state o, and its tab's holder with it.  *)
LEMMA OpMoves ==
  ASSUME IInv, NEW p \in Ops, NEW o, op' = [op EXCEPT ![p] = o],
         UNCHANGED <<plan, serverVars>>, faults' \in Nat, faults <= faults', Alone(p),
         IsOp(o), Shape(o), Told(o, epoch), Fresh(o, holder'[Actor[p]], epoch),
         Wrapped(p, o, wraps, archive),
         Sure(p, o, holder'[Actor[p]], LiveKeys, faults', archive),
         o.resp.status = "lost" => faults' > 0,
         Heap', holder' = [v \in Users |-> holder'[v]],
         \A v \in Users : HolderTyped(holder'[v]) /\ holder[v].gen <= holder'[v].gen
  PROVE  IInv'
<1>1. /\ UNCHANGED <<keyRows, wraps, archive>>
      /\ epoch' = epoch /\ retired' = retired /\ Minted' = Minted /\ LiveKeys' = LiveKeys
  BY DEF serverVars, keyRows, wrapRows, Minted, LiveKeys
<1>2. /\ op' = [q \in Ops |-> op'[q]]
      /\ op'[p] = o /\ \A q \in Ops : q # p => op'[q] = op[q]
  BY DEF IInv, Typed
<1>3. Typed'
  BY <1>2 DEF IInv, Typed
<1>4. KeysInv'
  BY <1>1 DEF IInv, KeysInv, OneLiveNewest
<1>5. RowsNamed'
  BY <1>1 DEF IInv, RowsNamed, Named
<1>6. LossCounted'
  <2>1. \A q \in Ops : op'[q].resp.status = "lost" => faults' > 0
    BY <1>2 DEF IInv, LossCounted, Typed
  <2> QED BY <2>1 DEF LossCounted
<1>7. Solo'
  <2>1. ASSUME ~plan.overlap, NEW q \in Ops, NEW r \in Ops,
               op'[q].pc \notin {"idle", "ended"}, op'[r].pc \notin {"idle", "ended"}
        PROVE  q = r
    <3>1. \A s \in Ops : s # p => op'[s].pc \in {"idle", "ended"}
      BY <1>2, <2>1 DEF Alone
    <3> QED BY <2>1, <3>1
  <2> QED BY <2>1 DEF Solo, Running
<1>8. Flows'
  <2>1. ASSUME NEW q \in Ops, q # p
        PROVE  /\ Shape(op'[q]) /\ Told(op'[q], epoch')
               /\ Fresh(op'[q], holder'[Actor[q]], epoch')
               /\ Wrapped(q, op'[q], wraps', archive')
               /\ Sure(q, op'[q], holder'[Actor[q]], LiveKeys', faults', archive')
    <3>1. /\ Shape(op[q]) /\ Told(op[q], epoch) /\ Wrapped(q, op[q], wraps, archive)
          /\ Actor[q] \in Users /\ H(q) = holder[Actor[q]]
      BY OpKnown
    <3>2. holder'[Actor[q]].gen \in Nat /\ H(q).gen <= holder'[Actor[q]].gen
      BY <3>1 DEF HolderTyped
    <3>3. /\ Fresh(op[q], holder'[Actor[q]], epoch)
          /\ Sure(q, op[q], holder'[Actor[q]], LiveKeys, faults', archive)
      BY <2>1, <3>2, StandsStill DEF Alone
    <3> QED BY <1>1, <1>2, <2>1, <3>1, <3>3
  <2>2. /\ Shape(op'[p]) /\ Told(op'[p], epoch')
        /\ Fresh(op'[p], holder'[Actor[p]], epoch')
        /\ Wrapped(p, op'[p], wraps', archive')
        /\ Sure(p, op'[p], holder'[Actor[p]], LiveKeys', faults', archive')
    BY <1>1, <1>2
  <2> QED BY <2>1, <2>2, FlowsAre
<1> QED BY <1>3, <1>4, <1>5, <1>6, <1>7, <1>8 DEF IInv

(* The world changes around the operations: keys are minted, wraps come or *)
(* are purged, tabs are wiped.                                             *)
LEMMA WorldMoves ==
  ASSUME IInv, UNCHANGED <<op, plan, faults>>, KeysInv', RowsNamed', Heap',
         holder' = [v \in Users |-> holder'[v]],
         \A v \in Users :
           /\ HolderTyped(holder'[v])
           /\ \/ holder'[v] = holder[v]
              \/ holder'[v].gen = holder[v].gen + 1 /\ ~HasLiveKey(holder'[v]),
         \A k \in KeysIn(epoch) : k \in KeysIn(epoch') /\ epoch'[k] = epoch[k],
         LiveKeys' \cap KeysIn(epoch) \subseteq LiveKeys,
         archive \subseteq archive',
         \A p \in Ops : Lasting(p, op[p], archive') # {} =>
           \A k : WrapIn(wraps, Actor[p], k) => WrapIn(wraps', Actor[p], k)
  PROVE  IInv'
<1>1. Typed'
  BY DEF IInv, Typed
<1>2. LossCounted' /\ Solo'
  BY DEF IInv, LossCounted, Solo, Running
<1>3. ASSUME NEW p \in Ops
      PROVE  /\ Shape(op'[p]) /\ Told(op'[p], epoch')
             /\ Fresh(op'[p], holder'[Actor[p]], epoch')
             /\ Wrapped(p, op'[p], wraps', archive')
             /\ Sure(p, op'[p], holder'[Actor[p]], LiveKeys', faults', archive')
  <2> DEFINE o == op[p]
             h == holder'[Actor[p]]
  <2>1. /\ IsOp(o) /\ Shape(o) /\ Told(o, epoch) /\ Fresh(o, H(p), epoch)
        /\ Wrapped(p, o, wraps, archive) /\ Sure(p, o, H(p), LiveKeys, faults, archive)
        /\ o.begun <= H(p).gen /\ H(p).gen \in Nat
        /\ H(p) = holder[Actor[p]] /\ Actor[p] \in Users
    BY OpKnown DEF Timed
  <2>2. \/ h = H(p)
        \/ h.gen = H(p).gen + 1 /\ ~HasLiveKey(h)
    BY <2>1
  <2>3. o.probed \in KeysIn(epoch) \cup {NoKey}
    BY <2>1 DEF Told
  <2>4. \A k \in KeysIn(epoch) : k # NoKey
    BY KeysAre
  <2>5. op' = op
    OBVIOUS
  <2> HIDE DEF o, h
  <2>6. Told(o, epoch')
    BY <2>1, <2>3, <2>4 DEF Told, Named, FetchPCs, WrapsPCs
  <2>7. Fresh(o, h, epoch')
    <3>1. CASE h = H(p) /\ HasLiveKey(H(p))
      <4>1. H(p).live \in KeysIn(epoch)
        <5>1. HeldFor(Actor[p], holder[Actor[p]], zeroed, epoch)
          BY <2>1, HolderFits
        <5> QED BY <2>1, <3>1, <5>1 DEF HeldFor, Held, HasLiveKey
      <4> QED BY <2>1, <2>3, <2>4, <3>1, <4>1 DEF Fresh, Told
    <3>2. CASE ~HasLiveKey(h)
      BY <2>1, <2>3, <2>4, <3>2 DEF Fresh, Told
    <3> QED BY <2>2, <3>1, <3>2
  <2>8. Lasting(p, o, archive') \subseteq Lasting(p, o, archive)
    BY DEF Lasting
  <2>9. Wrapped(p, o, wraps', archive')
    <3>1. CASE Lasting(p, o, archive') = {}
      BY <3>1 DEF Wrapped
    <3>2. CASE Lasting(p, o, archive') # {}
      <4>1. \A k : WrapIn(wraps, Actor[p], k) => WrapIn(wraps', Actor[p], k)
        BY <3>2 DEF o
      <4>2. Lasting(p, o, archive) # {}
        BY <2>8, <3>2
      <4> QED BY <2>1, <2>8, <4>1, <4>2 DEF Wrapped
    <3> QED BY <3>1, <3>2
  <2>10. ASSUME Unhurt(o, h, LiveKeys', faults), Lasting(p, o, archive') # {}
        PROVE  Complete(o, h, Lasting(p, o, archive'))
    <3>1. h = H(p)
      BY <2>1, <2>2, <2>10 DEF Unhurt, IsOp
    <3>2. o.probed \in LiveKeys' /\ o.probed # NoKey
      BY <2>10, NoKeyAssumption DEF Unhurt, LiveKeys, Minted
    <3>3. Unhurt(o, H(p), LiveKeys, faults)
      BY <2>3, <2>10, <3>1, <3>2 DEF Unhurt
    <3>4. Complete(o, H(p), Lasting(p, o, archive))
      BY <2>1, <2>8, <2>10, <3>3 DEF Sure
    <3> QED BY <2>8, <3>1, <3>4 DEF Complete
  <2> QED BY <2>1, <2>6, <2>7, <2>9, <2>10, <2>5 DEF Sure, o, h
<1>4. Flows'
  BY <1>3, FlowsAre
<1> QED BY <1>1, <1>2, <1>4 DEF IInv

(* The keys and the wraps change, the tabs do not, but for who is signed   *)
(* in.                                                                     *)
LEMMA TablesMove ==
  ASSUME IInv, UNCHANGED <<op, plan, faults, holder, zeroed>>, signedIn \subseteq signedIn',
         KeysInv', RowsNamed',
         \A k \in KeysIn(epoch) : k \in KeysIn(epoch') /\ epoch'[k] = epoch[k],
         LiveKeys' \cap KeysIn(epoch) \subseteq LiveKeys,
         archive \subseteq archive',
         \A p \in Ops : Lasting(p, op[p], archive') # {} =>
           \A k : WrapIn(wraps, Actor[p], k) => WrapIn(wraps', Actor[p], k)
  PROVE  IInv'
<1>1. ASSUME NEW p \in Ops
      PROVE  /\ Timed(p, op'[p], holder'[Actor[p]].gen, signedIn')
             /\ Unused(p, op'[p], zeroed' \cup HeldBuffers(holder'[Actor[p]]))
  <2>1. /\ Timed(p, op[p], H(p).gen, signedIn)
        /\ Unused(p, op[p], zeroed \cup HeldBuffers(H(p))) /\ H(p) = holder[Actor[p]]
    BY OpKnown
  <2> QED BY <2>1 DEF Timed
<1>2. ASSUME NEW u \in Users
      PROVE  /\ HeldFor(u, holder'[u], zeroed', epoch')
             /\ u \notin signedIn' => HeldIds(holder'[u]) = {}
  BY HolderFits DEF HeldFor, Held
<1>3. Heap'
  BY <1>1, <1>2, HeapIs
<1>4. /\ holder' = [v \in Users |-> holder'[v]]
      /\ \A v \in Users : HolderTyped(holder'[v]) /\ holder'[v] = holder[v]
  BY DEF IInv, Typed
<1> QED BY <1>3, <1>4, WorldMoves

(* A step that mints and retires nothing.                                  *)
LEMMA KeysStay ==
  ASSUME IInv, UNCHANGED keyRows
  PROVE  /\ KeysInv' /\ LiveKeys' \subseteq LiveKeys
         /\ \A k \in KeysIn(epoch) : k \in KeysIn(epoch') /\ epoch'[k] = epoch[k]
  BY DEF IInv, KeysInv, keyRows, Minted, LiveKeys, OneLiveNewest, KeysIn

(* What the other members do: rotate, grant, purge, remove, and file.      *)
LEMMA ElsewhereKeeps ==
  ASSUME IInv, Elsewhere, plan' = plan
  PROVE  IInv'
<1>1. UNCHANGED <<op, plan, faults, holder, zeroed, signedIn>>
  BY DEF Elsewhere, clientVars, outside
<1>2. ASSUME NEW k \in plan.mints, Rotate(k) PROVE IInv'
  <2>1. /\ k \notin Minted /\ retired' = retired \cup NewestLive
        /\ epoch' = [epoch EXCEPT ![k] = NextEpoch]
        /\ UNCHANGED wrapRows
    BY <1>2 DEF Rotate
  <2>2. k \in KeyIds
    BY ConcernPlansAssumption DEF IInv, Typed
  <2>3. KeysInv
    BY DEF IInv
  <2>4. NewestLive \subseteq Minted /\ Minted \subseteq retired \cup NewestLive
    BY <2>3, RotateRetires DEF KeysInv
  <2>5. retired' \subseteq Minted /\ Minted \subseteq retired'
    BY <2>1, <2>3, <2>4 DEF KeysInv
  <2>6. KeysInv' /\ Minted' = Minted \cup {k}
    BY <2>1, <2>2, <2>3, <2>5, MintKeys
  <2>7. \A j \in KeysIn(epoch) : j \in KeysIn(epoch') /\ epoch'[j] = epoch[j]
    BY <2>1, <2>3 DEF KeysIn, Minted, KeysInv
  <2>8. LiveKeys' \cap KeysIn(epoch) \subseteq LiveKeys
    BY <2>5, KeysAre DEF LiveKeys
  <2>9. wraps' = wraps /\ archive' = archive
    BY <2>1 DEF wrapRows
  <2>10. RowsNamed'
    BY <2>7, <2>9 DEF IInv, RowsNamed, Named
  <2> QED BY <1>1, <2>6, <2>7, <2>8, <2>9, <2>10, TablesMove
<1>3. ASSUME NEW k \in KeyIds, k \in Minted, InsertWrap([user |-> Me, key |-> k, mat |-> k])
      PROVE  IInv'
  <2>1. /\ UNCHANGED <<keyRows, archive>> /\ wraps \subseteq wraps'
        /\ wraps' \subseteq wraps \cup {[user |-> Me, key |-> k, mat |-> k]}
    BY <1>3 DEF InsertWrap
  <2>2. k \in KeysIn(epoch)
    BY <1>3, KeysAre
  <2>3. RowsNamed'
    BY <2>1, <2>2 DEF IInv, RowsNamed, Named, keyRows
  <2>4. \A p \in Ops : \A j : WrapIn(wraps, Actor[p], j) => WrapIn(wraps', Actor[p], j)
    BY <2>1 DEF WrapIn
  <2> QED BY <1>1, <2>1, <2>3, <2>4, KeysStay, TablesMove
<1>4. ASSUME DeleteWraps([member |-> Me, rows |-> WrapsOf(Me)])
      PROVE  IInv'
  <2>1. /\ UNCHANGED keyRows /\ archive' = archive \cup WrapsOf(Me)
        /\ wraps' = wraps \ WrapsOf(Me)
    BY <1>4 DEF DeleteWraps
  <2>2. RowsNamed'
    BY <2>1 DEF IInv, RowsNamed, Named, keyRows
  <2>3. ASSUME NEW p \in Ops, Lasting(p, op[p], archive') # {}
        PROVE  \A j : WrapIn(wraps, Actor[p], j) => WrapIn(wraps', Actor[p], j)
    <3>1. PICK k \in op[p].mine : ~\E a \in archive' : a.user = Actor[p] /\ a.key = k
      BY <2>3 DEF Lasting
    <3>2. k \in Lasting(p, op[p], archive)
      BY <2>1, <3>1 DEF Lasting
    <3>3. PICK w \in wraps : w.user = Actor[p] /\ w.key = k
      BY <3>2, OpKnown DEF Wrapped, WrapIn
    <3>4. Actor[p] # Me
      BY <2>1, <3>1, <3>3 DEF WrapsOf
    <3> QED BY <2>1, <3>4 DEF WrapIn, WrapsOf
  <2> QED BY <1>1, <2>1, <2>2, <2>3, KeysStay, TablesMove
<1>5. ASSUME UNCHANGED <<keyRows, wrapRows>>
      PROVE  IInv'
  <2>1. wraps' = wraps /\ archive' = archive /\ UNCHANGED keyRows
    BY <1>5 DEF wrapRows
  <2>2. RowsNamed'
    BY <2>1 DEF IInv, RowsNamed, Named, keyRows
  <2> QED BY <1>1, <2>1, <2>2, KeysStay, TablesMove
<1>6. \/ \E k \in plan.mints : Rotate(k)
      \/ \E k \in KeyIds : k \in Minted /\ InsertWrap([user |-> Me, key |-> k, mat |-> k])
      \/ DeleteWraps([member |-> Me, rows |-> WrapsOf(Me)])
      \/ UNCHANGED <<keyRows, wrapRows>>
  BY DEF Elsewhere, CanWrap, RemoveMember, serverVars
<1> QED BY <1>2, <1>3, <1>4, <1>5, <1>6

(* Sign-in, sign-out, unload, a panic wipe, and the end of a session.      *)
LEMMA WipeKeeps ==
  ASSUME IInv, NEW u \in Users, WipeTab(u), UNCHANGED <<op, plan, faults, keyRows, wrapRows>>,
         signedIn' \in {signedIn, signedIn \ {u}}
  PROVE  IInv'
<1>1. /\ UNCHANGED <<plan, epoch>> /\ wraps' = wraps /\ archive' = archive
  BY DEF wrapRows, keyRows
<1>2. /\ Heap' /\ holder' = [v \in Users |-> holder'[v]]
      /\ \A v \in Users : HolderTyped(holder'[v])
      /\ holder'[u] = Wipe(holder[u]) /\ \A v \in Users : v # u => holder'[v] = holder[v]
  BY <1>1, HeapWiped
<1>3. RowsNamed'
  BY <1>1 DEF IInv, RowsNamed, Named
<1>4. Wipe(holder[u]).gen = holder[u].gen + 1 /\ ~HasLiveKey(Wipe(holder[u]))
  BY WipedIs DEF IInv
<1>5. \A v \in Users :
        /\ HolderTyped(holder'[v])
        /\ \/ holder'[v] = holder[v]
           \/ holder'[v].gen = holder[v].gen + 1 /\ ~HasLiveKey(holder'[v])
  BY <1>2, <1>4
<1> QED BY <1>1, <1>2, <1>3, <1>5, KeysStay, WorldMoves

(* A sign-in, and the steps of a panic that wipe nothing.                  *)
LEMMA QuietKeeps ==
  ASSUME IInv, UNCHANGED <<op, plan, faults, holder, zeroed, keyRows, wrapRows>>,
         signedIn \subseteq signedIn'
  PROVE  IInv'
<1>1. wraps' = wraps /\ archive' = archive /\ UNCHANGED keyRows
  BY DEF wrapRows
<1>2. RowsNamed'
  BY <1>1 DEF IInv, RowsNamed, Named, keyRows
<1> QED BY <1>1, <1>2, KeysStay, TablesMove

(* Every event of a tab.                                                   *)
LEMMA TabEventKeeps ==
  ASSUME IInv, NEW u \in Users, TabEvent(u), plan' = plan
  PROVE  IInv'
<1>1. CASE SignOut(u) \/ Unload(u) \/ PanicDestroys(u) \/ PanicCleanup(u)
  BY <1>1, WipeKeeps DEF SignOut, Unload, PanicDestroys, PanicCleanup, serverVars
<1>2. CASE PanicRow(u)
  <2>1. CASE GateSession(u)
    BY <1>2, <2>1, QuietKeeps DEF PanicRow, serverVars
  <2>2. CASE ~GateSession(u)
    BY <1>2, <2>2, WipeKeeps DEF PanicRow, serverVars
  <2> QED BY <2>1, <2>2
<1>3. CASE PanicAborted(u)
  BY <1>3, QuietKeeps DEF PanicAborted, clientVars, serverVars
<1>4. CASE SignIn(u)
  BY <1>4, QuietKeeps DEF SignIn, outside
<1>5. CASE EndSession(u) /\ UNCHANGED <<clientVars, outside>>
  BY <1>5, QuietKeeps DEF EndSession, clientVars, outside
<1> QED BY <1>1, <1>2, <1>3, <1>4, <1>5 DEF TabEvent

-----------------------------------------------------------------------------
(* What a segment of an operation leaves behind, h being its tab's holder  *)
(* afterwards.  Basis says how an intermediate local state may differ from *)
(* the stored one, Fit what the stored one has to be, Ready that no fetch  *)
(* is under way.                                                           *)
KeptFields ==
  {"gen", "fetched", "since", "used", "post", "begun", "mine", "probed", "disclosures"}

Basis(p, o, h) ==
  /\ IsOp(o) /\ h.gen = H(p).gen /\ o.res # "decrypt_failed"
  /\ o.fetched = op[p].fetched /\ o.since = op[p].since
  /\ o.gen <= H(p).gen /\ o.begun <= H(p).gen
  /\ o.disclosures = IF o.used THEN 1 ELSE 0
  /\ o.probed \in KeysIn(epoch)
  /\ o.post # NoKey => o.post \in KeysIn(epoch)
  /\ ~plan.overlap =>
       /\ HasLiveKey(h) => epoch[h.live] >= epoch[o.probed]
       /\ o.post # NoKey => epoch[o.post] >= epoch[o.probed]
  /\ \A k \in Lasting(p, o, archive) : WrapIn(wraps, Actor[p], k)
  /\ Lasting(p, o, archive) # {} => WrapIn(wraps, Actor[p], o.probed)

Blameless(p, o, h) == Unhurt(o, h, LiveKeys, faults) /\ Lasting(p, o, archive) # {}

Sized(p, o, h) == o.used /\ Blameless(p, o, h) => Lasting(p, o, archive) \subseteq HeldIds(h)

Fit(p, o, h) ==
  /\ IsOp(o) /\ Shape(o) /\ Told(o, epoch) /\ Fresh(o, h, epoch)
  /\ Wrapped(p, o, wraps, archive) /\ Sure(p, o, h, LiveKeys, faults, archive)
  /\ o.resp.status # "lost"
  /\ Timed(p, o, H(p).gen, signedIn)
  /\ Unused(p, o, zeroed \cup HeldBuffers(H(p)))

Ready(p, o, h) == Fit(p, o, h) /\ o.pc \notin FetchPCs /\ o.fetched = op[p].fetched

(* The stored local state is a basis, once the probe is answered.          *)
LEMMA BasisSelf ==
  ASSUME IInv, NEW p \in Ops, op[p].pc \notin {"idle", "probe", "ended"}
  PROVE  /\ Basis(p, op[p], H(p))
         /\ op[p].pc \notin WrapsPCs => Sized(p, op[p], H(p))
<1>1. /\ IsOp(op[p]) /\ Shape(op[p]) /\ Told(op[p], epoch) /\ Fresh(op[p], H(p), epoch)
      /\ Wrapped(p, op[p], wraps, archive) /\ Timed(p, op[p], H(p).gen, signedIn)
      /\ Sure(p, op[p], H(p), LiveKeys, faults, archive)
  BY OpKnown
<1>2. Basis(p, op[p], H(p))
  BY <1>1 DEF Basis, Shape, Told, Fresh, Wrapped, Timed
<1>3. op[p].pc \notin WrapsPCs => Sized(p, op[p], H(p))
  BY <1>1 DEF Sized, Blameless, Sure, Complete
<1> QED BY <1>2, <1>3

(* So is one that differs in none of the kept fields.                      *)
LEMMA BasisSame ==
  ASSUME IInv, NEW p \in Ops, NEW o, NEW h, NEW r, Basis(p, o, h), IsOp(r),
         \A f \in KeptFields : r[f] = o[f]
  PROVE  /\ r.res = o.res => Basis(p, r, h)
         /\ Sized(p, o, h) => Sized(p, r, h)
         /\ Lasting(p, r, archive) = Lasting(p, o, archive)
         /\ Unhurt(r, h, LiveKeys, faults) <=> Unhurt(o, h, LiveKeys, faults)
<1>1. /\ r.gen = o.gen /\ r.fetched = o.fetched /\ r.since = o.since /\ r.used = o.used
      /\ r.post = o.post /\ r.begun = o.begun /\ r.mine = o.mine /\ r.probed = o.probed
      /\ r.disclosures = o.disclosures
  BY DEF KeptFields
<1>2. /\ Lasting(p, r, archive) = Lasting(p, o, archive)
      /\ Unhurt(r, h, LiveKeys, faults) <=> Unhurt(o, h, LiveKeys, faults)
  BY <1>1 DEF Lasting, Unhurt
<1>3. r.res = o.res => Basis(p, r, h)
  BY <1>1, <1>2 DEF Basis
<1> QED BY <1>1, <1>2, <1>3 DEF Sized, Blameless

(* A local state that asks for no wraps fits, if what is said of a spent   *)
(* guard, of a trial and of a miss holds of it.                            *)
LEMMA MovedFits ==
  ASSUME IInv, NEW p \in Ops, NEW o, NEW h, NEW r, Basis(p, o, h), IsOp(r),
         \A f \in KeptFields : r[f] = o[f],
         r.pc \in {"ended", "state", "sealing", "submit", "list", "reveal", "trial"},
         r.resp.status \in {"none", "sent", "401"},
         r.pc \in {"ended", "sealing", "trial"} => r.resp.status = "none",
         r.pc = "trial" /\ r.retried => o.used, r.res = "decrypt_failed" => r.pc = "ended",
         Blameless(p, o, h) =>
           /\ o.used /\ r.pc # "ended" =>
                Lasting(p, o, archive) \subseteq HeldIds(h) /\ r.pc # "state"
           /\ r.pc = "trial" /\ r.retried /\ r.row \in Lasting(p, o, archive) =>
                h.keys[r.row] \in r.trying
           /\ r.pc = "ended" /\ r.res = "decrypt_failed" => r.row \notin Lasting(p, o, archive)
  PROVE  Ready(p, r, h)
<1>1. /\ Lasting(p, r, archive) = Lasting(p, o, archive)
      /\ Unhurt(r, h, LiveKeys, faults) <=> Unhurt(o, h, LiveKeys, faults)
  BY BasisSame
<1>2. /\ r.gen = o.gen /\ r.fetched = o.fetched /\ r.since = o.since /\ r.used = o.used
      /\ r.post = o.post /\ r.begun = o.begun /\ r.mine = o.mine /\ r.probed = o.probed
      /\ r.disclosures = o.disclosures
  BY DEF KeptFields
<1>3. /\ r.pc \in PCs /\ r.pc \notin FetchPCs /\ r.pc \notin WrapsPCs /\ r.pc # "livewrap"
      /\ r.pc \notin {"idle", "probe"}
  BY DEF PCs, FetchPCs, WrapsPCs
<1>4. Shape(r)
  BY <1>2, <1>3 DEF Shape, Basis
<1>5. Told(r, epoch)
  BY <1>2, <1>3, KeysAre DEF Told, Basis
<1>6. Fresh(r, h, epoch)
  BY <1>2 DEF Fresh, Basis
<1>7. Wrapped(p, r, wraps, archive)
  BY <1>1, <1>2, <1>3 DEF Wrapped, Basis
<1>8. Sure(p, r, h, LiveKeys, faults, archive)
  BY <1>1, <1>2, <1>3 DEF Sure, Complete, Blameless
<1>9. Timed(p, r, H(p).gen, signedIn)
  BY <1>2, <1>3, OpKnown DEF Timed, Basis
<1>10. Unused(p, r, zeroed \cup HeldBuffers(H(p)))
  BY <1>2, <1>3, OpKnown DEF Unused, Basis
<1>11. r.fetched = op[p].fetched
  BY <1>2 DEF Basis
<1> QED BY <1>3, <1>4, <1>5, <1>6, <1>7, <1>8, <1>9, <1>10, <1>11 DEF Ready, Fit

(* What Request writes.                                                    *)
LEMMA RequestIs ==
  ASSUME NEW p \in Ops, NEW o, NEW pc, IsOp(o)
  PROVE  /\ IsOp(Request(p, o, pc)) /\ Request(p, o, pc).pc = pc
         /\ \A f \in Fields \ {"pc", "resp"} : Request(p, o, pc)[f] = o[f]
         /\ Request(p, o, pc).resp.status \in {"sent", "401"}
         /\ Request(p, o, pc).resp.status = "sent" => Actor[p] \in signedIn
<1>1. Request(p, o, pc).pc = pc /\ IsOp(Request(p, o, pc))
  BY DEF Request, IsOp, Fields
<1>2. \A f \in Fields \ {"pc", "resp"} : Request(p, o, pc)[f] = o[f]
  BY DEF Request, IsOp, Fields
<1>3. /\ Request(p, o, pc).resp.status \in {"sent", "401"}
      /\ Request(p, o, pc).resp.status = "sent" => Actor[p] \in signedIn
  BY DEF Request, IsOp, Fields
<1> QED BY <1>1, <1>2, <1>3

(* A request for no wraps.                                                 *)
LEMMA RequestFits ==
  ASSUME IInv, NEW p \in Ops, NEW o, NEW h, Basis(p, o, h), Sized(p, o, h),
         NEW pc \in {"state", "submit", "list", "reveal"},
         pc = "state" => ~(o.used /\ Blameless(p, o, h))
  PROVE  Ready(p, Request(p, o, pc), h)
<1> DEFINE r == Request(p, o, pc)
<1>1. /\ IsOp(r) /\ r.pc = pc /\ r.resp.status \in {"sent", "401"}
      /\ \A f \in Fields \ {"pc", "resp"} : r[f] = o[f]
  BY RequestIs DEF Basis
<1> HIDE DEF r
<1>2. (\A f \in KeptFields : r[f] = o[f]) /\ r.res # "decrypt_failed"
  BY <1>1 DEF Basis, Fields, KeptFields
<1>3. Ready(p, r, h)
  BY <1>1, <1>2, MovedFits DEF Sized
<1> QED BY <1>3 DEF r

(* The end of an operation.                                                *)
LEMMA EndFits ==
  ASSUME IInv, NEW p \in Ops, NEW o, NEW h, Basis(p, o, h), NEW res,
         res = "decrypt_failed" /\ Blameless(p, o, h) => o.row \notin Lasting(p, o, archive)
  PROVE  Ready(p, End(o, res), h)
<1> DEFINE r == End(o, res)
<1>1. /\ IsOp(r) /\ r.pc = "ended" /\ r.resp.status = "none" /\ r.res = res
      /\ \A f \in Fields \ {"pc", "resp", "res"} : r[f] = o[f]
  BY DEF End, NoAnswer, Basis, IsOp, Fields
<1> HIDE DEF r
<1>2. (\A f \in KeptFields : r[f] = o[f]) /\ r.row = o.row
  BY <1>1 DEF Fields, KeptFields
<1>3. Ready(p, r, h)
  BY <1>1, <1>2, MovedFits
<1> QED BY <1>3 DEF r

(* The segments of the code, bottom up: Proceed,                           *)
LEMMA ProceedFits ==
  ASSUME IInv, NEW p \in Ops, NEW o, NEW h, Basis(p, o, h), Sized(p, o, h)
  PROVE  Ready(p, Proceed(p, o), h)
<1>1. Kind[p] \in {"submit", "list", "reveal"}
  BY PlanKnown DEF IInv
<1>2. CASE Kind[p] = "submit"
  <2> DEFINE r == [o EXCEPT !.pc = "sealing", !.resp = NoAnswer]
  <2>1. /\ IsOp(r) /\ r.pc = "sealing" /\ r.resp.status = "none"
        /\ \A f \in Fields \ {"pc", "resp"} : r[f] = o[f]
    BY DEF NoAnswer, Basis, IsOp, Fields
  <2>2. Proceed(p, o) = r
    BY <1>2 DEF Proceed
  <2> HIDE DEF r
  <2>3. (\A f \in KeptFields : r[f] = o[f]) /\ r.res # "decrypt_failed"
    BY <2>1 DEF Basis, Fields, KeptFields
  <2>4. Ready(p, r, h)
    BY <2>1, <2>3, MovedFits DEF Sized
  <2> QED BY <2>2, <2>4
<1>3. CASE Kind[p] # "submit"
  BY <1>1, <1>3, RequestFits DEF Proceed
<1> QED BY <1>2, <1>3

(* EnsureLive, which asks for the live key only with the guard unspent,    *)
LEMMA EnsureLiveFits ==
  ASSUME IInv, NEW p \in Ops, NEW o, NEW h, Basis(p, o, h), Sized(p, o, h),
         o.used /\ Blameless(p, o, h) => HasLiveKey(h)
  PROVE  Ready(p, EnsureLive(p, o, h), h)
<1>1. CASE HasLiveKey(h)
  BY <1>1, ProceedFits DEF EnsureLive
<1>2. CASE ~HasLiveKey(h)
  <2> DEFINE i == [o EXCEPT !.gen = h.gen]
  <2>1. H(p).gen \in Nat /\ h.gen = H(p).gen
    BY OpKnown DEF Basis
  <2>2. IsOp(i) /\ i.gen = h.gen /\ \A f \in Fields \ {"gen"} : i[f] = o[f]
    BY <2>1 DEF Basis, IsOp, Fields
  <2>3. EnsureLive(p, o, h) = Request(p, i, "state")
    BY <1>2 DEF EnsureLive
  <2> HIDE DEF i
  <2>4. /\ i.fetched = o.fetched /\ i.since = o.since /\ i.used = o.used
        /\ i.post = o.post /\ i.begun = o.begun /\ i.mine = o.mine /\ i.probed = o.probed
        /\ i.disclosures = o.disclosures /\ i.res = o.res
    BY <2>2 DEF Fields
  <2>5. /\ Lasting(p, i, archive) = Lasting(p, o, archive)
        /\ Unhurt(i, h, LiveKeys, faults) <=> Unhurt(o, h, LiveKeys, faults)
    BY <2>4 DEF Lasting, Unhurt
  <2>6. Basis(p, i, h)
    BY <2>1, <2>2, <2>4, <2>5 DEF Basis
  <2>7. Sized(p, i, h) /\ ~(i.used /\ Blameless(p, i, h))
    BY <1>2, <2>4, <2>5 DEF Sized, Blameless
  <2> QED BY <2>3, <2>6, <2>7, RequestFits
<1> QED BY <1>1, <1>2

(* ReadRetired,                                                            *)
LEMMA ReadRetiredFits ==
  ASSUME IInv, NEW p \in Ops, NEW o, NEW h, Basis(p, o, h), Sized(p, o, h)
  PROVE  Ready(p, ReadRetired(p, o, h), h)
<1>1. Ready(p, End(o, "needs_setup"), h)
  BY EndFits
<1> QED BY <1>1, ProceedFits DEF ReadRetired

(* Trial, whose snapshot is of the held keys,                              *)
LEMMA TrialFits ==
  ASSUME IInv, NEW p \in Ops, NEW o, NEW h, Basis(p, o, h), Sized(p, o, h),
         o.retried => o.used
  PROVE  Ready(p, Trial(o, h), h)
<1> DEFINE r == Trial(o, h)
<1>1. /\ IsOp(r) /\ r.pc = "trial" /\ r.resp.status = "none"
      /\ \A f \in Fields \ {"pc", "resp", "trying"} : r[f] = o[f]
      /\ r.trying = {h.keys[k] : k \in HeldIds(h)}
  BY DEF Trial, NoAnswer, Basis, IsOp, Fields
<1> HIDE DEF r
<1>2. /\ \A f \in KeptFields : r[f] = o[f]
      /\ r.row = o.row /\ r.retried = o.retried /\ r.res # "decrypt_failed"
  BY <1>1 DEF Basis, Fields, KeptFields
<1>3. Ready(p, r, h)
  BY <1>1, <1>2, MovedFits DEF Sized
<1> QED BY <1>3 DEF r

(* NextRow,                                                                *)
LEMMA NextRowFits ==
  ASSUME IInv, NEW p \in Ops, NEW o, NEW h, Basis(p, o, h), Sized(p, o, h),
         NEW r \in NextRow(o, h)
  PROVE  Ready(p, r, h)
<1>1. CASE o.rows = {}
  <2>1. Ready(p, End(o, "ok"), h)
    BY EndFits
  <2> QED BY <1>1, <2>1 DEF NextRow
<1>2. CASE o.rows # {}
  <2>1. PICK x \in o.rows :
          r = Trial([o EXCEPT !.row = x, !.rows = o.rows \ {x}, !.retried = FALSE], h)
    BY <1>2 DEF NextRow
  <2> DEFINE a == [o EXCEPT !.row = x]
             b == [a EXCEPT !.rows = o.rows \ {x}]
             c == [b EXCEPT !.retried = FALSE]
  <2>2. IsOp(a) /\ \A f \in Fields \ {"row"} : a[f] = o[f]
    BY DEF Basis, IsOp, Fields
  <2>3. [o EXCEPT !.row = x, !.rows = o.rows \ {x}, !.retried = FALSE] = c
    OBVIOUS
  <2> HIDE DEF a
  <2>4. IsOp(b) /\ \A f \in Fields \ {"rows"} : b[f] = a[f]
    BY <2>2 DEF IsOp, Fields
  <2> HIDE DEF b
  <2>5. IsOp(c) /\ c.retried = FALSE /\ \A f \in Fields \ {"retried"} : c[f] = b[f]
    BY <2>4 DEF IsOp, Fields
  <2> HIDE DEF c
  <2>6. (\A f \in KeptFields : c[f] = o[f]) /\ c.res = o.res
    BY <2>2, <2>4, <2>5 DEF Fields, KeptFields
  <2>7. Basis(p, c, h) /\ Sized(p, c, h)
    BY <2>5, <2>6, BasisSame
  <2>8. Ready(p, Trial(c, h), h)
    BY <2>5, <2>7, TrialFits
  <2> QED BY <2>1, <2>3, <2>8
<1> QED BY <1>1, <1>2

(* A fetch is dated by the holder's wipe generation.                       *)
LEMMA FetchIs ==
  ASSUME IInv, NEW p \in Ops, NEW o, NEW h, Basis(p, o, h), NEW pc
  PROVE  /\ IsOp(Fetch(p, o, pc)) /\ Fetch(p, o, pc).pc = pc
         /\ Fetch(p, o, pc).fetched = op[p].fetched + 1
         /\ Fetch(p, o, pc).since = H(p).gen
         /\ Fetch(p, o, pc).resp.status \in {"sent", "401"}
         /\ Fetch(p, o, pc).resp.status = "sent" => Actor[p] \in signedIn
         /\ \A f \in Fields \ {"pc", "resp", "fetched", "since"} : Fetch(p, o, pc)[f] = o[f]
<1> DEFINE q == Request(p, o, pc)
           s == [q EXCEPT !.fetched = o.fetched + 1]
           r == [s EXCEPT !.since = H(p).gen]
<1>1. /\ IsOp(q) /\ q.pc = pc /\ q.resp.status \in {"sent", "401"}
      /\ q.resp.status = "sent" => Actor[p] \in signedIn
      /\ \A f \in Fields \ {"pc", "resp"} : q[f] = o[f]
  BY RequestIs DEF Basis
<1>2. Fetch(p, o, pc) = [q EXCEPT !.fetched = o.fetched + 1, !.since = H(p).gen]
  BY DEF Fetch
<1>3. Fetch(p, o, pc) = r
  BY <1>2
<1> HIDE DEF q
<1>4. IsOp(s) /\ s.fetched = o.fetched + 1 /\ \A f \in Fields \ {"fetched"} : s[f] = q[f]
  BY <1>1 DEF Basis, IsOp, Fields
<1> HIDE DEF s
<1>5. H(p).gen \in Nat /\ o.fetched = op[p].fetched
  BY OpKnown DEF Basis
<1>6. IsOp(r) /\ r.since = H(p).gen /\ \A f \in Fields \ {"since"} : r[f] = s[f]
  BY <1>4, <1>5 DEF IsOp, Fields
<1> HIDE DEF r
<1>7. r.resp = q.resp /\ r.pc = q.pc /\ r.fetched = s.fetched
  BY <1>4, <1>6 DEF Fields
<1>8. \A f \in Fields \ {"pc", "resp", "fetched", "since"} : r[f] = o[f]
  BY <1>1, <1>4, <1>6
<1> QED BY <1>1, <1>3, <1>4, <1>5, <1>6, <1>7, <1>8

(* The unwrap of the live key, which no operation with a spent guard asks  *)
(* for when nothing is to blame.                                           *)
LEMMA FetchLiveFits ==
  ASSUME IInv, NEW p \in Ops, NEW o, NEW h, Basis(p, o, h),
         ~(o.used /\ Blameless(p, o, h))
  PROVE  Fit(p, Fetch(p, o, "livewrap"), h)
<1> DEFINE r == Fetch(p, o, "livewrap")
<1>1. /\ IsOp(r) /\ r.pc = "livewrap" /\ r.fetched = op[p].fetched + 1 /\ r.since = H(p).gen
      /\ r.resp.status \in {"sent", "401"} /\ (r.resp.status = "sent" => Actor[p] \in signedIn)
      /\ \A f \in Fields \ {"pc", "resp", "fetched", "since"} : r[f] = o[f]
  BY FetchIs
<1> HIDE DEF r
<1>2. /\ r.gen = o.gen /\ r.used = o.used /\ r.post = o.post /\ r.begun = o.begun
      /\ r.mine = o.mine /\ r.probed = o.probed /\ r.disclosures = o.disclosures
      /\ r.res = o.res
  BY <1>1 DEF Fields
<1>3. /\ Lasting(p, r, archive) = Lasting(p, o, archive)
      /\ Unhurt(r, h, LiveKeys, faults) <=> Unhurt(o, h, LiveKeys, faults)
  BY <1>2 DEF Lasting, Unhurt
<1>4. Shape(r) /\ Told(r, epoch) /\ Fresh(r, h, epoch) /\ Wrapped(p, r, wraps, archive)
  BY <1>1, <1>2, <1>3, KeysAre
     DEF Basis, Shape, Told, Fresh, Wrapped, PCs, FetchPCs, WrapsPCs
<1>5. Sure(p, r, h, LiveKeys, faults, archive)
  BY <1>1, <1>2, <1>3 DEF Sure, Complete, Blameless, WrapsPCs
<1>6. Timed(p, r, H(p).gen, signedIn)
  <2>1. H(p).gen \in Nat /\ o.gen <= H(p).gen /\ o.begun <= H(p).gen
    BY OpKnown DEF Basis
  <2> QED BY <1>1, <1>2, <2>1 DEF Timed
<1>7. Unused(p, r, zeroed \cup HeldBuffers(H(p)))
  <2>1. /\ Unused(p, op[p], zeroed \cup HeldBuffers(H(p)))
        /\ op[p].fetched \in Nat
    BY OpKnown DEF IsOp
  <2> QED BY <1>1, <2>1 DEF Unused
<1>8. r.resp.status # "lost"
  BY <1>1
<1>9. Fit(p, r, h)
  BY <1>1, <1>4, <1>5, <1>6, <1>7, <1>8 DEF Fit
<1> QED BY <1>9 DEF r

(* Disclose, which spends the guard,                                       *)
LEMMA DiscloseFits ==
  ASSUME IInv, NEW p \in Ops, NEW o, NEW h, Basis(p, o, h), ~o.used, NEW pc \in WrapsPCs
  PROVE  Fit(p, Disclose(p, o, pc), h)
<1> DEFINE q == Fetch(p, o, pc)
           s == [q EXCEPT !.used = TRUE]
           t == [s EXCEPT !.gen = H(p).gen]
           r == [t EXCEPT !.disclosures = o.disclosures + 1]
<1>1. /\ IsOp(q) /\ q.pc = pc /\ q.fetched = op[p].fetched + 1 /\ q.since = H(p).gen
      /\ q.resp.status \in {"sent", "401"} /\ (q.resp.status = "sent" => Actor[p] \in signedIn)
      /\ \A f \in Fields \ {"pc", "resp", "fetched", "since"} : q[f] = o[f]
  BY FetchIs
<1>2. Disclose(p, o, pc) = [q EXCEPT !.used = TRUE, !.gen = H(p).gen,
                                      !.disclosures = o.disclosures + 1]
  BY DEF Disclose
<1>3. Disclose(p, o, pc) = r
  BY <1>2
<1> HIDE DEF q
<1>4. IsOp(s) /\ s.used = TRUE /\ \A f \in Fields \ {"used"} : s[f] = q[f]
  BY <1>1 DEF IsOp, Fields
<1> HIDE DEF s
<1>5. H(p).gen \in Nat /\ IsOp(op[p])
  BY OpKnown
<1>6. IsOp(t) /\ t.gen = H(p).gen /\ \A f \in Fields \ {"gen"} : t[f] = s[f]
  BY <1>4, <1>5 DEF IsOp, Fields
<1> HIDE DEF t
<1>7. IsOp(r) /\ r.disclosures = o.disclosures + 1
      /\ \A f \in Fields \ {"disclosures"} : r[f] = t[f]
  BY <1>6 DEF IsOp, Fields
<1> HIDE DEF r
<1>8. /\ r.pc = pc /\ r.resp = q.resp /\ r.fetched = op[p].fetched + 1 /\ r.since = H(p).gen
      /\ r.used = TRUE /\ r.gen = H(p).gen
  BY <1>1, <1>4, <1>6, <1>7 DEF Fields
<1>9. /\ r.post = o.post /\ r.begun = o.begun /\ r.mine = o.mine /\ r.probed = o.probed
      /\ r.res = o.res
  BY <1>1, <1>4, <1>6, <1>7 DEF Fields
<1>10. Lasting(p, r, archive) = Lasting(p, o, archive)
  BY <1>9 DEF Lasting
<1>11. o.disclosures = 0 /\ o.res # "decrypt_failed"
  BY DEF Basis
<1>12. pc \in {"heal", "escalate"}
  BY DEF WrapsPCs
<1>13. Shape(r)
  BY <1>1, <1>7, <1>8, <1>9, <1>11, <1>12 DEF Shape, PCs, FetchPCs, WrapsPCs
<1>14. Told(r, epoch) /\ Fresh(r, h, epoch) /\ Wrapped(p, r, wraps, archive)
  BY <1>1, <1>8, <1>9, <1>10, <1>12, KeysAre DEF Basis, Told, Fresh, Wrapped, FetchPCs, WrapsPCs
<1>15. Sure(p, r, h, LiveKeys, faults, archive)
  BY <1>1, <1>8, <1>12 DEF Sure, Complete, WrapsPCs
<1>16. Timed(p, r, H(p).gen, signedIn) /\ Unused(p, r, zeroed \cup HeldBuffers(H(p)))
  BY <1>1, <1>5, <1>8, <1>9, OpKnown DEF Timed, Unused, Basis, IsOp
<1>17. Fit(p, r, h)
  BY <1>1, <1>7, <1>8, <1>13, <1>14, <1>15, <1>16 DEF Fit
<1> QED BY <1>3, <1>17

(* and NoLiveWrap.                                                         *)
LEMMA NoLiveWrapFits ==
  ASSUME IInv, NEW p \in Ops, NEW o, NEW h, Basis(p, o, h), Sized(p, o, h)
  PROVE  Fit(p, NoLiveWrap(p, o, h), h)
<1>1. CASE Kind[p] = "submit"
  BY <1>1, EndFits DEF NoLiveWrap, Ready
<1>2. CASE Kind[p] # "submit" /\ o.used
  BY <1>2, ReadRetiredFits DEF NoLiveWrap, Ready
<1>3. CASE Kind[p] # "submit" /\ ~o.used
  <2> DEFINE i == [o EXCEPT !.then = "ensure"]
  <2>1. IsOp(i) /\ \A f \in Fields \ {"then"} : i[f] = o[f]
    BY DEF Basis, IsOp, Fields
  <2>2. NoLiveWrap(p, o, h) = Disclose(p, i, "escalate")
    BY <1>3 DEF NoLiveWrap
  <2> HIDE DEF i
  <2>3. (\A f \in KeptFields : i[f] = o[f]) /\ i.used = o.used /\ i.res = o.res
    BY <2>1 DEF KeptFields, Fields
  <2>4. Basis(p, i, h)
    BY <2>1, <2>3, BasisSame
  <2>5. "escalate" \in WrapsPCs
    BY DEF WrapsPCs
  <2>6. Fit(p, Disclose(p, i, "escalate"), h)
    BY <1>3, <2>3, <2>4, <2>5, DiscloseFits
  <2> QED BY <2>2, <2>6
<1> QED BY <1>1, <1>2, <1>3

-----------------------------------------------------------------------------
(* The segments of an operation keep the invariant: first, an operation    *)
(* that leaves its holder alone.                                           *)
LEMMA SameHolder ==
  ASSUME IInv, NEW p \in Ops
  PROVE  /\ holder = [holder EXCEPT ![Actor[p]] = H(p)]
         /\ HolderTyped(H(p)) /\ SameBuffers(H(p), H(p))
         /\ holder = [v \in Users |-> holder[v]]
         /\ \A v \in Users : HolderTyped(holder[v]) /\ holder[v].gen <= holder[v].gen
<1>1. H(p) = holder[Actor[p]] /\ Actor[p] \in Users
  BY OpKnown
<1>2. holder = [v \in Users |-> holder[v]] /\ \A v \in Users : HolderTyped(holder[v])
  BY DEF IInv, Typed
<1>3. holder = [holder EXCEPT ![Actor[p]] = H(p)]
  BY <1>1, <1>2
<1>4. \A v \in Users : holder[v].gen \in Nat
  BY <1>2 DEF HolderTyped
<1>5. SameBuffers(H(p), H(p))
  BY DEF SameBuffers
<1> QED BY <1>1, <1>2, <1>3, <1>4, <1>5

(* A segment that leaves the holder alone.                                 *)
LEMMA BecomeKeeps ==
  ASSUME IInv, NEW p \in Ops, NEW o, Become(p, o), plan' = plan, Alone(p), Fit(p, o, H(p))
  PROVE  IInv'
<1>1. /\ op' = [op EXCEPT ![p] = o] /\ holder' = holder /\ zeroed' = zeroed
      /\ signedIn' = signedIn /\ UNCHANGED <<plan, serverVars>> /\ epoch' = epoch
      /\ faults' = faults /\ faults \in Nat
  BY DEF Become, outside, serverVars, keyRows, IInv, Typed
<1>2. /\ holder = [holder EXCEPT ![Actor[p]] = H(p)]
      /\ HolderTyped(H(p)) /\ SameBuffers(H(p), H(p))
      /\ holder = [v \in Users |-> holder[v]]
      /\ \A v \in Users : HolderTyped(holder[v]) /\ holder[v].gen <= holder[v].gen
  BY SameHolder
<1>3. /\ IsOp(o) /\ Shape(o) /\ Told(o, epoch) /\ Fresh(o, H(p), epoch)
      /\ Wrapped(p, o, wraps, archive) /\ Sure(p, o, H(p), LiveKeys, faults, archive)
      /\ o.resp.status # "lost"
      /\ Timed(p, o, H(p).gen, signedIn)
      /\ Unused(p, o, zeroed \cup HeldBuffers(H(p)))
  BY DEF Fit
<1>4. Heap'
  BY <1>1, <1>2, <1>3, HeapSame
<1>5. holder'[Actor[p]] = H(p)
  BY <1>1, OpKnown
<1>6. /\ Shape(o) /\ Told(o, epoch)
     /\ Fresh(o, holder'[Actor[p]], epoch) /\ Wrapped(p, o, wraps, archive)
     /\ Sure(p, o, holder'[Actor[p]], LiveKeys, faults', archive)
     /\ faults' \in Nat /\ faults <= faults' /\ (o.resp.status = "lost" => faults' > 0)
  BY <1>1, <1>3, <1>5
<1>7. UNCHANGED <<plan, serverVars>> /\ op' = [op EXCEPT ![p] = o] /\ IsOp(o)
  BY <1>1, <1>3
<1>8. /\ holder' = [v \in Users |-> holder'[v]]
      /\ \A v \in Users : HolderTyped(holder'[v]) /\ holder[v].gen <= holder'[v].gen
  BY <1>1, <1>2
<1> QED BY <1>4, <1>6, <1>7, <1>8, OpMoves

(* The holder is replaced by one that holds the same buffers: nothing is   *)
(* zeroized.                                                               *)
LEMMA InstallSameKeeps ==
  ASSUME IInv, NEW p \in Ops, NEW h, NEW o, Install(p, h, o), plan' = plan, Alone(p),
         HolderTyped(h), h.gen = H(p).gen, SameBuffers(h, H(p)), Fit(p, o, h)
  PROVE  IInv'
<1>1. /\ op' = [op EXCEPT ![p] = o] /\ holder' = [holder EXCEPT ![Actor[p]] = h]
      /\ signedIn' = signedIn /\ UNCHANGED <<plan, serverVars>> /\ epoch' = epoch
      /\ faults' = faults /\ faults \in Nat
      /\ zeroed' = zeroed \cup Orphans(H(p), h)
  BY DEF Install, outside, serverVars, keyRows, IInv, Typed
<1>2. HeldBuffers(h) = HeldBuffers(H(p))
  BY DEF SameBuffers, HeldBuffers
<1>3. zeroed' = zeroed
  BY <1>1, <1>2 DEF Orphans
<1>4. /\ IsOp(o) /\ Shape(o) /\ Told(o, epoch) /\ Fresh(o, h, epoch)
      /\ Wrapped(p, o, wraps, archive) /\ Sure(p, o, h, LiveKeys, faults, archive)
      /\ o.resp.status # "lost"
      /\ Timed(p, o, H(p).gen, signedIn)
      /\ Unused(p, o, zeroed \cup HeldBuffers(H(p)))
  BY DEF Fit
<1>5. /\ Heap' /\ holder' = [v \in Users |-> holder'[v]]
      /\ \A v \in Users : HolderTyped(holder'[v])
  BY <1>1, <1>3, <1>4, HeapSame
<1>6. /\ H(p) = holder[Actor[p]] /\ Actor[p] \in Users
      /\ holder = [v \in Users |-> holder[v]] /\ \A v \in Users : HolderTyped(holder[v])
  BY OpKnown DEF IInv, Typed
<1>7. /\ holder'[Actor[p]] = h
      /\ \A v \in Users : holder'[v].gen = holder[v].gen /\ holder[v].gen \in Nat
  BY <1>1, <1>6 DEF HolderTyped
<1>8. \A v \in Users : HolderTyped(holder'[v]) /\ holder[v].gen <= holder'[v].gen
  BY <1>5, <1>7
<1>9. /\ Shape(o) /\ Told(o, epoch)
     /\ Fresh(o, holder'[Actor[p]], epoch) /\ Wrapped(p, o, wraps, archive)
     /\ Sure(p, o, holder'[Actor[p]], LiveKeys, faults', archive)
     /\ faults' \in Nat /\ faults <= faults' /\ (o.resp.status = "lost" => faults' > 0)
  BY <1>1, <1>4, <1>7
<1>10. UNCHANGED <<plan, serverVars>> /\ op' = [op EXCEPT ![p] = o] /\ IsOp(o)
  BY <1>1, <1>4
<1> QED BY <1>5, <1>9, <1>10, <1>8, OpMoves

(* The buffers of the answered fetch.                                      *)
Fetched(p, h) ==
  \A k \in HeldIds(h) : /\ h.keys[k].data_key.op = p
                        /\ h.keys[k].data_key.n = op[p].fetched
                        /\ h.keys[k].data_key.since = op[p].since
                        /\ h.keys[k].data_key.mat = k /\ k \in KeysIn(epoch)

(* The holder is replaced by what a fetch opened, no wipe having fallen    *)
(* since it was asked for.                                                 *)
LEMMA InstallNewKeeps ==
  ASSUME IInv, NEW p \in Ops, NEW h, NEW o, Install(p, h, o), plan' = plan,
         HolderTyped(h), h.gen = H(p).gen, Fetched(p, h), Ready(p, o, h),
         op[p].pc \in FetchPCs, op[p].resp.status = "ok", ~Wiped(p)
  PROVE  IInv'
<1>1. /\ op' = [op EXCEPT ![p] = o] /\ holder' = [holder EXCEPT ![Actor[p]] = h]
      /\ signedIn' = signedIn /\ UNCHANGED <<plan, serverVars>> /\ epoch' = epoch
      /\ faults' = faults /\ faults \in Nat
      /\ zeroed' = zeroed \cup Orphans(H(p), h)
  BY DEF Install, outside, serverVars, keyRows, IInv, Typed
<1>2. Alone(p)
  BY RunsAlone DEF FetchPCs
<1>3. H(p).gen = op[p].gen
  BY DEF Wiped
<1>4. /\ IsOp(o) /\ Shape(o) /\ Told(o, epoch) /\ Fresh(o, h, epoch)
      /\ Wrapped(p, o, wraps, archive) /\ Sure(p, o, h, LiveKeys, faults, archive)
      /\ o.resp.status # "lost" /\ o.pc \notin FetchPCs /\ o.fetched = op[p].fetched
      /\ Timed(p, o, H(p).gen, signedIn)
  BY DEF Fit, Ready
<1>5. /\ Heap' /\ holder' = [v \in Users |-> holder'[v]]
      /\ \A v \in Users : HolderTyped(holder'[v])
  <2>1. \A k \in HeldIds(h) : /\ h.keys[k].data_key.op = p
                              /\ h.keys[k].data_key.n = op[p].fetched
                              /\ h.keys[k].data_key.since = op[p].since
                              /\ h.keys[k].data_key.mat = k /\ k \in KeysIn(epoch)
    BY DEF Fetched
  <2> QED BY <1>1, <1>3, <1>4, <2>1, HeapInstalled
<1>6. /\ H(p) = holder[Actor[p]] /\ Actor[p] \in Users
      /\ holder = [v \in Users |-> holder[v]] /\ \A v \in Users : HolderTyped(holder[v])
  BY OpKnown DEF IInv, Typed
<1>7. /\ holder'[Actor[p]] = h
      /\ \A v \in Users : holder'[v].gen = holder[v].gen /\ holder[v].gen \in Nat
  BY <1>1, <1>6 DEF HolderTyped
<1>8. \A v \in Users : HolderTyped(holder'[v]) /\ holder[v].gen <= holder'[v].gen
  BY <1>5, <1>7
<1>9. /\ Shape(o) /\ Told(o, epoch)
     /\ Fresh(o, holder'[Actor[p]], epoch) /\ Wrapped(p, o, wraps, archive)
     /\ Sure(p, o, holder'[Actor[p]], LiveKeys, faults', archive)
     /\ faults' \in Nat /\ faults <= faults' /\ (o.resp.status = "lost" => faults' > 0)
  BY <1>1, <1>4, <1>7
<1>10. UNCHANGED <<plan, serverVars>> /\ op' = [op EXCEPT ![p] = o] /\ IsOp(o)
  BY <1>1, <1>4
<1> QED BY <1>2, <1>5, <1>9, <1>10, <1>8, OpMoves

(* The end of an operation, whatever its result and its tab's holder.      *)
LEMMA EndedIs ==
  ASSUME IInv, NEW p \in Ops, NEW res
  PROVE  /\ IsOp(End(op[p], res)) /\ Shape(End(op[p], res)) /\ Told(End(op[p], res), epoch)
         /\ \A h : Fresh(End(op[p], res), h, epoch)
         /\ Wrapped(p, End(op[p], res), wraps, archive)
         /\ \A h, f : res # "decrypt_failed" \/ f # 0 =>
              Sure(p, End(op[p], res), h, LiveKeys, f, archive)
         /\ End(op[p], res).pc = "ended" /\ End(op[p], res).resp.status = "none"
         /\ \A f \in Fields \ {"pc", "resp", "res"} : End(op[p], res)[f] = op[p][f]
<1> DEFINE o == End(op[p], res)
<1>1. /\ IsOp(op[p]) /\ Shape(op[p]) /\ Told(op[p], epoch) /\ Fresh(op[p], H(p), epoch)
      /\ Wrapped(p, op[p], wraps, archive)
  BY OpKnown
<1>2. /\ IsOp(o) /\ o.pc = "ended" /\ o.resp.status = "none" /\ o.res = res
      /\ \A f \in Fields \ {"pc", "resp", "res"} : o[f] = op[p][f]
  BY <1>1 DEF End, NoAnswer, IsOp, Fields
<1> HIDE DEF o
<1>3. /\ o.used = op[p].used /\ o.post = op[p].post /\ o.mine = op[p].mine
      /\ o.probed = op[p].probed /\ o.disclosures = op[p].disclosures
  BY <1>2 DEF Fields
<1>4. Shape(o)
  BY <1>1, <1>2, <1>3 DEF Shape, PCs, WrapsPCs
<1>5. Told(o, epoch)
  BY <1>1, <1>2, <1>3 DEF Told, FetchPCs, WrapsPCs
<1>6. \A h : Fresh(o, h, epoch)
  BY <1>1, <1>2, <1>3 DEF Fresh
<1>7. Wrapped(p, o, wraps, archive)
  <2>1. Lasting(p, o, archive) = Lasting(p, op[p], archive)
    BY <1>3 DEF Lasting
  <2> QED BY <1>1, <1>2, <2>1 DEF Wrapped
<1>8. ASSUME NEW h, NEW f, res # "decrypt_failed" \/ f # 0
      PROVE  Sure(p, o, h, LiveKeys, f, archive)
  BY <1>2, <1>8 DEF Sure, Complete, Unhurt, WrapsPCs
<1>9. /\ IsOp(o) /\ Shape(o) /\ Told(o, epoch) /\ (\A h : Fresh(o, h, epoch))
      /\ Wrapped(p, o, wraps, archive)
      /\ (\A h, f : res # "decrypt_failed" \/ f # 0 => Sure(p, o, h, LiveKeys, f, archive))
      /\ o.pc = "ended" /\ o.resp.status = "none"
      /\ \A f \in Fields \ {"pc", "resp", "res"} : o[f] = op[p][f]
  BY <1>2, <1>4, <1>5, <1>6, <1>7, <1>8
<1> QED BY <1>9 DEF o

(* A refused or lost request ends its operation; a 401 also wipes the tab. *)
LEMMA FailedKeeps ==
  ASSUME IInv, NEW p \in Ops, NEW res, Failed(p, End(op[p], res)), plan' = plan,
         op[p].resp.status \in {"401", "403", "lost"},
         res = "decrypt_failed" => op[p].resp.status = "lost"
  PROVE  IInv'
<1> DEFINE o == End(op[p], res)
           u == Actor[p]
<1>1. /\ IsOp(o) /\ Shape(o) /\ Told(o, epoch) /\ (\A h : Fresh(o, h, epoch))
      /\ Wrapped(p, o, wraps, archive)
      /\ (\A h, f : res # "decrypt_failed" \/ f # 0 => Sure(p, o, h, LiveKeys, f, archive))
      /\ o.pc = "ended" /\ o.resp.status = "none"
      /\ \A f \in Fields \ {"pc", "resp", "res"} : o[f] = op[p][f]
  BY EndedIs
<1>2. /\ op' = [op EXCEPT ![p] = o] /\ UNCHANGED <<plan, serverVars>> /\ faults' = faults
      /\ epoch' = epoch
      /\ IF op[p].resp.status = "401"
         THEN WipeTab(u) /\ signedIn' = signedIn \ {u}
         ELSE UNCHANGED <<holder, zeroed, signedIn>>
  BY DEF Failed, outside, serverVars, keyRows
<1> HIDE DEF o
<1>3. /\ o.gen = op[p].gen /\ o.begun = op[p].begun
      /\ o.since = op[p].since /\ o.fetched = op[p].fetched
  BY <1>1 DEF Fields
<1>4. /\ Typed /\ u \in Users /\ H(p) = holder[u] /\ H(p).gen \in Nat /\ Shape(op[p])
      /\ faults \in Nat
      /\ Timed(p, op[p], H(p).gen, signedIn) /\ Unused(p, op[p], zeroed \cup HeldBuffers(H(p)))
  BY OpKnown DEF IInv, Typed
<1>5. /\ op'[p] = o /\ \A q \in Ops : q # p => op'[q] = op[q]
  BY <1>2, <1>4 DEF Typed
<1>6. Alone(p)
  BY <1>4, RunsAlone DEF Shape
<1>7. res = "decrypt_failed" => faults # 0
  <2>1. op[p].resp.status = "lost" => faults > 0
    BY DEF IInv, LossCounted
  <2> QED BY <1>4, <2>1
<1>8. /\ Heap' /\ holder' = [v \in Users |-> holder'[v]]
      /\ \A v \in Users : HolderTyped(holder'[v]) /\ holder[v].gen <= holder'[v].gen
  <2>1. CASE op[p].resp.status = "401"
    <3>1. \A q \in Ops : op'[q] = op[q] \/
            /\ op'[q].pc = "ended" /\ op'[q].gen = op[q].gen /\ op'[q].begun = op[q].begun
            /\ op'[q].since = op[q].since /\ op'[q].fetched = op[q].fetched
      BY <1>1, <1>3, <1>5
    <3>2. WipeTab(u) /\ signedIn' \in {signedIn, signedIn \ {u}} /\ UNCHANGED <<plan, epoch>>
      BY <1>2, <2>1
    <3>3. /\ Heap' /\ holder' = [v \in Users |-> holder'[v]]
          /\ \A v \in Users : HolderTyped(holder'[v])
          /\ holder'[u] = Wipe(holder[u]) /\ \A v \in Users : v # u => holder'[v] = holder[v]
      BY <1>4, <3>1, <3>2, HeapWiped
    <3>4. Wipe(holder[u]).gen = holder[u].gen + 1
      BY <1>4, WipedIs
    <3>5. \A v \in Users : holder[v].gen \in Nat
      BY <1>4 DEF Typed, HolderTyped
    <3> QED BY <3>3, <3>4, <3>5
  <2>2. CASE op[p].resp.status # "401"
    <3>1. /\ holder = [holder EXCEPT ![Actor[p]] = H(p)]
          /\ HolderTyped(H(p)) /\ SameBuffers(H(p), H(p))
          /\ holder = [v \in Users |-> holder[v]]
          /\ \A v \in Users : HolderTyped(holder[v]) /\ holder[v].gen <= holder[v].gen
      BY SameHolder
    <3>2. UNCHANGED <<holder, zeroed, signedIn>>
      BY <1>2, <2>2
    <3>3. Timed(p, o, H(p).gen, signedIn) /\ Unused(p, o, zeroed \cup HeldBuffers(H(p)))
      BY <1>1, <1>3, <1>4 DEF Timed, Unused, FetchPCs
    <3>4. Heap'
      BY <1>2, <3>1, <3>2, <3>3, HeapSame
    <3> QED BY <3>1, <3>2, <3>4
  <2> QED BY <2>1, <2>2
<1>9. /\ Fresh(o, holder'[Actor[p]], epoch)
      /\ Sure(p, o, holder'[Actor[p]], LiveKeys, faults', archive)
      /\ faults' \in Nat /\ faults <= faults' /\ (o.resp.status = "lost" => faults' > 0)
  BY <1>1, <1>2, <1>4, <1>7
<1>10. /\ IsOp(o) /\ Shape(o) /\ Told(o, epoch) /\ Wrapped(p, o, wraps, archive)
       /\ op' = [op EXCEPT ![p] = o] /\ UNCHANGED <<plan, serverVars>>
  BY <1>1, <1>2
<1> QED BY <1>6, <1>8, <1>9, <1>10, OpMoves

(* Fail is one: decrypt_failed is only reported of a lost escalation.      *)
LEMMA FailKeeps ==
  ASSUME IInv, NEW p \in Ops, Fail(p), plan' = plan
  PROVE  IInv'
<1>1. PICK res : /\ Failed(p, End(op[p], res))
                 /\ op[p].resp.status \in {"401", "403", "lost"}
                 /\ res = "decrypt_failed" => op[p].resp.status = "lost"
  BY DEF Fail, Refused
<1> QED BY <1>1, FailedKeeps

-----------------------------------------------------------------------------
(* One lemma per action of an operation.                                   *)
LEMMA BeginKeeps ==
  ASSUME IInv, NEW p \in Ops, Begin(p), plan' = plan
  PROVE  IInv'
<1> DEFINE M == {w.key : w \in WrapsOf(Actor[p])}
<1>1. PICK r : Become(p, Request(p, [op[p] EXCEPT !.row = r, !.begun = H(p).gen, !.mine = M],
                                 "probe"))
  BY DEF Begin
<1>2. op[p].pc = "idle"
  BY DEF Begin
<1>3. Alone(p)
  BY DEF Begin, Running, Alone
<1>4. /\ IsOp(op[p]) /\ Shape(op[p]) /\ Told(op[p], epoch) /\ H(p).gen \in Nat
      /\ Timed(p, op[p], H(p).gen, signedIn) /\ Unused(p, op[p], zeroed \cup HeldBuffers(H(p)))
  BY OpKnown
<1> DEFINE a == [op[p] EXCEPT !.row = r]
           b == [a EXCEPT !.begun = H(p).gen]
           c == [b EXCEPT !.mine = M]
           o == Request(p, c, "probe")
<1>5. Become(p, o)
  BY <1>1
<1>6. IsOp(a) /\ \A f \in Fields \ {"row"} : a[f] = op[p][f]
  BY <1>4 DEF IsOp, Fields
<1> HIDE DEF a
<1>7. IsOp(b) /\ b.begun = H(p).gen /\ \A f \in Fields \ {"begun"} : b[f] = a[f]
  BY <1>4, <1>6 DEF IsOp, Fields
<1> HIDE DEF b
<1>8. IsOp(c) /\ c.mine = M /\ \A f \in Fields \ {"mine"} : c[f] = b[f]
  BY <1>7 DEF IsOp, Fields
<1> HIDE DEF c
<1>9. /\ IsOp(o) /\ o.pc = "probe" /\ o.resp.status \in {"sent", "401"}
      /\ \A f \in Fields \ {"pc", "resp"} : o[f] = c[f]
  BY <1>8, RequestIs
<1> HIDE DEF o
<1>10. /\ o.mine = M /\ o.begun = H(p).gen /\ o.gen = op[p].gen /\ o.since = op[p].since
       /\ o.fetched = op[p].fetched /\ o.used = op[p].used /\ o.post = op[p].post
       /\ o.probed = op[p].probed /\ o.disclosures = op[p].disclosures /\ o.res = op[p].res
  BY <1>6, <1>7, <1>8, <1>9 DEF Fields
<1>11. Shape(o)
  BY <1>2, <1>4, <1>9, <1>10 DEF Shape, PCs, WrapsPCs
<1>12. Told(o, epoch) /\ Fresh(o, H(p), epoch)
  BY <1>2, <1>4, <1>9, <1>10 DEF Told, Fresh, Shape, FetchPCs, WrapsPCs
<1>13. Wrapped(p, o, wraps, archive)
  <2>1. \A k \in M : WrapIn(wraps, Actor[p], k)
    BY DEF WrapsOf, WrapIn
  <2> QED BY <1>9, <1>10, <2>1 DEF Wrapped, Lasting
<1>14. Sure(p, o, H(p), LiveKeys, faults, archive)
  BY <1>2, <1>4, <1>9, <1>10 DEF Sure, Complete, Shape, WrapsPCs
<1>15. Timed(p, o, H(p).gen, signedIn) /\ Unused(p, o, zeroed \cup HeldBuffers(H(p)))
  BY <1>4, <1>9, <1>10 DEF Timed, Unused, FetchPCs
<1>16. Fit(p, o, H(p))
  BY <1>9, <1>11, <1>12, <1>13, <1>14, <1>15 DEF Fit
<1> QED BY <1>3, <1>5, <1>16, BecomeKeeps

(* The probe: the key the server tells of is what Basis needs.             *)
LEMMA ProbedBasis ==
  ASSUME IInv, NEW p \in Ops, Answered(p, "probe"), NEW s \in op[p].resp.data,
         ~\A t \in op[p].resp.data : ~t.mine, NEW h, HolderTyped(h), h.gen = H(p).gen,
         HeldIds(h) \subseteq HeldIds(H(p)),
         HasLiveKey(h) => h.live = s.key
  PROVE  /\ Basis(p, [op[p] EXCEPT !.probed = s.key], h)
         /\ ~[op[p] EXCEPT !.probed = s.key].used
<1> DEFINE o == [op[p] EXCEPT !.probed = s.key]
<1>1. /\ IsOp(op[p]) /\ Shape(op[p]) /\ Told(op[p], epoch) /\ H(p).gen \in Nat
      /\ Wrapped(p, op[p], wraps, archive) /\ Timed(p, op[p], H(p).gen, signedIn)
      /\ op[p].pc = "probe" /\ op[p].resp.status = "ok"
  BY OpKnown DEF Answered
<1>2. s.key \in KeysIn(epoch) /\ s.mine
  BY <1>1 DEF Told
<1>3. IsOp(o) /\ o.probed = s.key /\ \A f \in Fields \ {"probed"} : o[f] = op[p][f]
  BY <1>1 DEF IsOp, Fields
<1> HIDE DEF o
<1>4. /\ o.gen = op[p].gen /\ o.fetched = op[p].fetched /\ o.since = op[p].since
      /\ o.used = op[p].used /\ o.post = op[p].post /\ o.begun = op[p].begun
      /\ o.mine = op[p].mine /\ o.disclosures = op[p].disclosures /\ o.res = op[p].res
  BY <1>3 DEF Fields
<1>5. ~o.used /\ o.post = NoKey /\ o.disclosures = 0 /\ o.res # "decrypt_failed"
  BY <1>1, <1>4 DEF Shape
<1>6. epoch[s.key] \in Nat
  BY <1>2, KeysAre
<1>7. Lasting(p, o, archive) = Lasting(p, op[p], archive)
  BY <1>4 DEF Lasting
<1>8. /\ \A k \in Lasting(p, o, archive) : WrapIn(wraps, Actor[p], k)
      /\ Lasting(p, o, archive) # {} => WrapIn(wraps, Actor[p], o.probed)
  BY <1>1, <1>2, <1>3, <1>7 DEF Wrapped
<1>9. Basis(p, o, h)
  BY <1>1, <1>2, <1>3, <1>4, <1>5, <1>6, <1>8 DEF Basis, Timed
<1> QED BY <1>5, <1>9 DEF o

(* The answer to the probe.                                                *)
LEMMA ProbedKeeps ==
  ASSUME IInv, NEW p \in Ops, Probed(p), plan' = plan
  PROVE  IInv'
<1>1. /\ Answered(p, "probe") /\ op[p].pc = "probe" /\ op[p].resp.status = "ok"
      /\ Alone(p)
  BY RunsAlone DEF Probed, Answered
<1>2. /\ HolderTyped(H(p)) /\ IsOp(op[p]) /\ Shape(op[p]) /\ H(p).gen \in Nat
      /\ Timed(p, op[p], H(p).gen, signedIn) /\ Unused(p, op[p], zeroed \cup HeldBuffers(H(p)))
  BY OpKnown, HolderFits
<1>3. CASE \A s \in op[p].resp.data : ~s.mine
  <2> DEFINE o == End(op[p], "needs_setup")
  <2>1. Become(p, o)
    BY <1>3 DEF Probed
  <2>2. /\ IsOp(o) /\ Shape(o) /\ Told(o, epoch) /\ (\A h : Fresh(o, h, epoch))
        /\ Wrapped(p, o, wraps, archive)
        /\ \A h, f : Sure(p, o, h, LiveKeys, f, archive)
        /\ o.pc = "ended" /\ o.resp.status = "none"
        /\ \A f \in Fields \ {"pc", "resp", "res"} : o[f] = op[p][f]
    BY EndedIs
  <2> HIDE DEF o
  <2>3. /\ o.gen = op[p].gen /\ o.begun = op[p].begun
        /\ o.since = op[p].since /\ o.fetched = op[p].fetched
    BY <2>2 DEF Fields
  <2>4. Timed(p, o, H(p).gen, signedIn) /\ Unused(p, o, zeroed \cup HeldBuffers(H(p)))
    BY <1>2, <2>2, <2>3 DEF Timed, Unused, FetchPCs
  <2>5. Fit(p, o, H(p))
    BY <2>2, <2>4 DEF Fit
  <2> QED BY <1>1, <2>1, <2>5, BecomeKeeps
<1>4. CASE ~\A s \in op[p].resp.data : ~s.mine
  <2>1. PICK s \in op[p].resp.data :
          IF Stale(H(p), s.key)
          THEN Install(p, OnKeyRotationObserved(H(p), s.key),
                       Heal(p, [op[p] EXCEPT !.probed = s.key]))
          ELSE Become(p, EnsureLive(p, [op[p] EXCEPT !.probed = s.key], H(p)))
    BY <1>4 DEF Probed
  <2> DEFINE o == [op[p] EXCEPT !.probed = s.key]
  <2>2. CASE Stale(H(p), s.key)
    <3> DEFINE h == OnKeyRotationObserved(H(p), s.key)
    <3>1. /\ HolderTyped(h) /\ h.gen = H(p).gen /\ SameBuffers(h, H(p))
          /\ HasLiveKey(h) => h.live = s.key
      BY <1>2, ObservedIs
    <3>2. Install(p, h, Heal(p, o))
      BY <2>1, <2>2
    <3> HIDE DEF h
    <3>3. Basis(p, o, h) /\ ~o.used
      BY <1>1, <1>4, <3>1, ProbedBasis DEF SameBuffers
    <3> HIDE DEF o
    <3>4. Fit(p, Disclose(p, o, "heal"), h)
      BY <3>3, DiscloseFits DEF WrapsPCs
    <3> QED BY <1>1, <3>1, <3>2, <3>4, InstallSameKeeps DEF Heal
  <2>3. CASE ~Stale(H(p), s.key)
    <3>1. HasLiveKey(H(p)) => H(p).live = s.key
      BY <2>3 DEF Stale, IsPopulated, HasLiveKey, GetKeyId
    <3>2. Basis(p, o, H(p)) /\ ~o.used
      BY <1>1, <1>2, <1>4, <3>1, ProbedBasis
    <3>3. Become(p, EnsureLive(p, o, H(p)))
      BY <2>1, <2>3
    <3> HIDE DEF o
    <3>4. Ready(p, EnsureLive(p, o, H(p)), H(p))
      BY <3>2, EnsureLiveFits DEF Sized
    <3> QED BY <1>1, <3>3, <3>4, BecomeKeeps DEF Ready
  <2> QED BY <2>2, <2>3
<1> QED BY <1>3, <1>4

(* An operation ends, with no miss to report.                              *)
LEMMA EndKeeps ==
  ASSUME IInv, NEW p \in Ops, op[p].pc \notin {"idle", "probe", "ended"}, NEW res,
         res # "decrypt_failed", Become(p, End(op[p], res)), plan' = plan
  PROVE  IInv'
<1>1. Basis(p, op[p], H(p))
  BY BasisSelf
<1>2. Ready(p, End(op[p], res), H(p))
  BY <1>1, EndFits
<1>3. Alone(p)
  BY RunsAlone
<1> QED BY <1>2, <1>3, BecomeKeeps DEF Ready

(* What a fetch of every wrap opens.                                       *)
LEMMA RepopulatedIs ==
  ASSUME IInv, NEW p \in Ops, op[p].pc \in WrapsPCs, op[p].resp.status = "ok"
  PROVE  /\ HolderTyped(Repopulated(p)) /\ Repopulated(p).gen = H(p).gen
         /\ Fetched(p, Repopulated(p)) /\ Basis(p, op[p], Repopulated(p))
         /\ \A h : h.gen = H(p).gen /\ Blameless(p, op[p], h) =>
              /\ Lasting(p, op[p], archive) \subseteq {e.key_id : e \in OpenedAll(p)}
              /\ Lasting(p, op[p], archive) \subseteq HeldIds(Repopulated(p))
              /\ HasLiveKey(Repopulated(p))
<1> DEFINE E == OpenedAll(p)
           h == Populate(H(p), E)
           D == op[p].resp.data
<1>1. /\ HolderTyped(H(p)) /\ Told(op[p], epoch)
      /\ Sure(p, op[p], H(p), LiveKeys, faults, archive)
  BY OpKnown, HolderFits
<1>2. /\ Named(D, epoch)
      /\ \A w \in D : w.live => epoch[w.key] >= epoch[op[p].probed]
  BY <1>1 DEF Told, WrapsPCs, FetchPCs
<1>3. \A e \in E : \E w \in D :
        /\ e.key_id = w.key /\ e.is_live = w.live /\ e.data_key = Buffer(p, w)
        /\ w.key \in KeysIn(epoch) /\ w.mat = w.key
  BY <1>2 DEF OpenedAll, Named
<1> DEFINE entry(w) == [key_id |-> w.key, data_key |-> Buffer(p, w), epoch |-> w.epoch,
                       is_live |-> w.live]
<1>4. E = {entry(w) : w \in D}
  BY DEF OpenedAll
<1>5. \A w \in D : entry(w) \in E /\ entry(w).key_id = w.key /\ entry(w).is_live = w.live
  BY <1>4
<1>6. {e.key_id : e \in E} = {w.key : w \in D}
  <2> HIDE DEF entry, E
  <2> QED BY <1>3, <1>5
<1>7. (\E w \in D : w.live) => \E e \in E : e.is_live
  <2> HIDE DEF entry, E
  <2> QED BY <1>5
<1>8. \A e \in E : e.key_id # NoKey
  BY <1>3, KeysAre
<1>9. Repopulated(p) = h
  BY DEF Repopulated
<1> HIDE DEF E
<1>10. /\ HolderTyped(h) /\ h.gen = H(p).gen /\ HeldIds(h) = {e.key_id : e \in E}
       /\ \A k \in HeldIds(h) : \E e \in E : e.key_id = k /\ h.keys[k].data_key = e.data_key
       /\ HasLiveKey(h) => \E e \in E : e.is_live /\ h.live = e.key_id
       /\ (\E e \in E : e.is_live) => HasLiveKey(h)
  BY <1>1, <1>8, PopulatedIs
<1> HIDE DEF h
<1>11. Fetched(p, h)
  <2>1. ASSUME NEW k \in HeldIds(h)
        PROVE  /\ h.keys[k].data_key.op = p
               /\ h.keys[k].data_key.n = op[p].fetched
               /\ h.keys[k].data_key.since = op[p].since
               /\ h.keys[k].data_key.mat = k /\ k \in KeysIn(epoch)
    <3>1. PICK e \in E : e.key_id = k /\ h.keys[k].data_key = e.data_key
      BY <1>10
    <3>2. PICK w \in D : /\ e.key_id = w.key /\ e.data_key = Buffer(p, w)
                         /\ w.key \in KeysIn(epoch) /\ w.mat = w.key
      BY <1>3
    <3> QED BY <3>1, <3>2 DEF Buffer
  <2> QED BY <2>1 DEF Fetched
<1>12. Basis(p, op[p], h)
  <2>1. Basis(p, op[p], H(p))
    BY BasisSelf DEF WrapsPCs
  <2>2. HasLiveKey(h) => epoch[h.live] >= epoch[op[p].probed]
    BY <1>2, <1>3, <1>10
  <2> QED BY <1>10, <2>1, <2>2 DEF Basis
<1>13. ASSUME NEW i, i.gen = H(p).gen, Blameless(p, op[p], i)
       PROVE  /\ Lasting(p, op[p], archive) \subseteq {e.key_id : e \in E}
              /\ Lasting(p, op[p], archive) \subseteq HeldIds(h)
              /\ HasLiveKey(h)
  <2>1. Complete(op[p], H(p), Lasting(p, op[p], archive))
    BY <1>1, <1>13 DEF Blameless, Unhurt, Sure
  <2>2. /\ Lasting(p, op[p], archive) \subseteq {w.key : w \in D}
        /\ \E w \in D : w.live
    BY <2>1 DEF Complete
  <2> QED BY <1>6, <1>7, <1>10, <2>2
<1>14. /\ HolderTyped(h) /\ h.gen = H(p).gen /\ Fetched(p, h) /\ Basis(p, op[p], h)
       /\ \A i : i.gen = H(p).gen /\ Blameless(p, op[p], i) =>
            /\ Lasting(p, op[p], archive) \subseteq {e.key_id : e \in E}
            /\ Lasting(p, op[p], archive) \subseteq HeldIds(h)
            /\ HasLiveKey(h)
  BY <1>10, <1>11, <1>12, <1>13
<1> QED BY <1>9, <1>14 DEF E

(* The answer to the self-heal.                                            *)
LEMMA HealedKeeps ==
  ASSUME IInv, NEW p \in Ops, Healed(p), plan' = plan
  PROVE  IInv'
<1>1. op[p].pc = "heal" /\ op[p].resp.status = "ok"
  BY DEF Healed, Answered
<1>2. CASE Wiped(p)
  BY <1>1, <1>2, EndKeeps DEF Healed
<1>3. CASE ~Wiped(p)
  <2> DEFINE h == Repopulated(p)
  <2>1. Install(p, h, EnsureLive(p, op[p], h))
    BY <1>3 DEF Healed
  <2>2. op[p].pc \in WrapsPCs /\ op[p].pc \in FetchPCs
    BY <1>1 DEF WrapsPCs, FetchPCs
  <2>3. /\ HolderTyped(h) /\ h.gen = H(p).gen /\ Fetched(p, h) /\ Basis(p, op[p], h)
        /\ Blameless(p, op[p], h) => /\ Lasting(p, op[p], archive) \subseteq HeldIds(h)
                                     /\ HasLiveKey(h)
    BY <1>1, <2>2, RepopulatedIs
  <2> HIDE DEF h
  <2>4. Ready(p, EnsureLive(p, op[p], h), h)
    BY <2>3, EnsureLiveFits DEF Sized
  <2> QED BY <1>1, <1>3, <2>1, <2>2, <2>3, <2>4, InstallNewKeeps
<1> QED BY <1>2, <1>3

(* At the unwrap of the live key the guard is unspent, if nothing is to    *)
(* blame.                                                                  *)
LEMMA UnwrapsUnused ==
  ASSUME IInv, NEW p \in Ops, op[p].pc \in {"state", "livewrap"}, NEW h, h.gen = H(p).gen
  PROVE  ~(op[p].used /\ Blameless(p, op[p], h))
<1>1. Sure(p, op[p], H(p), LiveKeys, faults, archive)
  BY OpKnown
<1> QED BY <1>1 DEF Sure, Complete, Blameless, Unhurt, WrapsPCs

(* The answer to the second probe.                                         *)
LEMMA UnwrapProbedKeeps ==
  ASSUME IInv, NEW p \in Ops, UnwrapProbed(p), plan' = plan
  PROVE  IInv'
<1>1. op[p].pc = "state"
  BY DEF UnwrapProbed, Answered
<1>2. Basis(p, op[p], H(p)) /\ Sized(p, op[p], H(p)) /\ Alone(p)
  BY <1>1, BasisSelf, RunsAlone DEF WrapsPCs
<1>3. ~(op[p].used /\ Blameless(p, op[p], H(p)))
  BY <1>1, UnwrapsUnused
<1>4. Fit(p, Fetch(p, op[p], "livewrap"), H(p)) /\ Fit(p, NoLiveWrap(p, op[p], H(p)), H(p))
  BY <1>2, <1>3, FetchLiveFits, NoLiveWrapFits
<1> QED BY <1>2, <1>4, BecomeKeeps DEF UnwrapProbed

(* The answer with the wrap of the live key.                               *)
LEMMA UnwrapFetchedKeeps ==
  ASSUME IInv, NEW p \in Ops, UnwrapFetched(p), plan' = plan
  PROVE  IInv'
<1>1. /\ op[p].pc = "livewrap" /\ op[p].resp.status = "ok" /\ op[p].pc \in FetchPCs
      /\ op[p].pc \notin WrapsPCs
  BY DEF UnwrapFetched, Answered, FetchPCs, WrapsPCs
<1>2. Basis(p, op[p], H(p)) /\ Sized(p, op[p], H(p)) /\ Alone(p)
  BY <1>1, BasisSelf, RunsAlone
<1>3. CASE op[p].resp.data = {}
  <2>1. Fit(p, NoLiveWrap(p, op[p], H(p)), H(p))
    BY <1>2, NoLiveWrapFits
  <2> QED BY <1>2, <1>3, <2>1, BecomeKeeps DEF UnwrapFetched
<1>4. CASE op[p].resp.data # {} /\ Wiped(p)
  BY <1>1, <1>4, EndKeeps DEF UnwrapFetched
<1>5. CASE op[p].resp.data # {} /\ ~Wiped(p)
  <2>1. PICK w \in op[p].resp.data : Install(p, SetLive(H(p), Opened(p, w)), Proceed(p, op[p]))
    BY <1>5 DEF UnwrapFetched
  <2>2. /\ w.key \in KeysIn(epoch) /\ w.mat = w.key /\ w.key # NoKey
        /\ epoch[w.key] >= epoch[op[p].probed]
    BY <1>1, OpKnown, KeysAre DEF Told, Named
  <2> DEFINE e == [Opened(p, w) EXCEPT !.is_live = TRUE]
             h == Populate(H(p), {e})
  <2>3. e.key_id = w.key /\ e.data_key = Buffer(p, w) /\ e.is_live
    BY DEF Opened
  <2>4. SetLive(H(p), Opened(p, w)) = h
    BY DEF SetLive
  <2>5. HolderTyped(H(p))
    BY OpKnown, HolderFits
  <2> HIDE DEF e
  <2>6. /\ HolderTyped(h) /\ h.gen = H(p).gen /\ HeldIds(h) = {e.key_id}
        /\ \A k \in HeldIds(h) : h.keys[k].data_key = e.data_key
        /\ HasLiveKey(h) => h.live = e.key_id
    <3>1. \A f \in {e} : f.key_id # NoKey
      BY <2>2, <2>3
    <3>2. /\ HolderTyped(h) /\ h.gen = H(p).gen
          /\ HeldIds(h) = {f.key_id : f \in {e}}
          /\ \A k \in HeldIds(h) : \E f \in {e} :
               f.key_id = k /\ h.keys[k].data_key = f.data_key
          /\ HasLiveKey(h) => \E f \in {e} : f.is_live /\ h.live = f.key_id
      BY <2>5, <3>1, PopulatedIs
    <3> QED BY <3>2
  <2> HIDE DEF h
  <2>7. Fetched(p, h)
    BY <2>2, <2>3, <2>6 DEF Fetched, Buffer
  <2>8. Basis(p, op[p], h)
    BY <1>2, <2>2, <2>3, <2>6 DEF Basis
  <2>9. Sized(p, op[p], h)
    BY <1>1, <2>6, UnwrapsUnused DEF Sized
  <2>10. Ready(p, Proceed(p, op[p]), h)
    BY <2>8, <2>9, ProceedFits
  <2> QED BY <1>1, <1>5, <2>1, <2>4, <2>6, <2>7, <2>10, InstallNewKeeps
<1> QED BY <1>3, <1>4, <1>5

(* The answer to the escalation.                                           *)
LEMMA EscalatedKeeps ==
  ASSUME IInv, NEW p \in Ops, Escalated(p), plan' = plan
  PROVE  IInv'
<1>1. /\ op[p].pc = "escalate" /\ op[p].resp.status = "ok" /\ op[p].pc \in FetchPCs
      /\ op[p].pc \in WrapsPCs
  BY DEF Escalated, Answered, FetchPCs, WrapsPCs
<1>2. CASE Wiped(p)
  BY <1>1, <1>2, EndKeeps DEF Escalated
<1>3. CASE ~Wiped(p)
  <2> DEFINE added == \E e \in OpenedAll(p) : ~HoldsKeyId(H(p), e.key_id)
             h == IF added THEN Repopulated(p) ELSE H(p)
             t == [op[p] EXCEPT !.retried = TRUE]
             o == IF op[p].then = "ensure" THEN ReadRetired(p, op[p], h) ELSE Trial(t, h)
  <2>1. Install(p, h, o)
    BY <1>3 DEF Escalated
  <2>2. /\ HolderTyped(Repopulated(p)) /\ Repopulated(p).gen = H(p).gen
        /\ Fetched(p, Repopulated(p)) /\ Basis(p, op[p], Repopulated(p))
        /\ \A i : i.gen = H(p).gen /\ Blameless(p, op[p], i) =>
             /\ Lasting(p, op[p], archive) \subseteq {e.key_id : e \in OpenedAll(p)}
             /\ Lasting(p, op[p], archive) \subseteq HeldIds(Repopulated(p))
    BY <1>1, RepopulatedIs
  <2>3. Basis(p, op[p], H(p)) /\ HolderTyped(H(p)) /\ Alone(p)
    BY <1>1, BasisSelf, OpKnown, HolderFits, RunsAlone
  <2>4. ~added => {e.key_id : e \in OpenedAll(p)} \subseteq HeldIds(H(p))
    BY DEF HoldsKeyId
  <2>5. Basis(p, op[p], h) /\ Sized(p, op[p], h) /\ HolderTyped(h) /\ h.gen = H(p).gen
    <3>1. CASE added
      BY <2>2, <3>1 DEF Sized
    <3>2. CASE ~added
      BY <2>2, <2>3, <2>4, <3>2 DEF Sized
    <3> QED BY <3>1, <3>2
  <2>6. added => Fetched(p, h)
    BY <2>2
  <2>7. ~added => h = H(p)
    OBVIOUS
  <2> HIDE DEF h, added
  <2>8. Ready(p, o, h)
    <3>1. CASE op[p].then = "ensure"
      BY <2>5, <3>1, ReadRetiredFits
    <3>2. CASE op[p].then # "ensure"
      <4>1. IsOp(op[p]) /\ op[p].used
        BY <1>1, OpKnown DEF Shape
      <4>2. IsOp(t) /\ \A f \in Fields \ {"retried"} : t[f] = op[p][f]
        BY <4>1 DEF IsOp, Fields
      <4> HIDE DEF t
      <4>3. (\A f \in KeptFields : t[f] = op[p][f]) /\ t.used /\ t.res = op[p].res
        BY <4>1, <4>2 DEF KeptFields, Fields
      <4>4. Basis(p, t, h) /\ Sized(p, t, h)
        BY <2>5, <4>2, <4>3, BasisSame
      <4>5. Ready(p, Trial(t, h), h)
        BY <4>3, <4>4, TrialFits
      <4> QED BY <3>2, <4>5
    <3> QED BY <3>1, <3>2
  <2> HIDE DEF o
  <2>9. CASE added
    BY <1>1, <1>3, <2>1, <2>5, <2>6, <2>8, <2>9, InstallNewKeeps
  <2>10. CASE ~added
    <3>1. SameBuffers(h, H(p))
      BY <2>7, <2>10 DEF SameBuffers
    <3> QED BY <2>1, <2>3, <2>5, <2>8, <3>1, InstallSameKeeps DEF Ready
  <2> QED BY <2>9, <2>10
<1> QED BY <1>2, <1>3

(* The bytes held under a key_id are that key's, and are no zeros.         *)
LEMMA HeldContent ==
  ASSUME IInv, NEW p \in Ops, NEW k \in HeldIds(H(p))
  PROVE  Content(H(p).keys[k].data_key) = k /\ k \in KeysIn(epoch)
<1>1. H(p) = holder[Actor[p]] /\ Actor[p] \in Users
  BY OpKnown
<1>2. HeldFor(Actor[p], holder[Actor[p]], zeroed, epoch)
  BY <1>1, HolderFits
<1> QED BY <1>1, <1>2 DEF HeldFor, Held, Content

(* A record is sealed under the designated key.                            *)
LEMMA SealKeeps ==
  ASSUME IInv, NEW p \in Ops, Seal(p), plan' = plan
  PROVE  IInv'
<1>1. op[p].pc = "sealing"
  BY DEF Seal
<1>2. Basis(p, op[p], H(p)) /\ Sized(p, op[p], H(p)) /\ Alone(p)
  BY <1>1, BasisSelf, RunsAlone DEF WrapsPCs
<1>3. CASE ~HasLiveKey(H(p))
  BY <1>1, <1>3, EndKeeps DEF Seal
<1>4. CASE HasLiveKey(H(p))
  <2> DEFINE k == H(p).live
             o == [op[p] EXCEPT !.post = k]
  <2>1. k \in HeldIds(H(p)) /\ GetKeyId(H(p)) = k
    BY <1>4 DEF HasLiveKey, GetKeyId
  <2>2. Content(H(p).keys[k].data_key) = k /\ k \in KeysIn(epoch)
    BY <2>1, HeldContent
  <2>3. Become(p, Request(p, o, "submit"))
    BY <1>4, <2>1, <2>2 DEF Seal
  <2>4. IsOp(op[p])
    BY OpKnown
  <2>5. IsOp(o) /\ o.post = k /\ \A f \in Fields \ {"post"} : o[f] = op[p][f]
    BY <2>4 DEF IsOp, Fields
  <2> HIDE DEF o
  <2>6. /\ o.gen = op[p].gen /\ o.fetched = op[p].fetched /\ o.since = op[p].since
        /\ o.used = op[p].used /\ o.begun = op[p].begun /\ o.mine = op[p].mine
        /\ o.probed = op[p].probed /\ o.disclosures = op[p].disclosures
        /\ o.res = op[p].res
    BY <2>5 DEF Fields
  <2>7. /\ Lasting(p, o, archive) = Lasting(p, op[p], archive)
        /\ Unhurt(o, H(p), LiveKeys, faults) <=> Unhurt(op[p], H(p), LiveKeys, faults)
    BY <2>6 DEF Lasting, Unhurt
  <2>8. Basis(p, o, H(p))
    BY <1>2, <1>4, <2>2, <2>5, <2>6, <2>7 DEF Basis
  <2>9. Sized(p, o, H(p))
    BY <1>2, <2>6, <2>7 DEF Sized, Blameless
  <2>10. Ready(p, Request(p, o, "submit"), H(p))
    BY <2>8, <2>9, RequestFits
  <2> QED BY <1>2, <2>3, <2>10, BecomeKeeps DEF Ready
<1> QED BY <1>3, <1>4

(* The record is filed.                                                    *)
LEMMA SubmittedKeeps ==
  ASSUME IInv, NEW p \in Ops, Submitted(p), plan' = plan
  PROVE  IInv'
  BY EndKeeps DEF Submitted, Answered

(* The rows arrive.                                                        *)
LEMMA ReadKeeps ==
  ASSUME IInv, NEW p \in Ops, Read(p), plan' = plan
  PROVE  IInv'
<1>1. op[p].pc \in {"list", "reveal"}
  BY PlanKnown DEF Read, Answered, IInv
<1>2. Basis(p, op[p], H(p)) /\ Sized(p, op[p], H(p)) /\ Alone(p)
  BY <1>1, BasisSelf, RunsAlone DEF WrapsPCs
<1>3. CASE ~IsPopulated(H(p))
  <2>1. Become(p, End(op[p], "session_expiry"))
    BY <1>3 DEF Read
  <2> QED BY <1>1, <2>1, EndKeeps
<1>4. CASE IsPopulated(H(p))
  <2> DEFINE b == [op[p] EXCEPT !.rows = op[p].resp.data]
  <2>1. PICK o \in NextRow(b, H(p)) : Become(p, o)
    BY <1>4 DEF Read
  <2>2. IsOp(op[p])
    BY OpKnown
  <2>3. IsOp(b) /\ \A f \in Fields \ {"rows"} : b[f] = op[p][f]
    BY <2>2 DEF IsOp, Fields
  <2> HIDE DEF b
  <2>4. (\A f \in KeptFields : b[f] = op[p][f]) /\ b.res = op[p].res
    BY <2>3 DEF KeptFields, Fields
  <2>5. Basis(p, b, H(p)) /\ Sized(p, b, H(p))
    BY <1>2, <2>3, <2>4, BasisSame
  <2>6. Ready(p, o, H(p))
    BY <2>5, NextRowFits
  <2> QED BY <1>2, <2>1, <2>6, BecomeKeeps DEF Ready
<1> QED BY <1>3, <1>4

(* One held key is tried on a row; the one that is dropped is not the key  *)
(* of the row.                                                             *)
LEMMA TryKeyKeeps ==
  ASSUME IInv, NEW p \in Ops, TryKey(p), plan' = plan
  PROVE  IInv'
<1>1. op[p].pc = "trial"
  BY DEF TryKey
<1>2. Basis(p, op[p], H(p)) /\ Sized(p, op[p], H(p)) /\ Alone(p)
  BY <1>1, BasisSelf, RunsAlone DEF WrapsPCs
<1>3. PICK e \in op[p].trying :
        IF Content(e.data_key) = op[p].row
        THEN \E o \in NextRow(op[p], H(p)) : Become(p, o)
        ELSE Become(p, [op[p] EXCEPT !.trying = op[p].trying \ {e}])
  BY DEF TryKey
<1>4. CASE Content(e.data_key) = op[p].row
  <2>1. PICK o \in NextRow(op[p], H(p)) : Become(p, o)
    BY <1>3, <1>4
  <2>2. Ready(p, o, H(p))
    BY <1>2, NextRowFits
  <2> QED BY <1>2, <2>1, <2>2, BecomeKeeps DEF Ready
<1>5. CASE Content(e.data_key) # op[p].row
  <2> DEFINE r == [op[p] EXCEPT !.trying = op[p].trying \ {e}]
  <2>1. Become(p, r)
    BY <1>3, <1>5
  <2>2. /\ IsOp(op[p]) /\ Shape(op[p])
        /\ Sure(p, op[p], H(p), LiveKeys, faults, archive)
    BY OpKnown
  <2>3. /\ IsOp(r) /\ r.trying = op[p].trying \ {e}
        /\ \A f \in Fields \ {"trying"} : r[f] = op[p][f]
    BY <2>2 DEF IsOp, Fields
  <2> HIDE DEF r
  <2>4. /\ \A f \in KeptFields : r[f] = op[p][f]
        /\ r.pc = "trial" /\ r.resp = op[p].resp /\ r.retried = op[p].retried
        /\ r.row = op[p].row /\ r.res = op[p].res
    BY <1>1, <2>3 DEF KeptFields, Fields
  <2>5. ASSUME Blameless(p, op[p], H(p)), op[p].retried,
               op[p].row \in Lasting(p, op[p], archive)
        PROVE  H(p).keys[op[p].row] \in r.trying
    <3>1. op[p].used
      BY <1>1, <2>2, <2>5 DEF Shape
    <3>2. op[p].row \in HeldIds(H(p))
      BY <1>2, <2>5, <3>1 DEF Sized
    <3>3. H(p).keys[op[p].row] \in op[p].trying
      BY <1>1, <2>2, <2>5 DEF Sure, Complete, Blameless
    <3>4. H(p).keys[op[p].row] # e
      BY <1>5, <3>2, HeldContent
    <3> QED BY <2>3, <3>3, <3>4
  <2>6. /\ r.resp.status = "none" /\ (op[p].retried => op[p].used)
        /\ r.res # "decrypt_failed"
        /\ op[p].used /\ Blameless(p, op[p], H(p)) =>
             Lasting(p, op[p], archive) \subseteq HeldIds(H(p))
    BY <1>1, <1>2, <2>2, <2>4 DEF Shape, Sized
  <2>7. Ready(p, r, H(p))
    BY <1>2, <2>3, <2>4, <2>5, <2>6, MovedFits
  <2> QED BY <1>2, <2>1, <2>7, BecomeKeeps DEF Ready
<1> QED BY <1>4, <1>5

(* No held key opens the row.                                              *)
LEMMA MissedKeeps ==
  ASSUME IInv, NEW p \in Ops, Missed(p), plan' = plan
  PROVE  IInv'
<1>1. op[p].pc = "trial" /\ op[p].trying = {}
  BY DEF Missed
<1>2. Basis(p, op[p], H(p)) /\ Sized(p, op[p], H(p)) /\ Alone(p)
  BY <1>1, BasisSelf, RunsAlone DEF WrapsPCs
<1>3. IsOp(op[p]) /\ Sure(p, op[p], H(p), LiveKeys, faults, archive)
  BY OpKnown
<1>4. CASE op[p].retried
  <2>1. Blameless(p, op[p], H(p)) => op[p].row \notin Lasting(p, op[p], archive)
    BY <1>1, <1>3, <1>4 DEF Sure, Complete, Blameless
  <2>2. Ready(p, End(op[p], "decrypt_failed"), H(p))
    BY <1>2, <2>1, EndFits
  <2>3. Become(p, End(op[p], "decrypt_failed"))
    BY <1>4 DEF Missed
  <2> QED BY <1>2, <2>2, <2>3, BecomeKeeps DEF Ready
<1>5. CASE ~op[p].retried /\ op[p].used
  <2> DEFINE t == [op[p] EXCEPT !.retried = TRUE]
  <2>1. Become(p, Trial(t, H(p)))
    BY <1>5 DEF Missed
  <2>2. IsOp(t) /\ \A f \in Fields \ {"retried"} : t[f] = op[p][f]
    BY <1>3 DEF IsOp, Fields
  <2> HIDE DEF t
  <2>3. (\A f \in KeptFields : t[f] = op[p][f]) /\ t.used /\ t.res = op[p].res
    BY <1>5, <2>2 DEF KeptFields, Fields
  <2>4. Basis(p, t, H(p)) /\ Sized(p, t, H(p))
    BY <1>2, <2>2, <2>3, BasisSame
  <2>5. Ready(p, Trial(t, H(p)), H(p))
    BY <2>3, <2>4, TrialFits
  <2> QED BY <1>2, <2>1, <2>5, BecomeKeeps DEF Ready
<1>6. CASE ~op[p].retried /\ ~op[p].used
  <2> DEFINE t == [op[p] EXCEPT !.then = "trial"]
  <2>1. Become(p, Disclose(p, t, "escalate"))
    BY <1>6 DEF Missed
  <2>2. IsOp(t) /\ \A f \in Fields \ {"then"} : t[f] = op[p][f]
    BY <1>3 DEF IsOp, Fields
  <2> HIDE DEF t
  <2>3. (\A f \in KeptFields : t[f] = op[p][f]) /\ t.used = op[p].used /\ t.res = op[p].res
    BY <2>2 DEF KeptFields, Fields
  <2>4. Basis(p, t, H(p))
    BY <1>2, <2>2, <2>3, BasisSame
  <2>5. Fit(p, Disclose(p, t, "escalate"), H(p))
    BY <1>6, <2>3, <2>4, DiscloseFits DEF WrapsPCs
  <2> QED BY <1>2, <2>1, <2>5, BecomeKeeps
<1> QED BY <1>4, <1>5, <1>6

(* Every action of an operation.                                           *)
LEMMA StepKeeps ==
  ASSUME IInv, NEW p \in Ops, Step(p), plan' = plan
  PROVE  IInv'
  BY BeginKeeps, ProbedKeeps, HealedKeeps, UnwrapProbedKeeps, UnwrapFetchedKeeps,
     EscalatedKeeps,
     SealKeeps, SubmittedKeeps, ReadKeeps, TryKeyKeeps, MissedKeeps, FailKeeps DEF Step

-----------------------------------------------------------------------------
(* Answers.  Honest says what an answer to the request in flight tells.    *)
Honest(p, data) ==
  /\ op[p].pc = "probe" =>
       \A s, t \in data : /\ s.key \in KeysIn(epoch) /\ s = t
                          /\ s.mine => WrapIn(wraps, Actor[p], s.key)
  /\ op[p].pc \in FetchPCs => Named(data, epoch)
  /\ op[p].pc \in WrapsPCs =>
       /\ \A w \in data : w.live => epoch[w.key] >= epoch[op[p].probed]
       /\ \A k : WrapIn(wraps, Actor[p], k) =>
            \E w \in data : w.key = k /\ (k \in LiveKeys => w.live)
  /\ op[p].pc = "livewrap" => \A w \in data : epoch[w.key] >= epoch[op[p].probed]

(* A request is answered honestly, refused or lost.                        *)
LEMMA AnswerKeeps ==
  ASSUME IInv, NEW p \in Ops, InFlight(p), NEW status \in {"ok", "lost", "401", "403"},
         NEW data, Answer(p, status, data), status = "ok" => Honest(p, data),
         UNCHANGED <<plan, serverVars, holder, zeroed, signedIn>>,
         faults' \in Nat, faults <= faults', status = "lost" => faults' > 0
  PROVE  IInv'
<1> DEFINE o == [op[p] EXCEPT !.resp = [status |-> status, data |-> data]]
<1>1. /\ IsOp(op[p]) /\ Shape(op[p]) /\ Told(op[p], epoch) /\ Fresh(op[p], H(p), epoch)
      /\ Wrapped(p, op[p], wraps, archive) /\ Sure(p, op[p], H(p), LiveKeys, faults, archive)
      /\ Timed(p, op[p], H(p).gen, signedIn) /\ Unused(p, op[p], zeroed \cup HeldBuffers(H(p)))
      /\ H(p) = holder[Actor[p]]
  BY OpKnown
<1>2. op[p].pc \notin {"idle", "ended", "sealing", "trial"} /\ op[p].resp.status = "sent"
  BY <1>1 DEF InFlight, Shape
<1>3. /\ IsOp(o) /\ o.resp.status = status /\ o.resp.data = data
      /\ \A f \in Fields \ {"resp"} : o[f] = op[p][f]
  BY <1>1 DEF IsOp, Fields
<1>4. op' = [op EXCEPT ![p] = o]
  BY DEF Answer
<1> HIDE DEF o
<1>5. /\ o.pc = op[p].pc /\ o.gen = op[p].gen /\ o.fetched = op[p].fetched
      /\ o.since = op[p].since /\ o.used = op[p].used /\ o.post = op[p].post
      /\ o.begun = op[p].begun /\ o.mine = op[p].mine /\ o.probed = op[p].probed
      /\ o.disclosures = op[p].disclosures /\ o.res = op[p].res
  BY <1>3 DEF Fields
<1>6. Lasting(p, o, archive) = Lasting(p, op[p], archive)
  BY <1>5 DEF Lasting
<1>7. Shape(o)
  BY <1>1, <1>2, <1>5 DEF Shape
<1>8. Told(o, epoch)
  BY <1>1, <1>2, <1>3, <1>5 DEF Told, Honest
<1>9. Fresh(o, H(p), epoch)
  BY <1>1, <1>5 DEF Fresh
<1>10. Wrapped(p, o, wraps, archive)
  BY <1>1, <1>3, <1>5, <1>6 DEF Wrapped, Honest
<1>11. Sure(p, o, H(p), LiveKeys, faults', archive)
  <2>1. SUFFICES ASSUME Unhurt(o, H(p), LiveKeys, faults'), Lasting(p, o, archive) # {}
                 PROVE  Complete(o, H(p), Lasting(p, o, archive))
    BY DEF Sure
  <2>2. Complete(op[p], H(p), Lasting(p, o, archive))
    <3>1. faults \in Nat
      BY DEF IInv, Typed
    <3>2. Unhurt(op[p], H(p), LiveKeys, faults)
      BY <1>5, <2>1, <3>1 DEF Unhurt
    <3> QED BY <1>1, <1>6, <2>1, <3>2 DEF Sure
  <2>3. ASSUME o.pc \in WrapsPCs, status = "ok"
        PROVE  /\ Lasting(p, o, archive) \subseteq {w.key : w \in data}
               /\ \E w \in data : w.live
    <3>1. \A k : WrapIn(wraps, Actor[p], k) =>
            \E w \in data : w.key = k /\ (k \in LiveKeys => w.live)
      BY <1>5, <2>3 DEF Honest
    <3>2. /\ \A k \in Lasting(p, o, archive) : WrapIn(wraps, Actor[p], k)
          /\ WrapIn(wraps, Actor[p], o.probed)
      BY <1>2, <1>5, <1>10, <2>1, <2>3 DEF Wrapped, WrapsPCs
    <3>3. o.probed \in LiveKeys
      BY <2>1 DEF Unhurt
    <3> QED BY <3>1, <3>2, <3>3
  <2>4. o.pc \notin {"trial", "ended"}
    BY <1>2, <1>5
  <2> QED BY <1>3, <1>5, <2>2, <2>3, <2>4 DEF Complete
<1>12. Timed(p, o, H(p).gen, signedIn) /\ Unused(p, o, zeroed \cup HeldBuffers(H(p)))
  BY <1>1, <1>2, <1>5 DEF Timed, Unused
<1>13. /\ holder = [holder EXCEPT ![Actor[p]] = H(p)]
       /\ HolderTyped(H(p)) /\ SameBuffers(H(p), H(p))
       /\ holder = [v \in Users |-> holder[v]]
       /\ \A v \in Users : HolderTyped(holder[v]) /\ holder[v].gen <= holder[v].gen
  BY SameHolder
<1>14. epoch' = epoch
  BY DEF serverVars, keyRows
<1>15. Heap'
  BY <1>4, <1>12, <1>13, <1>14, HeapSame
<1>16. Alone(p)
  BY <1>2, RunsAlone
<1>17. /\ Fresh(o, holder'[Actor[p]], epoch)
       /\ Sure(p, o, holder'[Actor[p]], LiveKeys, faults', archive)
       /\ o.resp.status = "lost" => faults' > 0
  BY <1>1, <1>3, <1>9, <1>11
<1>18. /\ holder' = [v \in Users |-> holder'[v]]
       /\ \A v \in Users : HolderTyped(holder'[v]) /\ holder[v].gen <= holder'[v].gen
  BY <1>13
<1> QED BY <1>3, <1>4, <1>7, <1>8, <1>10, <1>15, <1>16, <1>17, <1>18, OpMoves

(* The answer of a committed transaction.                                  *)
LEMMA ReplyKeeps ==
  ASSUME IInv, NEW p \in Ops, InFlight(p), NEW data, Reply(p, data), Honest(p, data),
         UNCHANGED <<plan, serverVars>>
  PROVE  IInv'
<1>1. faults \in Nat
  BY DEF IInv, Typed
<1>2. UNCHANGED <<plan, serverVars, holder, zeroed, signedIn>>
  BY DEF Reply
<1>3. CASE Answer(p, "ok", data) /\ faults' = faults
  BY <1>1, <1>2, <1>3, AnswerKeeps
<1>4. CASE Answer(p, "lost", {}) /\ faults' = faults + 1
  BY <1>1, <1>2, <1>4, AnswerKeeps
<1> QED BY <1>3, <1>4 DEF Reply

(* committee_key_state_for_self tells of the one live key.                 *)
LEMMA ServeStateKeeps ==
  ASSUME IInv, NEW p \in Ops, ServeState(p, {"probe", "state"}), plan' = plan
  PROVE  IInv'
<1>1. /\ InFlight(p) /\ op[p].pc \in {"probe", "state"}
      /\ Reply(p, KeyState(Actor[p])) /\ UNCHANGED <<plan, serverVars>>
  BY DEF ServeState, Serving
<1>2. \A k, j \in LiveKeys : k = j /\ k \in KeysIn(epoch)
  BY KeysAre
<1> DEFINE state(k) == [key |-> k, count |-> Cardinality({w \in wraps : w.key = k}),
                       mine |-> HasWrap(Actor[p], k)]
<1>3. KeyState(Actor[p]) = {state(k) : k \in LiveKeys}
  BY DEF KeyState
<1>4. \A k : state(k).key = k /\ state(k).mine = HasWrap(Actor[p], k)
  OBVIOUS
<1>5. \A k : state(k).mine => WrapIn(wraps, Actor[p], k)
  <2> TAKE k
  <2> HIDE DEF state
  <2>1. state(k).mine = HasWrap(Actor[p], k)
    BY <1>4
  <2>2. HasWrap(Actor[p], k) <=> WrapIn(wraps, Actor[p], k)
    BY DEF HasWrap, WrapIn
  <2> QED BY ONLY <2>1, <2>2, Zenon
<1>6. \A s, t \in KeyState(Actor[p]) : /\ s.key \in KeysIn(epoch) /\ s = t
                                       /\ s.mine => WrapIn(wraps, Actor[p], s.key)
  <2> HIDE DEF state
  <2> QED BY <1>2, <1>3, <1>4, <1>5, Zenon
<1>7. Honest(p, KeyState(Actor[p]))
  BY <1>1, <1>6 DEF Honest, FetchPCs, WrapsPCs
<1> QED BY <1>1, <1>7, ReplyKeeps

(* get_committee_key_wrap_for_self: a wrap of the live key, none older     *)
(* than the key the operation was told of.                                 *)
LEMMA ServeLiveWrapKeeps ==
  ASSUME IInv, NEW p \in Ops, ServeLiveWrap(p), plan' = plan
  PROVE  IInv'
<1>1. /\ InFlight(p) /\ op[p].pc = "livewrap"
      /\ Reply(p, LiveWrapOf(Actor[p])) /\ UNCHANGED <<plan, serverVars>>
  BY DEF ServeLiveWrap, Serving
<1>2. /\ \A k \in LiveKeys, j \in KeysIn(epoch) : epoch[k] >= epoch[j]
      /\ op[p].probed \in KeysIn(epoch)
  BY <1>1, KeysAre, OpKnown DEF Told
<1>3. /\ Named(LiveWrapOf(Actor[p]), epoch)
      /\ \A w \in LiveWrapOf(Actor[p]) : epoch[w.key] >= epoch[op[p].probed]
  BY <1>2 DEF LiveWrapOf, IInv, RowsNamed, Named
<1>4. Honest(p, LiveWrapOf(Actor[p]))
  BY <1>1, <1>3 DEF Honest, WrapsPCs
<1> QED BY <1>1, <1>4, ReplyKeeps

(* get_all_committee_key_wraps_for_self: a wrap of every key the actor has *)
(* one of.                                                                 *)
LEMMA ServeAllWrapsKeeps ==
  ASSUME IInv, NEW p \in Ops, ServeAllWraps(p, {"heal", "escalate"}), plan' = plan
  PROVE  IInv'
<1> DEFINE D == AllWrapsOf(Actor[p])
<1>1. /\ InFlight(p) /\ op[p].pc \in {"heal", "escalate"}
      /\ Reply(p, D) /\ UNCHANGED <<plan, serverVars>>
  BY DEF ServeAllWraps, Serving
<1>2. /\ \A k \in LiveKeys, j \in KeysIn(epoch) : epoch[k] >= epoch[j]
      /\ op[p].probed \in KeysIn(epoch)
  BY <1>1, KeysAre, OpKnown DEF Told
<1>3. \A w \in D : \E r \in wraps : w.key = r.key /\ w.mat = r.mat
  BY DEF AllWrapsOf, WrapsOf
<1>4. \A w \in D : w.live <=> w.key \in LiveKeys
  <2> DEFINE row(r) == [key |-> r.key, mat |-> r.mat, epoch |-> epoch[r.key],
                        live |-> (r.key \in LiveKeys)]
  <2>1. D = {row(r) : r \in WrapsOf(Actor[p])}
    BY DEF AllWrapsOf
  <2>2. \A r : row(r).key = r.key /\ row(r).live = (r.key \in LiveKeys)
    OBVIOUS
  <2> HIDE DEF row, D
  <2> SUFFICES ASSUME NEW w \in D PROVE w.live <=> w.key \in LiveKeys
    OBVIOUS
  <2>3. PICK r \in WrapsOf(Actor[p]) : w = row(r)
    BY <2>1
  <2>4. w.key = r.key /\ w.live = (r.key \in LiveKeys)
    BY <2>2, <2>3, Zenon
  <2> QED BY <2>4, Zenon
<1>5. ASSUME NEW k, WrapIn(wraps, Actor[p], k)
      PROVE  \E w \in D : w.key = k
  <2>1. PICK r \in wraps : r.user = Actor[p] /\ r.key = k
    BY <1>5 DEF WrapIn
  <2> DEFINE w == [key |-> r.key, mat |-> r.mat, epoch |-> epoch[r.key],
                   live |-> (r.key \in LiveKeys)]
  <2>2. w \in D /\ w.key = k
    BY <2>1 DEF AllWrapsOf, WrapsOf
  <2> QED BY <2>2
<1> HIDE DEF D
<1>6. Named(D, epoch)
  BY <1>3 DEF IInv, RowsNamed, Named
<1>7. Honest(p, D)
  BY <1>1, <1>2, <1>4, <1>5, <1>6 DEF Honest
<1> QED BY <1>1, <1>7, ReplyKeeps

(* Every request is served, refused or dropped.                            *)
LEMMA ServeKeeps ==
  ASSUME IInv, NEW p \in Ops, Serve(p), plan' = plan
  PROVE  IInv'
<1>1. CASE ServeState(p, {"probe", "state"})
  BY <1>1, ServeStateKeeps
<1>2. CASE ServeLiveWrap(p)
  BY <1>2, ServeLiveWrapKeeps
<1>3. CASE ServeAllWraps(p, {"heal", "escalate"})
  BY <1>3, ServeAllWrapsKeeps
<1>4. CASE ServeSubmit(p) \/ ServeList(p) \/ ServeReveal(p)
  <2>1. PICK data : /\ InFlight(p) /\ op[p].pc \in {"submit", "list", "reveal"}
                    /\ Reply(p, data) /\ UNCHANGED <<plan, serverVars>>
    BY <1>4 DEF ServeSubmit, ServeList, ServeReveal, Serving
  <2>2. Honest(p, data)
    BY <2>1 DEF Honest, FetchPCs, WrapsPCs
  <2> QED BY <2>1, <2>2, ReplyKeeps
<1>5. CASE DropRequest(p)
  <2>1. /\ InFlight(p) /\ Answer(p, "lost", {}) /\ faults' = faults + 1
        /\ UNCHANGED <<plan, serverVars, holder, zeroed, signedIn>>
    BY <1>5 DEF DropRequest
  <2>2. faults \in Nat
    BY DEF IInv, Typed
  <2> QED BY <2>1, <2>2, AnswerKeeps
<1>6. CASE Deny(p)
  <2>1. PICK status \in {"401", "403"} : Refuse(p, status)
    BY <1>6 DEF Deny
  <2>2. /\ InFlight(p) /\ Answer(p, status, {}) /\ faults' = faults
        /\ UNCHANGED <<plan, serverVars, holder, zeroed, signedIn>>
    BY <1>6, <2>1 DEF Deny, Refuse, outside
  <2>3. faults \in Nat
    BY DEF IInv, Typed
  <2> QED BY <2>2, <2>3, AnswerKeeps
<1> QED BY <1>1, <1>2, <1>3, <1>4, <1>5, <1>6 DEF Serve

-----------------------------------------------------------------------------
(* The start.                                                              *)
LEMMA FlowsInit == Init => IInv
<1> SUFFICES ASSUME Init PROVE IInv
  OBVIOUS
<1>1. plan \in Plans /\ op = [p \in Ops |-> NewOp] /\ TabsInit
  BY DEF Init, TabsInit
<1>2. IsOp(NewOp)
  <2>1. NewOp = [f \in Fields |-> NewOp[f]]
    BY DEF NewOp, Fields
  <2> QED BY <2>1 DEF NewOp, IsOp
<1>3. /\ NewOp.pc = "idle" /\ NewOp.resp.status = "none" /\ ~NewOp.used
      /\ NewOp.post = NoKey /\ NewOp.probed = NoKey /\ NewOp.mine = {}
      /\ NewOp.res = "none" /\ NewOp.disclosures = 0
      /\ NewOp.gen = 0 /\ NewOp.since = 0 /\ NewOp.begun = 0
  BY DEF NewOp, NoAnswer
<1>4. /\ HolderTyped(NewHolder) /\ HeldIds(NewHolder) = {} /\ HeldBuffers(NewHolder) = {}
      /\ NewHolder.gen = 0
  BY DEF HolderTyped, NewHolder, HeldIds, HeldBuffers
<1>5. Typed
  BY <1>1, <1>2, <1>4 DEF Typed, TabsInit
<1>6. \A p \in Ops : op[p] = NewOp
  BY <1>1
<1> HIDE DEF NewOp
<1>7. KeysInv
  <2>1. /\ epoch = [k \in KeyIds |-> IF plan.holders # {} /\ k = FirstKey THEN 1 ELSE 0]
        /\ retired = {}
    BY <1>1 DEF TabsInit
  <2>2. \A k \in KeyIds : epoch[k] = IF plan.holders # {} /\ k = FirstKey THEN 1 ELSE 0
    BY <2>1
  <2>3. ASSUME NEW k \in Minted PROVE k = FirstKey /\ epoch[k] = 1
    <3>1. k \in KeyIds /\ epoch[k] > 0
      BY DEF Minted
    <3> QED BY <2>2, <3>1
  <2>4. \A k, j \in Minted : epoch[j] <= epoch[k] /\ j = k /\ k \in LiveKeys
    <3> SUFFICES ASSUME NEW k \in Minted, NEW j \in Minted
                 PROVE  epoch[j] <= epoch[k] /\ j = k /\ k \in LiveKeys
      OBVIOUS
    <3>1. k = j /\ epoch[k] = 1
      BY <2>3
    <3>2. k \in LiveKeys
      BY <2>1 DEF LiveKeys
    <3> QED BY <3>1, <3>2
  <2>5. OneLiveNewest
    BY <2>4 DEF OneLiveNewest
  <2> QED BY <2>1, <2>5 DEF KeysInv
<1>8. RowsNamed
  <2>1. \A w \in wraps : plan.holders # {} /\ w.key = FirstKey /\ w.mat = FirstMaterial
    BY <1>1 DEF TabsInit
  <2>2. plan.holders # {} => FirstKey \in KeysIn(epoch)
    BY <1>1, FirstKeyAssumption DEF TabsInit, KeysIn
  <2> QED BY <2>1, <2>2, FirstKeyAssumption DEF RowsNamed, Named
<1>9. LossCounted /\ Solo
  BY <1>3, <1>6 DEF LossCounted, Solo, Running
<1>10. Flows
  <2> SUFFICES ASSUME NEW p \in Ops
               PROVE  /\ Shape(op[p]) /\ Told(op[p], epoch)
                      /\ Fresh(op[p], H(p), epoch)
                      /\ Wrapped(p, op[p], wraps, archive)
                      /\ Sure(p, op[p], H(p), LiveKeys, faults, archive)
    BY DEF Flows
  <2>1. Lasting(p, op[p], archive) = {}
    BY <1>3, <1>6 DEF Lasting
  <2> QED BY <1>3, <1>6, <2>1
          DEF Shape, Told, Fresh, Wrapped, Sure, PCs, FetchPCs, WrapsPCs
<1>11. Heap
  <2>1. /\ \A u \in Users : holder[u] = NewHolder
        /\ zeroed = {}
    BY <1>1 DEF TabsInit
  <2>2. ASSUME NEW p \in Ops PROVE H(p) = NewHolder
    BY <1>5, <2>1, PlanKnown
  <2>3. ASSUME NEW p \in Ops
        PROVE  /\ Timed(p, op[p], H(p).gen, signedIn)
               /\ Unused(p, op[p], zeroed \cup HeldBuffers(H(p)))
    BY <1>3, <1>4, <1>6, <2>1, <2>2 DEF Timed, Unused, FetchPCs
  <2>4. \A u \in Users : /\ HeldFor(u, holder[u], zeroed, epoch)
                         /\ HeldIds(holder[u]) = {}
    BY <1>4, <2>1 DEF HeldFor
  <2> QED BY <2>3, <2>4 DEF Heap
<1> QED BY <1>5, <1>7, <1>8, <1>9, <1>10, <1>11 DEF IInv

(* Every step keeps the invariant.                                         *)
LEMMA FlowsStep == IInv /\ [Next]_vars => IInv'
<1> SUFFICES ASSUME IInv, [Next]_vars PROVE IInv'
  OBVIOUS
<1>1. CASE \E p \in Ops : Step(p) \/ Serve(p)
  BY <1>1, StepKeeps, ServeKeeps DEF Next, vars
<1>2. CASE Elsewhere /\ plan' = plan
  BY <1>2, ElsewhereKeeps
<1>3. CASE TabEvent(Me) /\ plan' = plan
  BY <1>3, MeAssumption, TabEventKeeps
<1>4. CASE UNCHANGED vars
  BY <1>4, QuietKeeps DEF vars, clientVars, serverVars, outside
<1> QED BY <1>1, <1>2, <1>3, <1>4 DEF Next

(* The invariant of ConcernFlows.                                          *)
LEMMA FlowsInvariant == Spec => []IInv
<1> QED BY FlowsInit, FlowsStep, PTL DEF Spec

(* F182-9: however the self-heal and the escalation of an operation follow *)
(* each other, all its wraps are asked for at most once.                   *)
THEOREM OneDisclosure == Spec => []OneDisclosurePerOp
<1>1. IInv => OneDisclosurePerOp
  <2> SUFFICES ASSUME IInv, NEW p \in Ops PROVE op[p].disclosures <= 1
    BY DEF OneDisclosurePerOp
  <2>1. op[p].disclosures = IF op[p].used THEN 1 ELSE 0
    BY OpKnown DEF Shape
  <2> QED BY <2>1
<1> QED BY <1>1, FlowsInvariant, PTL

(* F-183-R, F-190: no record is sealed under zeros, and none under an      *)
(* older key than its operation was told of when operations do not         *)
(* overlap, whatever is rotated, granted, purged or wiped meanwhile.       *)
THEOREM SealIsFresh == Spec => []FreshSeal
<1>1. IInv => FreshSeal
  <2> SUFFICES ASSUME IInv, NEW p \in Ops, op[p].post # NoKey
               PROVE  /\ op[p].post # ZeroKey
                      /\ ~plan.overlap => epoch[op[p].post] >= epoch[op[p].probed]
    BY DEF FreshSeal
  <2>1. op[p].post \in KeysIn(epoch)
    BY OpKnown DEF Told
  <2>2. op[p].post # ZeroKey
    BY <2>1, KeysAre
  <2>3. ~plan.overlap => epoch[op[p].post] >= epoch[op[p].probed]
    BY OpKnown DEF Fresh
  <2> QED BY <2>2, <2>3
<1> QED BY <1>1, FlowsInvariant, PTL

(* F-183: a row is reported decrypt_failed only if its key is none of      *)
(* those the actor had a wrap of when the operation began and still has,   *)
(* unless one of the excuses ReadableRowsOpen lists holds.                 *)
THEOREM ReadableOpen == Spec => []ReadableRowsOpen
<1>1. IInv => ReadableRowsOpen
  <2> SUFFICES ASSUME IInv, NEW p \in Ops,
                      op[p].res = "decrypt_failed", ~plan.overlap, faults = 0,
                      op[p].begun = H(p).gen, op[p].probed \in LiveKeys,
                      ~\E a \in archive : a.user = Actor[p] /\ a.key = op[p].row,
                      op[p].row \in op[p].mine
               PROVE  FALSE
    BY DEF ReadableRowsOpen
  <2>1. op[p].row \in Lasting(p, op[p], archive)
    BY DEF Lasting
  <2>2. Complete(op[p], H(p), Lasting(p, op[p], archive))
    BY <2>1, OpKnown DEF Sure, Unhurt
  <2>3. op[p].pc = "ended"
    BY OpKnown DEF Shape
  <2> QED BY <2>1, <2>2, <2>3 DEF Complete
<1> QED BY <1>1, FlowsInvariant, PTL

(* F-VAL-1(b), F-195: a wipe is final for the flows too: a holder only     *)
(* holds keys asked for since its last wipe, and a tab without a JWT none. *)
THEOREM FlowsWipeIsFinal == Spec => []HeldSinceLastWipe
<1>1. IInv => HeldSinceLastWipe
  <2> SUFFICES ASSUME IInv, NEW u \in Users
               PROVE  /\ \A b \in HeldBuffers(holder[u]) : b.since = holder[u].gen
                      /\ u \notin signedIn => HeldBuffers(holder[u]) = {}
    BY DEF HeldSinceLastWipe
  <2>1. \A b \in HeldBuffers(holder[u]) : b.since = holder[u].gen
    BY HeldIsMine
  <2>2. u \notin signedIn => HeldIds(holder[u]) = {}
    BY HolderFits
  <2> QED BY <2>1, <2>2 DEF HeldBuffers
<1> QED BY <1>1, FlowsInvariant, PTL

=============================================================================
