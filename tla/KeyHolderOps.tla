---------------------------- MODULE KeyHolderOps ----------------------------
(***************************************************************************)
(* The CommitteeKeyHolder class of                                         *)
(* src/apps/web/src/lib/crypto/committee-key-holder.ts as operators on a   *)
(* holder value, so that one definition serves the holder's own            *)
(* specification and the compositions in which several tabs have a holder  *)
(* each.                                                                   *)
(*                                                                         *)
(* A holder value is [keys, live, gen]: keys maps each held key_id to its  *)
(* HeldKey record, live is #liveKeyId (NoKey for null), gen is             *)
(* #wipeGeneration.  A buffer (Uint8Array) is an opaque value: two buffers *)
(* are equal exactly when they are the same object.  Which buffers have    *)
(* been `.fill(0)`ed is the heap's state, kept by the modules that use     *)
(* this one; Orphans says which buffers a replacement zeroizes.            *)
(***************************************************************************)
EXTENDS Integers

CONSTANTS KeyIds,     \* committee_data_keys.key_id values
          Buffers,    \* Uint8Array objects that can hold a data key
          NoKey       \* the null key_id

ASSUME NoKeyAssumption == NoKey \notin KeyIds

(* A map entry as handed to populate() / set().                            *)
Entry == [key_id: KeyIds, data_key: Buffers, epoch: Nat, is_live: BOOLEAN]

(* The record kept per key_id.                                             *)
HeldKey == [data_key: Buffers, epoch: Nat, is_live: BOOLEAN]

IsHolder(h) ==
  /\ h = [keys |-> h.keys, live |-> h.live, gen |-> h.gen]
  /\ DOMAIN h.keys \in SUBSET KeyIds
  /\ h.keys \in [DOMAIN h.keys -> HeldKey]
  /\ h.live \in KeyIds \cup {NoKey}
  /\ h.gen \in Nat

NewHolder == [keys |-> [k \in {} |-> NoKey], live |-> NoKey, gen |-> 0]

HeldIds(h) == DOMAIN h.keys

HeldBuffers(h) == {h.keys[k].data_key : k \in HeldIds(h)}

LiveFlags(h) == {k \in HeldIds(h) : h.keys[k].is_live}

(* The load-all query returns one row per key (primary key (user_id,       *)
(* key_id)), each unwrapped into its own buffer, and at most one of them   *)
(* live (committee_data_keys_one_live_idx).                                *)
WellFormedEntries(E) ==
  /\ \A e, f \in E : e.key_id = f.key_id => e = f
  /\ \A e, f \in E : e.is_live /\ f.is_live => e = f

EntryFor(E, k) == CHOOSE e \in E : e.key_id = k

(* Mutation: #liveKeyId is given the entry instead of its key_id.          *)
PopulateLiveEntry(h, E) ==
  [keys |-> [k \in {e.key_id : e \in E} |->
               [data_key |-> EntryFor(E, k).data_key,
                epoch    |-> EntryFor(E, k).epoch,
                is_live  |-> EntryFor(E, k).is_live]],
   live |-> IF \E e \in E : e.is_live THEN CHOOSE e \in E : e.is_live ELSE NoKey,
   gen  |-> h.gen]

(* populate(): REPLACES the map; the live entry, if any, becomes the       *)
(* sealing key.                                                            *)
Populate(h, E) ==
  [keys |-> [k \in {e.key_id : e \in E} |->
               [data_key |-> EntryFor(E, k).data_key,
                epoch    |-> EntryFor(E, k).epoch,
                is_live  |-> EntryFor(E, k).is_live]],
   live |-> IF \E e \in E : e.is_live
            THEN (CHOOSE e \in E : e.is_live).key_id
            ELSE NoKey,
   gen  |-> h.gen]

(* Mutation: every outgoing buffer is zeroized, the retained ones too.     *)
OrphansAll(h, next) == HeldBuffers(h)

(* #wipeOrphanedBuffers(): the outgoing buffers that the incoming map does *)
(* not carry, compared by identity.                                        *)
Orphans(h, next) == HeldBuffers(h) \ HeldBuffers(next)

(* set(): REPLACES the map by one live entry.                              *)
SetLive(h, e) == Populate(h, {[e EXCEPT !.is_live = TRUE]})

(* wipe(): forget every key and advance the latch, even when empty.        *)
Wipe(h) == [NewHolder EXCEPT !.gen = h.gen + 1]

HasLiveKey(h) == h.live # NoKey /\ h.live \in HeldIds(h)

IsPopulated(h) == HeldIds(h) # {}

HoldsKeyId(h, k) == k \in HeldIds(h)

GetKeyId(h) == IF HasLiveKey(h) THEN h.live ELSE NoKey

Flagged(e, flag) ==
  [data_key |-> e.data_key, epoch |-> e.epoch, is_live |-> flag]

(* Move the live designation to a held key: the previous live entry loses  *)
(* its flag, every buffer stays.                                           *)
Designate(h, k) ==
  [keys |-> [j \in HeldIds(h) |->
               Flagged(h.keys[j],
                       (j = k) \/ (j # h.live /\ h.keys[j].is_live))],
   live |-> k,
   gen  |-> h.gen]

(* Mutation: the observed key is not held, and everything is forgotten.    *)
DemoteByForgetting(h) == [NewHolder EXCEPT !.gen = h.gen]

(* Mutation: the demoted entry keeps its is_live flag.                     *)
DemoteKeepsFlag(h) == [keys |-> h.keys, live |-> NoKey, gen |-> h.gen]

(* Drop the live designation, keeping every buffer for reads.              *)
Demote(h) ==
  [keys |-> [j \in HeldIds(h) |->
               Flagged(h.keys[j], j # h.live /\ h.keys[j].is_live)],
   live |-> NoKey,
   gen  |-> h.gen]

(* onKeyRotationObserved(): the authoritative signal.                      *)
OnKeyRotationObserved(h, k) ==
  IF k \in HeldIds(h) THEN Designate(h, k)
  ELSE IF h.live # NoKey THEN Demote(h) ELSE h

(* Mutation: a row hint of any held epoch moves the designation.           *)
RedesignateAnyHeld(h, k) ==
  IF k \in HeldIds(h) /\ HasLiveKey(h) THEN Designate(h, k) ELSE h

(* redesignateLiveIfHeld(): the unauthenticated per-row hint, which may    *)
(* only move the designation to a strictly newer held epoch.               *)
RedesignateLiveIfHeld(h, k) ==
  IF /\ k \in HeldIds(h)
     /\ HasLiveKey(h)
     /\ h.keys[k].epoch > h.keys[h.live].epoch
  THEN Designate(h, k)
  ELSE h

=============================================================================
