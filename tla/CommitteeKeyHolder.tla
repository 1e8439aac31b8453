------------------------- MODULE CommitteeKeyHolder -------------------------
(***************************************************************************)
(* One session's committee-key holder under every sequence of calls the    *)
(* compositions make on it, and the heap of key buffers behind it          *)
(* (src/apps/web/src/lib/crypto/committee-key-holder.ts).                  *)
(***************************************************************************)
EXTENDS KeyHolderOps

CONSTANTS EpochOf,    \* the server's epoch of each key_id
          MaxWipes    \* bound on the wipe generation

ASSUME EpochOfAssumption ==
  /\ EpochOf \in [KeyIds -> Nat]
  /\ \A j, k \in KeyIds : EpochOf[j] = EpochOf[k] => j = k
ASSUME MaxWipesAssumption == MaxWipes \in Nat

VARIABLES
  keyHolder,  \* the holder value
  filled,     \* the buffers that have been .fill(0)ed
  installed   \* history: every buffer that was ever put in the map

holderVars == <<keyHolder, filled, installed>>

(* Every unwrap allocates its buffers; a caller may also hand back the     *)
(* very buffer that is held for that key.                                  *)
Installable(k, b) ==
  \/ b \notin installed \cup filled
  \/ k \in HeldIds(keyHolder) /\ keyHolder.keys[k].data_key = b

(* The arguments populate() can be given: per key at most one entry, live  *)
(* as the server says (at most one), in distinct buffers.                  *)
EntrySet(S, buf, live) ==
  {[key_id |-> k, data_key |-> buf[k], epoch |-> EpochOf[k],
    is_live |-> (k = live)] : k \in S}

Replace(next, bufs) ==
  /\ keyHolder' = next
  /\ filled' = filled \cup Orphans(keyHolder, next)
  /\ installed' = installed \cup bufs

DoPopulate ==
  \E S \in SUBSET KeyIds, live \in KeyIds \cup {NoKey} :
    \E buf \in [S -> Buffers] :
      /\ \A j, k \in S : buf[j] = buf[k] => j = k
      /\ \A k \in S : Installable(k, buf[k])
      /\ Replace(Populate(keyHolder, EntrySet(S, buf, live)), {buf[k] : k \in S})

DoSet ==
  \E k \in KeyIds, b \in Buffers :
    /\ Installable(k, b)
    /\ Replace(SetLive(keyHolder, [key_id |-> k, data_key |-> b,
                                epoch |-> EpochOf[k], is_live |-> FALSE]),
               {b})

(* The five session-end triggers all route to wipe().                      *)
DoWipe ==
  /\ keyHolder.gen < MaxWipes
  /\ keyHolder' = Wipe(keyHolder)
  /\ filled' = filled \cup HeldBuffers(keyHolder)
  /\ UNCHANGED installed

DoRotationObserved ==
  \E k \in KeyIds :
    /\ keyHolder' = OnKeyRotationObserved(keyHolder, k)
    /\ UNCHANGED <<filled, installed>>

DoRowHint ==
  \E k \in KeyIds :
    /\ keyHolder' = RedesignateLiveIfHeld(keyHolder, k)
    /\ UNCHANGED <<filled, installed>>

HolderInit ==
  /\ keyHolder = NewHolder
  /\ filled = {}
  /\ installed = {}

HolderNext == DoPopulate \/ DoSet \/ DoWipe \/ DoRotationObserved \/ DoRowHint

HolderSpec == HolderInit /\ [][HolderNext]_holderVars

-----------------------------------------------------------------------------
(* The holder's type, and the buffers are buffers.                         *)
HolderTypeOK ==
  /\ IsHolder(keyHolder)
  /\ filled \in SUBSET Buffers
  /\ installed \in SUBSET Buffers

(* The is_live flags and #liveKeyId never disagree: the entry flagged live *)
(* is the designated one, and a designated key is held.  The code keeps    *)
(* the two in step by hand in four methods.                                *)
LiveDesignationAgrees ==
  LiveFlags(keyHolder) = IF keyHolder.live = NoKey THEN {} ELSE {keyHolder.live}

(* A held key is usable: no buffer in the map has been zeroized under it   *)
(* (sealing with a zeroed buffer would seal under the all-zero key).       *)
HeldNeverZeroed == HeldBuffers(keyHolder) \cap filled = {}

(* F-145 / F-145-C: every buffer that ever entered the map is still held,  *)
(* or has been zeroized: replacing the map orphans no plaintext key.       *)
EvictedAreZeroed == installed \ HeldBuffers(keyHolder) \subseteq filled

(* The heap balances: a buffer that entered the map is either held, and    *)
(* usable, or zeroized, whatever the order of populate, set, wipe and      *)
(* rotation; replacing the map neither leaks a key nor seals under zeros.  *)
BuffersAccounted == HeldNeverZeroed /\ EvictedAreZeroed

(* What a row hint may do (A-8.10-R2): it drops no key, never advances the *)
(* latch, never bootstraps a live key out of the demoted state and never   *)
(* moves the designation to an older epoch.                                *)
RowHintIsAddOnly ==
  [][DoRowHint =>
       /\ HeldBuffers(keyHolder') = HeldBuffers(keyHolder)
       /\ (keyHolder.live = NoKey) = (keyHolder'.live = NoKey)
       /\ keyHolder.live # NoKey =>
            EpochOf[keyHolder'.live] >= EpochOf[keyHolder.live]]_holderVars

(* F-183 / A-8.10-R: an observed rotation never drops a read key, and      *)
(* afterwards the only key that can seal is the observed one (or none).    *)
RotationRetainsReadKeys ==
  [][\A k \in KeyIds :
       keyHolder' = OnKeyRotationObserved(keyHolder, k) /\ keyHolder' # keyHolder =>
         /\ HeldBuffers(keyHolder') = HeldBuffers(keyHolder)
         /\ GetKeyId(keyHolder') \in {k, NoKey}]_holderVars

=============================================================================
