---------------------------- MODULE FieldQueueProofs ----------------------------
(***************************************************************************)
(* No inspection leaves the queue unrecorded and none is judged twice:     *)
(* proofs about FieldQueue for any cap and bounds.                         *)
(*                                                                         *)
(* The argument: a number is in one place at a time, so an entry is walked *)
(* once per drain; a drain that empties the queue has given every entry it *)
(* walked, those pushed meanwhile included, a verdict (Judged), and what   *)
(* is counted as a verdict only moves from the waiting rows to the log.    *)
(* Without a throwing hook a drain is cut short only by the loss of the    *)
(* key, after which no other begins (Unjudged).                            *)
(***************************************************************************)
EXTENDS FieldQueue, FiniteSetTheorems, FunctionTheorems, TLAPS

Rows == [seq : Seqs, why : {"gap", "refused"}]
Drains ==
  [pc : {"idle", "walk", "post"}, at : Nat, issued : SUBSET Seqs, size : Nat, highWater : Nat]

TypeInv ==
  /\ entries \in Seq(Seqs) /\ tagging \in Seq(Seqs) /\ pending \in Seq(Rows)
  /\ nextSeq \in Nat \ {0} /\ encrypting \in Nat /\ nextSeq + encrypting <= MaxSeq + 1
  /\ drainedSeq \in Nat /\ hasKey \in BOOLEAN /\ drain \in Drains
  /\ flushing \in BOOLEAN /\ accepted \in SUBSET Seqs /\ throws \in Nat
  /\ received \in [Seqs -> Nat] /\ logged \in [Seqs -> Nat]

(* A number taken is awaiting its tag or in the queue, once.               *)
Numbered ==
  /\ \A k \in 1..Len(entries) : entries[k] < nextSeq
  /\ \A k \in 1..Len(tagging) : tagging[k] < nextSeq
  /\ \A j, k \in 1..Len(entries) : entries[j] = entries[k] => j = k
  /\ \A j, k \in 1..Len(tagging) : tagging[j] = tagging[k] => j = k
  /\ \A j \in 1..Len(entries), k \in 1..Len(tagging) : entries[j] # tagging[k]

(* A drain stands at an entry, or behind the last; a flush has a row.      *)
Placed ==
  /\ drain.pc = "walk" => drain.at \in 1..Len(entries) + 1
  /\ drain.pc = "post" => drain.at \in 1..Len(entries)
  /\ flushing => pending # <<>>

Verdicts(s) == received[s] + RowsOf(s) + logged[s]

(* What a drain has passed has a verdict.                                  *)
Judged ==
  drain.pc # "idle" => \A k \in 1..Len(entries) : k < drain.at => Verdicts(entries[k]) > 0

(* What no drain has passed has none.                                      *)
NotYet(s) == Verdicts(s) = 0
Unjudged ==
  throws = 0 =>
    /\ \A s \in Seqs : s >= nextSeq => NotYet(s)
    /\ \A k \in 1..Len(tagging) : NotYet(tagging[k])
    /\ drain.pc # "idle" => \A k \in 1..Len(entries) : k >= drain.at => NotYet(entries[k])
    /\ drain.pc = "idle" /\ hasKey => \A k \in 1..Len(entries) : NotYet(entries[k])

Kept == \A s \in accepted : (\E k \in 1..Len(entries) : entries[k] = s) \/ Verdicts(s) > 0
Once == throws = 0 => \A s \in Seqs : Verdicts(s) <= 1

IInv == TypeInv /\ Numbered /\ Placed /\ Judged /\ Unjudged /\ Kept /\ Once

-----------------------------------------------------------------------------
(* The audit rows of one entry among rows waiting in order.                *)
Positions(p, s) == {k \in 1..Len(p) : p[k].seq = s}

LEMMA PositionsFinite ==
  ASSUME NEW p \in Seq(Rows), NEW s
  PROVE  IsFiniteSet(Positions(p, s)) /\ Cardinality(Positions(p, s)) \in Nat
<1>1. Len(p) \in Nat
  OBVIOUS
<1>2. IsFiniteSet(1..Len(p))
  BY <1>1, FS_Interval
<1>3. IsFiniteSet(Positions(p, s))
  BY <1>2, FS_Subset DEF Positions
<1> QED BY <1>3, FS_CardinalityType

(* A row written is one more of its entry.                                 *)
LEMMA RowAdded ==
  ASSUME NEW p \in Seq(Rows), NEW row \in Rows, NEW s
  PROVE  Cardinality(Positions(Append(p, row), s)) =
           Cardinality(Positions(p, s)) + IF row.seq = s THEN 1 ELSE 0
<1> DEFINE q == Append(p, row)
           n == Len(p) + 1
<1>1. /\ q \in Seq(Rows) /\ Len(q) = n /\ Len(p) \in Nat
      /\ q[n] = row /\ \A k \in 1..Len(p) : q[k] = p[k]
  OBVIOUS
<1> HIDE DEF q
<1>2. n \notin Positions(p, s)
  BY <1>1 DEF Positions
<1>3. CASE row.seq = s
  <2>1. Positions(q, s) = Positions(p, s) \cup {n}
    BY <1>1, <1>3 DEF Positions
  <2> QED BY <1>2, <1>3, <2>1, PositionsFinite, FS_AddElement DEF q
<1>4. CASE row.seq # s
  <2>1. Positions(q, s) = Positions(p, s)
    BY <1>1, <1>4 DEF Positions
  <2> QED BY <1>4, <2>1, PositionsFinite DEF q
<1> QED BY <1>3, <1>4

(* A row taken from the head is one less of its entry.                     *)
LEMMA RowDropped ==
  ASSUME NEW p \in Seq(Rows), p # <<>>, NEW s
  PROVE  Cardinality(Positions(p, s)) =
           Cardinality(Positions(Tail(p), s)) + IF Head(p).seq = s THEN 1 ELSE 0
<1> DEFINE q == Tail(p)
           S == Positions(p, s) \ {1}
           T == Positions(q, s)
           f == [k \in T |-> k + 1]
<1>1. /\ q \in Seq(Rows) /\ Len(p) \in Nat \ {0} /\ Len(q) = Len(p) - 1
      /\ \A k \in 1..Len(q) : q[k] = p[k + 1]
      /\ Head(p) = p[1]
  OBVIOUS
<1> HIDE DEF q
<1>2. \A k \in T : k \in Nat /\ k + 1 \in S
  BY <1>1 DEF Positions
<1>3. \A m \in S : m - 1 \in T /\ m = (m - 1) + 1
  BY <1>1 DEF Positions
<1>4. f \in Bijection(T, S)
  <2>1. f \in [T -> S]
    BY <1>2
  <2>2. \A a, b \in T : f[a] = f[b] => a = b
    BY <1>2
  <2>3. \A m \in S : \E k \in T : f[k] = m
    BY <1>3
  <2> HIDE DEF f, S, T
  <2> QED BY <2>1, <2>2, <2>3, Fun_IsBij
<1>5. ExistsBijection(T, S)
  BY <1>4 DEF ExistsBijection
<1>6. Cardinality(S) = Cardinality(T)
  BY <1>1, <1>5, PositionsFinite, FS_Bijection
<1>7. Cardinality(S) = IF 1 \in Positions(p, s) THEN Cardinality(Positions(p, s)) - 1
                       ELSE Cardinality(Positions(p, s))
  BY PositionsFinite, FS_RemoveElement
<1>8. 1 \in Positions(p, s) <=> Head(p).seq = s
  BY <1>1 DEF Positions
<1>9. Cardinality(Positions(p, s)) \in Nat
  BY PositionsFinite
<1> QED BY <1>6, <1>7, <1>8, <1>9 DEF q
-----------------------------------------------------------------------------
(* Verdicts are numbers; they change where a row is written or the server  *)
(* takes an entry, and logging a row changes none.                         *)
LEMMA VerdictsTyped ==
  ASSUME TypeInv, NEW s \in Seqs
  PROVE  /\ Verdicts(s) \in Nat /\ RowsOf(s) \in Nat
         /\ received[s] \in Nat /\ logged[s] \in Nat
         /\ Verdicts(s) > 0 <=> received[s] > 0 \/ RowsOf(s) > 0 \/ logged[s] > 0
<1>1. RowsOf(s) = Cardinality(Positions(pending, s))
  BY DEF RowsOf, Positions
<1>2. RowsOf(s) \in Nat
  BY <1>1, PositionsFinite DEF TypeInv
<1>3. received[s] \in Nat /\ logged[s] \in Nat
  BY DEF TypeInv
<1> QED BY <1>2, <1>3 DEF Verdicts

LEMMA NoneGiven ==
  ASSUME UNCHANGED <<pending, received, logged>>
  PROVE  \A s \in Seqs : Verdicts(s)' = Verdicts(s)
  BY DEF Verdicts, RowsOf

LEMMA RowGiven ==
  ASSUME TypeInv, NEW e \in Seqs, NEW why \in {"gap", "refused"},
         pending' = Append(pending, [seq |-> e, why |-> why]), UNCHANGED <<received, logged>>
  PROVE  /\ pending' \in Seq(Rows) /\ pending' # <<>>
         /\ \A s \in Seqs : Verdicts(s)' = Verdicts(s) + IF s = e THEN 1 ELSE 0
<1> DEFINE row == [seq |-> e, why |-> why]
<1>1. row \in Rows /\ row.seq = e /\ pending \in Seq(Rows)
  BY DEF Rows, TypeInv
<1>2. pending' \in Seq(Rows) /\ pending' # <<>>
  BY <1>1
<1> HIDE DEF row
<1>3. ASSUME NEW s \in Seqs
      PROVE  Verdicts(s)' = Verdicts(s) + IF s = e THEN 1 ELSE 0
  <2>1. RowsOf(s)' = Cardinality(Positions(Append(pending, row), s))
    BY DEF RowsOf, Positions, row
  <2>2. RowsOf(s) = Cardinality(Positions(pending, s))
    BY DEF RowsOf, Positions
  <2>3. RowsOf(s)' = RowsOf(s) + IF s = e THEN 1 ELSE 0
    BY <1>1, <2>1, <2>2, RowAdded
  <2>4. received'[s] = received[s] /\ logged'[s] = logged[s]
    OBVIOUS
  <2>5. received[s] \in Nat /\ logged[s] \in Nat /\ RowsOf(s) \in Nat
    BY VerdictsTyped
  <2> QED BY <2>3, <2>4, <2>5 DEF Verdicts
<1> QED BY <1>2, <1>3

LEMMA ServerTakes ==
  ASSUME TypeInv, NEW e \in Seqs,
         received' = [received EXCEPT ![e] = @ + 1], UNCHANGED <<pending, logged>>
  PROVE  /\ received' \in [Seqs -> Nat]
         /\ \A s \in Seqs : Verdicts(s)' = Verdicts(s) + IF s = e THEN 1 ELSE 0
<1>1. received' \in [Seqs -> Nat]
  BY DEF TypeInv
<1>2. ASSUME NEW s \in Seqs
      PROVE  Verdicts(s)' = Verdicts(s) + IF s = e THEN 1 ELSE 0
  <2>1. RowsOf(s)' = RowsOf(s) /\ logged'[s] = logged[s]
    BY DEF RowsOf
  <2>2. received'[s] = received[s] + IF s = e THEN 1 ELSE 0
    BY DEF TypeInv
  <2> QED BY <2>1, <2>2, VerdictsTyped DEF Verdicts
<1> QED BY <1>1, <1>2

LEMMA SinkTakes ==
  ASSUME TypeInv, pending # <<>>, UNCHANGED received,
         logged' = [logged EXCEPT ![Head(pending).seq] = @ + 1]
  PROVE  /\ logged' \in [Seqs -> Nat]
         /\ pending' = Tail(pending) =>
              /\ pending' \in Seq(Rows)
              /\ \A s \in Seqs : Verdicts(s)' = Verdicts(s)
         /\ pending' = pending => \A s \in Seqs : Verdicts(s) > 0 => Verdicts(s)' > 0
<1>1. /\ pending \in Seq(Rows) /\ Tail(pending) \in Seq(Rows)
      /\ Head(pending) \in Rows /\ Head(pending).seq \in Seqs
  <2>1. pending \in Seq(Rows)
    BY DEF TypeInv
  <2>2. Head(pending) \in Rows /\ Tail(pending) \in Seq(Rows)
    BY <2>1
  <2> QED BY <2>1, <2>2 DEF Rows
<1>2. logged' \in [Seqs -> Nat]
  BY <1>1 DEF TypeInv
<1>3. ASSUME NEW s \in Seqs
      PROVE  logged'[s] = logged[s] + IF Head(pending).seq = s THEN 1 ELSE 0
  BY <1>1 DEF TypeInv
<1>4. ASSUME pending' = Tail(pending), NEW s \in Seqs PROVE Verdicts(s)' = Verdicts(s)
  <2>1. RowsOf(s) = Cardinality(Positions(pending, s))
    BY DEF RowsOf, Positions
  <2>2. RowsOf(s)' = Cardinality(Positions(Tail(pending), s))
    BY <1>4 DEF RowsOf, Positions
  <2>3. RowsOf(s) = RowsOf(s)' + IF Head(pending).seq = s THEN 1 ELSE 0
    BY <1>1, <2>1, <2>2, RowDropped
  <2>4. RowsOf(s)' \in Nat
    BY <1>1, <2>2, PositionsFinite
  <2>5. received[s] \in Nat /\ logged[s] \in Nat /\ RowsOf(s) \in Nat
    BY VerdictsTyped
  <2>6. received'[s] = received[s]
    OBVIOUS
  <2> QED BY <1>3, <2>3, <2>4, <2>5, <2>6 DEF Verdicts
<1>5. ASSUME pending' = pending, NEW s \in Seqs, Verdicts(s) > 0 PROVE Verdicts(s)' > 0
  <2>1. RowsOf(s)' = RowsOf(s)
    BY <1>5 DEF RowsOf
  <2> QED BY <1>3, <1>5, <2>1, VerdictsTyped DEF Verdicts
<1>6. pending' = Tail(pending) => pending' \in Seq(Rows)
  BY <1>1
<1> QED BY <1>2, <1>4, <1>5, <1>6

-----------------------------------------------------------------------------
LEMMA InitIInv == Init => IInv
<1> SUFFICES ASSUME Init PROVE IInv
  OBVIOUS
<1> USE DEF Init
<1>1. TypeInv
  <2>1. MaxSeq \in Nat \ {0}
    BY BoundAssumption
  <2>2. entries \in Seq(Seqs) /\ tagging \in Seq(Seqs) /\ pending \in Seq(Rows)
    OBVIOUS
  <2>3. drain \in Drains
    BY DEF Drains, NoDrain
  <2>4. received \in [Seqs -> Nat] /\ logged \in [Seqs -> Nat]
    OBVIOUS
  <2>5. nextSeq \in Nat \ {0} /\ nextSeq + encrypting <= MaxSeq + 1
    BY <2>1
  <2>6. /\ encrypting \in Nat /\ drainedSeq \in Nat /\ hasKey \in BOOLEAN
        /\ flushing \in BOOLEAN /\ accepted \in SUBSET Seqs /\ throws \in Nat
    OBVIOUS
  <2> HIDE DEF Init
  <2> QED BY <2>2, <2>3, <2>4, <2>5, <2>6 DEF TypeInv
<1>2. Numbered /\ Placed /\ Judged /\ Kept
  BY DEF Numbered, Placed, Judged, Kept, NoDrain
<1>3. \A s \in Seqs : Verdicts(s) = 0
  <2> SUFFICES ASSUME NEW s \in Seqs PROVE Verdicts(s) = 0
    OBVIOUS
  <2>1. Positions(<<>>, s) = {}
    BY DEF Positions
  <2>2. RowsOf(s) = 0
    <3>1. RowsOf(s) = Cardinality(Positions(<<>>, s))
      BY DEF RowsOf, Positions
    <3>2. Cardinality({}) = 0
      BY FS_EmptySet
    <3> QED BY <2>1, <3>1, <3>2
  <2>3. received[s] = 0 /\ logged[s] = 0
    OBVIOUS
  <2> QED BY <2>2, <2>3 DEF Verdicts
<1>4. Unjudged /\ Once
  BY <1>3 DEF Unjudged, Once, NotYet
<1> QED BY <1>1, <1>2, <1>4 DEF IInv

LEMMA QueueTyped ==
  ASSUME IInv
  PROVE  /\ TypeInv /\ entries \in Seq(Seqs) /\ tagging \in Seq(Seqs)
         /\ Len(entries) \in Nat /\ Len(tagging) \in Nat
         /\ \A k \in 1..Len(entries) : entries[k] \in Seqs
         /\ \A k \in 1..Len(tagging) : tagging[k] \in Seqs
         /\ drain \in Drains /\ drain.at \in Nat
  BY DEF IInv, TypeInv, Drains

(* No verdict is given, no number taken and no entry moved.                *)
LEMMA QuietKeeps ==
  ASSUME IInv, UNCHANGED <<entries, tagging, nextSeq, pending, received, logged, accepted>>,
         TypeInv', Placed', throws' >= throws,
         UNCHANGED drain \/ drain'.pc = "idle" \/ (drain.pc = "idle" /\ drain'.at = 1)
                         \/ (drain'.pc = "post" /\ drain.pc # "idle" /\ drain'.at = drain.at),
         hasKey' => hasKey,
         drain.pc # "idle" /\ drain'.pc = "idle" => ~hasKey',
         drain.pc = "idle" /\ drain'.pc # "idle" => hasKey
  PROVE  IInv'
<1>1. \A s \in Seqs : Verdicts(s)' = Verdicts(s)
  BY NoneGiven
<1>2. Numbered'
  BY DEF IInv, Numbered
<1>3. throws' = 0 => throws = 0
  BY DEF IInv, TypeInv
<1>4. Kept'
  BY <1>1 DEF IInv, Kept, TypeInv
<1>5. Once'
  BY <1>1, <1>3 DEF IInv, Once
<1>6. Judged'
  BY <1>1, QueueTyped DEF IInv, Judged
<1>7. Unjudged'
  BY <1>1, <1>3, QueueTyped DEF IInv, Unjudged, NotYet
<1> QED BY <1>2, <1>4, <1>5, <1>6, <1>7 DEF IInv
-----------------------------------------------------------------------------
(* Enqueueing.                                                             *)
LEMMA EnqueueKeeps ==
  ASSUME IInv, Enqueue
  PROVE  IInv'
<1>1. TypeInv' /\ Placed'
  BY BoundAssumption DEF Enqueue, IInv, TypeInv, Placed
<1> QED BY <1>1, QuietKeeps DEF Enqueue, IInv, TypeInv

LEMMA TakeSeqKeeps ==
  ASSUME IInv, TakeSeq
  PROVE  IInv'
<1>1. /\ encrypting > 0 /\ encrypting' = encrypting - 1 /\ nextSeq' = nextSeq + 1
      /\ tagging' = IF hasKey THEN Append(tagging, nextSeq) ELSE tagging
      /\ UNCHANGED <<entries, accepted, drainedSeq, hasKey, drain, pending, flushing,
                     received, logged, throws>>
  BY DEF TakeSeq
<1>2. nextSeq \in Seqs /\ nextSeq \in Nat /\ encrypting \in Nat
  BY <1>1, BoundAssumption DEF IInv, TypeInv, Seqs
<1>3. /\ tagging' \in Seq(Seqs)
      /\ \A k \in 1..Len(tagging') : \/ k \in 1..Len(tagging) /\ tagging'[k] = tagging[k]
                                     \/ k = Len(tagging) + 1 /\ tagging'[k] = nextSeq
  <2>1. CASE hasKey
    BY <1>1, <1>2, <2>1, QueueTyped
  <2>2. CASE ~hasKey
    BY <1>1, <2>2, QueueTyped
  <2> QED BY <2>1, <2>2
<1>4. TypeInv'
  BY <1>1, <1>2, <1>3, BoundAssumption DEF IInv, TypeInv
<1>5. \A s \in Seqs : Verdicts(s)' = Verdicts(s)
  BY <1>1, NoneGiven
<1>6. Numbered'
  BY <1>1, <1>2, <1>3, QueueTyped DEF IInv, Numbered, Seqs
<1>7. Placed' /\ Judged' /\ Kept' /\ Once'
  BY <1>1, <1>5, QueueTyped DEF IInv, Placed, Judged, Kept, Once, TypeInv
<1>8. Unjudged'
  BY <1>1, <1>2, <1>3, <1>5, QueueTyped DEF IInv, Unjudged, NotYet, Seqs
<1> QED BY <1>4, <1>6, <1>7, <1>8 DEF IInv

(* The entry joins the end of the queue, ahead of any drain under way.     *)
LEMMA PushKeeps ==
  ASSUME IInv, Push
  PROVE  IInv'
<1>1. /\ tagging # <<>> /\ tagging' = Tail(tagging)
      /\ entries' = Append(entries, Head(tagging))
      /\ accepted' = accepted \cup {Head(tagging)}
      /\ UNCHANGED <<nextSeq, encrypting, drainedSeq, hasKey, drain, pending, flushing,
                     received, logged, throws>>
  BY DEF Push
<1>2. PICK e \in Seqs : e = Head(tagging) /\ e = tagging[1]
  BY <1>1, QueueTyped
<1>3. /\ entries' \in Seq(Seqs) /\ Len(entries') = Len(entries) + 1
      /\ entries'[Len(entries) + 1] = e
      /\ \A k \in 1..Len(entries) : entries'[k] = entries[k]
  BY <1>1, <1>2, QueueTyped
<1>4. /\ tagging' \in Seq(Seqs) /\ Len(tagging') = Len(tagging) - 1 /\ Len(tagging) > 0
      /\ \A k \in 1..Len(tagging') : tagging'[k] = tagging[k + 1]
  BY <1>1, QueueTyped
<1>5. TypeInv'
  BY <1>1, <1>2, <1>3, <1>4 DEF IInv, TypeInv
<1>6. \A s \in Seqs : Verdicts(s)' = Verdicts(s)
  BY <1>1, NoneGiven
<1>7. Numbered'
  <2>1. \A k \in 1..Len(entries) : entries[k] # e
    BY <1>2, <1>4, QueueTyped DEF IInv, Numbered
  <2>2. \A k \in 1..Len(tagging') : tagging'[k] # e
    BY <1>2, <1>4, QueueTyped DEF IInv, Numbered
  <2>3. e < nextSeq
    BY <1>2, <1>4, QueueTyped DEF IInv, Numbered
  <2>4. \A k \in 1..Len(entries') : k \in 1..Len(entries) \/ k = Len(entries) + 1
    BY <1>3, QueueTyped
  <2>5. \A k \in 1..Len(tagging') : k + 1 \in 1..Len(tagging)
    BY <1>4, QueueTyped
  <2>6. \A j \in 1..Len(entries'), k \in 1..Len(tagging') : entries'[j] # tagging'[k]
    BY <1>3, <1>4, <2>2, <2>4, <2>5 DEF IInv, Numbered
  <2>7. /\ \A k \in 1..Len(entries') : entries'[k] < nextSeq'
        /\ \A k \in 1..Len(tagging') : tagging'[k] < nextSeq'
    BY <1>1, <1>3, <1>4, <2>3, <2>4, <2>5 DEF IInv, Numbered
  <2>8. \A j, k \in 1..Len(entries') : entries'[j] = entries'[k] => j = k
    BY <1>3, <2>1, <2>4 DEF IInv, Numbered
  <2>9. \A j, k \in 1..Len(tagging') : tagging'[j] = tagging'[k] => j = k
    BY <1>4, <2>5, QueueTyped DEF IInv, Numbered
  <2> QED BY <2>6, <2>7, <2>8, <2>9 DEF Numbered
<1>8. Placed'
  BY <1>1, <1>3, QueueTyped DEF IInv, Placed
<1>9. Judged'
  BY <1>1, <1>3, <1>6, <1>8, QueueTyped DEF IInv, Placed, Judged, Drains
<1>10. Kept'
  BY <1>1, <1>2, <1>3, <1>6, QueueTyped DEF IInv, Kept, TypeInv
<1>11. Once'
  BY <1>1, <1>6 DEF IInv, Once
<1>12. Unjudged'
  <2> SUFFICES ASSUME throws = 0 PROVE Unjudged'
    BY <1>1 DEF Unjudged
  <2>1. NotYet(e)
    BY <1>2, <1>4, QueueTyped DEF IInv, Unjudged
  <2>2. \A k \in 1..Len(entries') : k \in 1..Len(entries) \/ k = Len(entries) + 1
    BY <1>3, QueueTyped
  <2>3. \A k \in 1..Len(tagging') : k + 1 \in 1..Len(tagging)
    BY <1>4, QueueTyped
  <2> QED BY <1>1, <1>3, <1>4, <1>6, <2>1, <2>2, <2>3, QueueTyped DEF IInv, Unjudged, NotYet
<1> QED BY <1>5, <1>7, <1>8, <1>9, <1>10, <1>11, <1>12 DEF IInv
-----------------------------------------------------------------------------
(* Draining.                                                               *)
LEMMA MarkTyped ==
  ASSUME TypeInv, NEW m \in Nat, NewMark(m)
  PROVE  drainedSeq' \in Nat
  BY DEF NewMark, TypeInv

LEMMA DrainNothingKeeps ==
  ASSUME IInv, DrainNothing
  PROVE  IInv'
<1>1. drainedSeq' \in Nat
  <2>1. nextSeq - 1 \in Nat
    BY DEF IInv, TypeInv
  <2> QED BY <2>1, MarkTyped DEF DrainNothing, IInv
<1>2. TypeInv' /\ Placed'
  BY <1>1 DEF DrainNothing, calls, IInv, TypeInv, Placed
<1> QED BY <1>2, QuietKeeps DEF DrainNothing, calls, IInv, TypeInv

LEMMA StartDrainKeeps ==
  ASSUME IInv, StartDrain
  PROVE  IInv'
<1>1. drain' \in Drains /\ drain'.pc = "walk" /\ drain'.at = 1
  <2>1. Range(entries) \in SUBSET Seqs
    BY QueueTyped DEF Range
  <2>2. nextSeq - 1 \in Nat /\ Len(entries) \in Nat
    BY QueueTyped DEF IInv, TypeInv
  <2> QED BY <2>1, <2>2 DEF StartDrain, Drains
<1>2. /\ drain.pc = "idle" /\ hasKey
      /\ UNCHANGED <<entries, tagging, nextSeq, encrypting, drainedSeq, hasKey, pending, flushing,
                     accepted, received, logged, throws>>
  BY DEF StartDrain, calls
<1>3. TypeInv'
  BY <1>1, <1>2 DEF IInv, TypeInv
<1>4. Placed'
  BY <1>1, <1>2, QueueTyped DEF IInv, Placed
<1>5. Numbered' /\ Judged' /\ Kept' /\ Once' /\ Unjudged'
  <2>1. \A s \in Seqs : Verdicts(s)' = Verdicts(s)
    BY <1>2, NoneGiven
  <2>2. Numbered' /\ Kept' /\ Once'
    BY <1>2, <2>1 DEF IInv, Numbered, Kept, Once, TypeInv
  <2>3. Judged'
    BY <1>1, <1>2, QueueTyped DEF Judged
  <2>4. Unjudged'
    BY <1>1, <1>2, <2>1, QueueTyped DEF IInv, Unjudged, NotYet
  <2> QED BY <2>2, <2>3, <2>4
<1> QED BY <1>3, <1>4, <1>5 DEF IInv

(* The drain passes an entry, which gets a verdict and had none.           *)
LEMMA PassKeeps ==
  ASSUME IInv, drain.pc # "idle", drain.at \in 1..Len(entries),
         drain' = [drain EXCEPT !.pc = "walk", !.at = @ + 1],
         UNCHANGED <<entries, tagging, nextSeq, hasKey, accepted, throws>>,
         TypeInv', flushing' => pending' # <<>>,
         \A s \in Seqs : Verdicts(s)' = Verdicts(s) + IF s = Here THEN 1 ELSE 0
  PROVE  IInv'
<1>1. drain'.pc = "walk" /\ drain'.at = drain.at + 1
  BY QueueTyped DEF Drains
<1>2. Here \in Seqs /\ Here = entries[drain.at]
  BY QueueTyped DEF Here
<1>3. \A s \in Seqs : Verdicts(s) \in Nat
  BY VerdictsTyped, QueueTyped
<1>4. Numbered'
  BY DEF IInv, Numbered
<1>5. Placed'
  BY <1>1, QueueTyped DEF Placed
<1>6. Judged'
  <2> SUFFICES ASSUME NEW k \in 1..Len(entries), k < drain.at + 1
               PROVE  Verdicts(entries[k])' > 0
    BY <1>1 DEF Judged
  <2>1. PICK e \in Seqs : e = entries[k] /\ entries'[k] = e
    BY QueueTyped
  <2>2. Verdicts(e)' > 0
    <3>1. CASE k < drain.at
      BY <1>3, <2>1, <3>1 DEF IInv, Judged
    <3>2. CASE k = drain.at
      BY <1>2, <1>3, <2>1, <3>2
    <3> QED BY <3>1, <3>2, QueueTyped
  <2> QED BY <2>1, <2>2
<1>7. Kept'
  <2> SUFFICES ASSUME NEW s \in accepted
               PROVE  (\E k \in 1..Len(entries) : entries[k] = s) \/ Verdicts(s)' > 0
    BY DEF Kept
  <2>1. s \in Seqs
    BY DEF IInv, TypeInv
  <2>2. CASE Verdicts(s) > 0
    BY <1>3, <2>1, <2>2
  <2> QED BY <2>2 DEF IInv, Kept
<1>8. ASSUME throws = 0 PROVE NotYet(Here)
  BY <1>2, <1>8 DEF IInv, Unjudged
<1>9. Once'
  BY <1>2, <1>3, <1>8 DEF IInv, Once, NotYet
<1>10. Unjudged'
  <2> SUFFICES ASSUME throws = 0 PROVE Unjudged'
    BY DEF Unjudged
  <2>1. \A s \in Seqs : s >= nextSeq => s # Here
    <3>1. nextSeq \in Nat /\ Here < nextSeq
      BY <1>2 DEF IInv, TypeInv, Numbered
    <3> QED BY <1>2, <3>1 DEF Seqs
  <2>2. \A k \in 1..Len(tagging) : tagging[k] # Here
    BY <1>2 DEF IInv, Numbered
  <2>3. \A k \in 1..Len(entries) : k >= drain.at + 1 => entries[k] # Here /\ k >= drain.at
    BY <1>2, QueueTyped DEF IInv, Numbered
  <2>4. /\ \A s \in Seqs : s >= nextSeq => NotYet(s)
        /\ \A k \in 1..Len(tagging) : NotYet(tagging[k])
        /\ \A k \in 1..Len(entries) : k >= drain.at => NotYet(entries[k])
    BY DEF IInv, Unjudged
  <2>5. \A s \in Seqs : s # Here /\ NotYet(s) => NotYet(s)'
    BY <1>3 DEF NotYet
  <2> QED BY <1>1, <2>1, <2>2, <2>3, <2>4, <2>5, QueueTyped DEF Unjudged, NotYet
<1> QED BY <1>4, <1>5, <1>6, <1>7, <1>9, <1>10 DEF IInv

LEMMA NextEntry ==
  ASSUME NEW d \in Drains
  PROVE  [d EXCEPT !.pc = "walk", !.at = @ + 1] \in Drains
<1> DEFINE e == [d EXCEPT !.pc = "walk"]
<1>1. e \in Drains /\ e.at = d.at
  BY DEF Drains
<1>2. [d EXCEPT !.pc = "walk", !.at = @ + 1] = [e EXCEPT !.at = d.at + 1]
  OBVIOUS
<1>3. d.at + 1 \in Nat
  BY DEF Drains
<1> HIDE DEF e
<1>4. [e EXCEPT !.at = d.at + 1] \in Drains
  BY <1>1, <1>3 DEF Drains
<1> QED BY <1>2, <1>4

LEMMA VisitKeeps ==
  ASSUME IInv, Visit
  PROVE  IInv'
<1>1. /\ drain.pc = "walk" /\ drain.at \in 1..Len(entries) /\ Here \in Seqs
      /\ UNCHANGED <<entries, tagging, nextSeq, encrypting, drainedSeq, hasKey, flushing, accepted,
                     received, logged, throws>>
  BY QueueTyped DEF Visit, Walked, calls, Here, IInv, Placed
<1>2. CASE Quarantine("gap")
  <2>1. /\ pending' \in Seq(Rows) /\ pending' # <<>>
        /\ \A s \in Seqs : Verdicts(s)' = Verdicts(s) + IF s = Here THEN 1 ELSE 0
    BY <1>1, <1>2, QueueTyped, RowGiven DEF Quarantine
  <2>2. drain' = [drain EXCEPT !.pc = "walk", !.at = @ + 1] /\ drain' \in Drains
    BY <1>2, QueueTyped, NextEntry DEF Quarantine
  <2>3. TypeInv'
    BY <1>1, <2>1, <2>2 DEF IInv, TypeInv
  <2> QED BY <1>1, <2>1, <2>2, <2>3, PassKeeps
<1>3. CASE hasKey /\ drain' = [drain EXCEPT !.pc = "post"] /\ UNCHANGED pending
  <2>1. drain' \in Drains /\ drain'.pc = "post" /\ drain'.at = drain.at
    BY <1>3, QueueTyped DEF Drains
  <2>2. TypeInv' /\ Placed'
    BY <1>1, <1>3, <2>1 DEF IInv, TypeInv, Placed
  <2>3. throws' >= throws
    BY <1>1 DEF IInv, TypeInv
  <2> QED BY <1>1, <1>3, <2>1, <2>2, <2>3, QuietKeeps
<1>4. CASE ~hasKey /\ drain' = NoDrain /\ UNCHANGED pending
  <2>1. drain' \in Drains /\ drain'.pc = "idle"
    BY <1>4 DEF Drains, NoDrain
  <2>2. TypeInv' /\ Placed'
    BY <1>1, <1>4, <2>1 DEF IInv, TypeInv, Placed
  <2>3. throws' >= throws
    BY <1>1 DEF IInv, TypeInv
  <2> QED BY <1>1, <1>4, <2>1, <2>2, <2>3, QuietKeeps
<1> QED BY <1>2, <1>3, <1>4 DEF Visit

(* A hook that threw: the entries stay, with the verdicts they have.       *)
LEMMA ThrownKeeps ==
  ASSUME IInv, UNCHANGED <<entries, tagging, nextSeq, accepted>>,
         TypeInv', Placed', throws' # 0,
         UNCHANGED drain \/ drain'.pc = "idle",
         \A s \in Seqs : Verdicts(s) > 0 => Verdicts(s)' > 0
  PROVE  IInv'
<1>1. Numbered'
  BY DEF IInv, Numbered
<1>2. Judged'
  BY QueueTyped DEF IInv, Judged
<1>3. Kept'
  BY DEF IInv, Kept, TypeInv
<1>4. Unjudged' /\ Once'
  BY DEF Unjudged, Once
<1> QED BY <1>1, <1>2, <1>3, <1>4 DEF IInv

LEMMA PostAnswerKeeps ==
  ASSUME IInv, PostAnswer
  PROVE  IInv'
<1>1. /\ drain.pc = "post" /\ drain.at \in 1..Len(entries) /\ Here \in Seqs
      /\ UNCHANGED <<entries, tagging, nextSeq, encrypting, drainedSeq, hasKey, flushing, accepted,
                     logged>>
  BY QueueTyped DEF PostAnswer, calls, Here, IInv, Placed
<1>2. flushing => pending # <<>>
  BY DEF IInv, Placed
<1>3. CASE Posted
  <2>1. /\ received' \in [Seqs -> Nat]
        /\ \A s \in Seqs : Verdicts(s)' = Verdicts(s) + IF s = Here THEN 1 ELSE 0
    BY <1>1, <1>3, QueueTyped, ServerTakes DEF Posted
  <2>2. /\ drain' = [drain EXCEPT !.pc = "walk", !.at = @ + 1] /\ drain' \in Drains
        /\ UNCHANGED <<pending, throws>>
    BY <1>3, QueueTyped, NextEntry DEF Posted
  <2>3. TypeInv'
    BY <1>1, <2>1, <2>2 DEF IInv, TypeInv
  <2> QED BY <1>1, <1>2, <2>1, <2>2, <2>3, PassKeeps
<1>4. CASE Refused
  <2>1. /\ pending' \in Seq(Rows) /\ pending' # <<>>
        /\ \A s \in Seqs : Verdicts(s)' = Verdicts(s) + IF s = Here THEN 1 ELSE 0
    BY <1>1, <1>4, QueueTyped, RowGiven DEF Refused, Quarantine
  <2>2. /\ drain' = [drain EXCEPT !.pc = "walk", !.at = @ + 1] /\ drain' \in Drains
        /\ UNCHANGED <<received, throws>>
    BY <1>4, QueueTyped, NextEntry DEF Refused, Quarantine
  <2>3. TypeInv'
    BY <1>1, <2>1, <2>2 DEF IInv, TypeInv
  <2> QED BY <1>1, <2>1, <2>2, <2>3, PassKeeps
<1>5. CASE Thrown
  <2>1. /\ drain' \in Drains /\ drain'.pc = "idle" /\ pending' = pending
        /\ throws' \in Nat /\ throws' # 0
    BY <1>5 DEF Thrown, NoDrain, Drains, IInv, TypeInv
  <2>2. /\ received' \in [Seqs -> Nat]
        /\ \A s \in Seqs : Verdicts(s) > 0 => Verdicts(s)' > 0
    <3>1. CASE received' = received
      BY <1>1, <2>1, <3>1, NoneGiven DEF IInv, TypeInv
    <3>2. CASE received' = [received EXCEPT ![Here] = @ + 1]
      <4>1. /\ received' \in [Seqs -> Nat]
            /\ \A s \in Seqs : Verdicts(s)' = Verdicts(s) + IF s = Here THEN 1 ELSE 0
        BY <1>1, <2>1, <3>2, QueueTyped, ServerTakes
      <4>2. \A s \in Seqs : Verdicts(s) \in Nat
        BY QueueTyped, VerdictsTyped
      <4> QED BY <4>1, <4>2
    <3> QED BY <1>5, <3>1, <3>2 DEF Thrown
  <2>3. TypeInv' /\ Placed'
    BY <1>1, <1>2, <2>1, <2>2 DEF IInv, TypeInv, Placed
  <2> QED BY <1>1, <2>1, <2>2, <2>3, ThrownKeeps
<1> QED BY <1>3, <1>4, <1>5 DEF PostAnswer

(* The queue is emptied: all it held has been judged.                      *)
LEMMA EndDrainKeeps ==
  ASSUME IInv, EndDrain
  PROVE  IInv'
<1>1. /\ drain.pc = "walk" /\ drain.at > Len(entries) /\ entries' = <<>> /\ drain' = NoDrain
      /\ UNCHANGED <<tagging, nextSeq, encrypting, hasKey, pending, flushing, accepted,
                     received, logged, throws>>
  BY DEF EndDrain, Walked, Emptied, calls
<1>2. \A s \in Seqs : Verdicts(s)' = Verdicts(s)
  BY <1>1, NoneGiven
<1>3. TypeInv'
  <2>1. drainedSeq' \in Nat
    BY QueueTyped, MarkTyped DEF EndDrain, Drains
  <2>2. drain' \in Drains /\ entries' \in Seq(Seqs)
    BY <1>1 DEF NoDrain, Drains
  <2> QED BY <1>1, <2>1, <2>2 DEF IInv, TypeInv
<1>4. drain'.pc = "idle" /\ Len(entries') = 0
  BY <1>1 DEF NoDrain
<1>5. \A k : k \notin 1..Len(entries')
  BY <1>4
<1>6. Numbered' /\ Placed' /\ Judged'
  BY <1>1, <1>4, <1>5 DEF IInv, Numbered, Placed, Judged
<1>7. Once'
  BY <1>1, <1>2 DEF IInv, Once
<1>8. Unjudged'
  BY <1>1, <1>2, <1>4, <1>5, QueueTyped DEF IInv, Unjudged, NotYet
<1>9. Kept'
  <2> SUFFICES ASSUME NEW s \in accepted PROVE Verdicts(s)' > 0
    BY <1>1 DEF Kept
  <2>1. s \in Seqs
    BY DEF IInv, TypeInv
  <2>2. \A k \in 1..Len(entries) : Verdicts(entries[k]) > 0
    BY <1>1, QueueTyped DEF IInv, Judged
  <2>3. Verdicts(s) > 0
    BY <2>2 DEF IInv, Kept
  <2> QED BY <1>2, <2>1, <2>3
<1> QED BY <1>3, <1>6, <1>7, <1>8, <1>9 DEF IInv

-----------------------------------------------------------------------------
(* Going online, and the end of the session.                               *)
LEMMA FlushKeeps ==
  ASSUME IInv, Flush
  PROVE  IInv'
<1>1. TypeInv' /\ Placed'
  BY DEF Flush, calls, IInv, TypeInv, Placed
<1> QED BY <1>1, QuietKeeps DEF Flush, calls, IInv, TypeInv

LEMMA EndSessionKeeps ==
  ASSUME IInv, EndSession
  PROVE  IInv'
<1>1. TypeInv' /\ Placed'
  BY DEF EndSession, calls, IInv, TypeInv, Placed
<1> QED BY <1>1, QuietKeeps DEF EndSession, calls, IInv, TypeInv

LEMMA SinkAnswerKeeps ==
  ASSUME IInv, SinkAnswer
  PROVE  IInv'
<1>1. /\ flushing /\ pending # <<>> /\ pending \in Seq(Rows)
      /\ UNCHANGED <<entries, tagging, nextSeq, encrypting, drainedSeq, hasKey, drain, accepted,
                     received>>
  BY DEF SinkAnswer, calls, IInv, Placed, TypeInv
<1> DEFINE took == [logged EXCEPT ![Head(pending).seq] = @ + 1]
<1>2. CASE /\ logged' = took /\ pending' = Tail(pending)
           /\ flushing' = (Len(pending) > 1) /\ UNCHANGED throws
  <2>1. /\ logged' \in [Seqs -> Nat] /\ pending' \in Seq(Rows)
        /\ \A s \in Seqs : Verdicts(s)' = Verdicts(s)
    BY <1>1, <1>2, QueueTyped, SinkTakes
  <2> DEFINE more == Len(pending) > 1
  <2>2. more \in BOOLEAN
    BY <1>1
  <2>3. more => pending' # <<>>
    <3>1. Len(Tail(pending)) = Len(pending) - 1 /\ Len(pending) \in Nat
      BY <1>1
    <3>2. more => Len(Tail(pending)) # 0
      BY <3>1
    <3>3. Len(<<>>) = 0
      OBVIOUS
    <3>4. more => Tail(pending) # <<>>
      BY <3>2, <3>3, Zenon
    <3>5. pending' = Tail(pending)
      BY <1>2, Zenon
    <3> QED BY <3>4, <3>5, Zenon
  <2>6. flushing' = more
    BY <1>2, Zenon
  <2>7. flushing' \in BOOLEAN /\ (flushing' => pending' # <<>>)
    <3> HIDE DEF more
    <3> QED BY <2>2, <2>3, <2>6
  <2>4. TypeInv' /\ Placed'
    BY <1>1, <1>2, <2>1, <2>7 DEF IInv, TypeInv, Placed
  <2>5. Numbered' /\ Judged' /\ Kept' /\ Once' /\ Unjudged'
    <3>1. Numbered' /\ Kept' /\ Once'
      BY <1>1, <1>2, <2>1 DEF IInv, Numbered, Kept, Once, TypeInv
    <3>2. Judged'
      BY <1>1, <2>1, QueueTyped DEF IInv, Judged
    <3>3. Unjudged'
      BY <1>1, <1>2, <2>1, QueueTyped DEF IInv, Unjudged, NotYet
    <3> QED BY <3>1, <3>2, <3>3
  <2> QED BY <2>4, <2>5 DEF IInv
<1>3. CASE /\ throws' = throws + 1 /\ logged' \in {logged, took}
           /\ flushing' = FALSE /\ UNCHANGED pending
  <2>1. /\ logged' \in [Seqs -> Nat]
        /\ \A s \in Seqs : Verdicts(s) > 0 => Verdicts(s)' > 0
    <3>1. CASE logged' = logged
      BY <1>1, <1>3, <3>1, NoneGiven DEF IInv, TypeInv
    <3>2. CASE logged' = took
      BY <1>1, <1>3, <3>2, QueueTyped, SinkTakes
    <3> QED BY <1>3, <3>1, <3>2
  <2>2. throws' \in Nat /\ throws' # 0
    BY <1>3 DEF IInv, TypeInv
  <2>3. TypeInv' /\ Placed'
    <3> HIDE DEF took
    <3>1. flushing' = FALSE /\ pending' = pending
      BY <1>3
    <3>2. TypeInv'
      BY <1>1, <2>1, <2>2, <3>1 DEF IInv, TypeInv
    <3>3. Placed'
      BY <1>1, <3>1 DEF IInv, Placed
    <3> QED BY <3>2, <3>3
  <2> QED BY <1>1, <2>1, <2>2, <2>3, ThrownKeeps
<1> QED BY <1>2, <1>3 DEF SinkAnswer

LEMMA NextKeeps == IInv /\ [Next]_vars => IInv'
<1> SUFFICES ASSUME IInv, [Next]_vars PROVE IInv'
  OBVIOUS
<1>1. CASE UNCHANGED vars
  <2>1. UNCHANGED <<entries, tagging, nextSeq, encrypting, drainedSeq, hasKey, drain, pending,
                    flushing, accepted, received, logged, throws>>
    BY <1>1 DEF vars, calls
  <2>2. \A s \in Seqs : Verdicts(s)' = Verdicts(s)
    BY <2>1, NoneGiven
  <2>3. TypeInv' /\ Numbered' /\ Placed'
    BY <2>1 DEF IInv, TypeInv, Numbered, Placed
  <2>4. throws' >= throws
    BY <2>1 DEF IInv, TypeInv
  <2> QED BY <2>1, <2>3, <2>4, QuietKeeps
<1> QED BY <1>1, EnqueueKeeps, TakeSeqKeeps, PushKeeps, DrainNothingKeeps, StartDrainKeeps,
           VisitKeeps, PostAnswerKeeps, EndDrainKeeps, FlushKeeps, SinkAnswerKeeps,
           EndSessionKeeps DEF Next

LEMMA Invariant == Spec => []IInv
<1>1. Init => IInv
  BY InitIInv
<1>2. IInv /\ [Next]_vars => IInv'
  BY NextKeeps
<1> QED BY <1>1, <1>2, PTL DEF Spec

-----------------------------------------------------------------------------
(* enqueueInspection answers ok and drainQueue empties the queue: whatever *)
(* is pushed while a drain is under way, and whatever throws, an accepted  *)
(* entry that is neither in the queue nor at the server has the audit row  *)
(* of a refusal.  Its bytes are gone: the row is all that is left of it.   *)
THEOREM LossesRecorded == Spec => []LossesAreAudited
<1>1. IInv => LossesAreAudited
  <2> SUFFICES ASSUME IInv, NEW s \in accepted
               PROVE  s \notin Range(entries) /\ received[s] = 0 => RowsOf(s) + logged[s] > 0
    BY DEF LossesAreAudited
  <2>1. s \in Seqs
    BY DEF IInv, TypeInv
  <2>2. CASE Verdicts(s) > 0
    BY <2>1, <2>2, QueueTyped, VerdictsTyped
  <2>3. CASE \E k \in 1..Len(entries) : entries[k] = s
    BY <2>3, QueueTyped DEF Range
  <2> QED BY <2>2, <2>3 DEF IInv, Kept
<1> QED BY <1>1, Invariant, PTL

(* postEntry and quarantine: without a throwing hook, at most one verdict  *)
(* is ever given on an entry, however enqueues, drains, flushes and the    *)
(* end of the session interleave.                                          *)
THEOREM JudgedOnce == Spec => []OneVerdict
<1>1. IInv => OneVerdict
  BY DEF IInv, Once, OneVerdict, Verdicts
<1> QED BY <1>1, Invariant, PTL
=============================================================================
