----------------------------- MODULE FieldQueue ------------------------------
(***************************************************************************)
(* The offline queue of inspections: enqueueInspection, drainQueue and     *)
(* goOnline of one session, suspended at their awaits and interleaved.     *)
(* A drain walks the live array, so an entry pushed meanwhile is walked    *)
(* too; the set of sequence numbers it checks predecessors against is that *)
(* of its start.  The tag and the ciphertext of an entry are its sequence  *)
(* number: nobody tampers with the entries here.  The caller runs one      *)
(* drain and one flush at a time.                                          *)
(***************************************************************************)
EXTENDS Naturals, Sequences, FiniteSets, Functions

CONSTANTS
  QueueCap,    \* QUEUE_CAP
  MaxSeq,      \* bound: sequence numbers issued
  MaxCalls,    \* bound: enqueue calls under way at once
  MaxThrows    \* bound: hooks that throw

ASSUME BoundAssumption == {QueueCap, MaxSeq, MaxCalls, MaxThrows} \subseteq Nat \ {0}

VARIABLES
  entries,     \* the queue
  nextSeq, drainedSeq,
  hasKey,      \* whether k_hmac is in memory
  encrypting,  \* enqueue calls awaiting the encryption
  tagging,     \* sequence numbers taken by calls awaiting the tag
  drain,       \* the drain under way: where it is, what it saw at its start
  pending,     \* pending_audits
  flushing,    \* whether goOnline awaits the sink
  accepted,    \* entries whose enqueue answered ok (history)
  received,    \* how often the server took each entry
  logged,      \* how often the sink took the audit row of each entry
  throws       \* hooks that threw

calls == <<nextSeq, encrypting, tagging, accepted>>
vars == <<entries, calls, drainedSeq, hasKey, drain, pending, flushing, received, logged, throws>>

Seqs == 1..MaxSeq
NoDrain == [pc |-> "idle", at |-> 0, issued |-> {}, size |-> 0, highWater |-> 0]

-----------------------------------------------------------------------------
(* enqueueInspection up to the encryption; a refused call changes nothing. *)
Enqueue ==
  /\ Len(entries) < QueueCap /\ hasKey
  /\ encrypting + Len(tagging) < MaxCalls /\ nextSeq + encrypting <= MaxSeq
  /\ encrypting' = encrypting + 1
  /\ UNCHANGED <<entries, nextSeq, tagging, accepted, drainedSeq, hasKey, drain, pending,
                 flushing, received, logged, throws>>

(* The number is taken; without the key the tag throws, the number is lost.*)
TakeSeq ==
  /\ encrypting > 0
  /\ encrypting' = encrypting - 1 /\ nextSeq' = nextSeq + 1
  /\ tagging' = IF hasKey THEN Append(tagging, nextSeq) ELSE tagging
  /\ UNCHANGED <<entries, accepted, drainedSeq, hasKey, drain, pending, flushing,
                 received, logged, throws>>

Push ==
  /\ tagging # <<>>
  /\ entries' = Append(entries, Head(tagging))
  /\ accepted' = accepted \cup {Head(tagging)}
  /\ tagging' = Tail(tagging)
  /\ UNCHANGED <<nextSeq, encrypting, drainedSeq, hasKey, drain, pending, flushing,
                 received, logged, throws>>

-----------------------------------------------------------------------------
NewMark(highWater) == drainedSeq' = IF highWater > drainedSeq THEN highWater ELSE drainedSeq

(* An empty queue is drained without an await.                             *)
DrainNothing ==
  /\ drain.pc = "idle" /\ hasKey /\ entries = <<>> /\ NewMark(nextSeq - 1)
  /\ UNCHANGED <<entries, calls, hasKey, drain, pending, flushing, received, logged, throws>>

StartDrain ==
  /\ drain.pc = "idle" /\ hasKey /\ entries # <<>>
  /\ drain' = [pc |-> "walk", at |-> 1, issued |-> Range(entries), size |-> Len(entries),
               highWater |-> nextSeq - 1]
  /\ UNCHANGED <<entries, calls, drainedSeq, hasKey, pending, flushing, received, logged, throws>>

(* Mutation: the loop walks a copy of the array.                           *)
CopyWalked == drain.at > drain.size
Walked == drain.at > Len(entries)
Here == entries[drain.at]
Gap == \E s \in drainedSeq + 1 .. Here - 1 : s \notin drain.issued

(* The next entry: quarantined for a gap, else verified and posted, which  *)
(* throws if the key has been dropped.                                     *)
Quarantine(why) ==
  /\ pending' = Append(pending, [seq |-> Here, why |-> why])
  /\ drain' = [drain EXCEPT !.pc = "walk", !.at = @ + 1]

Visit ==
  /\ drain.pc = "walk" /\ ~Walked
  /\ \/ Gap /\ Quarantine("gap")
     \/ ~Gap /\ hasKey /\ drain' = [drain EXCEPT !.pc = "post"] /\ UNCHANGED pending
     \/ ~Gap /\ ~hasKey /\ drain' = NoDrain /\ UNCHANGED pending
  /\ UNCHANGED <<entries, calls, drainedSeq, hasKey, flushing, received, logged, throws>>

(* The server takes the entry, refuses it, or the hook throws, whether or  *)
(* not the server has taken it: the drain ends and the entries stay.       *)
Posted ==
  /\ received' = [received EXCEPT ![Here] = @ + 1]
  /\ drain' = [drain EXCEPT !.pc = "walk", !.at = @ + 1]
  /\ UNCHANGED <<pending, throws>>

Refused == Quarantine("refused") /\ UNCHANGED <<received, throws>>

Thrown ==
  /\ throws < MaxThrows
  /\ throws' = throws + 1 /\ drain' = NoDrain
  /\ received' \in {received, [received EXCEPT ![Here] = @ + 1]}
  /\ UNCHANGED pending

PostAnswer ==
  /\ drain.pc = "post"
  /\ Posted \/ Refused \/ Thrown
  /\ UNCHANGED <<entries, calls, drainedSeq, hasKey, flushing, logged>>

(* Mutation: the queue is not emptied.                                     *)
KeepsWalked == entries
Emptied == <<>>
EndDrain ==
  /\ drain.pc = "walk" /\ Walked
  /\ NewMark(drain.highWater) /\ entries' = Emptied /\ drain' = NoDrain
  /\ UNCHANGED <<calls, hasKey, pending, flushing, received, logged, throws>>

-----------------------------------------------------------------------------
(* goOnline: the head is shifted only once the sink has resolved.          *)
Flush ==
  /\ ~flushing /\ pending # <<>> /\ flushing' = TRUE
  /\ UNCHANGED <<entries, calls, drainedSeq, hasKey, drain, pending, received, logged, throws>>

SinkAnswer ==
  LET row == Head(pending)
      took == [logged EXCEPT ![row.seq] = @ + 1]
  IN
  /\ flushing
  /\ \/ /\ logged' = took /\ pending' = Tail(pending)
        /\ flushing' = (Len(pending) > 1) /\ UNCHANGED throws
     \/ /\ throws < MaxThrows /\ throws' = throws + 1
        /\ logged' \in {logged, took} /\ flushing' = FALSE /\ UNCHANGED pending
  /\ UNCHANGED <<entries, calls, drainedSeq, hasKey, drain, received>>

(* end: the key is dropped; the session object has no way to derive it anew*)
EndSession ==
  /\ hasKey /\ hasKey' = FALSE
  /\ UNCHANGED <<entries, calls, drainedSeq, drain, pending, flushing, received, logged, throws>>

Init ==
  /\ entries = <<>> /\ nextSeq = 1 /\ drainedSeq = 0 /\ hasKey = TRUE
  /\ encrypting = 0 /\ tagging = <<>> /\ drain = NoDrain
  /\ pending = <<>> /\ flushing = FALSE /\ accepted = {}
  /\ received = [s \in Seqs |-> 0] /\ logged = [s \in Seqs |-> 0] /\ throws = 0

Next ==
  \/ Enqueue \/ TakeSeq \/ Push
  \/ DrainNothing \/ StartDrain \/ Visit \/ PostAnswer \/ EndDrain
  \/ Flush \/ SinkAnswer \/ EndSession

Spec == Init /\ [][Next]_vars

-----------------------------------------------------------------------------
RowsOf(s) == Cardinality({k \in 1..Len(pending) : pending[k].seq = s})

(* An inspection whose enqueue answered ok is in the queue or the server   *)
(* has taken it, or the loss is on record: a drain refused it, and an      *)
(* audit row of the refusal waits or has been logged, whatever is pushed   *)
(* while that drain is under way.  It is a loss: quarantine() keeps the    *)
(* number and the reason, nothing keeps the bytes once the queue has been  *)
(* emptied, though the comment there has it that "rejected entries went to *)
(* quarantine (their bytes still exist in `pending_audits` until goOnline);*)
(* posted entries went to the server".                                     *)
LossesAreAudited ==
  \A s \in accepted :
    s \notin Range(entries) /\ received[s] = 0 => RowsOf(s) + logged[s] > 0

(* Unless a hook threw, an entry gets one verdict: the server takes it     *)
(* once, or one audit row is written of it, never both and never twice.    *)
OneVerdict == throws = 0 => \A s \in Seqs : received[s] + RowsOf(s) + logged[s] <= 1
=============================================================================
