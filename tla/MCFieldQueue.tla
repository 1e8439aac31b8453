---------------------------- MODULE MCFieldQueue -----------------------------
(* Four entries, a queue of three, two enqueues at once, one failing hook. *)
EXTENDS FieldQueue
=============================================================================
