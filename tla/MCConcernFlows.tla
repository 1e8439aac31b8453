--------------------------- MODULE MCConcernFlows ---------------------------
(* A small instance of ConcernFlows for TLC: my tab, and another member    *)
(* who is co-chair; two keys, then a third.                                *)
EXTENDS ConcernFlows

CONSTANTS other, p1, p2, k1, k2, k3

MCUsers == {Me, other}
Other == {other}
MCOps == {p1, p2}
ThreeKeys == {k1, k2, k3}
MCMaterials == KeyIds \cup {ZeroKey}
MCBuffers ==
  [op : Ops, n : 1 .. 3, key : KeyIds, mat : MCMaterials, since : 0 .. 9]

Both(x, y) == [p \in MCOps |-> IF p = p1 THEN x ELSE y]

(* One after the other: list, then submit, while the key is rotated and    *)
(* regranted and others file.                                              *)
InTurn ==
  [kind |-> Both("list", "submit"), actor |-> Both(Me, Me), overlap |-> FALSE,
   members |-> MCUsers, holders |-> MCUsers, enrolled |-> MCUsers,
   filed |-> {k1}, mints |-> {k2, k3},
   events |-> {"rotate", "grant", "file"}, maxFaults |-> 0, maxWipes |-> 0]

Reading ==
  [InTurn EXCEPT !.kind = Both("list", "reveal"), !.mints = {k2}]

(* Two operations of one tab overlap; the user may sign out and in again.  *)
Overlapping ==
  [InTurn EXCEPT !.overlap = TRUE, !.mints = {k2}, !.maxWipes = 1,
                 !.events = {"rotate", "grant", "signOut", "signIn"}]

(* One answer is lost; I am removed and purged, or my session ends.        *)
Purged ==
  [InTurn EXCEPT !.mints = {}, !.maxFaults = 1,
                 !.events = {"remove", "purge", "sessionEnd"}]

(* They overlap with a panic wipe, or with the end of my session.          *)
Panicking ==
  [Overlapping EXCEPT !.mints = {}, !.events = {"panic", "signIn", "sessionEnd"}]

AllPlans == {InTurn, Reading, Overlapping, Purged, Panicking}
=============================================================================
