-------------------------- MODULE MCKeyCompositions -------------------------
(* Small instances of KeyCompositions for TLC: two ceremonies on a         *)
(* committee of two co-chairs, a and b, and a member, c.                   *)
EXTENDS KeyCompositions

CONSTANTS a, b, c, p1, p2, k1, k2, k3

AB == {a, b}
ABC == {a, b, c}
MCOps == {p1, p2}
TwoKeys == {k1, k2}
ThreeKeys == {k1, k2, k3}
MCMaterials == {FirstMaterial, ZeroKey} \cup (Ops \X KeyIds)
MCBuffers ==
  [op : Ops, n : 1 .. 3, key : KeyIds, mat : MCMaterials, since : 0 .. 9]

Both(x, y) == [p \in MCOps |-> IF p = p1 THEN x ELSE y]

(* a and b set up the first key at once.                                   *)
SetUp ==
  [kind |-> Both("init", "init"), actor |-> Both(a, b), target |-> Both(b, b),
   members |-> AB, holders |-> {}, enrolled |-> AB,
   events |-> {"sessionEnd", "remove"}, maxFaults |-> 1, maxWipes |-> 0]

(* a rotates because c was removed, b grants c access.                     *)
Rotation ==
  [kind |-> Both("rotate", "grant"), actor |-> Both(a, b), target |-> Both(c, c),
   members |-> ABC, holders |-> ABC, enrolled |-> ABC,
   events |-> {"remove", "signOut", "signIn"}, maxFaults |-> 1, maxWipes |-> 1]

(* a and b both rotate because c was removed.                              *)
TwoRotations ==
  [Rotation EXCEPT !.kind = Both("rotate", "rotate"), !.events = {"remove"}, !.maxWipes = 0]

(* b resumes a's rotation; c enrolls late.                                 *)
Resumption ==
  [Rotation EXCEPT !.kind = Both("rotate", "resume"), !.enrolled = AB,
                   !.events = {"remove", "unload", "enroll"}]

(* a rotates and grants b access in one tab; a panic wipe falls between.   *)
SharedTab ==
  [Rotation EXCEPT !.actor = Both(a, a), !.target = Both(c, b),
                   !.events = {"remove", "panic"}, !.maxFaults = 0]

(* c is reactivated while a still rotates and grants.                      *)
Readmission == [SharedTab EXCEPT !.events = {"remove", "activate"}, !.maxWipes = 0]

AllPlans == {SetUp, Rotation, TwoRotations, Resumption, SharedTab, Readmission}

(* The smallest plan that exhibits what a comment denies.                  *)
PurgeRacePlans ==
  {[Rotation EXCEPT !.holders = AB, !.events = {"remove"}, !.maxFaults = 0, !.maxWipes = 0]}
=============================================================================
