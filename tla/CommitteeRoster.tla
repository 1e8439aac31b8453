-------------------------- MODULE CommitteeRoster --------------------------
(***************************************************************************)
(* What the membership functions promise their callers: people are         *)
(* invited, join, leave and are reappointed one step at a time, and the    *)
(* committee never is without an active worker co-chair.                   *)
(***************************************************************************)
CONSTANT Users

VARIABLES
  roster,   \* each user's standing
  chairs    \* users whose role set includes worker_co_chair

Standing == {"none", "pending", "member", "former"}

Chairs == {u \in chairs : roster[u] = "member"}

Become(u, standing) == roster' = [roster EXCEPT ![u] = standing]

Invite(u) ==
  /\ roster[u] = "none"
  /\ Become(u, "pending")
  /\ chairs' \in {chairs \cup {u}, chairs \ {u}}

Join(u) ==
  /\ roster[u] \in {"pending", "former"}
  /\ Become(u, "member")
  /\ UNCHANGED chairs

Leave(u) ==
  /\ roster[u] = "member"
  /\ Chairs \ {u} # {}
  /\ Become(u, "former")
  /\ UNCHANGED chairs

Appoint(u) == roster[u] # "none" /\ chairs' = chairs \cup {u} /\ UNCHANGED roster

Dismiss(u) ==
  /\ roster[u] # "none"
  /\ Chairs \ {u} # {}
  /\ chairs' = chairs \ {u}
  /\ UNCHANGED roster

Init == roster \in [Users -> Standing] /\ chairs \subseteq Users /\ Chairs # {}

Next == \E u \in Users : Invite(u) \/ Join(u) \/ Leave(u) \/ Appoint(u) \/ Dismiss(u)

Spec == Init /\ [][Next]_<<roster, chairs>>
=============================================================================
