------------------------- MODULE CommitteeKeyServer -------------------------
(***************************************************************************)
(* The server's committee-key tables and the SECURITY DEFINER functions    *)
(* that change them (src/supabase/migrations/00000000000007_t07.sql, with  *)
(* the reads of 0037, 0038, 0042, 0045 and the membership functions of     *)
(* 0002).  Each function is one database transaction; the transactions     *)
(* that touch the key rows are serialised by an advisory lock and by the   *)
(* unique indexes, so each is one step here.  Two take no lock and read    *)
(* before they write, under READ COMMITTED, and are two steps: a wrap      *)
(* (check, insert) and a purge (archive, delete).                          *)
(*                                                                         *)
(* Every operation is a pair: CanX, the gates and checks that otherwise    *)
(* raise an exception, and X, the transaction that passed them.            *)
(***************************************************************************)
EXTENDS KeyHolderOps, FiniteSets

CONSTANTS Users,      \* users.id
          Materials,  \* plaintext data keys a wrap can seal
          Counts,     \* members_rewrapped_count values a client reports
          FirstMembers, FirstChairs  \* the committee after bootstrap

(* users is a table: it has finitely many rows.                            *)
ASSUME UsersAssumption == IsFiniteSet(Users)
ASSUME CountsAssumption == Counts \subseteq Nat
ASSUME FirstAssumption ==
  FirstMembers \subseteq Users /\ FirstChairs \subseteq FirstMembers

VARIABLES
  sessions,    \* users whose auth_sessions row is live
  active,      \* users with committee_membership.active
  cochairs,    \* users whose membership role includes worker_co_chair
  enrolled,    \* users with an identity_keys row
  epoch,       \* committee_data_keys.epoch per key_id; 0 = no such row
  retired,     \* key_ids with rotated_at set
  wraps,       \* committee_key_wraps rows
  archive,     \* committee_key_wraps_history rows
  granting,    \* rows of wrap transactions that passed their checks
  purging,     \* purge transactions that ran their archive statement
  started,     \* rotation.started audit rows, by the key the rotation minted
  completed    \* rotation.completed audit rows

membership == <<active, cochairs>>
keyRows == <<epoch, retired>>
rotations == <<started, completed>>
inFlight == <<granting, purging>>
wrapRows == <<wraps, archive, inFlight>>
serverVars == <<sessions, membership, enrolled, keyRows, wrapRows, rotations>>

Wrap == [user: Users, key: KeyIds, mat: Materials]

Minted == {k \in KeyIds : epoch[k] > 0}

LiveKeys == Minted \ retired

(* COALESCE(max(epoch), 0) + 1                                             *)
NextEpoch ==
  1 + CHOOSE n \in {0} \cup {epoch[k] : k \in KeyIds} :
        \A k \in KeyIds : epoch[k] <= n

HasWrap(u, k) == \E w \in wraps : w.user = u /\ w.key = k

ActiveCoChairs == active \cap cochairs

(* The three gates: session_is_live() alone, with is_active_member(), with *)
(* _committee_is_active_co_chair().                                        *)
GateSession(u) == u \in sessions
GateActiveMember(u) == GateSession(u) /\ u \in active
GateCoChair(u) == GateSession(u) /\ u \in ActiveCoChairs

-----------------------------------------------------------------------------
(* enroll_identity_keypair                                                 *)
CanEnroll(u) == GateSession(u) /\ u \notin enrolled
Enroll(u) ==
  /\ enrolled' = enrolled \cup {u}
  /\ UNCHANGED <<sessions, membership, keyRows, wrapRows, rotations>>

(* Mutation: the already_initialised check is dropped.                     *)
CanInitKeyAgain(u) == GateActiveMember(u)

(* init_committee_data_key: k is the uuid the database generates.          *)
CanInitKey(u) == GateActiveMember(u) /\ LiveKeys = {}
InitKey(k) ==
  /\ k \notin Minted
  /\ epoch' = [epoch EXCEPT ![k] = NextEpoch]
  /\ UNCHANGED <<sessions, membership, enrolled, retired, wrapRows, rotations>>

(* wrap_committee_data_key_for_member: the key may be live or retired.     *)
(* The checks read without a lock; the insert comes later, and ON CONFLICT *)
(* DO NOTHING keeps the row that is already there.                         *)
(* Mutation: the target's membership is not re-asserted.                   *)
CanWrapAnyone(u, m, k) == GateActiveMember(u) /\ k \in Minted
CanWrap(u, m, k) == GateActiveMember(u) /\ m \in active /\ k \in Minted
CheckWrap(w) ==
  /\ granting' = granting \cup {w}
  /\ UNCHANGED <<sessions, membership, enrolled, keyRows, wraps, archive, purging, rotations>>
(* Mutation: no ON CONFLICT DO NOTHING.                                    *)
InsertWrapTwice(w) ==
  /\ granting' = granting \ {w}
  /\ wraps' = wraps \cup {w}
  /\ UNCHANGED <<sessions, membership, enrolled, keyRows, archive, purging, rotations>>
InsertWrap(w) ==
  /\ granting' = granting \ {w}
  /\ wraps' = IF HasWrap(w.user, w.key) THEN wraps ELSE wraps \cup {w}
  /\ UNCHANGED <<sessions, membership, enrolled, keyRows, archive, purging, rotations>>

(* rotate_committee_data_key: retire the newest live key, mint k, record   *)
(* rotation.started.  The rotation id is named by the key it mints.        *)
CanRotate(u) == GateActiveMember(u) /\ active # {}
NewestLive ==
  IF LiveKeys = {} THEN {}
  ELSE {CHOOSE k \in LiveKeys : \A j \in LiveKeys : epoch[j] <= epoch[k]}
(* Mutation: rotation.started names the previous key, null for the first.  *)
RotateRecordsPrevious(k) ==
  /\ k \notin Minted
  /\ retired' = retired \cup NewestLive
  /\ epoch' = [epoch EXCEPT ![k] = NextEpoch]
  /\ started' = started \cup IF NewestLive = {} THEN {NoKey} ELSE NewestLive
  /\ UNCHANGED <<sessions, membership, enrolled, wrapRows, completed>>
Rotate(k) ==
  /\ k \notin Minted
  /\ retired' = retired \cup NewestLive
  /\ epoch' = [epoch EXCEPT ![k] = NextEpoch]
  /\ started' = started \cup {k}
  /\ UNCHANGED <<sessions, membership, enrolled, wrapRows, completed>>

(* finalize_committee_data_key_rotation                                    *)
CanFinalize(u, rot, k) == GateActiveMember(u) /\ rot \in started /\ k \in LiveKeys
Finalize(rot, k, n) ==
  /\ completed' = completed \cup {[rotation |-> rot, key |-> k, count |-> n]}
  /\ UNCHANGED <<sessions, membership, enrolled, keyRows, wrapRows, started>>

(* revoke_committee_member: archive, then delete, every wrap of the        *)
(* member, on every epoch.  The DELETE is a second statement: it sees the  *)
(* rows committed since the archive was taken.                             *)
CanRevoke(u, m) == GateCoChair(u) /\ u # m
WrapsOf(m) == {w \in wraps : w.user = m}
ArchiveWraps(m) ==
  /\ purging' = purging \cup {[member |-> m, rows |-> WrapsOf(m)]}
  /\ UNCHANGED <<sessions, membership, enrolled, keyRows, wraps, archive, granting, rotations>>
(* Mutation: the rows are deleted and not archived.                        *)
DeleteUnarchived(p) ==
  /\ purging' = purging \ {p}
  /\ wraps' = wraps \ WrapsOf(p.member)
  /\ UNCHANGED <<sessions, membership, enrolled, keyRows, archive, granting, rotations>>
DeleteWraps(p) ==
  /\ purging' = purging \ {p}
  /\ archive' = archive \cup p.rows
  /\ wraps' = wraps \ WrapsOf(p.member)
  /\ UNCHANGED <<sessions, membership, enrolled, keyRows, granting, rotations>>

-----------------------------------------------------------------------------
(* Membership, as far as the key functions read it.  The row locks and     *)
(* approvals of 0002 are the subject of MembershipGovernance.              *)

(* committee_activate_membership, and committee_reactivate_member.         *)
Activate(m) ==
  /\ m \notin active
  /\ active' = active \cup {m}
  /\ UNCHANGED <<sessions, cochairs, enrolled, keyRows, wrapRows, rotations>>

(* committee_remove_member: the last active co-chair stays.                *)
CanRemove(u, m) ==
  /\ GateCoChair(u)
  /\ m \in active
  /\ m \in cochairs => Cardinality(ActiveCoChairs) > 1
RemoveMember(m) ==
  /\ active' = active \ {m}
  /\ UNCHANGED <<sessions, cochairs, enrolled, keyRows, wrapRows, rotations>>

(* auth_sessions.revoked_at is set.                                        *)
EndSession(u) ==
  /\ u \in sessions
  /\ sessions' = sessions \ {u}
  /\ UNCHANGED <<membership, enrolled, keyRows, wrapRows, rotations>>

(* mint-session opens a new one.                                           *)
OpenSession(u) ==
  /\ u \notin sessions
  /\ sessions' = sessions \cup {u}
  /\ UNCHANGED <<membership, enrolled, keyRows, wrapRows, rotations>>

-----------------------------------------------------------------------------
(* Reads: what each disclosure function returns to user u.                 *)

(* committee_key_state_for_self: at most one row.                          *)
KeyState(u) ==
  {[key |-> k, count |-> Cardinality({w \in wraps : w.key = k}),
    mine |-> HasWrap(u, k)] : k \in LiveKeys}

(* get_committee_key_wrap_for_self: the actor's wrap of the live key.      *)
LiveWrapOf(u) == {w \in wraps : w.user = u /\ w.key \in LiveKeys}

(* get_all_committee_key_wraps_for_self: the actor's wraps of every epoch. *)
AllWrapsOf(u) ==
  {[key |-> w.key, mat |-> w.mat, epoch |-> epoch[w.key],
    live |-> (w.key \in LiveKeys)] : w \in WrapsOf(u)}

-----------------------------------------------------------------------------
(* The schema after the migrations and the first co-chair's bootstrap.     *)
ServerInit ==
  /\ sessions = Users
  /\ active = FirstMembers
  /\ cochairs = FirstChairs
  /\ enrolled = {}
  /\ epoch = [k \in KeyIds |-> 0]
  /\ retired = {}
  /\ wraps = {}
  /\ archive = {}
  /\ granting = {}
  /\ purging = {}
  /\ started = {}
  /\ completed = {}

(* Any authenticated user may call any function at any time with any       *)
(* arguments: what holds here holds whatever the clients do.               *)
ServerNext ==
  \/ \E u \in Users :
       \/ CanEnroll(u) /\ Enroll(u)
       \/ Activate(u)
       \/ EndSession(u)
       \/ OpenSession(u)
  \/ \E u \in Users, k \in KeyIds :
       \/ CanInitKey(u) /\ InitKey(k)
       \/ CanRotate(u) /\ Rotate(k)
  \/ \E u, m \in Users, k \in KeyIds, x \in Materials :
       CanWrap(u, m, k) /\ CheckWrap([user |-> m, key |-> k, mat |-> x])
  \/ \E w \in granting : InsertWrap(w)
  \/ \E p \in purging : DeleteWraps(p)
  \/ \E u, m \in Users :
       \/ CanRevoke(u, m) /\ ArchiveWraps(m)
       \/ CanRemove(u, m) /\ RemoveMember(m)
  \/ \E u \in Users, rot, k \in KeyIds, n \in Counts :
       CanFinalize(u, rot, k) /\ Finalize(rot, k, n)

ServerSpec == ServerInit /\ [][ServerNext]_serverVars

ServerTypeOK ==
  /\ sessions \subseteq Users
  /\ active \subseteq Users
  /\ cochairs \subseteq Users
  /\ enrolled \subseteq Users
  /\ epoch \in [KeyIds -> Nat]
  /\ retired \subseteq KeyIds
  /\ wraps \subseteq Wrap
  /\ archive \subseteq Wrap
  /\ granting \subseteq Wrap
  /\ \A p \in purging : p.member \in Users /\ p.rows \subseteq Wrap
  /\ started \subseteq KeyIds
  /\ \A c \in completed : c.rotation \in KeyIds /\ c.key \in KeyIds /\ c.count \in Nat

(* Once there is a key there is exactly one live key, and no minted key    *)
(* has a higher epoch: init, rotate and the partial unique index agree on  *)
(* which key new records are sealed under.                                 *)
OneLiveNewest ==
  Minted # {} =>
    \E k \in LiveKeys : \A j \in Minted :
      /\ epoch[j] <= epoch[k]
      /\ j # k => j \in retired /\ epoch[j] < epoch[k]

(* Every wrap and every archived wrap seals a key that was minted, and the *)
(* primary key (user_id, key_id) holds.                                    *)
WrapsWellFormed ==
  /\ \A w \in wraps \cup archive \cup granting : w.key \in Minted
  /\ \A v, w \in wraps : v.user = w.user /\ v.key = w.key => v = w

(* A completed rotation was started, and the rotation it names and the key *)
(* it announces were both minted.                                          *)
CompletedWasStarted ==
  /\ started \subseteq Minted
  /\ \A c \in completed : c.rotation \in started /\ c.key \in Minted

(* No sequence of grants, purges and reactivations changes or loses what a *)
(* member was once given: a row is never overwritten, and one that         *)
(* disappears is archived, unless it was inserted between the two          *)
(* statements of the purge that deletes it.                                *)
OnlyLateWrapsLost ==
  [][\A w \in wraps \ wraps' :
       w \in archive' \/ \E p \in purging : p.member = w.user /\ w \notin p.rows]_serverVars
=============================================================================
