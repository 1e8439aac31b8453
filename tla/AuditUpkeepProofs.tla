-------------------------- MODULE AuditUpkeepProofs ---------------------------
(***************************************************************************)
(* The head of the log, the backup bucket and the sweep: proofs about      *)
(* AuditUpkeep for any concerns, passes, caps and bounds.                  *)
(*                                                                         *)
(* The head: every transaction that deletes rows ends by appending one, so *)
(* the last id ever given is always in the log, and a head captured        *)
(* earlier exceeds neither it nor what a check reads after that.  The      *)
(* bucket: what a pass has done so far fixes the status of its manifest,   *)
(* and what the ageing-out has in hand is past its window, which no later  *)
(* step can undo.  The sweep: a type of row has one class, and below the   *)
(* cap an arm deletes all it found.                                        *)
(***************************************************************************)
EXTENDS AuditUpkeep, FiniteSetTheorems, TLAPS

Statuses == {"none", "pending", "aborted", "committed", "hard_deleted"}

TypeInv ==
  /\ now \in Nat /\ lastId \in Nat
  /\ \A row \in log : row.id \in Nat
  /\ manifest \in [Passes -> [status : Statuses, head : Nat, committed : Nat]]
  /\ pass \in [Passes -> {"none", "pending", "stored", "committed", "over"}]
  /\ ageing \in [listed : SUBSET Passes, pc : {"next", "row", "emit"}, hand : SUBSET Passes]

(* The last id is in the log and bounds every id and every captured head.  *)
LastIdHeld ==
  /\ \E row \in log : row.id = lastId
  /\ \A row \in log : row.id <= lastId
  /\ \A p \in Passes : manifest[p].head <= lastId

PassTellsManifest ==
  \A p \in Passes :
    /\ pass[p] = "none" => manifest[p].status = "none"
    /\ pass[p] \in {"pending", "stored"} => manifest[p].status = "pending"
    /\ pass[p] = "stored" => p \in bucket

AgeingIsLate ==
  /\ \A p \in ageing.listed : PastWindow(p) /\ p \notin ageing.hand
  /\ ageing.pc = "next" => ageing.hand = {}
  /\ ageing.pc = "row" => \A p \in ageing.hand : PastWindow(p) /\ p \notin bucket

BackupInv == PassTellsManifest /\ AgeingIsLate /\ ManifestsTellTheBucket

IInv == TypeInv /\ LastIdHeld /\ BackupInv

-----------------------------------------------------------------------------
(* The founder's row is the log; no backup has run.                        *)
LEMMA InitIInv == Init => IInv
  BY DEF Init, IInv, TypeInv, Statuses, NoManifest, LastIdHeld, BackupInv, PassTellsManifest,
         AgeingIsLate, ManifestsTellTheBucket

-----------------------------------------------------------------------------
(* Who touches neither the manifests, the bucket nor the passes keeps the  *)
(* backup part, and the clock only lets more manifests go past the window. *)
LEMMA BackupsKept ==
  ASSUME TypeInv, BackupInv, UNCHANGED backups, now' \in Nat, now' >= now
  PROVE  BackupInv'
<1> USE DEF TypeInv, BackupInv, backups
<1>1. PassTellsManifest'
  BY DEF PassTellsManifest
<1>2. ASSUME NEW p \in Passes, PastWindow(p) PROVE PastWindow(p)'
  <2>1. manifest[p].committed \in Nat
    OBVIOUS
  <2> QED BY <1>2, <2>1 DEF PastWindow, BackupDays
<1>3. AgeingIsLate'
  BY <1>2 DEF AgeingIsLate
<1>4. ManifestsTellTheBucket'
  <2> SUFFICES ASSUME NEW p \in Passes,
                      manifest[p].status = "committed", now' - manifest[p].committed < BackupDays
               PROVE  p \in bucket
    BY DEF ManifestsTellTheBucket
  <2>1. manifest[p].committed \in Nat
    OBVIOUS
  <2> QED BY <2>1 DEF ManifestsTellTheBucket, BackupDays
<1> QED BY <1>1, <1>3, <1>4

(* A step that appends rows up to the new last id, whatever it deletes.    *)
LEMMA AppendKeepsHead ==
  ASSUME TypeInv, LastIdHeld, NEW rows,
         lastId' \in Nat, lastId' >= lastId,
         \A row \in rows : row.id \in Nat /\ row.id <= lastId',
         \E row \in rows : row.id = lastId',
         log' \subseteq log \cup rows, rows \subseteq log',
         \A p \in Passes : manifest'[p].head \in Nat /\ manifest'[p].head <= lastId
  PROVE  LastIdHeld' /\ \A row \in log' : row.id \in Nat
<1>1. \A row \in log' : row.id \in Nat /\ row.id <= lastId'
  BY DEF TypeInv, LastIdHeld
<1> QED BY <1>1 DEF TypeInv, LastIdHeld

LEMMA HeadsTyped == TypeInv => \A p \in Passes : manifest[p].head \in Nat
  BY DEF TypeInv

-----------------------------------------------------------------------------
(* The application, the clock, the sweep and the check.                    *)
LEMMA EmitKeeps ==
  ASSUME IInv, NEW kind, NEW target, Emits(kind, target),
         UNCHANGED <<now, manifest>>
  PROVE  LastIdHeld' /\ lastId' \in Nat /\ \A row \in log' : row.id \in Nat
<1> DEFINE row == Row(lastId + 1, kind, target)
<1>1. row.id = lastId + 1
  BY DEF Row
<1>2. log' = log \cup {row} /\ lastId' = lastId + 1
  BY DEF Emits
<1> HIDE DEF row
<1> QED BY <1>1, <1>2, AppendKeepsHead, HeadsTyped DEF IInv, TypeInv, LastIdHeld

LEMMA EventKeeps ==
  ASSUME IInv, NEW kind, NEW target, Event(kind, target)
  PROVE  IInv'
<1>1. UNCHANGED <<now, backups>>
  BY DEF Event
<1>2. BackupInv'
  BY <1>1, BackupsKept DEF IInv, TypeInv
<1>3. LastIdHeld' /\ lastId' \in Nat /\ \A row \in log' : row.id \in Nat
  BY <1>1, EmitKeeps DEF Event, backups
<1>4. TypeInv'
  BY <1>1, <1>3 DEF IInv, TypeInv, backups
<1> QED BY <1>2, <1>3, <1>4 DEF IInv

LEMMA TickKeeps ==
  ASSUME IInv, Tick
  PROVE  IInv'
<1>1. UNCHANGED <<log, lastId, backups>> /\ now' = now + 1
  BY DEF Tick
<1>2. BackupInv'
  BY <1>1, BackupsKept DEF IInv, TypeInv
<1>3. LastIdHeld' /\ TypeInv'
  BY <1>1 DEF IInv, LastIdHeld, TypeInv, backups
<1> QED BY <1>2, <1>3 DEF IInv

(* Whatever the sweep deletes, the newest row included, its own row is the *)
(* new head.                                                               *)
LEMMA SweepKeeps ==
  ASSUME IInv, Sweep
  PROVE  IInv'
<1>1. UNCHANGED <<now, backups>> /\ lastId' = lastId + 1
  BY DEF Sweep
<1>2. PICK gone \in SUBSET UNION Arms : log' = (log \ gone) \cup Summary
  BY DEF Sweep
<1>3. \A row \in Summary : row.id = lastId + 1
  BY DEF Summary, Row
<1>4. Summary # {}
  BY DEF Summary
<1>5. LastIdHeld' /\ \A row \in log' : row.id \in Nat
  <2>1. log' \subseteq log \cup Summary /\ Summary \subseteq log'
    BY <1>2
  <2>2. lastId \in Nat /\ \A p \in Passes : manifest'[p].head \in Nat /\ manifest'[p].head <= lastId
    BY <1>1, HeadsTyped DEF IInv, TypeInv, LastIdHeld, backups
  <2> QED BY <1>1, <1>3, <1>4, <2>1, <2>2, AppendKeepsHead DEF IInv
<1>6. BackupInv'
  BY <1>1, BackupsKept DEF IInv, TypeInv
<1>7. TypeInv'
  BY <1>1, <1>5 DEF IInv, TypeInv, backups
<1> QED BY <1>5, <1>6, <1>7 DEF IInv

(* The check appends one row, or two.                                      *)
LEMMA ReportsKeeps ==
  ASSUME IInv, NEW verdict, Reports(verdict)
  PROVE  IInv'
<1> DEFINE ran == Row(lastId + 1, "integrity_check.ran", NoTarget)
           mismatch == Row(lastId + 2, "integrity_check.mismatch", NoTarget)
           rows == IF verdict = "ok" THEN {ran} ELSE {ran, mismatch}
<1>1. UNCHANGED <<now, backups>> /\ log' = log \cup rows
  BY DEF Reports
<1>2. lastId' = lastId + Cardinality(rows)
  BY DEF Reports
<1>3. ran.id = lastId + 1 /\ mismatch.id = lastId + 2 /\ lastId \in Nat
  BY DEF Row, IInv, TypeInv
<1>4. /\ lastId' \in Nat /\ lastId' >= lastId
      /\ \A row \in rows : row.id \in Nat /\ row.id <= lastId'
      /\ \E row \in rows : row.id = lastId'
  <2>1. CASE verdict = "ok"
    <3>1. Cardinality({ran}) = 1
      BY FS_Singleton
    <3> HIDE DEF ran
    <3> QED BY <2>1, <3>1, <1>2, <1>3
  <2>2. CASE verdict # "ok"
    <3>1. ran # mismatch
      BY <1>3
    <3>2. Cardinality({ran, mismatch}) = 2
      <4> HIDE DEF ran, mismatch
      <4>1. IsFiniteSet({ran}) /\ Cardinality({ran}) = 1
        BY FS_Singleton
      <4>2. Cardinality({ran} \cup {mismatch}) = 2
        BY <3>1, <4>1, FS_AddElement
      <4>3. {ran} \cup {mismatch} = {ran, mismatch}
        OBVIOUS
      <4> QED BY <4>2, <4>3
    <3> HIDE DEF ran, mismatch
    <3> QED BY <2>2, <3>2, <1>2, <1>3
  <2> QED BY <2>1, <2>2
<1> HIDE DEF rows
<1>5. \A p \in Passes : manifest'[p].head \in Nat /\ manifest'[p].head <= lastId
  BY <1>1, HeadsTyped DEF IInv, LastIdHeld, backups
<1>6. LastIdHeld' /\ \A row \in log' : row.id \in Nat
  BY <1>1, <1>4, <1>5, AppendKeepsHead DEF IInv
<1>7. BackupInv'
  BY <1>1, BackupsKept DEF IInv, TypeInv
<1>8. TypeInv'
  BY <1>1, <1>4, <1>6 DEF IInv, TypeInv, backups
<1> QED BY <1>6, <1>7, <1>8 DEF IInv

-----------------------------------------------------------------------------
(* The backup pass.                                                        *)

(* A step that leaves the log alone and captures no head but the newest.   *)
LEMMA LogKept ==
  ASSUME TypeInv, LastIdHeld, UNCHANGED <<log, lastId>>,
         \A p \in Passes : manifest'[p].head \in Nat /\ manifest'[p].head <= lastId
  PROVE  LastIdHeld'
  BY DEF LastIdHeld

LEMMA HeadIsLastId == TypeInv /\ LastIdHeld => HeadId = lastId
<1> SUFFICES ASSUME TypeInv, LastIdHeld PROVE HeadId = lastId
  OBVIOUS
<1> DEFINE ids == {row.id : row \in log}
<1>1. lastId \in ids /\ \A x \in ids : x \in Nat /\ lastId >= x
  BY DEF TypeInv, LastIdHeld
<1>2. \A x \in ids : (\A y \in ids : x >= y) => x = lastId
  <2> HIDE DEF ids
  <2>1. lastId \in Nat
    BY DEF TypeInv
  <2> QED BY <1>1, <2>1
<1>3. Max(ids) \in ids /\ \A y \in ids : Max(ids) >= y
  <2> HIDE DEF ids
  <2>1. \E x \in ids : \A y \in ids : x >= y
    BY <1>1
  <2> QED BY <2>1 DEF Max
<1> QED BY <1>2, <1>3 DEF HeadId

LEMMA StartKeeps ==
  ASSUME IInv, NEW p \in Passes, StartBackup(p)
  PROVE  IInv'
<1> USE DEF IInv, TypeInv, Statuses
<1>1. /\ pass[p] = "none" /\ pass' = [pass EXCEPT ![p] = "pending"]
      /\ manifest' = [manifest EXCEPT ![p] = [@ EXCEPT !.status = "pending", !.head = HeadId]]
      /\ UNCHANGED <<now, log, lastId, bucket, ageing>>
  BY DEF StartBackup, Goes
<1>2. HeadId = lastId
  BY HeadIsLastId
<1>3. TypeInv'
  BY <1>1, <1>2
<1>4. LastIdHeld'
  BY <1>1, <1>2, LogKept DEF LastIdHeld
<1>5. manifest[p].status = "none"
  BY <1>1 DEF BackupInv, PassTellsManifest
<1>6. PassTellsManifest'
  BY <1>1 DEF BackupInv, PassTellsManifest
<1>7. AgeingIsLate'
  BY <1>1, <1>5 DEF BackupInv, AgeingIsLate, PastWindow
<1>8. ManifestsTellTheBucket'
  BY <1>1 DEF BackupInv, ManifestsTellTheBucket
<1> QED BY <1>3, <1>4, <1>6, <1>7, <1>8 DEF BackupInv

(* A step of a pass that leaves the log, the clock and the ageing alone    *)
(* and gives its own manifest, not yet committed, another status.          *)
LEMMA UploadKeeps ==
  ASSUME IInv, NEW p \in Passes, Upload(p)
  PROVE  IInv'
<1> USE DEF IInv, TypeInv, Statuses
<1>1. /\ pass[p] = "pending" /\ manifest[p].status = "pending"
      /\ UNCHANGED <<now, log, lastId, ageing>>
  BY DEF Upload, BackupInv, PassTellsManifest
<1>2. p \notin ageing.listed /\ (ageing.pc = "row" => p \notin ageing.hand)
  BY <1>1 DEF BackupInv, AgeingIsLate, PastWindow
<1>3. CASE bucket' = bucket \cup {p} /\ pass' \in {[pass EXCEPT ![p] = "stored"], [pass EXCEPT ![p] = "over"]} /\ UNCHANGED manifest
  <2>1. TypeInv' /\ LastIdHeld'
    BY <1>1, <1>3 DEF LastIdHeld
  <2>2. PassTellsManifest'
    BY <1>1, <1>3 DEF BackupInv, PassTellsManifest
  <2>3. AgeingIsLate'
    BY <1>1, <1>2, <1>3 DEF BackupInv, AgeingIsLate, PastWindow
  <2>4. ManifestsTellTheBucket'
    BY <1>1, <1>3 DEF BackupInv, ManifestsTellTheBucket
  <2> QED BY <2>1, <2>2, <2>3, <2>4 DEF BackupInv
<1>4. CASE /\ pass' = [pass EXCEPT ![p] = "over"] /\ UNCHANGED bucket
           /\ manifest' \in {manifest, [manifest EXCEPT ![p].status = "aborted"]}
  <2>1. TypeInv' /\ LastIdHeld'
    BY <1>1, <1>4 DEF LastIdHeld
  <2>2. PassTellsManifest'
    BY <1>1, <1>4 DEF BackupInv, PassTellsManifest
  <2>3. AgeingIsLate'
    BY <1>1, <1>2, <1>4 DEF BackupInv, AgeingIsLate, PastWindow
  <2>4. ManifestsTellTheBucket'
    BY <1>1, <1>4 DEF BackupInv, ManifestsTellTheBucket
  <2> QED BY <2>1, <2>2, <2>3, <2>4 DEF BackupInv
<1> QED BY <1>3, <1>4 DEF Upload, Goes

LEMMA CommitKeeps ==
  ASSUME IInv, NEW p \in Passes, Commit(p)
  PROVE  IInv'
<1> USE DEF IInv, TypeInv, Statuses
<1>1. /\ pass[p] = "stored" /\ manifest[p].status = "pending" /\ p \in bucket
      /\ pass' = [pass EXCEPT ![p] = "committed"]
      /\ manifest' = [manifest EXCEPT ![p].status = "committed", ![p].committed = now]
      /\ UNCHANGED <<now, log, lastId, bucket, ageing>>
  BY DEF Commit, Commits, Goes, BackupInv, PassTellsManifest
<1>2. p \notin ageing.listed /\ (ageing.pc = "row" => p \notin ageing.hand)
  BY <1>1 DEF BackupInv, AgeingIsLate, PastWindow
<1>3. \A q \in Passes \ {p} : manifest'[q] = manifest[q] /\ pass'[q] = pass[q]
  BY <1>1
<1>4. manifest'[p].status = "committed" /\ manifest'[p].head = manifest[p].head
  BY <1>1
<1>5. TypeInv'
  BY <1>1
<1>6. LastIdHeld'
  BY <1>1, <1>3, <1>4 DEF LastIdHeld
<1>7. PassTellsManifest'
  BY <1>1, <1>3 DEF BackupInv, PassTellsManifest
<1>8. AgeingIsLate'
  BY <1>1, <1>2, <1>3 DEF BackupInv, AgeingIsLate, PastWindow
<1>9. ManifestsTellTheBucket'
  BY <1>1, <1>3, <1>4 DEF BackupInv, ManifestsTellTheBucket
<1> QED BY <1>5, <1>6, <1>7, <1>8, <1>9 DEF BackupInv

(* The pass ends, having written its row or not.                           *)
LEMMA OverKeeps ==
  ASSUME IInv, NEW p \in Passes, pass' = [pass EXCEPT ![p] = "over"],
         UNCHANGED <<now, manifest, bucket, ageing>>,
         LastIdHeld', lastId' \in Nat, \A row \in log' : row.id \in Nat
  PROVE  IInv'
<1> USE DEF IInv, TypeInv
<1>1. TypeInv' /\ PassTellsManifest'
  BY DEF BackupInv, PassTellsManifest
<1>2. AgeingIsLate'
  BY DEF BackupInv, AgeingIsLate, PastWindow
<1>3. ManifestsTellTheBucket'
  BY DEF BackupInv, ManifestsTellTheBucket
<1> QED BY <1>1, <1>2, <1>3 DEF BackupInv

LEMMA EmitWrittenKeeps ==
  ASSUME IInv, NEW p \in Passes, EmitWritten(p)
  PROVE  IInv'
  BY EmitKeeps, OverKeeps DEF EmitWritten, Goes

LEMMA DieKeeps ==
  ASSUME IInv, NEW p \in Passes, Die(p)
  PROVE  IInv'
<1>1. UNCHANGED <<now, log, lastId, manifest, bucket, ageing>>
  BY DEF Die
<1>2. LastIdHeld' /\ lastId' \in Nat /\ \A row \in log' : row.id \in Nat
  BY <1>1 DEF IInv, TypeInv, LastIdHeld
<1> QED BY <1>1, <1>2, OverKeeps DEF Die, Goes

-----------------------------------------------------------------------------
(* The ageing-out.                                                         *)
LEMMA ListKeeps ==
  ASSUME IInv, ListOld
  PROVE  IInv'
<1> USE DEF IInv, TypeInv
<1>1. /\ UNCHANGED <<now, log, lastId, manifest, bucket, pass>> /\ ageing.pc = "next"
      /\ ageing' = [ageing EXCEPT !.listed = {p \in Passes : PastWindow(p)}]
  BY DEF ListOld
<1>2. TypeInv' /\ LastIdHeld'
  BY <1>1 DEF LastIdHeld
<1>3. PassTellsManifest' /\ ManifestsTellTheBucket'
  BY <1>1 DEF BackupInv, PassTellsManifest, ManifestsTellTheBucket
<1>4. ageing.hand = {}
  BY <1>1 DEF BackupInv, AgeingIsLate
<1>5. AgeingIsLate'
  BY <1>1, <1>4 DEF AgeingIsLate, PastWindow
<1> QED BY <1>2, <1>3, <1>5 DEF BackupInv

(* The object deleted is one whose window is over, and its manifest is     *)
(* committed: no pass is about to upload it again.                         *)
LEMMA DeleteObjectKeeps ==
  ASSUME IInv, NEW p \in Passes, DeleteObject(p)
  PROVE  IInv'
<1> USE DEF IInv, TypeInv
<1>1. /\ UNCHANGED <<now, log, lastId, manifest, pass>>
      /\ ageing.pc = "next" /\ p \in ageing.listed
  BY DEF DeleteObject
<1>2. PastWindow(p) /\ ageing.hand = {}
  BY <1>1 DEF BackupInv, AgeingIsLate
<1>3. CASE /\ bucket' = bucket \ {p}
           /\ ageing' = [listed |-> ageing.listed \ {p}, pc |-> "row", hand |-> {p}]
  <2>1. TypeInv' /\ LastIdHeld'
    BY <1>1, <1>3 DEF LastIdHeld
  <2>2. PassTellsManifest'
    BY <1>1, <1>2, <1>3 DEF BackupInv, PassTellsManifest, PastWindow
  <2>3. AgeingIsLate'
    BY <1>1, <1>2, <1>3 DEF BackupInv, AgeingIsLate, PastWindow
  <2>4. ManifestsTellTheBucket'
    <3>1. ~(now - manifest[p].committed < BackupDays)
      BY <1>2 DEF PastWindow, BackupDays
    <3> QED BY <3>1, <1>1, <1>3 DEF BackupInv, ManifestsTellTheBucket
  <2> QED BY <2>1, <2>2, <2>3, <2>4 DEF BackupInv
<1>4. CASE ageing' = [ageing EXCEPT !.listed = @ \ {p}] /\ UNCHANGED bucket
  <2>1. TypeInv' /\ LastIdHeld'
    BY <1>1, <1>4 DEF LastIdHeld
  <2>2. PassTellsManifest' /\ ManifestsTellTheBucket'
    BY <1>1, <1>4 DEF BackupInv, PassTellsManifest, ManifestsTellTheBucket
  <2>3. AgeingIsLate'
    BY <1>1, <1>2, <1>4 DEF BackupInv, AgeingIsLate, PastWindow
  <2> QED BY <2>1, <2>2, <2>3 DEF BackupInv
<1> QED BY <1>3, <1>4 DEF DeleteObject

LEMMA DeleteRowKeeps ==
  ASSUME IInv, DeleteRow
  PROVE  IInv'
<1> USE DEF IInv, TypeInv, Statuses
<1>1. /\ UNCHANGED <<now, log, lastId, bucket, pass>>
      /\ ageing.pc = "row" /\ ageing' = [ageing EXCEPT !.pc = "emit"]
      /\ manifest' = [p \in Passes |-> IF p \in ageing.hand
                                       THEN [NoManifest EXCEPT !.status = "hard_deleted"]
                                       ELSE manifest[p]]
  BY DEF DeleteRow
<1>2. \A p \in Passes \ ageing.hand : manifest'[p] = manifest[p]
  BY <1>1
<1>3. \A p \in Passes : p \in ageing.hand =>
        manifest'[p] = [status |-> "hard_deleted", head |-> 0, committed |-> 0]
  BY <1>1 DEF NoManifest
<1>4. \A p \in ageing.hand : manifest[p].status = "committed" /\ p \notin bucket
  BY <1>1 DEF BackupInv, AgeingIsLate, PastWindow
<1>5. TypeInv'
  <2>1. manifest' \in [Passes -> [status : Statuses, head : Nat, committed : Nat]]
    BY <1>1 DEF NoManifest
  <2> QED BY <1>1, <2>1
<1>6. LastIdHeld'
  BY <1>1, <1>2, <1>3 DEF LastIdHeld
<1>7. PassTellsManifest'
  BY <1>1, <1>2, <1>4 DEF BackupInv, PassTellsManifest
<1>8. AgeingIsLate'
  <2>1. \A p \in ageing.listed : p \in Passes \ ageing.hand /\ PastWindow(p)
    BY DEF BackupInv, AgeingIsLate
  <2>2. \A p \in ageing.listed : PastWindow(p)'
    BY <2>1, <1>1, <1>2 DEF PastWindow
  <2> QED BY <2>1, <2>2, <1>1 DEF AgeingIsLate
<1>9. ManifestsTellTheBucket'
  BY <1>1, <1>2, <1>3, <1>4 DEF BackupInv, ManifestsTellTheBucket
<1> QED BY <1>5, <1>6, <1>7, <1>8, <1>9 DEF BackupInv

(* The ageing-out lays aside the manifest in hand, and may forget others.  *)
LEMMA LayAsideKeeps ==
  ASSUME IInv, NEW rest \in SUBSET ageing.listed,
         ageing' = [listed |-> rest, pc |-> "next", hand |-> {}],
         UNCHANGED <<now, manifest, bucket, pass>>,
         LastIdHeld', lastId' \in Nat, \A row \in log' : row.id \in Nat
  PROVE  IInv'
<1> USE DEF IInv, TypeInv
<1>1. TypeInv' /\ PassTellsManifest' /\ ManifestsTellTheBucket'
  BY DEF BackupInv, PassTellsManifest, ManifestsTellTheBucket
<1>2. AgeingIsLate'
  BY DEF BackupInv, AgeingIsLate, PastWindow
<1> QED BY <1>1, <1>2 DEF BackupInv

LEMMA EmitDeletedKeeps ==
  ASSUME IInv, EmitDeleted
  PROVE  IInv'
<1>1. UNCHANGED <<now, manifest, bucket, pass>> /\ Emits("backup.hard_deleted", NoTarget)
  BY DEF EmitDeleted
<1>2. ageing' = [listed |-> ageing.listed, pc |-> "next", hand |-> {}]
  BY DEF EmitDeleted, IInv, TypeInv
<1>3. LastIdHeld' /\ lastId' \in Nat /\ \A row \in log' : row.id \in Nat
  BY <1>1, EmitKeeps
<1> QED BY <1>1, <1>2, <1>3, LayAsideKeeps

LEMMA LoseManifestKeeps ==
  ASSUME IInv, LoseManifest
  PROVE  IInv'
<1>1. UNCHANGED <<now, log, lastId, manifest, bucket, pass>>
  BY DEF LoseManifest
<1>2. PICK rest \in {ageing.listed, {}} :
        ageing' = [listed |-> rest, pc |-> "next", hand |-> {}]
  BY DEF LoseManifest
<1>3. LastIdHeld' /\ lastId' \in Nat /\ \A row \in log' : row.id \in Nat
  BY <1>1 DEF IInv, TypeInv, LastIdHeld
<1> QED BY <1>1, <1>2, <1>3, LayAsideKeeps

-----------------------------------------------------------------------------
LEMMA RemoveConcernKeeps ==
  ASSUME IInv, NEW r \in Concerns, RemoveConcern(r)
  PROVE  IInv'
<1>1. UNCHANGED <<now, log, lastId, backups>>
  BY DEF RemoveConcern
<1>2. BackupInv'
  BY <1>1, BackupsKept DEF IInv, TypeInv
<1>3. LastIdHeld' /\ TypeInv'
  BY <1>1 DEF IInv, LastIdHeld, TypeInv, backups
<1> QED BY <1>2, <1>3 DEF IInv

LEMMA StutterKeeps ==
  ASSUME IInv, UNCHANGED <<now, log, lastId, backups>>
  PROVE  IInv'
<1>1. UNCHANGED <<now, log, lastId, backups>>
  OBVIOUS
<1>2. BackupInv'
  BY <1>1, BackupsKept DEF IInv, TypeInv
<1>3. LastIdHeld' /\ TypeInv'
  BY <1>1 DEF IInv, LastIdHeld, TypeInv, backups
<1> QED BY <1>2, <1>3 DEF IInv

LEMMA NextIInv == IInv /\ [Next]_vars => IInv'
<1> SUFFICES ASSUME IInv, [Next]_vars PROVE IInv'
  OBVIOUS
<1>1. CASE RevokeSession \/ DecideReveal
  BY <1>1, EventKeeps DEF RevokeSession, DecideReveal
<1>2. CASE \E r \in Concerns :
             FileConcern(r) \/ UpdateConcern(r) \/ RevealSource(r) \/ RemoveConcern(r)
  BY <1>2, EventKeeps, RemoveConcernKeeps DEF FileConcern, UpdateConcern, RevealSource
<1>3. CASE Tick \/ Sweep
  BY <1>3, TickKeeps, SweepKeeps
<1>4. CASE ReadHead \/ FinishCheck \/ LoseCheck
  BY <1>4, ReportsKeeps, StutterKeeps DEF ReadHead, FinishCheck, LoseCheck
<1>5. CASE \E p \in Passes : StartBackup(p) \/ Upload(p) \/ Commit(p) \/ EmitWritten(p) \/ Die(p)
  BY <1>5, StartKeeps, UploadKeeps, CommitKeeps, EmitWrittenKeeps, DieKeeps
<1>6. CASE ListOld \/ (\E p \in Passes : DeleteObject(p)) \/ DeleteRow
  BY <1>6, ListKeeps, DeleteObjectKeeps, DeleteRowKeeps
<1>7. CASE EmitDeleted \/ LoseManifest
  BY <1>7, EmitDeletedKeeps, LoseManifestKeeps
<1>8. CASE UNCHANGED vars
  BY <1>8, StutterKeeps DEF vars
<1> QED BY <1>1, <1>2, <1>3, <1>4, <1>5, <1>6, <1>7, <1>8 DEF Next

LEMMA InvariantHolds == Spec => []IInv
<1> QED BY InitIInv, NextIInv, PTL DEF Spec

-----------------------------------------------------------------------------
(* Whatever dies between which calls, a committed manifest has its object  *)
(* for 42 days and a hard-deleted one has none.                            *)
THEOREM BucketTold == Spec => []ManifestsTellTheBucket
<1>1. IInv => ManifestsTellTheBucket
  BY DEF IInv, BackupInv
<1> QED BY <1>1, InvariantHolds, PTL

-----------------------------------------------------------------------------
(* What a check may count on while it is between its two reads: a manifest *)
(* that had captured a head by the first is no further than that.          *)
CheckInv ==
  check.pc = "read" =>
    /\ check.head \in Nat /\ check.known \subseteq Passes
    /\ \A p \in check.known : manifest[p].status # "none" /\ manifest[p].head <= check.head

(* No other step moves a head that was captured, but to forget it.         *)
LEMMA ManifestsAge ==
  ASSUME IInv, UNCHANGED check, CheckInv,
         \A p \in Passes : manifest[p].status # "none" =>
           manifest'[p].status # "none" /\ manifest'[p].head \in {manifest[p].head, 0}
  PROVE  CheckInv'
<1> SUFFICES ASSUME check.pc = "read", NEW p \in check.known
             PROVE  manifest'[p].status # "none" /\ manifest'[p].head <= check.head
  BY DEF CheckInv
<1>1. p \in Passes /\ check.head \in Nat
  BY DEF CheckInv
<1>2. manifest[p].status # "none" /\ manifest[p].head <= check.head
  BY DEF CheckInv
<1> QED BY <1>1, <1>2

LEMMA NextCheckInv ==
  ASSUME IInv, CheckInv, [Next]_vars
  PROVE  CheckInv'
<1> USE DEF IInv, TypeInv, Statuses
<1>1. CASE UNCHANGED <<manifest, check>>
  BY <1>1 DEF CheckInv
<1>2. CASE ReadHead
  <2>1. check' = [pc |-> "read", head |-> HeadId, known |-> Captured] /\ UNCHANGED manifest
    BY <1>2 DEF ReadHead, backups
  <2>2. HeadId = lastId /\ lastId \in Nat
    BY HeadIsLastId
  <2> QED BY <2>1, <2>2 DEF CheckInv, Captured, LastIdHeld
<1>3. CASE FinishCheck \/ LoseCheck
  BY <1>3 DEF FinishCheck, LoseCheck, NoCheck, CheckInv
<1>4. ASSUME NEW p \in Passes, StartBackup(p) PROVE CheckInv'
  <2>1. manifest[p].status = "none" /\ UNCHANGED check
    BY <1>4 DEF StartBackup, BackupInv, PassTellsManifest
  <2>2. \A q \in Passes \ {p} : manifest'[q] = manifest[q]
    BY <1>4 DEF StartBackup
  <2> QED BY <2>1, <2>2, ManifestsAge
<1>5. ASSUME NEW p \in Passes, Upload(p) PROVE CheckInv'
  <2>1. UNCHANGED check /\ manifest' \in {manifest, [manifest EXCEPT ![p].status = "aborted"]}
    BY <1>5 DEF Upload
  <2> QED BY <2>1, ManifestsAge
<1>6. ASSUME NEW p \in Passes, Commit(p) PROVE CheckInv'
  <2>1. /\ UNCHANGED check
        /\ manifest' = [manifest EXCEPT ![p].status = "committed", ![p].committed = now]
    BY <1>6 DEF Commit, Commits
  <2> QED BY <2>1, ManifestsAge
<1>7. CASE DeleteRow
  <2>1. /\ UNCHANGED check
        /\ manifest' = [p \in Passes |-> IF p \in ageing.hand
                                         THEN [NoManifest EXCEPT !.status = "hard_deleted"]
                                         ELSE manifest[p]]
    BY <1>7 DEF DeleteRow
  <2> QED BY <2>1, ManifestsAge DEF NoManifest
<1>8. CASE RevokeSession \/ DecideReveal \/ Tick \/ Sweep
  BY <1>8, <1>1 DEF RevokeSession, DecideReveal, Event, Tick, Sweep, backups
<1>9. ASSUME NEW r \in Concerns,
             FileConcern(r) \/ UpdateConcern(r) \/ RevealSource(r) \/ RemoveConcern(r)
      PROVE  CheckInv'
  BY <1>9, <1>1 DEF FileConcern, UpdateConcern, RevealSource, RemoveConcern, Event, backups
<1>10. ASSUME NEW p \in Passes, EmitWritten(p) \/ Die(p) \/ DeleteObject(p) PROVE CheckInv'
  BY <1>10, <1>1 DEF EmitWritten, Die, DeleteObject
<1>11. CASE ListOld \/ EmitDeleted \/ LoseManifest
  BY <1>11, <1>1 DEF ListOld, EmitDeleted, LoseManifest
<1>12. CASE UNCHANGED vars
  BY <1>12, <1>1 DEF vars, backups
<1> QED BY <1>2, <1>3, <1>4, <1>5, <1>6, <1>7, <1>8, <1>9, <1>10, <1>11, <1>12 DEF Next

(* No order of sweeps, backups and checks makes the live head fall behind  *)
(* the latest manifest, and none makes a check report the newest row lost  *)
(* by a manifest that had captured its head before the check read its own. *)
THEOREM HeadAhead == Spec => []HeadNeverFallsBehind
<1>1. IInv /\ CheckInv => HeadNeverFallsBehind
  <2> SUFFICES ASSUME IInv, CheckInv, NEW p \in Passes
               PROVE  /\ manifest[p].head <= HeadId
                      /\ check.pc = "read" /\ p \in check.known =>
                           Verdict(p) # "row_unexpected"
    BY DEF HeadNeverFallsBehind
  <2>1. HeadId = lastId /\ lastId \in Nat
    BY HeadIsLastId DEF IInv, TypeInv
  <2>2. manifest[p].head \in Nat /\ manifest[p].head <= lastId
    BY DEF IInv, TypeInv, LastIdHeld
  <2>3. ASSUME check.pc = "read", p \in check.known
        PROVE  Verdict(p) # "row_unexpected"
    BY <2>2, <2>3 DEF CheckInv, Verdict
  <2> QED BY <2>1, <2>2, <2>3
<1>2. Init => CheckInv
  BY DEF Init, CheckInv, NoCheck
<1>3. Spec => []CheckInv
  BY <1>2, NextCheckInv, InvariantHolds, PTL DEF Spec
<1> QED BY <1>1, <1>3, InvariantHolds, PTL
-----------------------------------------------------------------------------
(* The sweep.  An event type has one class: that of a row about no record, *)
(* but for the types about a concern, which follow it.                     *)
ConcernKinds == {"concern.created", "concern.updated", "concern.source_revealed"}
Stamped(row) ==
  row.class = IF row.kind \in ConcernKinds THEN "match_underlying"
              ELSE RetentionClassFor(row.kind)

LogStamped == IsFiniteSet(log) /\ \A row \in log : Stamped(row)

(* audit_emit stamps a row by its type.                                    *)
LEMMA RowStamped ==
  ASSUME NEW id, NEW kind, NEW target,
         target = NoTarget <=> kind \notin ConcernKinds
  PROVE  Stamped(Row(id, kind, target))
  BY DEF Stamped, Row, RetentionClassFor, ConcernKinds

LEMMA NoSharedClass == \A kind : RetentionClassFor(kind) # "match_underlying"
  BY DEF RetentionClassFor

(* A log that loses some rows and gains a few stamped ones.                *)
LEMMA StampsKept ==
  ASSUME LogStamped, NEW rows, IsFiniteSet(rows), \A row \in rows : Stamped(row),
         log' \subseteq log \cup rows
  PROVE  LogStamped'
<1>1. IsFiniteSet(log \cup rows)
  BY FS_Union DEF LogStamped
<1>2. IsFiniteSet(log')
  BY <1>1, FS_Subset
<1> QED BY <1>2 DEF LogStamped, Stamped

LEMMA EmitStamps ==
  ASSUME LogStamped, NEW kind, NEW target, Emits(kind, target),
         target = NoTarget <=> kind \notin ConcernKinds
  PROVE  LogStamped'
<1>1. IsFiniteSet({Row(lastId + 1, kind, target)})
  BY FS_Singleton
<1>2. Stamped(Row(lastId + 1, kind, target))
  BY RowStamped
<1> HIDE DEF Stamped
<1> QED BY <1>1, <1>2, StampsKept DEF Emits

LEMMA ReportStamps ==
  ASSUME LogStamped, NEW verdict, Reports(verdict)
  PROVE  LogStamped'
<1> DEFINE ran == Row(lastId + 1, "integrity_check.ran", NoTarget)
           mismatch == Row(lastId + 2, "integrity_check.mismatch", NoTarget)
<1>1. Stamped(ran) /\ Stamped(mismatch)
  BY RowStamped DEF ConcernKinds
<1>2. IsFiniteSet({ran}) /\ IsFiniteSet({ran} \cup {mismatch})
  BY FS_Singleton, FS_Union
<1>3. log' \subseteq log \cup ({ran} \cup {mismatch})
  BY DEF Reports
<1> HIDE DEF ran, mismatch
<1> QED BY <1>1, <1>2, <1>3, StampsKept

LEMMA SweepStamps ==
  ASSUME LogStamped, Sweep
  PROVE  LogStamped'
<1>1. log' \subseteq log \cup Summary
  BY DEF Sweep
<1>2. IsFiniteSet(Summary) /\ \A row \in Summary : Stamped(row)
  BY RowStamped, FS_Singleton DEF Summary, ConcernKinds
<1> QED BY <1>1, <1>2, StampsKept

LEMMA InitStamped == Init => LogStamped
<1> SUFFICES ASSUME Init PROVE LogStamped
  OBVIOUS
<1> DEFINE first == [id |-> 1, kind |-> "member.added", target |-> NoTarget, ts |-> 1,
                     class |-> "membership+7y"]
<1>1. log = {first}
  BY DEF Init
<1>2. first.kind = "member.added" /\ first.class = "membership+7y"
  OBVIOUS
<1> HIDE DEF first
<1> QED BY <1>1, <1>2, FS_Singleton DEF LogStamped, Stamped, RetentionClassFor, ConcernKinds

LEMMA NextStamped == LogStamped /\ [Next]_vars => LogStamped'
<1> SUFFICES ASSUME LogStamped, [Next]_vars PROVE LogStamped'
  OBVIOUS
<1>1. CASE UNCHANGED log
  BY <1>1 DEF LogStamped, Stamped
<1>2. CASE RevokeSession \/ DecideReveal
  BY <1>2, EmitStamps DEF RevokeSession, DecideReveal, Event, ConcernKinds
<1>3. ASSUME NEW r \in Concerns, FileConcern(r) \/ UpdateConcern(r) \/ RevealSource(r)
      PROVE  LogStamped'
  BY <1>3, EmitStamps, TargetAssumption
     DEF FileConcern, UpdateConcern, RevealSource, Event, ConcernKinds
<1>4. CASE Sweep
  BY <1>4, SweepStamps
<1>5. CASE FinishCheck
  BY <1>5, ReportStamps DEF FinishCheck
<1>6. CASE (\E p \in Passes : EmitWritten(p)) \/ EmitDeleted
  BY <1>6, EmitStamps DEF EmitWritten, EmitDeleted, ConcernKinds
<1>7. CASE ReadHead \/ LoseCheck \/ Tick \/ \E r \in Concerns : RemoveConcern(r)
  BY <1>7, <1>1 DEF ReadHead, LoseCheck, Tick, RemoveConcern
<1>8. CASE \E p \in Passes : StartBackup(p) \/ Upload(p) \/ Commit(p) \/ Die(p) \/ DeleteObject(p)
  BY <1>8, <1>1 DEF StartBackup, Upload, Commit, Die, DeleteObject
<1>9. CASE ListOld \/ DeleteRow \/ LoseManifest
  BY <1>9, <1>1 DEF ListOld, DeleteRow, LoseManifest
<1>10. CASE UNCHANGED vars
  BY <1>10, <1>1 DEF vars
<1> QED BY <1>2, <1>3, <1>4, <1>5, <1>6, <1>7, <1>8, <1>9, <1>10 DEF Next

LEMMA StampsHold == Spec => []LogStamped
<1> QED BY InitStamped, NextStamped, PTL DEF Spec

-----------------------------------------------------------------------------
(* Every arm is a part of the log and finds only rows that are due; and    *)
(* every row that is due is in an arm, unless no arm knows its type.       *)
LEMMA ArmsAreDue ==
  ASSUME LogStamped
  PROVE  /\ \A arm \in Arms : arm \subseteq log /\ IsFiniteSet(arm)
         /\ \A arm \in Arms : \A row \in arm : Due(row)
         /\ \A row \in log :
              Due(row) /\ row.kind \notin Unswept => \E arm \in Arms : row \in arm
<1> DEFINE Found(some) == {row \in log : /\ row.kind = some.kind
                                         /\ Older(row, Interval[some.class])}
           Timely == {row \in log : /\ row.class \in DOMAIN Interval
                                    /\ Older(row, Interval[row.class])}
           Orphans == {row \in log : /\ row.class = "match_underlying"
                                     /\ row.kind \in CeilingKinds
                                     /\ row.target \notin concerns /\ Older(row, Ceiling)}
<1>1. Arms = {Found(some) : some \in Timely} \cup {Orphans}
  BY DEF Arms
<1>2. "match_underlying" \notin DOMAIN Interval
  BY DEF Interval
<1>3. \A arm \in Arms : arm \subseteq log
  BY <1>1
<1>4. \A arm \in Arms : IsFiniteSet(arm)
  BY <1>3, FS_Subset DEF LogStamped
<1>5. ASSUME NEW some \in Timely, NEW row \in Found(some)
      PROVE  Due(row)
  <2>1. row.class = some.class
    BY DEF LogStamped, Stamped
  <2> QED BY <1>2, <2>1 DEF Due
<1>6. \A row \in Orphans : Due(row)
  BY DEF Due
<1>7. \A arm \in Arms : \A row \in arm : Due(row)
  <2> HIDE DEF Found, Timely, Orphans
  <2> QED BY <1>1, <1>5, <1>6
<1>8. ASSUME NEW row \in log, Due(row), row.kind \notin Unswept
      PROVE  \E arm \in Arms : row \in arm
  <2>1. CASE row.class = "match_underlying"
    <3>1. row.kind \in CeilingKinds
      BY <1>8, <2>1, NoSharedClass DEF LogStamped, Stamped, ConcernKinds, CeilingKinds, Unswept
    <3>2. row \in Orphans
      BY <1>8, <2>1, <3>1 DEF Due
    <3> QED BY <1>1, <3>2
  <2>2. CASE row.class # "match_underlying"
    <3>1. row \in Timely /\ row \in Found(row)
      BY <1>8, <2>2 DEF Due
    <3> QED BY <1>1, <3>1
  <2> QED BY <2>1, <2>2
<1> QED BY <1>3, <1>4, <1>7, <1>8

(* Below the cap an arm deletes all it found.                              *)
LEMMA ArmEmptied ==
  ASSUME NEW arm, IsFiniteSet(arm), NEW gone, Victims(arm, gone), Cardinality(gone) < RowCap
  PROVE  gone = arm
<1> DEFINE n == Cardinality(arm)
<1>1. n \in Nat /\ RowCap \in Nat
  BY FS_CardinalityType, BoundAssumption
<1>2. Min({RowCap, n}) = IF RowCap <= n THEN RowCap ELSE n
  <2> HIDE DEF n
  <2> QED BY <1>1 DEF Min
<1>3. Cardinality(gone) = n
  BY <1>1, <1>2 DEF Victims
<1> QED BY <1>3, FS_Subset DEF Victims

(* What the sweep deletes is due; if no arm reached its cap, it deletes    *)
(* all that is, but for the types no arm knows.                            *)
LEMMA SweepExact ==
  ASSUME IInv, LogStamped, Sweep
  PROVE  Exact
<1>1. PICK gone \in SUBSET UNION Arms :
        /\ \A arm \in Arms : Victims(arm, gone \cap arm)
        /\ log' = (log \ gone) \cup Summary
        /\ sweep' = IF Truncated(gone) THEN "capped" ELSE "completed"
  BY DEF Sweep
<1>3. \A row \in log \ log' : Due(row)
  BY <1>1, ArmsAreDue
<1>4. ASSUME sweep' = "completed", NEW row \in log \cap log', Due(row),
             row.kind \notin Unswept
      PROVE  FALSE
  <2>1. PICK arm \in Arms : row \in arm /\ IsFiniteSet(arm)
    BY <1>4, ArmsAreDue
  <2>2. ~Truncated(gone)
    BY <1>1, <1>4
  <2>3. Cardinality(gone \cap arm) < RowCap
    <3>1. IsFiniteSet(gone \cap arm)
      BY <2>1, FS_Subset
    <3>2. Cardinality(gone \cap arm) \in Nat /\ RowCap \in Nat
      BY <3>1, FS_CardinalityType, BoundAssumption
    <3>3. ~(Cardinality(gone \cap arm) >= RowCap)
      BY <2>2, Zenon DEF Truncated
    <3> DEFINE n == Cardinality(gone \cap arm)
    <3> HIDE DEF n
    <3> QED BY <3>2, <3>3 DEF n
  <2>4. row \in gone
    BY <1>1, <2>1, <2>3, ArmEmptied
  <2>5. row \in Summary
    BY <1>1, <2>4
  <2>6. row.id = lastId + 1
    BY <2>5 DEF Summary, Row
  <2> QED BY <2>6 DEF IInv, TypeInv, LastIdHeld
<1> QED BY <1>3, <1>4 DEF Exact

(* Nothing else deletes a row, or writes the sweep's row.                  *)
LEMMA OthersExact ==
  ASSUME log \subseteq log', sweep' \in {sweep, "none"}
  PROVE  Exact
  BY DEF Exact

(* 0022, 0023, 0026: the sweep deletes rows that are due and no others,    *)
(* nothing else deletes any, and a sweep that reports itself completed     *)
(* leaves of those that were due only rows of a type no arm knows,         *)
(* whatever the cap, the records and the order of jobs.                    *)
THEOREM SweepExactly == Spec => SweepIsExact
<1>1. IInv /\ LogStamped /\ [Next]_vars => [Exact]_vars
  <2> SUFFICES ASSUME IInv, LogStamped, Next PROVE Exact
    OBVIOUS
  <2>1. CASE Sweep
    BY <2>1, SweepExact
  <2>2. CASE RevokeSession \/ DecideReveal \/ \E r \in Concerns :
             FileConcern(r) \/ UpdateConcern(r) \/ RevealSource(r)
    BY <2>2, OthersExact
       DEF RevokeSession, DecideReveal, FileConcern, UpdateConcern, RevealSource, Event, Emits,
           recent
  <2>3. CASE ReadHead \/ FinishCheck \/ LoseCheck
    BY <2>3, OthersExact DEF ReadHead, FinishCheck, LoseCheck, Reports, recent
  <2>4. CASE (\E p \in Passes : EmitWritten(p)) \/ EmitDeleted
    BY <2>4, OthersExact DEF EmitWritten, EmitDeleted, Emits, recent
  <2>5. CASE Tick \/ \E r \in Concerns : RemoveConcern(r)
    BY <2>5, OthersExact DEF Tick, RemoveConcern, recent
  <2>6. CASE \E p \in Passes : StartBackup(p) \/ Upload(p) \/ Commit(p) \/ Die(p) \/ DeleteObject(p)
    BY <2>6, OthersExact DEF StartBackup, Upload, Commit, Die, DeleteObject, recent
  <2>7. CASE ListOld \/ DeleteRow \/ LoseManifest
    BY <2>7, OthersExact DEF ListOld, DeleteRow, LoseManifest, recent
  <2> QED BY <2>1, <2>2, <2>3, <2>4, <2>5, <2>6, <2>7 DEF Next
<1> QED BY <1>1, InvariantHolds, StampsHold, PTL DEF Spec, SweepIsExact
=============================================================================
