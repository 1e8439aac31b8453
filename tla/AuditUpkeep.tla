---------------------------- MODULE AuditUpkeep ------------------------------
(***************************************************************************)
(* The scheduled jobs around the audit log: the retention sweep of         *)
(* migrations 0022, 0023 and 0026, the backup pass and its ageing-out of   *)
(* backup-core.ts with the functions of 0024, and the integrity check of   *)
(* 0030, which compares the live head of the log with the manifest.        *)
(*                                                                         *)
(* The sweep is one step: nothing else deletes audit rows, and it runs     *)
(* under an advisory lock.  So does the check, but it reads the head and   *)
(* the manifest by two statements, each with a snapshot of its own: those  *)
(* are two steps.  A backup pass is a chain of calls and may die between   *)
(* any two.                                                                *)
(***************************************************************************)
EXTENDS Naturals, FiniteSets, FiniteSetsExt

CONSTANTS
  Concerns,   \* concern records
  NoTarget,   \* the target of a row about no record
  Passes,     \* backup passes, named by their run_id
  RowCap,     \* p_max_rows_per_arm
  MaxTime,    \* bound: the clock
  MaxSweeps,  \* bound: sweeps
  MaxEvents   \* bound: events of the application and checks together

ASSUME TargetAssumption == NoTarget \notin Concerns
ASSUME BoundAssumption == {RowCap, MaxTime, MaxSweeps, MaxEvents} \subseteq Nat \ {0}

VARIABLES
  now,        \* the clock, in units of the shortest period
  log,        \* audit_log
  lastId,     \* the sequence behind audit_log.id
  events,     \* events of the application and checks so far
  concerns,   \* concern records that exist
  sweep,      \* what the sweep of this unit of time came to; "none" before it
  manifest,   \* backup_manifests
  leased,     \* a backup pass started in this unit of time
  bucket,     \* objects in the backup bucket
  pass,       \* where each backup pass is
  ageing,     \* the ageing-out pass: manifests listed, the one in hand
  check       \* the check under way: the head it read, and the passes that had
              \* captured theirs by then (history)

backups == <<manifest, bucket, pass, ageing>>
recent == <<sweep, leased>>
vars == <<now, log, lastId, events, concerns, recent, backups, check>>

(* The periods of the schedule, shortest first: 30 days for the ceiling,   *)
(* 42 for a backup, and the classes of audit_log_retention_schedule.       *)
Ceiling == 1
BackupDays == 1
Interval == [c \in {"90d", "24mo", "7y"} |->
               CASE c = "90d" -> 1 [] c = "24mo" -> 2 [] c = "7y" -> 4]

RetentionClassFor(kind) ==
  CASE kind = "session.revoked" -> "90d"
    [] kind \in {"retention.deleted", "backup.manifest_written", "backup.hard_deleted",
                 "integrity_check.mismatch"} -> "7y"
    [] kind = "member.added" -> "membership+7y"
    [] OTHER -> "24mo"

Row(id, kind, target) ==
  LET class == RetentionClassFor(kind) IN
    [id |-> id, kind |-> kind, target |-> target, ts |-> now,
     class |-> IF class = "24mo" /\ target # NoTarget THEN "match_underlying" ELSE class]

(* audit_emit of one row, and of several in one transaction.               *)
Emits(kind, target) ==
  log' = log \cup {Row(lastId + 1, kind, target)} /\ lastId' = lastId + 1

-----------------------------------------------------------------------------
(* The application: a session is revoked, a forensic reveal is decided, a  *)
(* concern is filed, edited, has its source revealed, and is removed by an *)
(* operator.                                                               *)
Bounded == events < MaxEvents /\ events' = events + 1

Event(kind, target) ==
  /\ Bounded
  /\ Emits(kind, target)
  /\ UNCHANGED <<now, recent, backups, check>>

RevokeSession == Event("session.revoked", NoTarget) /\ UNCHANGED concerns
DecideReveal == Event("forensic_reveal.completed", NoTarget) /\ UNCHANGED concerns
FileConcern(r) ==
  /\ r \notin concerns /\ ~\E row \in log : row.target = r
  /\ Event("concern.created", r) /\ concerns' = concerns \cup {r}
(* Every other type written about a record falls to match_underlying like  *)
(* these, and is on no list of the ceiling's.                              *)
UpdateConcern(r) == r \in concerns /\ Event("concern.updated", r) /\ UNCHANGED concerns
RevealSource(r) ==
  r \in concerns /\ Event("concern.source_revealed", r) /\ UNCHANGED concerns

RemoveConcern(r) ==
  /\ r \in concerns /\ concerns' = concerns \ {r}
  /\ UNCHANGED <<now, log, lastId, events, recent, backups, check>>

(* Bound: one sweep in a unit of time, and one backup, whose lease keeps a *)
(* second from starting.                                                   *)
Tick ==
  /\ now < MaxTime /\ now' = now + 1
  /\ sweep' = "none" /\ leased' = FALSE
  /\ UNCHANGED <<log, lastId, events, concerns, backups, check>>

-----------------------------------------------------------------------------
(* retention_sweep_runner.  An arm per event type found under an interval  *)
(* class deletes the type's rows older than that interval, whatever their  *)
(* own class; the last arm is the ceiling rule, for a closed list of types.*)
CeilingKinds == {"concern.created", "concern.updated"}
Older(row, period) == row.ts + period < now

Arms ==
  {{row \in log : row.kind = some.kind /\ Older(row, Interval[some.class])} :
     some \in {row \in log : row.class \in DOMAIN Interval /\ Older(row, Interval[row.class])}}
  \cup
  {{row \in log : /\ row.class = "match_underlying" /\ row.kind \in CeilingKinds
                  /\ row.target \notin concerns /\ Older(row, Ceiling)}}

(* What an arm deletes: its oldest rows, up to the cap.                    *)
Victims(arm, gone) ==
  /\ gone \subseteq arm
  /\ Cardinality(gone) = Min({RowCap, Cardinality(arm)})
  /\ \A row \in gone, kept \in arm \ gone : row.ts <= kept.ts

(* Mutation: an arm that fills the cap exactly is not taken for truncated. *)
CapPassed(gone) == \E arm \in Arms : Cardinality(gone \cap arm) > RowCap
Truncated(gone) == \E arm \in Arms : Cardinality(gone \cap arm) >= RowCap

(* The last statement: the row that says the pass ran.                     *)
(* Mutation: it is forgotten.                                              *)
NoSummary == {}
Summary == {Row(lastId + 1, "retention.deleted", NoTarget)}

Sweep ==
  /\ sweep = "none" /\ Cardinality({row \in log : row.kind = "retention.deleted"}) < MaxSweeps
  /\ \E gone \in SUBSET UNION Arms :
       /\ \A arm \in Arms : Victims(arm, gone \cap arm)
       /\ log' = (log \ gone) \cup Summary
       /\ sweep' = IF Truncated(gone) THEN "capped" ELSE "completed"
  /\ lastId' = lastId + 1
  /\ UNCHANGED <<now, events, concerns, leased, backups, check>>

-----------------------------------------------------------------------------
(* runBackupPass.                                                          *)
HeadId == Max({row.id : row \in log})
NoManifest == [status |-> "none", head |-> 0, committed |-> 0]
Goes(p, pc) == pass' = [pass EXCEPT ![p] = pc]

(* The lease, the head, and then, after the dump, the pending row.         *)
StartBackup(p) ==
  /\ pass[p] = "none" /\ ~leased /\ leased' = TRUE
  /\ manifest' = [manifest EXCEPT ![p] = [@ EXCEPT !.status = "pending", !.head = HeadId]]
  /\ Goes(p, "pending")
  /\ UNCHANGED <<now, log, lastId, events, concerns, sweep, bucket, ageing, check>>

(* The object is stored, or its storage is refused, and the abort recorded *)
(* if the call that records it succeeds; or the upload throws, which ends  *)
(* the pass whether or not the object is there.                            *)
Upload(p) ==
  /\ pass[p] = "pending"
  /\ \/ bucket' = bucket \cup {p} /\ Goes(p, "stored") /\ UNCHANGED manifest
     \/ /\ Goes(p, "over") /\ UNCHANGED bucket
        /\ manifest' \in {manifest, [manifest EXCEPT ![p].status = "aborted"]}
     \/ bucket' = bucket \cup {p} /\ Goes(p, "over") /\ UNCHANGED manifest
  /\ UNCHANGED <<now, log, lastId, events, concerns, recent, ageing, check>>

Commits(p) == manifest' = [manifest EXCEPT ![p].status = "committed", ![p].committed = now]
Commit(p) ==
  /\ pass[p] = "stored" /\ Commits(p) /\ Goes(p, "committed")
  /\ UNCHANGED <<now, log, lastId, events, concerns, recent, bucket, ageing, check>>

EmitWritten(p) ==
  /\ pass[p] = "committed"
  /\ Emits("backup.manifest_written", NoTarget) /\ Goes(p, "over")
  /\ UNCHANGED <<now, events, concerns, recent, manifest, bucket, ageing, check>>

(* The pass dies, or a call fails: either way no later call is made.       *)
Die(p) ==
  /\ pass[p] \in {"pending", "stored", "committed"} /\ Goes(p, "over")
  /\ UNCHANGED <<now, log, lastId, events, concerns, recent, manifest, bucket, ageing, check>>

-----------------------------------------------------------------------------
(* runBackupRetentionPass: lists once, then takes the manifests in turn.   *)
(* Mutation: every committed manifest is taken for past the window.        *)
AnyAge(p) == manifest[p].status = "committed"
PastWindow(p) == manifest[p].status = "committed" /\ now - manifest[p].committed >= BackupDays

ListOld ==
  /\ ageing.listed = {} /\ ageing.pc = "next"
  /\ \E p \in Passes : PastWindow(p)
  /\ ageing' = [ageing EXCEPT !.listed = {p \in Passes : PastWindow(p)}]
  /\ UNCHANGED <<now, log, lastId, events, concerns, recent, manifest, bucket, pass, check>>

(* The object is deleted, or refused as still locked.                      *)
DeleteObject(p) ==
  /\ ageing.pc = "next" /\ p \in ageing.listed
  /\ \/ /\ bucket' = bucket \ {p}
        /\ ageing' = [listed |-> ageing.listed \ {p}, pc |-> "row", hand |-> {p}]
     \/ ageing' = [ageing EXCEPT !.listed = @ \ {p}] /\ UNCHANGED bucket
  /\ UNCHANGED <<now, log, lastId, events, concerns, recent, manifest, pass, check>>

DeleteRow ==
  /\ ageing.pc = "row"
  /\ manifest' = [p \in Passes |-> IF p \in ageing.hand
                                   THEN [NoManifest EXCEPT !.status = "hard_deleted"]
                                   ELSE manifest[p]]
  /\ ageing' = [ageing EXCEPT !.pc = "emit"]
  /\ UNCHANGED <<now, log, lastId, events, concerns, recent, bucket, pass, check>>

EmitDeleted ==
  /\ ageing.pc = "emit" /\ Emits("backup.hard_deleted", NoTarget)
  /\ ageing' = [ageing EXCEPT !.pc = "next", !.hand = {}]
  /\ UNCHANGED <<now, events, concerns, recent, manifest, bucket, pass, check>>

(* A call about the manifest in hand fails, or the pass dies with it.      *)
LoseManifest ==
  /\ ageing.pc \in {"row", "emit"}
  /\ \E rest \in {ageing.listed, {}} : ageing' = [listed |-> rest, pc |-> "next", hand |-> {}]
  /\ UNCHANGED <<now, log, lastId, events, concerns, recent, manifest, bucket, pass, check>>

-----------------------------------------------------------------------------
(* integrity_check_runner: the live head against that of the latest        *)
(* committed manifest.  Ids are never reused, so equal ids are equal rows. *)
NoCheck == [pc |-> "idle", head |-> 0, known |-> {}]
Captured == {p \in Passes : manifest[p].status # "none"}

(* The first of the two SELECTs, with the lock and the lease before it.    *)
ReadHead ==
  /\ check.pc = "idle"
  /\ check' = [pc |-> "read", head |-> HeadId, known |-> Captured]
  /\ Bounded /\ UNCHANGED <<now, log, lastId, concerns, recent, backups>>

Latest(p) ==
  /\ manifest[p].status = "committed"
  /\ \A q \in Passes :
       manifest[q].status = "committed" => manifest[q].committed <= manifest[p].committed

Verdict(p) ==
  IF manifest[p].head > check.head THEN "row_unexpected"
  ELSE IF check.head > manifest[p].head THEN "row_missing" ELSE "ok"

Reports(verdict) ==
  LET ran == Row(lastId + 1, "integrity_check.ran", NoTarget)
      mismatch == Row(lastId + 2, "integrity_check.mismatch", NoTarget)
      rows == IF verdict = "ok" THEN {ran} ELSE {ran, mismatch}
  IN
  /\ log' = log \cup rows /\ lastId' = lastId + Cardinality(rows)
  /\ UNCHANGED <<now, events, concerns, recent, backups>>

(* The second SELECT, the comparison, the rows and the commit.             *)
FinishCheck ==
  /\ check.pc = "read" /\ check' = NoCheck
  /\ \/ (\A p \in Passes : manifest[p].status # "committed") /\ Reports("ok")
     \/ \E p \in Passes : Latest(p) /\ Reports(Verdict(p))

(* Its statement timeout, or a lost connection: rolled back.               *)
LoseCheck ==
  /\ check.pc = "read" /\ check' = NoCheck
  /\ UNCHANGED <<now, log, lastId, events, concerns, recent, backups>>

-----------------------------------------------------------------------------
Init ==
  /\ now = 1 /\ lastId = 1 /\ events = 0 /\ concerns = {}
  /\ log = {[id |-> 1, kind |-> "member.added", target |-> NoTarget, ts |-> 1,
             class |-> "membership+7y"]}
  /\ sweep = "none" /\ leased = FALSE
  /\ manifest = [p \in Passes |-> NoManifest] /\ bucket = {}
  /\ pass = [p \in Passes |-> "none"]
  /\ ageing = [listed |-> {}, pc |-> "next", hand |-> {}]
  /\ check = NoCheck

Next ==
  \/ RevokeSession \/ DecideReveal \/ Tick \/ Sweep
  \/ ReadHead \/ FinishCheck \/ LoseCheck
  \/ \E r \in Concerns :
       FileConcern(r) \/ UpdateConcern(r) \/ RevealSource(r) \/ RemoveConcern(r)
  \/ \E p \in Passes :
       \/ StartBackup(p) \/ Upload(p) \/ Commit(p) \/ EmitWritten(p)
       \/ Die(p) \/ DeleteObject(p)
  \/ ListOld \/ DeleteRow \/ EmitDeleted \/ LoseManifest

Spec == Init /\ [][Next]_vars

-----------------------------------------------------------------------------
(* By its stamped class a row is due: its interval is over, or it follows  *)
(* a record that is gone and the thirty days of the ceiling are over.      *)
Due(row) ==
  IF row.class = "match_underlying"
  THEN row.target \notin concerns /\ Older(row, Ceiling)
  ELSE row.class \in DOMAIN Interval /\ Older(row, Interval[row.class])

(* A sweep deletes no row before its time, whatever the other rows of its  *)
(* type, and nothing else deletes any.  One that reports itself completed, *)
(* not capped, leaves none that was due but those of a type that no arm    *)
(* knows: the ceiling rule's list is of two types, so a row that says a    *)
(* source was revealed outlives its concern for good, and every sweep that *)
(* leaves it is completed.                                                 *)
Unswept == {"concern.source_revealed"}
Exact ==
  /\ \A row \in log \ log' : Due(row) /\ Sweep
  /\ sweep' = "completed" /\ sweep = "none" =>
       \A row \in log \cap log' : Due(row) => row.kind \in Unswept
SweepIsExact == [][Exact]_vars

(* However the jobs interleave or die: a committed manifest has its object *)
(* for 42 days, and one that is hard deleted has none ("deletion is real   *)
(* deletion").                                                             *)
ManifestsTellTheBucket ==
  \A p \in Passes :
    /\ manifest[p].status = "committed" /\ now - manifest[p].committed < BackupDays => p \in bucket
    /\ manifest[p].status = "hard_deleted" => p \notin bucket

(* The sweep's own row is the last of its transaction, so the head of the  *)
(* log never falls behind a manifest, and a check reports the newest row   *)
(* lost ("row_unexpected") of no manifest whose head was captured before   *)
(* the check read its own.  Of a manifest captured after that and          *)
(* committed before the second SELECT it does report it.                   *)
HeadNeverFallsBehind ==
  \A p \in Passes : Latest(p) =>
    /\ manifest[p].head <= HeadId
    /\ check.pc = "read" /\ p \in check.known => Verdict(p) # "row_unexpected"

(* decisions.md: the rows of a forensic reveal are kept for seven years.   *)
RevealsKept ==
  [][\A row \in log \ log' :
       row.kind = "forensic_reveal.completed" => Older(row, Interval["7y"])]_vars
=============================================================================
