# Verification of jhsc-app

jhsc-app is a web application for a workplace health-and-safety committee
(JHSC): members file concerns that the server stores as ciphertext, share one
committee data key to read them, and govern their own membership.  The code
that must not go wrong is spread over three places: SvelteKit client code
(`src/apps/web/src/lib`), Supabase edge functions (`src/supabase/functions`,
which authenticate and forward) and PL/pgSQL functions
(`src/supabase/migrations`), where the transactions are.

This directory holds TLA+ modules of its core, the TLC configurations that
check them on small instances, and proofs checked by TLAPS.  `PROJECT.json`
lists the components, the runs, the hazards they are about, and the source
lines of every definition.

## 1. Inventory

| component | state | operations | hard behaviour |
|---|---|---|---|
| Committee key server (`0007_t07.sql`, `0037`, `0038`, `0042`, `0045`) | `committee_data_keys`, `committee_key_wraps` and its history, `identity_keypairs`, rotation audit rows | enrol, init, wrap, rotate, finalize, revoke, four reads | functions of several statements without a common lock; rotation, key and audit row are independent arguments |
| Committee key holder (`crypto/committee-key-holder.ts`) | map key_id → (buffer, epoch, is_live), live key id, wipe generation | populate, set, wipe, observed rotation, row hint, reads | buffers are handed out by reference and zeroized in place; two notions of "live" kept in step by hand |
| Key ceremonies (`crypto/production-flows.ts`) | one async function's locals | set up and repair, unwrap, grant, rotate on removal, resume | up to seven calls with awaits between them; a sign-out, another ceremony or tab, a lost answer at each |
| Client transport (`edge-fn-fetch-transport.ts`, `hooks.client.ts`, `functions/t07-op`) | the tab's JWT | request, refusal, 401 | a lost answer looks like a lost request; a 401 wipes the holder under everyone's feet |
| Concern flows (`concerns/production-flows.ts`, `0004`, `0040`) | concerns rows, the holder, a per-operation escalation guard | submit, list, reveal (update) | the key may be rotated, purged or wiped between any two awaits; rows carry no key id |
| Committee membership (`0002_committee.sql`, `committee-op`) | membership rows, invites, `users.role` | invite, activate, set roles, remove, reactivate | concurrent transactions; the last co-chair; four-eyes self-removal |
| Invite redemption (`0041`, `0043`, `redeem-invite`, `redeem-flow.ts`, `PendingInvites.svelte`) | TOTP bootstraps, passkeys, invites, the co-chair's list | issue, re-send, redeem, lapse | a re-send, a direct activation, a reactivation and two redemptions of one invite over four tables, whose rows they lock in different orders |
| First co-chair bootstrap (`0035`, `0036`, `bootstrap` function and page) | challenges, the first membership | challenge, bootstrap | single use, behind an advisory lock; a lost answer |
| Auth and sessions (`0001`, `0003`, `0012`–`0014`, `0017`, `0046`, `mint-session`, `auth-op`, `lib/auth`) | sessions, credentials, one JWT per tab | sign in, revoke one or all, revoke a passkey, sign out | calls gated twice, tabs kept in step by broadcast, 401s that arrive late |
| Reprisal reports (`0005`, `reprisal/production-flows.ts`) | reports, pending two-person decisions, audit rows | submit, edit, propose, approve, reveal, expire | row locks of different functions on one report; audit rows with ids drawn before the commit |
| Inspection queue (`inspections/queue.ts`) | queue, pending audit rows, drained mark | enqueue, drain, flush, end | an array walked and emptied across awaits |
| Panic wipe and lock (`lock/*`, `0011`) | all client stores | wipe, lock | the holder is wiped first and the JWT last, with awaits between |
| Retention sweep (`0019`, `0022`, `0023`, `0026`, `0043`) | `audit_log`, `retention_sweep_runs` | nightly sweep | capped arms, classes stamped long before |
| Backup (`lib/backup`, `0024`, `0029`, `0031`) | manifests, bucket | backup pass, ageing-out | a chain of calls that may die anywhere |
| Audit integrity (`0025`, `0030`) | checks and their rows | head against manifest | runs beside a sweep that deletes the newest rows; reads head and manifest with two snapshots |
| Recovery passphrase, onboarding, export, work refusal and s51, service worker, UI, scripts | | | see section 6 |

The interactions that matter: the concern flows and the ceremonies share the
holder of a tab, and a panic wipe empties it under them; a ceremony's calls meet
other tabs' calls in the server's tables; membership gates every call; a
session's end reaches the client as a 401 that clears the JWT of every tab and
wipes the holder; sweep, backup and check meet in the audit log.

What makes each part correct is stated as properties below; the hazards each
property is for are in `PROJECT.json`, at the line where they bite.

## 2. Modules

    KeyHolderOps            the holder's methods as operators on a record
      CommitteeKeyHolder    one holder and the heap, any order of calls
      CommitteeKeyServer    the key tables, one action per statement that matters
        ClientTabs          tabs: JWT, holder, requests, losses, wipes, panic
          KeyCompositions   set-up, unwrap, grant, rotation, resumption
            KeyCompositionsProofs   of the tables and of the ceremonies
          ConcernFlows      submit, list, reveal
            ConcernFlowsProofs      of the holder and of the flows
    CommitteeRoster         what the membership functions promise
      CommitteeMembership   the functions as concurrent transactions
        CommitteeMembershipProofs
    Enrolment               invites, re-sends, redemption, the first co-chair
      EnrolmentProofs
    Sessions                sign-in, revocation, JWTs across tabs
      SessionsProofs
    Reprisals               reports, edits and two-person decisions
      ReprisalsProofs
    AuditUpkeep             sweep, backup, ageing-out, integrity check
      AuditUpkeepProofs
    FieldQueue              the offline inspection queue
      FieldQueueProofs

`MC*` modules give the small instances.

**KeyHolderOps / CommitteeKeyHolder.**  A holder is a record: its entries, the
live key id, the wipe generation.  A buffer is a member of `Buffers`; its bytes
are zero exactly when it is in `filled`.  Each public method that changes
something is an action: `populate` (with `#wipeOrphanedBuffers`), `set`,
`wipe`, `onKeyRotationObserved`, `redesignateLiveIfHeld`.

**CommitteeKeyServer.**  Users, sessions and membership are what the gates
see.  `init`, `rotate`, `finalize` and enrolment are one transaction that holds
an advisory lock or a unique index, hence one action.
`wrap_committee_data_key_for_member` checks and inserts in two statements, and
`revoke_committee_member` archives and deletes in two: these are two actions
each, with the call in between in `granting` and `purging`.

**ClientTabs.**  The layer shared by all client flows.  An async function runs
without interruption from one answer to its next request, so one action is the
code between two awaits.  A request is sent, served once by the server's
transaction, and answered; request or answer may be lost (status 0).  A 401
clears the JWT and wipes the holder before the function sees it; so does
sign-out and, without the JWT, `pagehide`.  `panicWipe` is three steps: its audit
row, the wipe of the holder, and, after the awaited clear steps, the clean-up
that clears the JWT; the tab's operations run on between them.

**KeyCompositions.**  `initCommitteeDataKeyViaProduction`,
`unwrapCommitteeDataKeyViaProduction`, `wrapMemberInViaProduction`,
`rotateCommitteeKeyOnRemovalViaProduction` with its resumption.  An operation's
record holds what the function holds in locals: the latched generation, the
captured key and id, the minted key, the remaining and the pending members, the
count.

**ConcernFlows.**  `ensureHolderPopulated` (probe, self-heal, escalation, single
unwrap), `submitConcernViaProduction`, `listConcernsViaProduction` row by row
with `trialOpen`, `revealConcernSourceViaProduction`.  A ciphertext is
represented by the key it opens under.  That all members hold the same bytes
under one key id is `OneMaterialPerKey` of KeyCompositions.

**CommitteeMembership.**  The functions of 0002 under READ COMMITTED: each
statement takes its own snapshot, `SELECT … FOR UPDATE` waits for the row and
re-reads it, writes appear at commit, anything may roll back.  The scan
`PERFORM 1 … FOR UPDATE` takes a snapshot and then locks row after row, and the
count that follows is a new statement.  **CommitteeRoster** is its abstract
specification: one-step invitations, joins, departures and reappointments under
which the committee never is without an active co-chair.

**Enrolment.**  An invite and its invitee are one name; a code is the number of
its issue.  `redeem_invite_complete`, `reissue_member_totp` and
`bootstrap_first_co_chair` take their locks one by one in `LockOrder` and commit
as one action; now() is the start of the transaction.  So do the calls of
`committee-op` on the invitee's membership: a removal, a reactivation, and
`committee_activate_membership` by itself, which reads the invite without a lock,
locks the membership, then consumes the invite, and leaves the code on file and
binds no passkey.  Around them are the redeem and bootstrap cards (challenge,
ceremony, register, answer, any of them lost or cancelled) and the co-chair's list, whose acting row and phase belong to
the page and not to the call that is under way.

**Sessions.**  A session is named by the assertion that made it.  `mint-session`
is followed call by call: look up the credential, create the row, check that it
is live (F-128), bump the counter.  A revocation passes the precheck of the edge
function, the gate of the SQL function and its UPDATE as three steps.  The JWT
store of each tab tells its siblings through an inbox; a 401 clears whatever JWT
the tab has by then.

**Reprisals.**  A field's ciphertext is the key it is sealed under and the write
that made it.  `reprisal_update` locks and reads, then writes; approvals lock the
pending decision, then the report, draw an audit id, and commit.  Expiry of a
reveal and a rotation of the key fall anywhere between.

**AuditUpkeep.**  The sweep is one action: it is one transaction, and nothing
else deletes rows.  The check is two, as it reads the head and then the latest
manifest by statements that have a snapshot each; `known` records the passes
that had captured a head by the first.  A backup pass and its ageing-out are
chains of calls that die between any two.  A row carries the class that
`retention_class_for` stamped on it: rows about a concern are `match_underlying`,
and of their types `concern.created` and `concern.updated` are on the ceiling
rule's list and `concern.source_revealed` is not.  Time is counted in units of
the shortest period, which keeps the order of the periods.

**FieldQueue.**  `enqueueInspection` suspended at the encryption and at the tag,
`drainQueue` at each POST, `goOnline` at each audit row.  A drain walks the live
array, so an entry pushed meanwhile is walked too, but the mark and the set of
issued numbers are those of its start.

## 3. Runs

| run | instance | shows |
|---|---|---|
| `holder` | 3 keys, 4 buffers, 2 wipes | live designation agrees with the flags; no held buffer is zeroized and every evicted one is; a row hint never moves backwards; an observed rotation keeps the read keys |
| `key_server` | 2 users, 2 keys, 2 materials | one live key with the highest epoch; wraps well formed, a completed rotation was started; a wrap disappears without a copy in the history only if it was inserted between the purge's two statements |
| `key_ceremonies` | 2 ceremonies, 3 people, 3 keys; 6 plans | what ceremonies report is true, wraps of one key id seal the same bytes, a removed member never gets the new key, a dead key is never silent, a wiped holder stays wiped and a tab without a JWT holds no key, every ceremony comes to a result |
| `concerns` | 2 operations of one tab, 2 people, 3 keys; 5 plans | one disclosure per operation, fresh seals, readable rows open, a wipe is final, every operation ends |
| `governance` | 3 people, 2 transactions, 3 role sets | a co-chair remains, `users.role` mirrors the membership, self-loss is seconded, readmission only by reactivation, the roster is implemented |
| `enrolment` | 1 invite, 2 submissions, 1 re-send and 1 membership call at a time, 3 codes, with or without a founder | an invite lets one passkey in, and has then no code on file; a consumed invite is of somebody who is or was a member; two bootstraps make one co-chair; only the newest code redeems; what the card says is so; redemptions, re-sends and bootstraps never deadlock among themselves |
| `sessions` | 2 tabs, 2 sign-ins, 2 calls | the audit rows count every revocation once, a call sent under a dead session changes nothing, a token refused in one tab leaves all |
| `reprisal` | 1 report, 2 decisions, 2 calls, 2 members, 2 keys, 3 writes | the approval with the highest audit id names the status the report has; an edit's hashes are of the version it replaced |
| `audit_upkeep` | 1 concern, 1 backup pass, cap 1, 2 events, 2 sweeps | a sweep deletes only what is due, and all of it but `concern.source_revealed`, or says that it was capped; a committed manifest has its object for its 42 days and a deleted one has none; the head of the log never falls behind a manifest, nor a check's reading of it behind a head captured before |
| `field_queue` | 4 entries, a queue of 3, 2 enqueues at once, 1 failing hook | an accepted inspection is queued or posted, or its loss has an audit row; none is judged twice |
| `purge_race`, `early_deletion` | as `key_ceremonies`, `audit_upkeep` | see below |

Plans.  KeyCompositions and ConcernFlows take from a set of *plans* which
operations run in whose tab, the committee at the start, which events of the
environment may happen, and the bounds on losses (`maxFaults`) and on wipes
(`maxWipes`).  A run covers all of its plans; a plan keeps the state space of one
question small.

Bounds.  Two ceremonies: every race of the code is between two async functions
or between a function and an event of its tab.  Three keys: the first, one
minted by each ceremony.  Two transactions over three people suffice for the
membership, where a race is two removals and the third person is a target or a
second approver; the proof has no bound.  One lost message and one wipe in an
operation reach every error path, as each path is entered by one failure.
Enrolment's races are for one invite, as different invites share no row: two
submissions and a re-send of it, and three codes, the invite's, the re-sent one
and the one that "send a different code" gives.
Two sessions and two tabs give a session each or one shared; the inbox of two
holds a token and its clearing.  In AuditUpkeep a cap of one row makes two due
rows one too many, `MaxTime` lets the longest interval pass, and two events are
a concern filed and its source revealed, two rows one arm has to choose from, or
a row and a check; two sweeps are a capped one and the next.  FieldQueue's cap of
three is below its four numbers, so the refusal of a full queue happens.
`Bounded` of MCCommitteeKeyServer limits the history tables, which only grow.
Symmetry is used in safety runs only; in MCCommitteeMembership it excludes the
founder.  `CHECK_DEADLOCK FALSE` is set where operations come to their end and
nothing more has to happen; the governance run checks deadlock (`Abort` is the
database's resolution of a lock cycle).

Fairness.  `key_ceremonies` and `concerns` assume weak fairness of each
operation's continuation and of each request's settling: the event loop runs
every resolved promise, and `fetch` settles with an answer or an error (the
transport maps an error to status 0).  `sessions` assumes weak fairness of the
delivery of a broadcast, which the browser does.  No fairness is assumed of
users, sessions, other members, of a function that has not begun, or of a
scheduled job.

### What comments say and the code does not do

Two runs look for a violation and find it; each quotes the text.

* `purge_race`: the purge before the re-wrap is to close the removed member's
  window at once (`crypto/production-flows.ts:1142`).  A grant that had passed
  its membership check inserts after it, and a later reactivation finds the wrap.
* `early_deletion`: a forensic reveal's audit rows are to be kept seven years
  (`.context/decisions.md:4064`, `retention/schedule.ts:39`).  The SQL lookup that
  stamps the rows does not know the type (`0043:115`), and they are swept after
  24 months.

TLC found these by the same modules with a property stating the text; the
configurations are not kept:

* stale install: in one tab a grant's unwrap, answered before a rotation,
  installs the retired key over the rotation's holder (`:794` is guarded against
  a wipe but not against a newer `populate`); the rotation re-wraps the retired
  key under the new id and reports ok, which `:954` defines otherwise.
* set-up race: `already_initialised` is documented as a confirmed wrap
  (`:247`, `:336`); the loser of two set-ups gets it from the 409 and has none.
* genuine miss: `concerns/production-flows.ts:636` calls a miss that persists
  after the escalation genuine; a second rotation during the self-heal (`:297`,
  `:313`) leaves a readable record reported `decrypt_failed`.
* retired only: a member with only a retired key's wrap is told `needs_setup`
  (`:232`, `:252`) although the comment promises an escalation.
* resend rows: `PendingInvites.svelte:51` "Only one row acts at a time"; a
  second row's call can start while the first's is under way (`:123`, `:318`).
* revoke message: `SessionsList.svelte:64` "set after a successful revoke"; the
  store drops failures (`supabase-auth-store.ts:334`), so it is set after any.
* split record: `reprisal/production-flows.ts:530` says an older record opens
  under its own epoch's key; after an edit of one field (`:627`) it opens
  under no single key.
* lost bytes: `inspections/queue.ts:357` has it that "rejected entries went to
  quarantine (their bytes still exist in `pending_audits` until goOnline)";
  `quarantine()` (`:371`) keeps number and reason, `inspectQuarantine` answers
  with an empty list (`:400`) and the array is emptied (`:367`): the inspection
  itself is nowhere.  `LossesAreAudited` says what is left, the audit row.
* false `row_unexpected`: the check of 0030 would "only emit a mismatch when the
  comparison can be made unambiguously" (`:105`).  It reads the head and the
  manifest with two snapshots (`:101`, `:102`); a row is written, and a backup
  pass captures the new head and commits, in between, and the check reports the
  newest row lost (`:111`).
* source reveals kept: decisions.md:4068 has it that an audit row "MUST NOT
  outlive the linked record by more than 30 days", and `retention/schedule.ts:63`
  that `concern.source_revealed` is kept for seven years.  The code does neither:
  the row is stamped `match_underlying` (`0004:318`, `0001:207`), the ceiling rule
  lists `concern.created` and `concern.updated` only (`0023:66`), and no sweep
  deletes it, while each reports itself completed.  `SweepIsExact` names the
  exception (`Unswept`).
* false gap: `inspections/queue.ts:300` says a drain "does NOT false-fail a
  subsequent enqueue"; of two entries pushed during a drain the second is
  quarantined for a gap, as the issued set is that of the start (`:277`–`:279`).

Observations made while modelling, without a run:

* keys: `orphaned` is reported after a lost answer of a self-wrap that was
  committed (`crypto/production-flows.ts:1178`); a retired, stillborn key keeps a
  row with no wraps (`:355`);
* records: a concern is filed twice after a lost answer
  (`concerns/production-flows.ts:479`); the rate budgets count and insert without
  a lock (`0004:84`, `0005:92`); `reprisal_approve_status` does not ask whether the
  decision was approved before; an approval begun before the expiry of a reveal
  may commit after the sweep, and nothing calls the sweep;
* membership and enrolment: a direct activation (`committee-op`, `activate`;
  `0002:259`) makes a pending invitee an active member and consumes the invite,
  after which redemption and re-send both refuse: the member has no passkey and
  no way to one, and the code stays on file.  Reactivation accepts a pending
  invitee (`0002:450`), with the same end as long as the member is active;
* deadlocks: a redemption updates the users row (`0041:243`) and then locks the
  membership (`0002:279`); a reactivation or a removal locks the membership
  (`0002:449`) and then updates the users row (`:456`), and a direct activation
  locks the membership and then the invite (`:289`), which a redemption holds.
  TLC finds both circles in Enrolment; the detector's victim is `Abort`, the card
  shows a system error and the same code works again.  In the model every
  circle has a redemption and a membership call in it;
* enrolment: the wrong-code counter is incremented in a transaction that the
  next line aborts (`0041:226`); a lost bootstrap answer leaves the page in error
  although the co-chair exists;
* sessions: a 401 of an old session clears a newer JWT
  (`edge-fn-fetch-transport.ts:109`); "Revoke all other sessions" revokes the
  caller's own too; tabs that set and clear at once may end with different
  tokens, though `session-jwt-store.ts:36` says lockstep;
* panic wipe: the first audit row says `completed: true` before anything is
  destroyed (`panic-wipe.ts:186`) and stays so when its answer is lost and
  nothing is; a partial wipe is marked as wiped, so that a retry is a `no_op`; a
  database whose deletion is blocked by another tab counts as deleted
  (`wipe-store.ts:208`);
* upkeep: rows of reprisal, work-refusal and s51 records are stamped
  `match_underlying` as well, and `0023:66` does not list their types either;
  `dump`, `put` and `delete` of `SupabaseBackupStore` throw `not_implemented`, so no
  backup pass completes in production yet, and the check finds no manifest; the
  check of 0030 compares with the head alone and reports any later ordinary row; a
  `hard_deleted` manifest whose audit row failed is not retried; objects of dead
  passes are never aged out.

## 4. Theorems

| module | theorem | for every value of the constants |
|---|---|---|
| ConcernFlowsProofs | `HolderTypeCorrect` | types |
| | `LiveDesignation` | the flags and the live id agree |
| | `HolderSafe` | no held buffer zeroized, every evicted one is |
| | `RowHintSafe`, `RotationSafe` | what a row hint and an observed rotation may do |
| | `OneDisclosure` | all wraps disclosed at most once per operation |
| | `SealIsFresh` | no seal under zeros or under an older key |
| | `ReadableOpen` | a readable row is opened |
| | `FlowsWipeIsFinal` | a wiped holder stays wiped under the flows |
| KeyCompositionsProofs | `ServerTypeCorrect` | types of the key tables |
| | `OneLiveKey` | one live key, the newest |
| | `RowsWellFormed`, `OnlyLateLost` | rows refer to what exists; a lost wrap was late |
| | `OneMaterial` | wraps of one key id seal the same bytes, never zeros |
| | `WipeIsFinal` | a wiped holder stays wiped, a signed-out tab holds no key |
| | `NoHeldZeroed` | no held key is zeroized under a ceremony |
| | `RemovedStaysOut` | a removed member is not given the key (1) |
| | `NoDeadKeyIsSilent` | a key nobody was given is being seen to, or reported (2) |
| | `ReportsAreCovered` | who is reported covered was given the key (2) |
| CommitteeMembershipProofs | `TypeCorrect`, `MirrorKept` | types; the mirror |
| | `CoChairRemains` | an active co-chair always remains |
| | `SelfLoss`, `Readmission` | four eyes; no return by a stale invite |
| | `Implements` | the functions implement CommitteeRoster |
| EnrolmentProofs | `OnePasskeyIn` | an invite lets one passkey in, and has no code on file then; who has consumed one is or was a member |
| | `CardTellsTruth` | what the cards and the list answer is so |
| | `RedeemedByNewest` | only the newest code redeems |
| | `NoCircle` | redemptions, re-sends and bootstraps never deadlock among themselves |
| SessionsProofs | `RevocationsCounted` | the audit rows add up |
| | `LateCallsRefused` | a call of a dead session changes nothing |
| ReprisalsProofs | `StatusTold` | the highest approval names the status |
| | `PriorKept` | an edit hashes the version it replaces |
| AuditUpkeepProofs | `BucketTold` | manifests tell what the bucket holds |
| | `HeadAhead` | the head stays at or ahead of the latest manifest, and a check's reading of it at or ahead of what was captured before |
| | `SweepExactly` | the sweep deletes only what is due, and all of it but types no arm knows, or says so |
| FieldQueueProofs | `LossesRecorded` | an accepted inspection is queued or posted, or its loss has an audit row |
| | `JudgedOnce` | at most one verdict per entry |

(1) and (2) state the condition under which the property holds of *every* plan.
(1), `NoRegrants`: nobody is reactivated while the ceremonies run, or somebody may
be but no ceremony gives the member the key again (no resumption, no grant to it,
no removal of someone else).  (2), `RowsKept`: no purge deletes a wrap that was
inserted between its two statements.  That loss is the one `OnlyLateLost` leaves
open: a member whose wrap is lost that way was given the key, and no table tells.
Every behaviour of the run `key_ceremonies` meets both: its plans are of kind (1),
and TLC finds no step in them that loses a row.

*Holder.*  The invariant adds that every held buffer was installed at some time
and that a held entry carries the server's epoch, which is what makes a row hint's
comparison of epochs meaningful.  *Server.*  `OneLiveNewest` needs that retired keys
were minted, and `WrapsWellFormed` that the rows of a purge under way seal minted
keys.

*Ceremonies.*  The bytes of a key id are named before they are sealed: `Truth`
pairs the first key with its bytes and the key of each ceremony with what that
ceremony draws for it.  It is a function because an id that a mint has answered
or will answer with is one ceremony's alone (`Minting`), and it only grows.  Then
every row, every request and answer under way and every held buffer agrees with
`Truth` (`RowsTrue`, `Carries`, `HeldFor`).  That needs the heap: what a ceremony
seals is the content of a buffer, so no held buffer may have been zeroized.  A
fetch is opened into buffers of its own, which no holder and no zeroized buffer
can be (`Unused`), and it is installed only if its latch still names the wipe
generation it was dated by (`Timed`): as latches are not newer than the fetch
they guard, no wipe fell in between.  `Shape` says which local states a ceremony
can be in.  `ZeroKeyAssumption` says that random bytes are not zeros.

*Removed members.*  A wrap with the key that a removal minted has passed its
checks, so it names an active member; without reactivation that is not the removed
one.  With it, no list and no target of a ceremony names the member (`Bar`), and
what is not from a list is the minting ceremony's wrap to its own actor (`Posts`).
*Dead keys.*  From the transaction that mints a key to the actor's own wrap of it,
or to a reported failure, the ceremony answers for it (`Debt`, `Accounted`); past
that wrap it goes on with a key its actor was given (`PastOwn`).
*Reports.*  The members of its list that a rotation has neither left nor noted as
pending were given its key, and it counts them (`Covered`, `Tally`).  What it seals
for them is its own key: the holder has it when the list is begun, nobody else
installs into the tab, and a wipe shows in the generation (`Seals`).

*Concern flows.*  The probe names a key that was live when it was served, and
epochs only grow, so the key an operation then designates is none older
(`Fresh`); where operations do not overlap (`Solo`) nobody else designates one in
between, so neither is the key it seals under.  The wraps a member had at the
start are there until a purge archives them (`Lasting`, `Wrapped`).  So if no
answer was lost, the holder was not wiped and the key probed is still live
(`Unhurt`), a fetch of all wraps brings every one of them and a live one; from
then on the holder has them, the row retried finds its key, and the operation
does not end as a miss (`Complete`, `Sure`).  The guard, once spent, stands for
exactly one disclosure (`Shape`).  That no buffer in use is zeroized and that a
wipe is final is the argument of the ceremonies again (`HeldFor`, `Timed`,
`Unused`).

*Enrolment.*  While a call holds the invite's row no other redeems, re-arms or
consumes it, so to a redemption it stays open, and without a passkey, until that
commits (`Stands`); the code on file is always the newest; and what is answered is
fixed by the commit and not by what comes later.  A row held by a redemption, a
re-send or a bootstrap is earlier in its order than what it still wants (`Held`):
so in a circle of these nobody waits for a membership, hence nobody for a users
row, for a code, for an invite.
*Sessions.*  A row is written once and revoked once, by the tab that holds its
assertion (`Minting`), and every token in a store or an inbox is of a row that
was written (`TokensKnown`); so a call that was dead when it was sent stays so.
*Queue.*  A number taken stands once, in the queue or awaiting its tag
(`Numbered`).  What a drain has passed has a verdict, the entries pushed
meanwhile included, so emptying the queue loses nothing (`Judged`); what no
drain has passed has none, unless a hook threw (`Unjudged`).

*Membership.*  `AlwaysACoChair` alone is not inductive.  The invariant adds that
a transaction past its first lock holds its target's row and its early checks
still stand (`LockInv`: nobody else can have changed a locked row), and
`Exclusion`: of two transactions that took their scan and cost an active
co-chair, one still has the other's target to lock.  The later scan saw the
earlier target, as it was locked and unchanged; it cannot lock the row before
the other ends.  So only one of them can have finished its scan, and what it
counted stands until it commits (`Counted`, `Approved`).  The refinement uses
the same invariant: a `Leave` or `Dismiss` needs another chair, which
`Counted` provides.

*Reprisals.*  An edit that has read the prior version and a decision that has
written the status hold the report's row until they commit (`EditStands`,
`DecisionStands`).  So the version an edit read stands until it replaces it; and
a decision's audit id, drawn while it holds the row, is above that of every
decision on the report that committed before (`row \in newest + 1 .. nextRow - 1`),
which is why the order of ids is that of the statuses.

*Upkeep.*  `LastIdHeld`: the last id ever given is in the log, since every
transaction that deletes rows appends one last; a head captured earlier cannot
exceed it.  `PassTellsManifest` and `AgeingIsLate`: what a pass has done fixes its
manifest's status, and what the ageing-out has in hand is past its window, which
no later step can undo.  What a check read is at or ahead of every head
captured by then (`CheckInv`).  *Sweep.*  An arm deletes a type's rows by the
class of any one of them, so exactness needs that a type has one class
(`LogStamped`): the types about a record are the three of concerns
(`ConcernKinds`).  An arm below the cap deleted all it found, by the cardinality
of finite sets (`ArmEmptied`), and every due row but those of `Unswept` is in some
arm (`ArmsAreDue`).

The assumptions are those named in the modules: the sentinels (`NoKey`, `NoUser`,
`NoTx`, `NoCall`, `NoTarget` …) are outside the sets they mark, the founder is a
user, role sets are subsets of the three roles, epochs and plans are well typed,
there are finitely many users (`UsersAssumption`: the proofs count them), bounds
are positive numbers.

Only model-checked: the liveness properties, as TLAPS does not do fairness or
ENABLED.  Every invariant and every action property of a passing run is stated by
a theorem, those marked (1) and (2) under their conditions.

## 5. Abstractions and what is left out of the modules

Ciphertext, signatures, fingerprints and public keys are represented by what
opens what; failing cryptography is not modelled apart from a zeroized key.
Requests authenticate as the tab's user.  Audit rows appear only where a
property is about them.  Rate limits, challenges and attestations are a choice
between going on and a refusal.  One drain and one flush of the queue run at a
time: the code has no guard against two, and no caller yet.  The backup
lease's check and the insert of the pending row are one step.  Nothing under
`src/` deletes a concern, but the sweep of 0023 acts on rows of deleted ones:
`RemoveConcern` is external.  The operator deletes the bootstrap function once it
was used (ADR-0025), so a bootstrap that starts finds no user or loses to one
that overlaps.  Left out: the grace window of a removed member, the update of a
concern but for its audit row, a browser without `BroadcastChannel`
(`session-jwt-store.ts:41`, where tabs are not kept in step), the passphrases of single records, the target of a revocation's
audit row, the lease and the attribution of the integrity check, the rows of a
partial panic wipe.

## 6. Plan and not modelled

Done, with proofs: holder, key server and ceremonies; concern flows; membership;
redemption, re-send and bootstrap; sessions; reprisal reports; sweep, backup and
integrity check; the inspection queue; and the panic wipe as the tab's operations
meet it.

Next, proofs: `NoDeadKeyIsSilent` and `ReportsAreCovered` without the condition
`RowsKept`, from a record of what was ever inserted; the refinement of the server's
tables by the ceremonies (`ServerSpec`), so that the theorems of the tables hold of
the ceremonies by citation.

Not modelled:

* **Recovery passphrase.**  One row of one user, written and read by single
  statements.  Its view cap counts and inserts without a lock, so that
  overlapping views exceed it; nothing else depends on the count.
* **Work refusal and s51 evidence.**  The functions of 0006 are those of 0005 that
  file and edit a report, over other tables and without decisions: `Submit`,
  `ReadPrior` and `Edit` of Reprisals have their statements and locks.
* **Onboarding.**  A step machine of one user without concurrency.
* **Export, service worker, alerts, search, the Svelte pages other than those
  named above, scripts and CI.**  Presentation, formatting, caching of static
  files and build checks.  They are a large part of the lines of the repository
  and hold no state of the protocols.
* **Library code that production does not call:** the chain walk of
  `audit-integrity/integrity-core.ts`, `retention-core.ts`, the memory stores and the
  demos.
