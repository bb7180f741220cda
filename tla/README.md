# Chitãozinho: specifications, model checking and proofs

TLA+ modules of the capture service of this repository, the TLC configurations
that check them and TLAPS proofs of their main properties. Paths below are
relative to the repository; `API` is `apps/api/src/chitaozinho_api`, `EXT` is
`apps/extension/src`.

    tlc -workers 2 -config CaptureParts.cfg MCCaptureServer
    tlapm CaptureServer_proofs.tla

`PROJECT.json` is the index: components, runs, mutants, the lines each
definition models, hazards and theorems.

## 1. The system

A browser extension records a web page as a *capture session*: screenshots,
page source and video, cut into parts, described by signed entries of a hash
chain. The API stores the bytes (or, in `hash_only` mode, only their hashes),
gives signed receipts, signs a manifest, and later adds time-stamps and
OpenTimestamps proofs. Verifiers check the resulting package offline.

| Component | State | Operations | Correct when |
|---|---|---|---|
| Capture session API (`API/main.py`, `models.py`, `schemas.py`) | session row, chain entries, parts, artifacts, receipts, incidents | create, register key, event, upload part, complete, unavailable, finalize | one gapless chain; receipts, bytes, artifacts and manifest agree; repetitions are recognised; nothing changes after the manifest |
| Part storage (`API/storage.py`) | part objects, final objects, packages | put_part, read, protect_final, delete_session | bytes once acknowledged are never replaced |
| Audit trail (`API/audit.py`, migration 0008) | audit events, checkpoint | append, verify, retire | always verifies; only an old prefix goes |
| Time-stamp jobs (`API/jobs.py`, `worker.py`, `proof_service.py`, `proof_storage.py`) | jobs, attempts, attestations, proof objects | enqueue, claim, run, complete, fail; synchronous request | evidence of each attempt is kept, results exist, jobs end, no deadlock |
| OpenTimestamps (`API/ots_processor.py`, `proof_service.py`, `proofs.py`) | batches, memberships, complements, upgrade jobs | create batch, ensure and claim jobs, upgrade | what is retained verifies, an upgrade is tried again, the loops batch a session once |
| Retention, privacy (`API/retention*.py`, `privacy_cleanup.py`) | storage status, deadlines, rows and objects that go | expire, purge session, erase account, retire audit | nothing still needed is deleted, what is due is deleted in the end and completely, no orphan rows |
| Packages (`API/packaging.py`, `proof_bundle.py`, `download_tokens.py`) | package files, tokens | build, protect, download | a package is kept for the promised time (that a session has one package does not hold: section 3) |
| Authentication (`API/auth.py`) | links, tokens, attempts | request, exchange, authenticate | a link works once, requests exceed the limits by no more than overlap (that they stay within them does not hold: section 3) |
| Signing and keys (`API/security.py`, `key_management.py`) | key material, OpenBao token | sign, renew | outside the models |
| Extension (`EXT/background.ts`, `part-upload.ts`, `db.ts`, `chain.ts`, `offscreen.ts`) | IndexedDB session and parts, operation queue, recorder | start, capture, upload, resume, stop, discard | what the chains of the two sides may differ by is bounded (that a capture goes on after a loss does not hold: section 3); complete means sealed; the queue drains |
| Verifiers (`apps/verifier-cli`, `apps/verifier-web`) | none | verify a package | accept what the service produces |
| Protocol packages, observability, scripts, infra | none | canonical JSON, hashes, signatures; logs; deployment | outside the models |

How they interact. The extension calls the API over HTTP and retries after
lost answers. API handlers are transactions on PostgreSQL that lock the session
row; part bytes go to the object store *inside* the transaction. Every
transaction appends to the shared audit chain under one advisory lock. Workers
poll the `jobs` table and share it, and the session row, with synchronous
requests. A daily cleanup deletes sessions, jobs and the old audit prefix under
the feet of all of them. The verifiers only see packages.

What is hard: a crash between the store and the commit; repetitions of
requests whose answer was lost, with idempotency keys that share one column
with keys the server derives; uploads that straddle a finalization; two
processes that run one job because the first looked abandoned; objects that
can be written once and outlive a rollback; a wall clock that is set back; lock
order among handlers, workers and cleanup; two loops and three kinds of process
that share batches; an expiry that deletes without a lock; an account that goes
while its owner is at work; answers lost between two chains that should stay one; a disk that no deployment outlives.
Each is in `PROJECT.json` under
`hazards`, at its line, with the properties aimed at it or the reason why
none is yet.

## 2. Modules

| Module | Models | Proofs |
|---|---|---|
| `SealedLog` | what a log promises: grows by one fact at its end until it is sealed | |
| `CaptureServer` | one session at the API, with its storage | `CaptureServer_proofs` |
| `CaptureClient` | the extension, the network, and with them `CaptureServer` | `CaptureClient_proofs`, `CaptureChains_proofs` |
| `AuditLog` | the audit chain and its retirement | `AuditLog_proofs` |
| `TimestampJobs` | RFC 3161 jobs, workers and requests on one session | `TimestampJobs_proofs` |
| `MerkleTree` | the tree of a batch and its proofs, a pure algorithm | `MerkleTree_proofs` |
| `OtsPipeline` | OpenTimestamps batches, their upgrades and the purge of their sessions | `OtsPipeline_proofs` |
| `Retention` | packages, downloads and the expiry of the bucket | `Accounts_proofs` |
| `Accounts` | accounts, links, erasures, and with them `Retention` | `Accounts_proofs` |
| `MC...` | the instances TLC checks | |

Composition. `CaptureClient` extends `CaptureServer`: its requests are handled by
the actions of that module, not by a summary of them. `Accounts` extends
`Retention`: erasures and expiries meet in one state. `OtsPipeline` builds the
proofs of its batches with `MerkleTree` and checks them with its `VerifyProof`.

`CaptureServer` and `AuditLog` both implement `SealedLog` (`INSTANCE ... WITH`):
the first with its chain of entries as the log and the signed manifest as the
seal, the second with the history its last hash commits to as a log that is
never sealed.

Conventions. Variables are named after tables and columns, actions after
handlers. What a handler answers is an operator `...Outcome`; its action acts on
the outcomes that change state and on no other (a refused request or a repetition
answered from the rows changes nothing). A definition `MutantX` beside `X` is
the form `X` would take with a plausible bug; no specification uses it. It
records that the property named in `PROJECT.json` fails when the bug is there.

### CaptureServer

One action per handler: `CreateSession`, `RegisterKey`, `CreateEvent`,
`PutPart`/`CommitPart`, `CompleteArtifact`, `DeclareUnavailable`,
`FinalizeSession`. All but the upload are one step, because
`require_capture_session(for_update=True)` (main.py:1746) makes the handlers of a
session run one by one. The upload is two: `storage.put_part` (main.py:802) takes
effect at once, the rows only at the commit (main.py:871); `upload` is the
process in between, which holds the row. `Crash` and `Redeploy` happen there too.
`ValidEntry` is `validate_entry`, `ValidClose` is `validate_capture_close`.

A hash is the value it commits to, so `EntryHash` of an entry is the sequence
of all entries before it; a signature is the key that made it; a part has one
unit of size; `marker` stands for the three event types that obey its rules;
wall-clock times and challenges are left out. Requests are enumerated by
`Requested`: an entry that extends any stored entry, with any clock, time, data
and signing key, under a fresh, a used or (`ChosenKeys`) a derived idempotency
key. Bounds: `MaxTime`, `MaxEntries` and `MaxIncidents`; the size limits are
settings of the service.

### CaptureClient

The background script is a queue (`mail`, background.ts:41) and the operation it
runs (`op`): a script of tasks, each of which touches IndexedDB once or talks to the
server once, because everything else in the operation happens between two
`await`s. `Scripts` is `handleMessage`; `StartScripts`, `ResumeScript`, `StopScript`
are `startCapture`, `resumeCapture` and `stopCapture`. A task inside a `try` names the
artifact that the `catch` declares unavailable (`Handler`); a start has the first
screenshot in it or, when that cannot be taken, its declaration (`Screenshots`). `op.s` is the session an
operation has in memory, `local` the one in IndexedDB, and which of the two a task
uses is the code's choice: `appendEvent` uses the first, `declareUnavailable` and
`completeStoredArtifact` read the second.

`STOP_CAPTURE` alone runs outside the queue (`stopper`, background.ts:225): it
asks the recorder to stop, waits for the chunks that are pending (`left`), and then
queues the finalization; its error is read and written outside the queue as well
(`ReadForError`, `SaveError`). `recorder` is the offscreen document. `wire` holds
requests the server has not handled; a call fails (`GiveUp`) while its request is
still there, or after it was handled, or the server dies under it; requests arrive
late, in any order, or never. `Die` ends the background script, with the browser or
without; the recorder lives on when only the script ends, and its failed chunk is kept
from the server (`recorder.failed`). `overwrote` is a history variable: a stop's error has replaced a session that
the queue had advanced or deleted since it was read.

Bounds: `MaxInputs`, `MaxChunks`, `MaxFaults`, and one stop at a time (`PressStop`): the
popup disables its buttons until the answer, but one that is closed and opened again
could send a second `STOP_CAPTURE` meanwhile. `QueueStep` are the script's own
steps, so that fairness can be given to them and not to the network or the user.

### AuditLog

`Write` is `append_audit_event` in any transaction, `Retire` the transaction of
`cleanup_personal_data` (`retire_audit_prefix`, then the event that records it).
Both hold the advisory lock (`lock`) until `Commit` or `Rollback`; until then their
rows are in `work`. `today` is the time the cleanup computed its cutoff from; the
clock may be set anywhere at any step. `TriggerAllows` is the trigger of
migration 0008. Bounds: `MaxClock`, `MaxEvents`.

### TimestampJobs

A process, worker or request, is a transaction script; `pc` says at which
commit, lock or object write it is. `session` and `rows` are the two locks:
the session's row and a job's advisory lock and row, which are merged because
only requests keep either while they wait and always take both.
`objects` are written once and survive rollbacks; a query has a random nonce,
so the bytes are identified by their writer (`by`). `Outage` is a failing
statement, `Die` the death of a process; both are bounded by `MaxFaults`.
`mark_job_failed` and `mark_job_completed` read and write the job in one step.
Time is two flags: `due` (available_at) and `fresh` (updated_at).

### MerkleTree

`NextLevel` is one turn of the loop of `build_merkle_proofs`, `OneTurn` the loop's
condition with it, and `Turns` the states after each turn, a recursive function
on 0 .. `Len(leaves)`; `Climb` is the same for the loop of `verify_merkle_proof`. That
every proof verifies is a theorem for any number of leaves. `MCOtsPipeline` assumes (`ProofsAreSound`, which TLC
evaluates) that for 1 to 9 leaves the root is that of the tree given by its shape
alone, that every proof has a step per level and verifies, and that none verifies
for another leaf.

### OtsPipeline

Like `TimestampJobs` a set of transaction scripts: a process is a *loop* (the
worker and the ots-processor run the same one), an *operator* at a batch endpoint
or a *cleanup* (the daily one, or the erasure of an account); `role` says which.
Row locks of sessions and batches are taken one by one in the order of the code
(`LockNextSession`, `LockBatch`, `LockShared`), so that circles can close;
`BreakDeadlock` is PostgreSQL's answer to them. `objects` is the proof store,
which keeps what a rolled-back transaction wrote; what such a transaction put into
the scope of its sessions is in `strays`. `anchors` is how many calendars have
anchored a root, and stands for the bytes of a proof upgraded then. `ended` gives each
session its turn in the order of `ended_at`; `withheld` are the sessions the loops leave out
for their storage status (ots_processor.py:44). `stamping` is the session's own RFC 3161
job, as much of it as a purge can see: queued, running in the worker, asked for, or held
by a request that waits for the session; `CheckJobs` locks it with those of the batches,
waits for a held one (`AwaitsStamp`) and refuses a running one. `begun`
and `cleared` are history: purges that have deleted something, sessions whose account
was erased.

### Retention

`Admit`, `LinkPackage`, `WriteHash`, `ProtectFinal`, `RecordProtection` are the two
download handlers with `ensure_package` and `protect_final_artifact`, cut where they
commit, where a process may die with a file half made, and where the bucket may
fail; `ListDue`, `DeleteSession`, `MarkExpired`, `MarkFailed` are
`expire_due_sessions`, and `EmptyPrefixes` is `delete_session` with its three prefixes.
The deadline is computed when the protection begins (`until`, retention.py:25) and
recorded after the upload, against the one read before. `StoreProof` is whoever stores
proofs of a session, expired or not. `Redeploy` is a deployment of the API, which has
no volume (.railway/railway.ts:93): another certificate or the same, and an empty disk.

It models the beta with evidence mode `remote`, which `config.py` allows with
authentication by links. The current deployment sets `hash_only`
(.railway/railway.ts:55), where both downloads answer 409 (main.py:1672); what it models
there is what is left of sessions made before.

Time is counted in retention periods. A package is the certificate it was signed with.
`promised` is history: a period after the beginning of the first protection that stored
the package; `late` marks sessions with a download under way
between the deletion of their objects and the commit of the expiry, `reproved` those whose
proofs were stored after that deletion.

### Accounts

Visitors ask for links (`CountAttempts`, `FindAccount`, `IssueLink`), browsers exchange
them and create sessions (`LockLink`, `Grant`, `Authenticate`, `InsertSession`),
cleanups erase an account or do the daily round. Which locks a process holds
follows from where it is (`UserHolders`, `AuditFree`). `attempts` are the rows of
`magic_link_request_attempts`, `sent` those for which a link was issued. The purge of a session is one
step here that may fail; its inside is in `OtsPipeline`.

All models assume PostgreSQL. On SQLite, the development default, nothing is
locked and handlers of one session can interleave; `API/config.py:181` requires
PostgreSQL outside local development.

## 3. Runs

| Run (cfg) | Instance | States | Shows |
|---|---|---|---|
| capture_chain (`CaptureChain`) | 2 keys, 2 clocks, times 0..1, 5 entries | 73 k | `ChainIntact`, `ClocksMonotone`, `LogRefined` |
| capture_parts (`CaptureParts`) | 1 artifact, 2 parts, 2 contents, both modes, 5 entries, derived keys | 700 k | `TypeOK`, `ReceiptsLinked`, `ReceiptedBytesHeld`, `ManifestCoversSession`, `RepetitionAnswered`, `SealedForever` |
| capture_client (`CaptureClient`) | a tab kept remotely, a desktop in `hash_only` mode; 2 inputs, 2 chunks, 1 fault | 294 k | `DivergenceBounded`, `PartsNeverConflict`, `CompleteMeansSealed`, `QueueDrains` |
| audit_log (`AuditLog`) | 2 writers, clock 0..3, 5 events | 126 k | `AuditVerifies`, `RetirementAccepted`, `HistoryOnlyGrows`, `OnlyOldPrefixRetired` |
| timestamp_workers (`TimestampWorkers`) | 2 workers, 1 request, 2 jobs, 1 fault | 302 k | `EvidenceKept`, `AttemptsAttested`, `ResultsAttested` |
| timestamp_requests (`TimestampRequests`) | 1 worker, 2 requests with one key, 2 faults | 21 k | `NobodyWaitsInACircle`, `JobsSettle`, `RequestsAnswered` |
| ots_pipeline (`OtsPipeline`) | 13 scenes of at most 3 processes, 3 of them with timestamps, 3 sessions, 2 batches, 2 calendars, 1 fault | 73 k | `RetainedProofsVerify`, `PurgedLeaveNothing`, `TimestampsKeepTheirSession`, `ComplementsAttested`, `UpgradesKeepTheirBatch`, `LoopsBatchOnce`, `SessionsBatched`, `PendingTriedAgain`, `PurgesEnd` |
| accounts (`Accounts`) | 7 scenes of 2 to 4 actors, 2 sessions, 4 links, 2 signers, 2 periods, 2 outages | 482 k | `ExpiredEmptied`, `KeptForAPeriod`, `EvidenceIsKnown`, `NoOrphans`, `LinkUsedOnce`, `ExcessBounded`, `DueExpires` |
| capture_replay, timestamp_crash, timestamp_repeat, accounts_limit | as a run of the same module, or smaller | | the four findings below |

The type invariants of all models are theorems, and only that of `CaptureServer` is
listed in a run too, the properties listed being the ones that can really go wrong.

Why the bounds are enough. Five entries hold a genesis, two interleaved clocks
and a return to the first (what `LatestOf` must get right), or a genesis, two
parts, a completion and `capture_finished` (a whole session with an artifact of
two parts). Two contents per part are what a conflicting retry needs; two keys
what a foreign signature needs. Four clock values with a retention of one give
events on both sides of the cutoff, in and out of order, and a clock set
back; five events allow two retirements with appends between them and a trail
emptied by one. Two workers are what a reclaimed job needs, two requests with
one key what a repetition needs; with two faults both requests and the worker
can be disturbed, so that a job really is abandoned. Symmetry is used for
clocks, contents, writers and workers, only in runs without liveness.

A *scene* is an initial state: who acts, what there is, how much may fail.
Six actors at once in one instance would be out of reach, and the hazards listed
need two or three: two loops that select the same sessions, a loop and a cleanup
on one batch, an operator and two cleanups of two members, a loop, an operator and
a cleanup in a circle of locks, a cleanup and a timestamp of its session; two downloads
and an expiry, a download and a timestamp with an expiry, the same with an erasure, two visitors at a limit, a visitor, a browser and an
erasure, two browsers with one link and an erasure, a browser and two erasures. Two
members are what a batch needs to be shared; two calendars give a first upgrade, a
second one that improves on it and none beyond; two periods a deadline that passes
and another that is set meanwhile; two signers a deployment with another certificate between two
packages.

For the extension, one fault is a lost answer, a lost request that arrives late, a
death or a server's death at any point of any script, and two inputs are a resumption
and a stop after it, or two messages behind each other in the queue; two chunks are
what a pending part needs that is followed by another. A tab adds an artifact made of
several tasks, the `catch` blocks and screenshots; `hash_only` the context artifact
of the stop.

`TimestampWorkers` and `TimestampRequests` use an authority that answers with a
valid token; one that fails is in `TimestampRepeat`. `CHECK_DEADLOCK FALSE` is set
because a session that was sealed, or requests that were all answered, really
stop.

Fairness. `TimestampJobs`: Strong fairness of each process's own steps
and of taking the session's row: the worker loops and is restarted, a server
thread runs on, PostgreSQL queues the waiters of a lock. Weak fairness of
`BecomeDue` and `BecomeStale`: time passes. No client is obliged to send a request,
no fault to happen, and no step to be fast. `JobsSettle` is checked with one job. With
two, the model would let a job that always fails be claimed again before a younger
one each time, because its backoff is not timed; in the code the delay grows.

`OtsPipeline`: weak fairness of the steps of each loop, operator and cleanup, since
they run for ever and are restarted; strong fairness of taking locks, which PostgreSQL
grants in turn, of claiming each upgrade job, since jobs are claimed in the order
of `available_at`, and of timestamps under way taken together (one of them ends, or is
taken over by another worker, worker.py:33); weak fairness of `BreakDeadlock` and `CancelStamp`, the deadlock
detector. `Accounts`: strong fairness of each expirer, which runs every day and whose
commits wait for a row in turn; weak fairness of what a download has begun; of nothing
else. `CaptureClient`: weak fairness of `QueueStep` and `StopperStep` (the
scripts of the extension run on), of serving the request whose sender waits and of
committing its upload. In none of them must a user act, a fault happen, a deadline pass
or a request nobody waits for arrive.

What the properties exempt is what the code does not promise; each exemption is a
named operator or variable, so that it covers nothing else:

* `Abandoned` (`PendingTriedAgain`): an upgrade job whose process died stays running
  and no loop claims it again (ots_processor.py:96); a purge of its session is
  refused ever after (`PurgesEnd`). So does an upgrade that is running stand in the way
  of a purge each time. (A timestamp of the session that is running refuses the purge as
  well, but ends, and `PurgesEnd` exempts none.) A job that an operator's upgrade overtook is completed
  although the batch is still pending.
* `SessionsBatched` leaves out a session whose files expired first or could not be deleted
  (`withheld`: ots_processor.py:44), and one that a cleanup has listed: the loops skip a
  locked row.
* `late` (`ExpiredEmptied`, `EvidenceIsKnown`): a download under way between the
  deletion and the commit of the expiry puts its package back, and no later run looks
  at the session again (retention_cleanup.py:41). `reproved` (`ExpiredEmptied`): so do
  the proofs stored after the deletion (main.py:1320).
* `overwrote` (`DivergenceBounded`, `PartsNeverConflict`, `CompleteMeansSealed`): the record
  of a stop's error, outside the queue, may replace a newer session. Without the
  exemption each of the three fails: the chain in IndexedDB falls back behind the
  server's, a deleted session comes back and gives its part numbers again, or a
  screenshot that was queued in between is forgotten and the capture is completed
  without it.
* `DiscardBlocks` (`QueueDrains`): `DISCARD_FAILED_CAPTURE` waits inside the queue for a
  recorder that waits for a chunk behind it in the queue (background.ts:155).

`DivergenceBounded` and `ExcessBounded` are bounds, not promises kept: they say how far a
capture may part from its server after a lost answer, and how far a limit is passed.

### Findings

* **Repetition after closing** (`CaptureReplay`). SPEC.md:1000 promises that an
  identical repetition of an event returns the earlier result; `create_event`
  checks first whether the session is still open (main.py:561) and answers 409.
* **Poisoned attempt** (`TimestampCrash`). The time-stamp query has a random nonce
  and is stored before the attempt commits (proof_service.py:126); after a death
  in between every retry computes the same attempt number and is refused.
* **Two answers for one key** (`TimestampRepeat`). `get_or_create_job` commits
  before `lock_job` locks again; with a worker in between, two requests with one
  key are answered with two attestations.
* **Limits passed** (`AccountsLimit`). Attempts are counted without a lock (auth.py:176), so
  requests that overlap get more links than docs/authentication.md:22 allows.

Seen while modelling, without a run of their own. The first four are at odds with a
document of the repository, and TLC refuted a property that says so when it was asked:

* **No resumption after a lost answer.** `appendEvent`, `declareUnavailable` and
  `completeStoredArtifact` advance the chain in IndexedDB after the answer
  (background.ts:894). When it is lost the server is one entry ahead; the next
  entry, that of the resumption too, takes the same number with another time of day and is
  refused, for ever: only parts are stored with their entries and sent again. A part
  queued then has a chain of its own from there on. ACEITE.md:261 ticks the
  resumption after a lost connection.
* **A second package.** The API has no volume (.railway/railway.ts:93), so after a
  deployment `ensure_package` signs a package again (packaging.py:92), and with another
  certificate it is another one; both are in the bucket under the session. SPEC.md:920
  wants later versions to be complements.
* **Proofs after expiry.** Timestamps and batches store proofs of a session that has
  expired (main.py:1320), and no run deletes them before its metadata are purged;
  docs/operations.md:131 says that they expire with the session.
* **Parts without receipts.** An event of type `artifact_part` is accepted and finalized
  without a receipt (main.py:592); docs/verification.md:21 and the verifiers require one.

The repository does not speak of the others:

* A complement is stored before its row commits (proof_service.py:323); after a death
  the calendars may have more, and the store refuses the other bytes for ever.
* A batch that an operator creates without submitting it takes its sessions from
  the loops for good: they have a membership, and the batch is not pending.
* A first download that is slow can record a deadline that is earlier than the one a
  faster one has recorded meanwhile, since it compares with what it read before
  (retention.py:42), by at most the time its upload took. Evidence is still kept a period from the
  beginning of the first upload (`KeptForAPeriod`).
* A timestamp job inserted while its session is being purged (main.py:1396) stays behind and
  is tried again for ever.
* A screenshot whose upload was lost cannot be declared unavailable, since the entry of
  its part comes first in the chain; a resumption sends the part but does not complete
  the artifact, and the server refuses a close that does not account for the part.
* A resumption whose marker fails leaves the recorder running; the next resumption is
  refused with "recorder is already active".
* A death of the background script while the status is "starting" or "finalizing"
  leaves a session for which the popup offers no button.

## 4. Proofs

For every value of the constants that satisfies the `ASSUME`s (bounds are
natural numbers, the sets of rows and of actors that are counted are finite, actors
of different kinds are different, there is a key to sign with, `None` is none of the values it stands in for,
initial scenes are of the sets the code has):

| Theorem | Says | Argument |
|---|---|---|
| `CaptureServer_proofs!TypeCorrect` | `[]TypeOK` | each handler writes rows of the declared kind; one lemma per handler |
| `ChainAlwaysIntact`, `ClocksNeverRunBack` | `[]ChainIntact`, `[]ClocksMonotone` | the invariant `ChainInv` |
| `SealedOnce` | `SealedForever` | `ChainInv` gives that a signed session is closed and no upload is under way (`SealedRefuses`), so no handler passes `Ready` |
| `LogImplemented` | `LogRefined` | under `ChainInv` the rows are a function of their number, so adding row `nextSeq` appends to `Chain`, and nothing else changes it |
| `ReceiptsAlwaysLinked`, `BytesAlwaysHeld` | `[]ReceiptsLinked`, `[]ReceiptedBytesHeld` | the invariant `Evidence` |
| `RepetitionsAnswered` | `[]RepetitionAnswered` | the row that answered is still there, and its key belongs to it alone |
| `ManifestAlwaysCovers` | `[]ManifestCoversSession` | `ValidClose` checks it once, `SealedRefuses` keeps it |
| `CaptureClient_proofs!ClientTypeCorrect` | `[]ClientTypeOK` | the invariant `BaseInv` |
| `ChainIntactUnderClient`, `ReceiptsLinkedUnderClient`, `ManifestCoversUnderClient` | `[]ChainIntact`, `[]ReceiptsLinked`, `[]ManifestCoversSession`, of `ClientSpec` | a step of the composed system takes the server one step of its own handlers or none |
| `CaptureChains_proofs!PartsAgree` | `[]PartsNeverConflict` | `LedgerInv`: one number, one part, one entry |
| `DivergenceAlwaysBounded` | `[]DivergenceBounded` | `Coverage`, `RowsInv` and `ChainRel`: a row that is not in the extension's chain links to the end of it, and there is only one |
| `CompleteAlwaysSealed` | `[]CompleteMeansSealed` | `SealInv`; the parts follow from `Coverage`, because the signed chain ends at a row |
| `AuditLog_proofs!AuditTypeCorrect`, `AuditAlwaysVerifies` | `[]TypeOK`, `[]AuditVerifies` | the invariant `AuditInv` |
| `OldPrefixOnly` | `OnlyOldPrefixRetired` | a commit installs `work`, which lacks only old events |
| `RetirementNeverBlocked` | `[]RetirementAccepted` | what is older than `today` is older than the clock unless it was set back |
| `TrailImplementsLog` | `HistoryOnlyGrows` | the history of `work` extends the committed one by one fact, with a retirement or without |
| `TimestampJobs_proofs!JobsTypeCorrect` | `[]TypeOK` | `TypeInv`: where a process is tells what it carries (`Placed`) |
| `NobodyDeadlocks` | `[]NobodyWaitsInACircle` | `Held`: who has the session waits for nobody |
| `AttemptsAlwaysAttested` | `[]AttemptsAttested` | `Numbered`: who has the session has the next number |
| `EvidenceAlwaysKept` | `[]EvidenceKept` | `Written`: its objects are its own, for a number is written once |
| `ResultsAlwaysAttested` | `[]ResultsAttested` | `Carried`: what a process will report exists when it gives up the session |
| `MerkleTree_proofs!ProofsVerify` | every proof of `BuildProofs` passes `VerifyProof` and has the one root, for any leaves | least counterexample, below |
| `ProofsBind` | a path that leads to a root from one leaf leads there from no other, for any path | an inner hash tells its children |
| `OtsPipeline_proofs!PipelineTypeCorrect`, `PipelineInvariant` | `[]TypeOK`, `[]PipelineInv` | rely and guarantee, below |
| `RetainedVerify`, `PurgesComplete`, `UpgradesAttested` | `[]RetainedProofsVerify`, `[]PurgedLeaveNothing`, `[]ComplementsAttested` | conjuncts of `PipelineInv` |
| `UpgradesUndisturbed` | `[]UpgradesKeepTheirBatch` | `UpgradeReady` and `ClaimedOnce` |
| `TimestampsUndisturbed` | `[]TimestampsKeepTheirSession` | a purge that deletes has seen no timestamp under way and none can start under its locks |
| `SessionsBatchedOnce` | `LoopsBatchOnce` | `BatchReady`: what a loop selected is in no batch while it has the locks |
| `Accounts_proofs!AccountsTypeCorrect` | `[]TypeOK`, of both modules | `PeopleInv` |
| `PromisesAreKept`, `ExpiredStaysEmpty`, `EvidenceStaysKnown` | `[]KeptForAPeriod`, `[]ExpiredEmptied`, `[]EvidenceIsKnown` | the invariant `StoredInv` |
| `LinksGrantOnce` | `[]LinkUsedOnce` | `GrantsHeld`: one browser at a time has read that a link is unused |
| `NothingIsOrphaned` | `[]NoOrphans` | `OrphansInv`: who inserts a session holds its owner's row |
| `ExcessStaysBounded` | `[]ExcessBounded` | `RequestsCounted`: who has counted and not committed is counted with the links sent |

Why the inductive invariants say more than the properties:

* **`ChainInv`** (`CaptureServer`). An upload validates its entry in one step
  and adds it in a later one, so it also says that the entry of a pending upload is
  still a valid extension of the chain (nobody else gets the row), that
  entries are only there once a key is registered, and that the manifest and the
  closed status come together. `ClocksMonotone` needs the latest row of the clock to be
  the maximum, which holds because rows are numbered without gaps.
* **`Evidence`** adds what a pending upload has stored (`UploadPrepared`), that
  no name in the store has two contents (`OneContent`, from `put_part`'s refusal), and
  that every part and every captured result has its entry (`PartsRecorded`,
  `ResultsRecorded`). A crash keeps it because bytes without a row only make the next
  upload of other bytes fail.
* **`BaseInv`** (`CaptureClient`) is `ServerInv`, the three invariants of the server, and
  `ClientInv`. The proofs never enumerate scripts: `Formed` says of
  whatever is left of a script, after any sequence of tasks, failures and `catch` blocks,
  in which order its tasks stand (a queued part is completed next, a package is asked for
  after the finalization, nothing follows a deletion); dropping the first task and
  `Handler` keep it. `LiveInv` says that an operation that still needs the session has it;
  `CallInv` that the request it waits for is the one its task makes of what it has in
  memory; `StoreInv` that the parts of an artifact are numbered without a gap; `WireInv`
  that what is under way carries the data of its kind. `TypeOK`, `ChainInv` and `Evidence`
  are carried over from `CaptureServer` because what the extension sends, when it is
  accepted, is an entry of the server's type (`AcceptedEntry`).
* **`LedgerInv`**: part requests survive the operation that sent them, so the stored
  part they were made from is not enough. There is a set of *claims* (artifact, number, bytes,
  entry), one for a number, that has every part request under way, every object and
  every row of a part, and whose members are the parts of IndexedDB while the capture is there. The
  set is existential: it is what was sent so far, and no variable records it.
* **`MeetInv`** relates four chains. `CopyInv`: the session in memory has the chain of the one in
  IndexedDB, or the operation reads it before it uses it (`Tolerant`), which is what makes
  `appendEvent` and `declareUnavailable` extend the same chain though they use different
  copies. `ReadInv`: the copy of a stop's error is never ahead of IndexedDB; that it
  may be behind is why `overwrote` is exempted. `RowsInv`: the rows of the server are the prefixes of one
  chain. `ChainRel`: whatever was stored, sent or recorded links to a prefix of the extension's
  chain, so that a late request can add at most one entry beyond it. `Coverage`: each
  prefix of the extension's chain is a row or a kept part; it needs `AnswerInv`
  (what was answered with success was carried out, so an acknowledged part is a row).
  `PartsBacked` and `RootKept` lead from the signed root back to the rows and from the
  rows to the parts; `SealInv` says when the extension may believe that all is signed.
* **`AuditInv`**: what the lock's holder has prepared verifies,
  extends the committed history by one event and lacks only events older than `today`.
* **`TimestampJobs`**: layers, each proved on the ones before. `Held` says that exactly
  the process between `LockSession` and its commit has the session, which makes the
  number it took unique (`Numbered`) although a second process may run its job;
  objects of that number are its own or of a dead process that had the same number, in
  which case `PutRefused` stops it (`Written`).
* **`PipelineInv`** = `TypeOK`, `Own(p)` for each process, and `Tables`. `Own(p)` is
  what p relies on where it is: which locks it has and what it read under them
  (`BatchReady`, `UpgradeReady`, `PurgeReady`). `Guarantee(p)` is what a step of p does to
  the rest: it moves only p, changes a row only while p holds it, deletes only
  under its locks. `OthersKept` shows once that a step with that guarantee disturbs
  `Own` of nobody else, so each action is examined for its own process and the
  tables only, instead of for every pair of actions. `UnusedBlank` is needed by the
  attestations of a new batch, `RowsExist` by the locks of purged sessions, and
  `RetainedProofsVerify` needs `ProofsVerify` and that `InOrder` lists its set.
* **`MerkleTree`**. The provers have no induction scheme for data, but the least
  element of a set of numbers exists (`WFMin`): among the turns after which the
  state of the loop is not as it should be (`TreeOK`: each leaf under one hash, its path
  leading there, the level shorter than before) there would be a first, and the
  turn before it is a counterexample to `NextLevelOK`. That the recursive functions
  exist at all is shown in the same way (`FollowsExists`).
* **`StoredInv`** (`Retention`) says that what a download carries as a deadline was a
  period after some moment, and none before `promised` once a package is stored; that no
  recorded deadline precedes `promised`, what an expirer listed was due, and what is emptied
  stays so unless a download was under way or proofs were stored. It is proved for `RetentionStep`,
  which is `RetentionNext` and the little another module does to this state (rows created
  and purged); each action of `Accounts` is shown to be such a step.
* **`PeopleInv`, `OrphansInv`** (`Accounts`): who holds an account's row
  (`InsertersOwned`, `HoldersApart`), and that links and sessions are left for whoever is
  to get one. `RequestsCounted` bounds, for one email or address, the links sent
  together with the visitors who have counted and not yet committed by the limit and the
  number of other visitors, since the sum grows only while the committed attempts are
  below the limit. `NewAttempt` numbers the rows, so that no two of the set are one.

Only model-checked: the four findings, and every liveness property
(`JobsSettle`, `RequestsAnswered`, `SessionsBatched`, `PendingTriedAgain`, `PurgesEnd`,
`DueExpires`, `QueueDrains`): the provers do not
handle fairness. Every other property of a passing run is a theorem.

## 5. Plan

Done: all modules with their runs; the theorems above, which state every safety property
of the passing runs.

Left, in this order:

1. `UploadLoop`: the event loop that blocks on a row lock (main.py:651).
2. `PackageVerifier`: what the API finalizes is accepted by both verifiers.

## 6. Not modelled

The presentation of the user interfaces, file formats of packages and bundles,
canonical JSON and cryptography (assumed injective and unforgeable), OpenBao and the key
tools, logging and metrics, deployment scripts; status codes of errors beyond the
outcomes that change state; SQLite's lack of locking; several sessions at once in
`CaptureServer`, which share only the audit trail and the job queue.

Storage: the object lock of the provider `ceph`, whose objects the expiry leaves
alone. Authentication: the delivery of mail (it happens or not), cookies and origins,
the limit per minute, the ownership checks of the other routes. Cleanup: the
deletion of old rate-limit rows and of finished jobs. Downloads: proof bundles (in the bucket under
`final/` like packages) and download tokens. Jobs: a timestamp inserted while its session
is purged. Extension: page source and page metadata (artifacts taken like the first
screenshot), the loss of the requests that create a session and register its key,
the building of local packages, counters, messages that change no capture, and two stops
at once. The verifiers are pure functions of a package and wait for `PackageVerifier`.
