---------------------------- MODULE OtsPipeline ----------------------------
(***************************************************************************)
(* OpenTimestamps batches of finalized sessions and their erasure          *)
(* (ots_processor.py, the batch functions of proof_service.py, the two     *)
(* batch endpoints of main.py and purge_session of privacy_cleanup.py).    *)
(*                                                                         *)
(* The worker and the ots-processor run the same loop: make up for missing *)
(* upgrade jobs, batch the finalized sessions, run the upgrade jobs.       *)
(* Operators call the endpoints.  Cleaners (the daily cleanup, the erasure *)
(* of an account) purge sessions whose batch other sessions share, and     *)
(* which have RFC 3161 timestamps of their own under way (TimestampJobs).  *)
(*                                                                         *)
(* A process is a transaction script: its steps are the points where it    *)
(* commits, waits for a row lock or writes to the proof store.  Statements *)
(* between two of them are one step.                                       *)
(*                                                                         *)
(* Abstractions: sessions are numbered in the order of their ids; how many *)
(* calendars have anchored a root in Bitcoin stands for the bytes of a     *)
(* proof upgraded then; when a job is due is left open; the advisory       *)
(* lock of get_or_create_job makes its look-up and insertion one step; the *)
(* objects of a batch whose creation is rolled back bear an id nobody      *)
(* knows, except in the scope of its sessions (`strays', which timestamps  *)
(* are among too); a session has one timestamp job at most, which is a     *)
(* worker's or a request's, and none is inserted while it is being purged. *)
(***************************************************************************)
EXTENDS FiniteSets, MerkleTree

CONSTANTS
  Sessions,    \* 1 .. n, in the order of their ids
  Batches,     \* 1 .. n, the batches that may be created, in order of their ids
  HashOnly,    \* the sessions whose files never reached the server
  Procs,       \* processes and requests
  BatchSize,   \* settings.ots_batch_size
  Calendars,   \* the calendars a root is submitted to
  Verdicts,    \* what inspect_ots and verify_ots may say of an anchored proof
  Scenarios,   \* bound: [role, sessions, stamping, anchors, faults]: what each
               \* process does, the sessions there are and the timestamps asked of
               \* them, how many calendars anchor, the deaths and failing
               \* statements that may occur
  None

\* A loop runs ots_processor.run_once (the worker, the ots-processor), an
\* operator is a request to a batch endpoint, a cleanup runs privacy_cleanup.
Roles == {"loop", "operator", "cleanup", "absent"}

Pending == "pending_confirmation"

ASSUME PipelineAssumption ==
  /\ Sessions \subseteq Nat /\ IsFiniteSet(Sessions) /\ HashOnly \subseteq Sessions
  /\ Batches \subseteq Nat /\ IsFiniteSet(Batches)
  /\ Procs \cap Nat = {} /\ None \notin Procs \cup Nat
  /\ BatchSize \in Nat \ {0} /\ Calendars \in Nat
  /\ \A scene \in Scenarios :
       /\ scene.role \in [Procs -> Roles]
       /\ scene.sessions \subseteq Sessions
       /\ scene.stamping \in [Sessions -> {"none", "queued", "asked"}]
       /\ scene.anchors \in 0 .. Calendars /\ scene.faults \in Nat
       /\ Cardinality(Batches) >=
            (IF \E p \in Procs : scene.role[p] = "loop" THEN Cardinality(scene.sessions) ELSE 0)
            + Cardinality({p \in Procs : scene.role[p] = "operator"})
  /\ Verdicts \subseteq {Pending, "bitcoin_attestation_available", "confirmed",
                         "verification_failed"}

VARIABLES
  role,          \* per process, what it does; never changes
  anchors,       \* how many calendars will anchor; never changes
  life,          \* per session: open, finalized or gone
  ended,         \* per session, its turn in the order of ended_at; 0 if it is open
  cleared,       \* sessions whose prefixes were deleted by expire_due_sessions
  expired,       \* those of them with storage_expired_at set
  withheld,      \* sessions with a storage_status of expired or expiration_failed
  stamping,      \* per session, its timestamp job: none that may still run, queued
                 \* for the worker or asked of a request, running at a worker, or
                 \* held: its row is locked by the request
  anchoring,     \* per session, blockchain_status
  attestations,  \* per session, its OpenTimestamps attestations in sequence
  batches,       \* per batch, its status
  members,       \* per batch, the sessions with a membership row
  complements,   \* per batch, the rows of its upgrades: content and status
  jobs,          \* per batch, its ots_upgrade job
  objects,       \* the proof objects of the store
  strays,        \* sessions with a timestamp, or a proof of a batch that was rolled back
  sessionRow,    \* per session, the process that holds its row, or None
  batchRow,      \* per batch, the process that holds its row, or None
  pc,            \* per process, where it is
  run,           \* per process, what it works on
  begun,         \* sessions whose proofs a purge has begun to delete
  faults         \* the faults that may still happen

rows   == <<sessionRow, batchRow>>
site   == <<role, anchors, life, ended, cleared, expired, withheld, stamping>>
ledger == <<anchoring, attestations, batches, members, complements>>
store  == <<objects, strays>>
vars   == <<site, ledger, jobs, store, rows, pc, run, begun, faults>>

With(r)   == {p \in Procs : role[p] = r}
Loops     == With("loop")
Operators == With("operator")
Cleaners  == With("cleanup")

\* sessions: those p locks or purges; batches: those it looks at; emptied:
\* those a purge leaves without a member; batch: the one p upgrades; number,
\* content, status: the complement it makes.
NoRun == [sessions |-> {}, batches |-> {}, batch |-> None,
          emptied |-> {}, number |-> 0, content |-> 0, status |-> None]

\* The objects of a batch, in its own scope, and of a membership, in the
\* scope of its session.
RootObject(b, leaves) ==
  [scope |-> "merkle", owner |-> b, name |-> 0, content |-> <<"root", RootHash(leaves)>>]
UpgradeObject(b, number, content) ==
  [scope |-> "merkle", owner |-> b, name |-> number, content |-> <<"upgraded", content>>]
ProofObject(b, proof) ==
  [scope |-> "sessions", owner |-> proof.leaf, name |-> b, content |-> <<"proof", proof>>]

InScope(scope, owner) == {o \in objects : o.scope = scope /\ o.owner = owner}

Held(b, number) == \E o \in InScope("merkle", b) : o.name = number

-----------------------------------------------------------------------------
(***************************************************************************)
(* Row locks.                                                              *)
(***************************************************************************)
Goto(p, label) == pc' = [pc EXCEPT ![p] = label]

\* The end of p's transaction.
Release(p) ==
  /\ sessionRow' = [s \in Sessions |-> IF sessionRow[s] = p THEN None ELSE sessionRow[s]]
  /\ batchRow' = [b \in Batches |-> IF batchRow[b] = p THEN None ELSE batchRow[b]]

LockedSessions(p) == {s \in Sessions : sessionRow[s] = p}
LockedBatches(p)  == {b \in Batches : batchRow[b] = p}

\* Rows are locked in the order of their ids, one after the other.
Least(S) == CHOOSE x \in S : \A y \in S : x <= y

\* A cleanup goes through its sessions one by one.
Target(c) == Least(run[c].sessions)
Wanted(p) == IF p \in Cleaners THEN {Target(p)} ELSE run[p].sessions

SessionsToLock(p) == {s \in Wanted(p) \ LockedSessions(p) : life[s] # "gone"}
BatchesToLock(p)  == run[p].batches \ LockedBatches(p)

\* A purge has locked the row of the job.
JobLocked(b) ==
  \E c \in Cleaners : pc[c] \in {"deleting", "counting", "erasing"} /\ b \in run[c].batches

\* The process p is waiting for.
Blockers(p) ==
  (CASE pc[p] \in {"gathering", "recording", "purging"} /\ SessionsToLock(p) # {}
          -> {sessionRow[Least(SessionsToLock(p))]}
     [] pc[p] = "locking" -> {batchRow[run[p].batch]}
     [] pc[p] = "sharing" /\ BatchesToLock(p) # {} -> {batchRow[Least(BatchesToLock(p))]}
     [] OTHER -> {}) \ {None, p}

Waiting == {p \in Procs : Blockers(p) # {}}

\* Processes that wait for each other in a circle.
Deadlocked(S) == UNION {Blockers(p) : p \in S} = S

LockNextSession(p) ==
  /\ pc[p] \in {"gathering", "recording", "purging"}
  /\ SessionsToLock(p) # {}
  /\ sessionRow[Least(SessionsToLock(p))] = None
  /\ sessionRow' = [sessionRow EXCEPT ![Least(SessionsToLock(p))] = p]
  /\ UNCHANGED <<site, ledger, jobs, store, batchRow, pc, run, begun, faults>>

\* lock_capture_sessions has returned, with all of them or without those
\* that were purged meanwhile.
GotAll(p)  == Wanted(p) = LockedSessions(p)
GotLess(p) == SessionsToLock(p) = {} /\ ~GotAll(p)

-----------------------------------------------------------------------------
(***************************************************************************)
(* run_once: jobs that are missing, then a batch.                          *)
(***************************************************************************)
ReadPending(p) ==
  /\ pc[p] = "idle" /\ p \in Loops
  /\ run' = [run EXCEPT ![p].batches = {b \in Batches : batches[b] = Pending}]
  /\ Goto(p, "ensuring")
  /\ UNCHANGED <<site, ledger, jobs, store, rows, begun, faults>>

\* get_or_create_job returns the job there is, whatever its status.
GetOrCreateJob(b) ==
  jobs' = IF jobs[b] = "absent" THEN [jobs EXCEPT ![b] = "pending"] ELSE jobs

MutantEnsureJob(p) ==
  /\ pc[p] = "ensuring"
  /\ \E b \in run[p].batches : run' = [run EXCEPT ![p].batches = @ \ {b}]
  /\ UNCHANGED <<site, ledger, jobs, store, rows, pc, begun, faults>>

EnsureJob(p) ==
  /\ pc[p] = "ensuring"
  /\ \E b \in run[p].batches :
       /\ GetOrCreateJob(b)
       /\ run' = [run EXCEPT ![p].batches = @ \ {b}]
  /\ UNCHANGED <<site, ledger, store, rows, pc, begun, faults>>

MutantEligible(s) ==
  /\ life[s] = "finalized" /\ anchoring[s] = "not_submitted" /\ s \notin withheld
  /\ sessionRow[s] = None

\* The query of create_pending_batch, which skips locked rows.
Eligible(s) ==
  /\ life[s] = "finalized" /\ anchoring[s] = "not_submitted" /\ s \notin withheld
  /\ \A b \in Batches : s \notin members[b]
  /\ sessionRow[s] = None

NextSessions ==
  LET waiting == {s \in Sessions : Eligible(s)}
  IN  {s \in waiting : Cardinality({t \in waiting : ended[t] < ended[s]}) < BatchSize}

SelectSessions(p) ==
  /\ pc[p] = "ensuring" /\ run[p].batches = {}
  /\ sessionRow' = [s \in Sessions |-> IF s \in NextSessions THEN p ELSE sessionRow[s]]
  /\ run' = [run EXCEPT ![p].sessions = NextSessions]
  /\ Goto(p, IF NextSessions = {} THEN "upgrading" ELSE "batching")
  /\ UNCHANGED <<site, ledger, jobs, store, batchRow, begun, faults>>

\* POST /v1/merkle-batches names the sessions and waits for their rows.
RequestBatch(p) ==
  /\ pc[p] = "unsent" /\ p \in Operators
  /\ \E S \in (SUBSET Sessions) \ {{}} : run' = [run EXCEPT ![p].sessions = S]
  /\ Goto(p, "gathering")
  /\ UNCHANGED <<site, ledger, jobs, store, rows, begun, faults>>

Manifested(p) == GotAll(p) /\ \A s \in run[p].sessions : life[s] = "finalized"

GatherSessions(p) ==
  /\ pc[p] = "gathering" /\ SessionsToLock(p) = {}
  /\ IF Manifested(p)
     THEN Goto(p, "batching") /\ UNCHANGED <<rows, run>>
     ELSE Goto(p, "done") /\ Release(p) /\ run' = [run EXCEPT ![p] = NoRun]
  /\ UNCHANGED <<site, ledger, jobs, store, begun, faults>>

-----------------------------------------------------------------------------
(***************************************************************************)
(* create_merkle_batch: the objects, then the rows, in one commit.         *)
(***************************************************************************)
Unused == {b \in Batches : batches[b] = "unused"}

InOrder(S) ==
  CHOOSE q \in [1 .. Cardinality(S) -> S] : \A i, j \in DOMAIN q : i < j => q[i] < q[j]

Leaves(p) == InOrder(run[p].sessions)

Attest(S, b, number, status) ==
  attestations' = [s \in Sessions |->
    IF s \in S THEN Append(attestations[s], [batch |-> b, number |-> number, status |-> status])
    ELSE attestations[s]]

MutantCreateBatch(p, submitted) ==
  /\ pc[p] = "batching" /\ Unused # {}
  /\ LET b == Least(Unused)
         status == IF submitted THEN Pending ELSE "not_submitted"
         proofs == BuildProofs(Leaves(p))
     IN  /\ batches' = [batches EXCEPT ![b] = status]
         /\ members' = [members EXCEPT ![b] = run[p].sessions]
         /\ anchoring' = [s \in Sessions |->
              IF s \in run[p].sessions THEN status ELSE anchoring[s]]
         /\ Attest(run[p].sessions, b, 0, status)
         /\ objects' = objects \cup {ProofObject(b, proofs[i]) : i \in DOMAIN proofs}
              \cup {RootObject(b, InOrder({s \in Sessions : ended[s] # 0}))}
         /\ run' = [run EXCEPT ![p] = [NoRun EXCEPT !.batch = b]]
  /\ Release(p)
  /\ Goto(p, IF p \in Loops THEN "created" ELSE "done")
  /\ UNCHANGED <<site, complements, jobs, strays, begun, faults>>

CreateBatch(p, submitted) ==
  /\ pc[p] = "batching" /\ Unused # {}
  /\ LET b == Least(Unused)
         status == IF submitted THEN Pending ELSE "not_submitted"
         proofs == BuildProofs(Leaves(p))
     IN  /\ batches' = [batches EXCEPT ![b] = status]
         /\ members' = [members EXCEPT ![b] = run[p].sessions]
         /\ anchoring' = [s \in Sessions |->
              IF s \in run[p].sessions THEN status ELSE anchoring[s]]
         /\ Attest(run[p].sessions, b, 0, status)
         /\ objects' = objects \cup {RootObject(b, Leaves(p))}
              \cup {ProofObject(b, proofs[i]) : i \in DOMAIN proofs}
         /\ run' = [run EXCEPT ![p] = [NoRun EXCEPT !.batch = b]]
  /\ Release(p)
  /\ Goto(p, IF p \in Loops THEN "created" ELSE "done")
  /\ UNCHANGED <<site, complements, jobs, strays, begun, faults>>

\* A loop submits the root; a request does as it was asked.
Batch(p) == \E submitted \in BOOLEAN :
  (p \in Loops => submitted) /\ CreateBatch(p, submitted)

MutantFailBatch(p) ==
  /\ pc[p] = "batching"
  /\ faults > 0
  /\ faults' = faults - 1
  /\ \E S \in {{}, run[p].sessions} : strays' = strays \cup S
  /\ anchoring' = [s \in Sessions |-> IF s \in run[p].sessions THEN Pending ELSE anchoring[s]]
  /\ Release(p)
  /\ run' = [run EXCEPT ![p] = NoRun]
  /\ Goto(p, IF p \in Loops THEN "idle" ELSE "done")
  /\ UNCHANGED <<site, attestations, batches, members, complements, jobs, objects, begun>>

\* The calendars, the store or the database failed: the rows are rolled
\* back, proofs may be left in the scopes of the sessions.
FailBatch(p) ==
  /\ pc[p] = "batching"
  /\ faults > 0
  /\ faults' = faults - 1
  /\ \E S \in {{}, run[p].sessions} : strays' = strays \cup S
  /\ Release(p)
  /\ run' = [run EXCEPT ![p] = NoRun]
  /\ Goto(p, IF p \in Loops THEN "idle" ELSE "done")
  /\ UNCHANGED <<site, ledger, jobs, objects, begun>>

CreateUpgradeJob(p) ==
  /\ pc[p] = "created"
  /\ GetOrCreateJob(run[p].batch)
  /\ run' = [run EXCEPT ![p] = NoRun]
  /\ Goto(p, "upgrading")
  /\ UNCHANGED <<site, ledger, store, rows, begun, faults>>

-----------------------------------------------------------------------------
(***************************************************************************)
(* upgrade_merkle_batch, for a claimed job or for the upgrade endpoint.    *)
(***************************************************************************)
\* A job put off or failed in this turn of the loop is not due again in it.
Due(p) == {b \in Batches \ run[p].batches : jobs[b] \in {"pending", "failed"}}

\* claim_upgrade_job skips locked rows and running jobs; mark_job_running.
ClaimUpgrade(p, b) ==
  /\ pc[p] = "upgrading" /\ b \in Due(p) /\ ~JobLocked(b)
  /\ jobs' = [jobs EXCEPT ![b] = "running"]
  /\ run' = [run EXCEPT ![p].batch = b, ![p].batches = @ \cup {b}]
  /\ Goto(p, "locking")
  /\ UNCHANGED <<site, ledger, store, rows, begun, faults>>

Exists(b) == batches[b] \notin {"unused", "deleted"}

FinishTurn(p) ==
  /\ pc[p] = "upgrading" /\ \A b \in Due(p) : JobLocked(b)
  /\ run' = [run EXCEPT ![p] = NoRun]
  /\ Goto(p, "idle")
  /\ UNCHANGED <<site, ledger, jobs, store, rows, begun, faults>>

RequestUpgrade(p) ==
  /\ pc[p] = "unsent" /\ p \in Operators
  /\ \E b \in Batches : Exists(b) /\ run' = [run EXCEPT ![p].batch = b]
  /\ Goto(p, "locking")
  /\ UNCHANGED <<site, ledger, jobs, store, rows, begun, faults>>

MutantLockBatch(p) ==
  /\ pc[p] = "locking"
  /\ IF Exists(run[p].batch) /\ batches[run[p].batch] # "not_submitted"
     THEN /\ run' = [run EXCEPT ![p].number = Len(complements[run[p].batch]) + 1]
          /\ Goto(p, "fetching")
     ELSE Goto(p, "failing") /\ UNCHANGED run
  /\ UNCHANGED <<site, ledger, jobs, store, rows, begun, faults>>

\* A batch that was purged meanwhile, or never submitted, fails the upgrade.
LockBatch(p) ==
  /\ pc[p] = "locking"
  /\ batchRow[run[p].batch] = None
  /\ IF Exists(run[p].batch) /\ batches[run[p].batch] # "not_submitted"
     THEN /\ batchRow' = [batchRow EXCEPT ![run[p].batch] = p]
          /\ run' = [run EXCEPT ![p].number = Len(complements[run[p].batch]) + 1]
          /\ Goto(p, "fetching")
     ELSE Goto(p, "failing") /\ UNCHANGED <<batchRow, run>>
  /\ UNCHANGED <<site, ledger, jobs, store, sessionRow, begun, faults>>

\* The content of the proof that is upgraded; no calendar anchored the first.
SourceContent(b) ==
  IF complements[b] = <<>> THEN 0 ELSE complements[b][Len(complements[b])].content

\* What the calendars may have by now.
Improvements(b) == SourceContent(b) + 1 .. anchors

\* inspect_ots and verify_ots: a proof that lacks no calendar is not pending.
VerdictsOn(content) == IF content < Calendars THEN Verdicts ELSE Verdicts \ {Pending}

\* The source and the root are read from the store.
SourceHeld(b) == Held(b, Len(complements[b])) /\ Held(b, 0)

\* The calendars have nothing new: the transaction is rolled back and the
\* job, if there is one, put off.
StillPending(p) ==
  /\ pc[p] = "fetching"
  /\ SourceHeld(run[p].batch)
  /\ jobs' = IF p \in Loops
             THEN [jobs EXCEPT ![run[p].batch] = "pending"]
             ELSE jobs
  /\ Release(p)
  /\ run' = [run EXCEPT ![p] = [NoRun EXCEPT !.batches = run[p].batches]]
  /\ Goto(p, IF p \in Loops THEN "upgrading" ELSE "done")
  /\ UNCHANGED <<site, ledger, store, begun, faults>>

\* put_once refuses a name that holds other bytes.
PutRefused(b, number, content) ==
  \E o \in InScope("merkle", b) : o.name = number /\ o.content # <<"upgraded", content>>

\* The upgraded proof is inspected and stored, then the members are read.
PutComplement(p) ==
  /\ pc[p] = "fetching"
  /\ SourceHeld(run[p].batch)
  /\ \E content \in Improvements(run[p].batch) : \E verdict \in VerdictsOn(content) :
       /\ ~PutRefused(run[p].batch, run[p].number, content)
       /\ objects' = objects \cup {UpgradeObject(run[p].batch, run[p].number, content)}
       /\ run' = [run EXCEPT ![p].content = content, ![p].status = verdict,
                             ![p].sessions = members[run[p].batch]]
  /\ Goto(p, "recording")
  /\ UNCHANGED <<site, ledger, jobs, strays, rows, begun, faults>>

RefusedUpgrade(p) ==
  /\ pc[p] = "fetching"
  /\ \/ ~SourceHeld(run[p].batch)
     \/ \E content \in Improvements(run[p].batch) :
          PutRefused(run[p].batch, run[p].number, content)
  /\ Goto(p, "failing")
  /\ UNCHANGED <<site, ledger, jobs, store, rows, run, begun, faults>>

\* The complement, the state and an attestation of each member, in one commit;
\* "Merkle membership references a missing session" if a member was purged.
RecordComplement(p) ==
  /\ pc[p] = "recording" /\ SessionsToLock(p) = {}
  /\ IF GotAll(p)
     THEN LET b == run[p].batch
          IN  /\ complements' = [complements EXCEPT ![b] =
                   Append(@, [content |-> run[p].content, status |-> run[p].status])]
              /\ batches' = [batches EXCEPT ![b] = run[p].status]
              /\ anchoring' = [s \in Sessions |->
                   IF s \in run[p].sessions THEN run[p].status ELSE anchoring[s]]
              /\ Attest(run[p].sessions, b, run[p].number, run[p].status)
              /\ Release(p)
              /\ IF p \in Loops
                 THEN Goto(p, "settling") /\ UNCHANGED run
                 ELSE Goto(p, "done") /\ run' = [run EXCEPT ![p] = NoRun]
     ELSE Goto(p, "failing")
          /\ UNCHANGED <<complements, batches, anchoring, attestations, rows, run>>
  /\ UNCHANGED <<site, members, jobs, store, begun, faults>>

SettleJob(p) ==
  /\ pc[p] = "settling"
  /\ jobs' = [jobs EXCEPT ![run[p].batch] =
       IF run[p].status = Pending THEN "pending" ELSE "completed"]
  /\ run' = [run EXCEPT ![p] = [NoRun EXCEPT !.batches = run[p].batches]]
  /\ Goto(p, "upgrading")
  /\ UNCHANGED <<site, ledger, store, rows, begun, faults>>

\* mark_job_failed, if the job still is; the error ends the turn of the loop.
FailUpgrade(p) ==
  /\ pc[p] = "failing"
  /\ Release(p)
  /\ jobs' = IF p \in Loops /\ jobs[run[p].batch] # "absent"
             THEN [jobs EXCEPT ![run[p].batch] = "failed"]
             ELSE jobs
  /\ run' = [run EXCEPT ![p] = NoRun]
  /\ Goto(p, IF p \in Loops THEN "idle" ELSE "done")
  /\ UNCHANGED <<site, ledger, store, begun, faults>>

-----------------------------------------------------------------------------
(***************************************************************************)
(* purge_session, in a transaction per session.                            *)
(***************************************************************************)
MutantStartCleanup(c) ==
  /\ pc[c] = "idle" /\ c \in Cleaners
  /\ \E S \in SUBSET {s \in Sessions \ begun : life[s] # "gone"} :
       S # {} /\ run' = [run EXCEPT ![c].sessions = S]
  /\ Goto(c, "purging")
  /\ UNCHANGED <<site, ledger, jobs, store, rows, begun, faults>>

\* cleanup_personal_data lists the sessions that are twelve months old, or
\* those of an account: a session once listed will be listed again.
StartCleanup(c) ==
  /\ pc[c] = "idle" /\ c \in Cleaners
  /\ \E S \in SUBSET {s \in Sessions : life[s] # "gone"} :
       /\ S # {} /\ {s \in begun : life[s] # "gone"} \subseteq S
       /\ run' = [run EXCEPT ![c].sessions = S]
  /\ Goto(c, "purging")
  /\ UNCHANGED <<site, ledger, jobs, store, rows, begun, faults>>

Purgeable(s) == s \in HashOnly \/ s \in expired

\* The transaction of a target ends, committed, refused or failed.
NextTarget(c) ==
  LET rest == run[c].sessions \ {Target(c)}
  IN  /\ Release(c)
      /\ run' = [run EXCEPT ![c] = [NoRun EXCEPT !.sessions = rest]]
      /\ Goto(c, IF rest = {} THEN "idle" ELSE "purging")

MutantReadMembership(c) ==
  /\ pc[c] = "purging" /\ (GotAll(c) \/ GotLess(c))
  /\ IF GotAll(c) /\ Purgeable(Target(c))
     THEN /\ run' = [run EXCEPT ![c].batches = {b \in Batches : Target(c) \in members[b]}]
          /\ Goto(c, "deleting") /\ UNCHANGED rows
     ELSE NextTarget(c)
  /\ UNCHANGED <<site, ledger, jobs, store, begun, faults>>

\* With the session's row, or without the session.
ReadMembership(c) ==
  /\ pc[c] = "purging" /\ (GotAll(c) \/ GotLess(c))
  /\ IF GotAll(c) /\ Purgeable(Target(c))
     THEN /\ run' = [run EXCEPT ![c].batches = {b \in Batches : Target(c) \in members[b]}]
          /\ Goto(c, "sharing") /\ UNCHANGED rows
     ELSE NextTarget(c)
  /\ UNCHANGED <<site, ledger, jobs, store, begun, faults>>

LockShared(c) ==
  /\ pc[c] = "sharing" /\ BatchesToLock(c) # {}
  /\ batchRow[Least(BatchesToLock(c))] = None
  /\ batchRow' = [batchRow EXCEPT ![Least(BatchesToLock(c))] = c]
  /\ UNCHANGED <<site, ledger, jobs, store, sessionRow, pc, run, begun, faults>>

MutantCheckJobs(c) ==
  /\ pc[c] = "sharing" /\ BatchesToLock(c) = {}
  /\ stamping[Target(c)] # "held"
  /\ IF stamping[Target(c)] # "running"
     THEN Goto(c, "deleting") /\ UNCHANGED <<rows, run>>
     ELSE NextTarget(c)
  /\ UNCHANGED <<site, ledger, jobs, store, begun, faults>>

\* The jobs of the session itself are forgotten.
MutantCheckShared(c) ==
  /\ pc[c] = "sharing" /\ BatchesToLock(c) = {}
  /\ IF \A b \in run[c].batches : jobs[b] # "running"
     THEN Goto(c, "deleting") /\ UNCHANGED <<rows, run>>
     ELSE NextTarget(c)
  /\ UNCHANGED <<site, ledger, jobs, store, begun, faults>>

\* scope_ids: the session and its batches.  It waits for a job whose row a
\* request has locked and which waits for the session.
AwaitsStamp(c) ==
  pc[c] = "sharing" /\ BatchesToLock(c) = {} /\ stamping[Target(c)] = "held"

\* The rows of the jobs are locked; a running one refuses the purge.
CheckJobs(c) ==
  /\ pc[c] = "sharing" /\ BatchesToLock(c) = {} /\ ~AwaitsStamp(c)
  /\ IF stamping[Target(c)] # "running" /\ \A b \in run[c].batches : jobs[b] # "running"
     THEN Goto(c, "deleting") /\ UNCHANGED <<rows, run>>
     ELSE NextTarget(c)
  /\ UNCHANGED <<site, ledger, jobs, store, begun, faults>>

DeleteProofs(c) ==
  /\ pc[c] = "deleting"
  /\ objects' = objects \ InScope("sessions", Target(c))
  /\ strays' = strays \ {Target(c)}
  /\ begun' = begun \cup {Target(c)}
  /\ Goto(c, "counting")
  /\ UNCHANGED <<site, ledger, jobs, rows, run, faults>>

\* The rows of the session are deleted, not yet committed; a batch with no
\* member left is deleted too, its objects first.
DeleteShared(c) ==
  /\ pc[c] = "counting"
  /\ LET emptied == {b \in run[c].batches : members[b] = {Target(c)}}
     IN  /\ objects' = objects \ UNION {InScope("merkle", b) : b \in emptied}
         /\ run' = [run EXCEPT ![c].emptied = emptied]
  /\ Goto(c, "erasing")
  /\ UNCHANGED <<site, ledger, jobs, strays, rows, begun, faults>>

\* The jobs go with their rows; a process at work on one would not notice.
CommitPurge(c) ==
  /\ pc[c] = "erasing"
  /\ life' = [life EXCEPT ![Target(c)] = "gone"]
  /\ stamping' = [stamping EXCEPT ![Target(c)] =
       IF @ \in {"queued", "asked"} THEN "none" ELSE @]
  /\ members' = [b \in Batches |-> members[b] \ {Target(c)}]
  /\ attestations' = [attestations EXCEPT ![Target(c)] = <<>>]
  /\ anchoring' = [anchoring EXCEPT ![Target(c)] = "not_submitted"]
  /\ batches' = [b \in Batches |->
       IF b \in run[c].emptied THEN "deleted" ELSE batches[b]]
  /\ complements' = [b \in Batches |-> IF b \in run[c].emptied THEN <<>> ELSE complements[b]]
  /\ jobs' = [b \in Batches |-> IF b \in run[c].emptied THEN "absent" ELSE jobs[b]]
  /\ NextTarget(c)
  /\ UNCHANGED <<role, anchors, ended, cleared, expired, withheld, store, begun, faults>>

-----------------------------------------------------------------------------
(***************************************************************************)
(* The environment.                                                        *)
(***************************************************************************)
\* POST /finalize (CaptureServer).
Finalize(s) ==
  /\ life[s] = "open" /\ sessionRow[s] = None
  /\ life' = [life EXCEPT ![s] = "finalized"]
  /\ ended' = [ended EXCEPT ![s] = Cardinality({t \in Sessions : ended[t] # 0}) + 1]
  /\ UNCHANGED <<role, anchors, cleared, expired, withheld, stamping, ledger, jobs, store, rows,
                 pc, run, begun, faults>>

\* expire_due_sessions deletes the prefixes of a session, its proofs among
\* them, without a lock, ...
Clear(s) ==
  /\ life[s] = "finalized" /\ s \notin HashOnly \cup cleared
  /\ cleared' = cleared \cup {s}
  /\ objects' = objects \ InScope("sessions", s)
  /\ strays' = strays \ {s}
  /\ UNCHANGED <<role, anchors, life, ended, expired, withheld, stamping, ledger, jobs, rows,
                 pc, run, begun, faults>>

\* ... and then waits for the row to record it.
Expire(s) ==
  /\ life[s] = "finalized" /\ s \in cleared \ expired /\ sessionRow[s] = None
  /\ expired' = expired \cup {s}
  /\ withheld' = withheld \cup {s}
  /\ UNCHANGED <<role, anchors, life, ended, cleared, stamping, ledger, jobs, store, rows, pc,
                 run, begun, faults>>

\* What it could not delete it records too, whether or not the proofs went.
FailExpiry(s) ==
  /\ life[s] = "finalized" /\ s \notin HashOnly \cup expired /\ sessionRow[s] = None
  /\ faults > 0 /\ faults' = faults - 1
  /\ withheld' = withheld \cup {s}
  /\ UNCHANGED <<role, anchors, life, ended, cleared, expired, stamping, ledger, jobs, store,
                 rows, pc, run, begun>>

\* A download that was under way, or comes after a failed expiry, writes a
\* status of its own (Retention).
Restore(s) ==
  /\ life[s] = "finalized" /\ s \in withheld /\ sessionRow[s] = None
  /\ withheld' = withheld \ {s}
  /\ UNCHANGED <<role, anchors, life, ended, cleared, expired, stamping, ledger, jobs, store,
                 rows, pc, run, begun, faults>>

Stamp(s, state) ==
  /\ stamping' = [stamping EXCEPT ![s] = state]
  /\ UNCHANGED <<role, anchors, life, ended, cleared, expired, withheld, ledger, jobs, objects,
                 rows, pc, run, begun>>

\* A purge has locked the jobs of the session.
StampLocked(s) ==
  \E c \in Cleaners : pc[c] \in {"deleting", "counting", "erasing"} /\ Target(c) = s

Underway == {"running", "held"}

\* The worker claims a job and commits that it runs; a request locks its own.
TakeStamp(s) ==
  /\ life[s] = "finalized" /\ ~StampLocked(s)
  /\ \/ stamping[s] = "queued" /\ Stamp(s, "running")
     \/ stamping[s] = "asked" /\ Stamp(s, "held")
  /\ UNCHANGED <<strays, faults>>

\* timestamp_capture locks the session, stores the proofs and commits.
FinishStamp(s) ==
  /\ stamping[s] \in Underway /\ sessionRow[s] = None
  /\ Stamp(s, "none")
  /\ strays' = strays \cup {s}
  /\ UNCHANGED faults

\* Or fails, and is tried again by the worker.
FailStamp(s) ==
  /\ stamping[s] \in Underway
  /\ faults > 0 /\ faults' = faults - 1
  /\ Stamp(s, "queued")
  /\ strays' \in {strays, strays \cup ({s} \cap {t \in Sessions : sessionRow[t] = None})}

\* PostgreSQL ends the request of a job that a purge waits for.
CancelStamp(s) ==
  /\ \E c \in Cleaners : AwaitsStamp(c) /\ Target(c) = s
  /\ Stamp(s, "queued")
  /\ UNCHANGED <<strays, faults>>

\* Where a process goes when its transaction is rolled back by an error:
\* the handler of process_upgrade_job marks the job, a cleanup goes on with
\* the next session, the others give up.
Rollback(p) ==
  IF p \in Cleaners THEN NextTarget(p)
  ELSE IF pc[p] \in {"locking", "fetching", "recording", "settling"}
  THEN Goto(p, "failing") /\ Release(p) /\ UNCHANGED run
  ELSE /\ Release(p)
       /\ run' = [run EXCEPT ![p] = NoRun]
       /\ Goto(p, IF p \in Operators THEN "done" ELSE "idle")

Outage(p) ==
  /\ pc[p] \in {"ensuring", "created", "gathering", "fetching", "recording", "settling",
                "purging", "sharing", "deleting", "counting", "erasing"}
  /\ faults > 0
  /\ faults' = faults - 1
  /\ Rollback(p)
  /\ UNCHANGED <<site, ledger, jobs, store, begun>>

\* PostgreSQL ends one of the transactions that wait for each other.
BreakDeadlock(p) ==
  /\ AwaitsStamp(p) \/ \E S \in SUBSET Waiting : p \in S /\ Deadlocked(S)
  /\ Rollback(p)
  /\ UNCHANGED <<site, ledger, jobs, store, begun, faults>>

\* A death: what was committed and stored stays, a claimed job stays running.
Die(p) ==
  /\ pc[p] \notin {"idle", "unsent", "done"}
  /\ faults > 0
  /\ faults' = faults - 1
  /\ Release(p)
  /\ run' = [run EXCEPT ![p] = NoRun]
  /\ Goto(p, IF p \in Operators THEN "done" ELSE "idle")
  /\ UNCHANGED <<site, ledger, jobs, store, begun>>

-----------------------------------------------------------------------------
Init ==
  /\ ended = [s \in Sessions |-> 0] /\ begun = {}
  /\ cleared = {} /\ expired = {} /\ withheld = {}
  /\ anchoring = [s \in Sessions |-> "not_submitted"]
  /\ attestations = [s \in Sessions |-> <<>>]
  /\ batches = [b \in Batches |-> "unused"]
  /\ members = [b \in Batches |-> {}]
  /\ complements = [b \in Batches |-> <<>>]
  /\ jobs = [b \in Batches |-> "absent"]
  /\ objects = {} /\ strays = {}
  /\ sessionRow = [s \in Sessions |-> None]
  /\ batchRow = [b \in Batches |-> None]
  /\ run = [p \in Procs |-> NoRun]
  /\ \E scene \in Scenarios :
       /\ life = [s \in Sessions |-> IF s \in scene.sessions THEN "open" ELSE "gone"]
       /\ stamping = scene.stamping
       /\ role = scene.role /\ anchors = scene.anchors /\ faults = scene.faults
       /\ pc = [p \in Procs |-> CASE scene.role[p] = "operator" -> "unsent"
                                 [] scene.role[p] = "absent"   -> "done"
                                 [] OTHER                      -> "idle"]

Batching(p) ==
  \/ ReadPending(p) \/ EnsureJob(p) \/ SelectSessions(p)
  \/ GatherSessions(p) \/ Batch(p) \/ CreateUpgradeJob(p)

Upgrading(p) ==
  \/ \E b \in Batches : ClaimUpgrade(p, b)
  \/ FinishTurn(p) \/ StillPending(p) \/ PutComplement(p)
  \/ RefusedUpgrade(p) \/ RecordComplement(p)
  \/ SettleJob(p) \/ FailUpgrade(p)

Purging(c) ==
  \/ StartCleanup(c)
  \/ ReadMembership(c) \/ CheckJobs(c) \/ DeleteProofs(c) \/ DeleteShared(c) \/ CommitPurge(c)

Locking(p) == LockNextSession(p) \/ LockBatch(p) \/ LockShared(p)

Elsewhere(s) ==
  \/ Finalize(s) \/ Clear(s) \/ Expire(s) \/ FailExpiry(s) \/ Restore(s)
  \/ TakeStamp(s) \/ FinishStamp(s) \/ FailStamp(s) \/ CancelStamp(s)

Next ==
  \/ \E s \in Sessions : Elsewhere(s)
  \/ \E p \in Operators : RequestBatch(p) \/ RequestUpgrade(p)
  \/ \E p \in Procs :
       \/ Batching(p) \/ Upgrading(p) \/ Purging(p) \/ Locking(p)
       \/ FailBatch(p) \/ Outage(p) \/ BreakDeadlock(p) \/ Die(p)

Spec == Init /\ [][Next]_vars

(***************************************************************************)
(* The loops and the daily cleanup run for ever and are restarted;         *)
(* PostgreSQL grants a lock to its waiters in turn and breaks deadlocks;   *)
(* jobs are claimed in the order of available_at, so none is overtaken for *)
(* ever; a worker takes over a timestamp that another left running.        *)
(* Requests, finalizations, expiries and faults need not happen.           *)
(***************************************************************************)
Fairness ==
  /\ \A p \in Procs : WF_vars(Batching(p) \/ Upgrading(p) \/ Purging(p)) /\ SF_vars(Locking(p))
  /\ \A b \in Batches : SF_vars(\E p \in Procs : ClaimUpgrade(p, b))
  /\ SF_vars(\E s \in Sessions : FinishStamp(s))
  /\ WF_vars((\E p \in Procs : BreakDeadlock(p)) \/ \E s \in Sessions : CancelStamp(s))

FairSpec == Spec /\ Fairness

-----------------------------------------------------------------------------
Labels == {"idle", "unsent", "done", "ensuring", "gathering", "batching", "created",
           "upgrading", "locking", "fetching", "recording", "settling", "failing",
           "purging", "sharing", "deleting", "counting", "erasing"}

BatchStatuses == {"not_submitted", Pending} \cup Verdicts
Told          == [batch : Batches, number : Nat, status : BatchStatuses]
Upgrades      == [content : 1 .. Calendars, status : Verdicts]
JobStatuses   == {"absent", "pending", "running", "completed", "failed"}
Runs          == [sessions : SUBSET Sessions, batches : SUBSET Batches,
                  emptied : SUBSET Batches, batch : Batches \cup {None},
                  number : Nat, content : 0 .. Calendars, status : Verdicts \cup {None}]

\* The rows and objects are those of models.py and proof_storage.py, and
\* each process is somewhere in its script.
TypeOK ==
  /\ role \in [Procs -> Roles] /\ anchors \in 0 .. Calendars
  /\ life \in [Sessions -> {"open", "finalized", "gone"}]
  /\ ended \in [Sessions -> Nat]
  /\ cleared \subseteq Sessions /\ expired \subseteq cleared /\ withheld \subseteq Sessions
  /\ stamping \in [Sessions -> {"none", "queued", "asked", "running", "held"}]
  /\ anchoring \in [Sessions -> BatchStatuses]
  /\ attestations \in [Sessions -> Seq(Told)]
  /\ batches \in [Batches -> BatchStatuses \cup {"unused", "deleted"}]
  /\ members \in [Batches -> SUBSET Sessions]
  /\ complements \in [Batches -> Seq(Upgrades)]
  /\ jobs \in [Batches -> JobStatuses]
  /\ \A o \in objects : \/ o.scope = "merkle" /\ o.owner \in Batches
                        \/ o.scope = "sessions" /\ o.owner \in Sessions
  /\ strays \subseteq Sessions /\ begun \subseteq Sessions
  /\ sessionRow \in [Sessions -> Procs \cup {None}]
  /\ batchRow \in [Batches -> Procs \cup {None}]
  /\ pc \in [Procs -> Labels] /\ run \in [Procs -> Runs]
  /\ faults \in Nat

\* A session that stays keeps its evidence although the other members of its
\* batch are purged, purges fail half-way and processes die: its membership
\* proof leads to the root that is stored and timestamped, and every
\* complement recorded is stored (purge_session: "Lock shared batches before
\* deciding whether this is the last membership").
RetainedProofsVerify ==
  \A b \in Batches, s \in Sessions :
    s \in members[b] \ (begun \cup cleared) =>
      /\ \E o \in InScope("sessions", s) :
           /\ o.name = b /\ o.content[2].leaf = s /\ VerifyProof(o.content[2])
           /\ \E r \in InScope("merkle", b) : r.name = 0 /\ r.content[2] = o.content[2].root
      /\ \A i \in DOMAIN complements[b] :
           UpgradeObject(b, i, complements[b][i].content) \in objects

\* Nothing of a purged session is left, in the store or in the rows, however
\* its purge overlapped batching, an upgrade or another purge; and a batch
\* ends with its last member, objects included.
PurgedLeaveNothing ==
  /\ \A s \in Sessions : life[s] = "gone" =>
       /\ InScope("sessions", s) = {} /\ s \notin strays
       /\ \A b \in Batches : s \notin members[b]
  /\ \A b \in Batches :
       /\ Exists(b) <=> members[b] # {}
       /\ batches[b] = "deleted" => InScope("merkle", b) = {}

\* Each complement improves on the one before, and the attestations of a
\* member tell of its batch and then of each of the complements once, in that
\* order, although the loops and the endpoint upgrade concurrently and the
\* members' rows are locked only after the complement is made.
ComplementsAttested ==
  \A b \in Batches :
    /\ \A i, j \in DOMAIN complements[b] :
         i < j => complements[b][i].content < complements[b][j].content
    /\ \A s \in members[b] :
         LET told == attestations[s]
             Of   == {i \in DOMAIN told : told[i].batch = b}
         IN  /\ {told[i].number : i \in Of} = 0 .. Len(complements[b])
             /\ \A i, j \in Of : i < j => told[i].number < told[j].number
             /\ \A i \in Of : told[i].number > 0 =>
                  told[i].status = complements[b][told[i].number].status

\* A job that runs keeps its batch until it is settled, and the rows that an
\* upgrade read stay as they were: no upgrade finds a session of a membership
\* missing, and SettleJob finds its job running.
UpgradesKeepTheirBatch ==
  \A p \in Procs :
    /\ pc[p] \in {"fetching", "recording"} =>
         /\ Exists(run[p].batch)
         /\ run[p].number = Len(complements[run[p].batch]) + 1
    /\ pc[p] = "recording" => run[p].sessions = members[run[p].batch] /\ ~GotLess(p)
    /\ p \in Loops /\ pc[p] \in {"fetching", "recording", "settling"} =>
         jobs[run[p].batch] = "running"

\* A timestamp that a worker runs, or that a request holds the job of, finds
\* its session when it comes to lock it, however many purges are about.
TimestampsKeepTheirSession ==
  \A s \in Sessions : stamping[s] \in Underway => life[s] = "finalized"

\* The loops never put a session into a batch twice, though both select
\* sessions while the other's batch is not committed.
\* (An operator may, through the endpoint.)
LoopsBatchOnce ==
  [][\A b \in Batches, p \in Loops :
       batches[b] = "unused" /\ batches'[b] # "unused" /\ pc[p] = "batching"
       /\ pc'[p] # "batching" =>
         \A s \in members'[b] : \A c \in Batches \ {b} : s \notin members[c]]_vars

-----------------------------------------------------------------------------
(***************************************************************************)
(* Liveness.                                                               *)
(***************************************************************************)
\* The process that claimed b's job has died: no loop claims it again.
Abandoned(b) == jobs[b] = "running" /\ \A p \in Loops : run[p].batch # b

\* Every finalized session is put into a batch by the loops that run, whatever
\* fails or dies on the way, unless its files have expired first, or could not
\* be deleted, or a cleanup has listed it, whose lock the loops skip
\* (docs/operations.md: the worker batches within seconds, the ots-processor
\* makes up for it).
SessionsBatched ==
  Loops # {} ~> \A s \in Sessions : life[s] = "finalized" =>
    \/ s \in withheld \/ \E b \in Batches : s \in members[b]
    \/ \E c \in Cleaners : s \in run[c].sessions

\* A pending batch is tried again and again until its proof is upgraded,
\* although its job is created after the batch commits and is put off, failed
\* and locked many times; except for a job its process left running and one
\* that an operator's upgrade overtook.
PendingTriedAgain ==
  \A b \in Batches : batches[b] = Pending /\ Loops # {} ~>
    \/ batches[b] # Pending \/ Abandoned(b) \/ jobs[b] = "completed"
    \/ \E p \in Loops : pc[p] = "fetching" /\ run[p].batch = b

\* A purge that has begun is repeated until nothing is left, however many
\* locks, deadlocks, faults, timestamps of the session and other purges of the
\* batch get in its way; only an upgrade that is running each time, or was left
\* running, which no worker takes over, keeps it from its end.
PurgesEnd ==
  []<>(\A s \in begun : life[s] = "gone"
         \/ \E b \in Batches : s \in members[b] /\ jobs[b] = "running")

=============================================================================
