---------------------------- MODULE TimestampJobs ----------------------------
(***************************************************************************)
(* RFC 3161 timestamping of one finalized session (jobs.py, worker.py,     *)
(* proof_service.timestamp_capture and the two timestamp endpoints of      *)
(* main.py): durable jobs that several workers claim, reclaim when they    *)
(* look abandoned and complete, and synchronous requests that run their    *)
(* job themselves, in one transaction.                                     *)
(*                                                                         *)
(* A process (worker or request) is a transaction script: its steps are    *)
(* the points where it commits, waits for a lock or writes an object that  *)
(* no rollback removes.  Two PostgreSQL locks matter: the row of the       *)
(* session (variable `session') and, per job, its advisory lock and row    *)
(* (variable `rows'), which only requests keep while they wait.            *)
(*                                                                         *)
(* Abstractions: the two bounds on time are flags, `due' (available_at has *)
(* passed) and `fresh' (updated_at is within worker_stale_seconds); a      *)
(* query contains a random nonce, so no two runs write the same bytes and  *)
(* `by', the process that wrote them, stands for the bytes; the chain is   *)
(* stored with the response; audit events are AuditLog's.                  *)
(***************************************************************************)
EXTENDS Naturals, Sequences, FiniteSets

CONSTANTS
  Workers,      \* worker processes
  Requests,     \* POST /timestamp requests
  Queued,       \* jobs of POST /timestamp-jobs
  KeyOf,        \* KeyOf[r]: the job named by the idempotency key of request r
  Outcomes,     \* [status, response]: what the time-stamping authority yields
  MaxFaults,    \* bound: process deaths and failing statements
  ServerError,  \* the answer of a request that failed
  None

Procs == Workers \cup Requests
Jobs  == Queued \cup {KeyOf[r] : r \in Requests}

ASSUME ProcessesAssumption ==
  /\ Workers \cap Requests = {}
  /\ KeyOf \in [Requests -> Jobs]
  /\ Queued \cap {KeyOf[r] : r \in Requests} = {}   \* the endpoints hash their keys apart
  /\ None \notin Procs \cup Jobs
  /\ MaxFaults \in Nat /\ ServerError \notin Nat

ASSUME OutcomesAssumption ==
  Outcomes \subseteq [status : {"pending", "failed", "valid"}, response : BOOLEAN]

VARIABLES
  jobs,          \* jobs: status, result, and the two flags
  queue,         \* the jobs in order of created_at
  session,       \* the process that holds the session row, or None
  rows,          \* per job, the process that holds its locks, or None
  attempts,      \* timestamp_attempts
  attestations,  \* attestations, in order of their sequence
  objects,       \* proof objects written once
  pc,            \* per process, where it is
  run,           \* per process, its job and the attempt it is making
  answer,        \* per request, the attestation it was answered with
  faults

store == <<attempts, attestations, objects>>
locks == <<session, rows>>
vars  == <<jobs, queue, locks, store, pc, run, answer, faults>>

NoRun  == [job |-> None, number |-> 0, outcome |-> None]
NoJob  == [status |-> "absent", fresh |-> FALSE, due |-> FALSE, result |-> 0]
NewJob == [NoJob EXCEPT !.status = "pending", !.due = TRUE]

\* A request is answered with the number of an attestation or ServerError.
Unanswered == 0

-----------------------------------------------------------------------------
(***************************************************************************)
(* Locks.                                                                  *)
(***************************************************************************)
SessionFree(p) == session \in {None, p}
RowFree(p, j)  == rows[j] \in {None, p}

MutantRelease(p) ==
  /\ session' = IF session = p THEN None ELSE session
  /\ UNCHANGED rows

\* The end of p's transaction, by commit or by rollback.
Release(p) ==
  /\ session' = IF session = p THEN None ELSE session
  /\ rows' = [j \in Jobs |-> IF rows[j] = p THEN None ELSE rows[j]]

\* The lock p is waiting for, as the set of its holders.
Blockers(p) ==
  (CASE pc[p] = "locking" -> {session}
     [] pc[p] \in {"begin", "created", "completing", "failing"} -> {rows[run[p].job]}
     [] OTHER -> {}) \ {None, p}

WaitCycle(p, q) == q \in Blockers(p) /\ p \in Blockers(q)

Goto(p, label) == pc' = [pc EXCEPT ![p] = label]

-----------------------------------------------------------------------------
(***************************************************************************)
(* POST /timestamp-jobs: the job is committed, without the session's lock. *)
(***************************************************************************)
Enqueue(j) ==
  /\ jobs[j].status = "absent"
  /\ jobs' = [jobs EXCEPT ![j] = NewJob]
  /\ queue' = Append(queue, j)
  /\ UNCHANGED <<locks, store, pc, run, answer, faults>>

(***************************************************************************)
(* POST /timestamp: the request creates its job or finds it, locks it,     *)
(* then the session, and runs it.                                          *)
(***************************************************************************)
SendRequest(r) ==
  /\ pc[r] = "unsent"
  /\ run' = [run EXCEPT ![r].job = KeyOf[r]]
  /\ Goto(r, "begin")
  /\ UNCHANGED <<jobs, queue, locks, store, answer, faults>>

\* get_or_create_job: creating the job commits, and so gives up its lock.
CreateJob(r) ==
  /\ pc[r] = "begin"
  /\ RowFree(r, run[r].job)
  /\ jobs[run[r].job].status = "absent"
  /\ jobs' = [jobs EXCEPT ![run[r].job] = NewJob]
  /\ queue' = Append(queue, run[r].job)
  /\ Goto(r, "created")
  /\ UNCHANGED <<locks, store, run, answer, faults>>

\* lock_job after get_or_create_job found or created the job.
LockJob(r) ==
  /\ \/ pc[r] = "created"
     \/ pc[r] = "begin" /\ jobs[run[r].job].status # "absent"
  /\ RowFree(r, run[r].job)
  /\ IF jobs[run[r].job].status = "completed"
     THEN /\ answer' = [answer EXCEPT ![r] = jobs[run[r].job].result]
          /\ run' = [run EXCEPT ![r] = NoRun]
          /\ Release(r)
          /\ Goto(r, "done")
     ELSE /\ rows' = [rows EXCEPT ![run[r].job] = r]
          /\ Goto(r, "locking")
          /\ UNCHANGED <<answer, run, session>>
  /\ UNCHANGED <<jobs, queue, store, faults>>

(***************************************************************************)
(* claim_job and mark_job_running: the oldest job that is due, or was      *)
(* abandoned, and that nobody has locked.                                  *)
(***************************************************************************)
MutantClaimable(j) ==
  rows[j] = None /\ jobs[j].due /\ jobs[j].status \in {"pending", "failed"}

Claimable(j) ==
  /\ rows[j] = None
  /\ jobs[j].due
  /\ \/ jobs[j].status \in {"pending", "failed"}
     \/ jobs[j].status = "running" /\ ~jobs[j].fresh

FirstClaimable(i) ==
  /\ Claimable(queue[i])
  /\ \A k \in 1 .. i - 1 : ~Claimable(queue[k])

ClaimJob(w) ==
  /\ pc[w] = "idle"
  /\ \E i \in DOMAIN queue :
       /\ FirstClaimable(i)
       /\ jobs' = [jobs EXCEPT ![queue[i]].status = "running", ![queue[i]].fresh = TRUE]
       /\ run' = [run EXCEPT ![w].job = queue[i]]
  /\ Goto(w, "locking")
  /\ UNCHANGED <<queue, locks, store, answer, faults>>

-----------------------------------------------------------------------------
(***************************************************************************)
(* timestamp_capture, for workers and requests alike.                      *)
(***************************************************************************)
\* The attempt is numbered once the session row is locked.
LockSession(p) ==
  /\ pc[p] = "locking"
  /\ SessionFree(p)
  /\ session' = p
  /\ run' = [run EXCEPT ![p].number = Cardinality(attempts) + 1]
  /\ Goto(p, "stamping")
  /\ UNCHANGED <<jobs, queue, rows, store, answer, faults>>

MutantPutRefused(number, kind) == FALSE

\* put_once refuses a key that holds other bytes.
PutRefused(number, kind) == \E o \in objects : o.number = number /\ o.kind = kind

Object(number, kind, p) == [number |-> number, kind |-> kind, by |-> p]

\* The authority has answered or failed; the query is stored, and then the
\* answer.  A refused object fails the run.
PutQuery(p) ==
  /\ pc[p] = "stamping"
  /\ \E outcome \in Outcomes :
       /\ ~PutRefused(run[p].number, "query")
       /\ objects' = objects \cup {Object(run[p].number, "query", p)}
       /\ run' = [run EXCEPT ![p].outcome = outcome]
       /\ Goto(p, IF outcome.response THEN "answered" ELSE "stored")
  /\ UNCHANGED <<jobs, queue, locks, attempts, attestations, answer, faults>>

PutResponse(p) ==
  /\ pc[p] = "answered"
  /\ ~PutRefused(run[p].number, "response")
  /\ objects' = objects \cup {Object(run[p].number, "response", p)}
  /\ Goto(p, "stored")
  /\ UNCHANGED <<jobs, queue, locks, attempts, attestations, run, answer, faults>>

RefusedRun(p) ==
  /\ \/ pc[p] = "stamping" /\ PutRefused(run[p].number, "query")
     \/ pc[p] = "answered" /\ PutRefused(run[p].number, "response")
  /\ Release(p)
  /\ Goto(p, "failing")
  /\ UNCHANGED <<jobs, queue, store, run, answer, faults>>

MutantRecord(p) ==
  /\ attempts' = attempts \cup
       {[number |-> run[p].number, by |-> p, outcome |-> run[p].outcome]}
  /\ attestations' = IF jobs[run[p].job].result # 0 THEN attestations
                     ELSE Append(attestations, [attempt |-> run[p].number, job |-> run[p].job,
                                                status |-> run[p].outcome.status])

\* The attempt and the attestation of p's run.
Record(p) ==
  /\ attempts' = attempts \cup
       {[number |-> run[p].number, by |-> p, outcome |-> run[p].outcome]}
  /\ attestations' = Append(attestations,
       [attempt |-> run[p].number, job |-> run[p].job, status |-> run[p].outcome.status])

MutantCommitAttempt(w) ==
  /\ pc[w] = "stored" /\ w \in Workers
  /\ Record(w)
  /\ run' = [run EXCEPT ![w].number = Len(attestations) + 1]
  /\ Goto(w, "completing")
  /\ UNCHANGED <<jobs, queue, locks, objects, answer, faults>>

\* A worker commits them before it completes its job ...
CommitAttempt(w) ==
  /\ pc[w] = "stored" /\ w \in Workers
  /\ Record(w)
  /\ Release(w)
  /\ run' = [run EXCEPT ![w].number = Len(attestations) + 1]
  /\ Goto(w, "completing")
  /\ UNCHANGED <<jobs, queue, objects, answer, faults>>

MutantCompleted(job, number) ==
  [job EXCEPT !.status = "completed", !.result = number + 1, !.fresh = FALSE]

\* Only a running job is looked at for its age: `fresh' is cleared.
Completed(job, number) ==
  [job EXCEPT !.status = "completed", !.result = number, !.fresh = FALSE]

Failed(job) == [job EXCEPT !.status = "failed", !.due = FALSE, !.fresh = FALSE]

CompleteJob(w) ==
  /\ pc[w] = "completing"
  /\ RowFree(w, run[w].job)
  /\ jobs' = [jobs EXCEPT ![run[w].job] = Completed(@, run[w].number)]
  /\ run' = [run EXCEPT ![w] = NoRun]
  /\ Goto(w, "idle")
  /\ UNCHANGED <<queue, locks, store, answer, faults>>

\* ... a request with it.
AnswerRequest(r) ==
  /\ pc[r] = "stored" /\ r \in Requests
  /\ Record(r)
  /\ jobs' = [jobs EXCEPT ![run[r].job] = Completed(@, Len(attestations) + 1)]
  /\ answer' = [answer EXCEPT ![r] = Len(attestations) + 1]
  /\ Release(r)
  /\ run' = [run EXCEPT ![r] = NoRun]
  /\ Goto(r, "done")
  /\ UNCHANGED <<queue, objects, faults>>

(***************************************************************************)
(* mark_job_failed, in a transaction of its own.  It does not look at the  *)
(* job's status.                                                           *)
(***************************************************************************)
MarkFailed(p) ==
  /\ pc[p] = "failing"
  /\ RowFree(p, run[p].job)
  /\ jobs' = [jobs EXCEPT ![run[p].job] = Failed(@)]
  /\ run' = [run EXCEPT ![p] = NoRun]
  /\ IF p \in Workers
     THEN Goto(p, "idle") /\ UNCHANGED answer
     ELSE Goto(p, "done") /\ answer' = [answer EXCEPT ![p] = ServerError]
  /\ UNCHANGED <<queue, locks, store, faults>>

-----------------------------------------------------------------------------
(***************************************************************************)
(* The environment.                                                        *)
(***************************************************************************)
\* A statement fails inside the handler's try: database or store outage.
Outage(p) ==
  /\ pc[p] \in {"locking", "stamping", "answered", "stored", "completing"}
  /\ faults < MaxFaults
  /\ faults' = faults + 1
  /\ Release(p)
  /\ Goto(p, "failing")
  /\ UNCHANGED <<jobs, queue, store, run, answer>>

\* The process dies: its transaction is rolled back, what it committed and
\* stored stays.  Workers are restarted.
Die(p) ==
  /\ pc[p] \notin {"idle", "done", "unsent"}
  /\ faults < MaxFaults
  /\ faults' = faults + 1
  /\ Release(p)
  /\ run' = [run EXCEPT ![p] = NoRun]
  /\ IF p \in Workers
     THEN Goto(p, "idle") /\ UNCHANGED answer
     ELSE Goto(p, "done") /\ answer' = [answer EXCEPT ![p] = ServerError]
  /\ UNCHANGED <<jobs, queue, store>>

\* Time passes: a backoff ends, a running job has not been touched for
\* worker_stale_seconds, whether or not its worker is alive.
BecomeDue(j) ==
  /\ jobs[j].status = "failed" /\ ~jobs[j].due
  /\ jobs' = [jobs EXCEPT ![j].due = TRUE]
  /\ UNCHANGED <<queue, locks, store, pc, run, answer, faults>>

BecomeStale(j) ==
  /\ jobs[j].status = "running" /\ jobs[j].fresh
  /\ jobs' = [jobs EXCEPT ![j].fresh = FALSE]
  /\ UNCHANGED <<queue, locks, store, pc, run, answer, faults>>

-----------------------------------------------------------------------------
Init ==
  /\ jobs = [j \in Jobs |-> NoJob]
  /\ queue = <<>>
  /\ session = None
  /\ rows = [j \in Jobs |-> None]
  /\ attempts = {} /\ attestations = <<>> /\ objects = {}
  /\ pc = [p \in Procs |-> IF p \in Workers THEN "idle" ELSE "unsent"]
  /\ run = [p \in Procs |-> NoRun]
  /\ answer = [r \in Requests |-> Unanswered]
  /\ faults = 0

Request(r) ==
  CreateJob(r) \/ LockJob(r) \/ AnswerRequest(r)

Work(w) == ClaimJob(w) \/ CommitAttempt(w) \/ CompleteJob(w)

\* The steps a process takes by itself, once it has what it waits for.
Step(p) ==
  \/ p \in Requests /\ Request(p)
  \/ p \in Workers /\ Work(p)
  \/ PutQuery(p) \/ PutResponse(p) \/ RefusedRun(p) \/ MarkFailed(p)

Next ==
  \/ \E j \in Queued : Enqueue(j)
  \/ \E r \in Requests : SendRequest(r)
  \/ \E p \in Procs : Step(p) \/ LockSession(p) \/ Outage(p) \/ Die(p)
  \/ \E j \in Jobs : BecomeDue(j) \/ BecomeStale(j)

Spec == Init /\ [][Next]_vars

(***************************************************************************)
(* The worker loops for ever and is restarted when it dies, a server       *)
(* thread runs on, timers expire, PostgreSQL grants a lock to its waiters  *)
(* in turn.  Nothing makes a client send a request or a fault happen.      *)
(***************************************************************************)
Fairness ==
  /\ \A p \in Procs : SF_vars(Step(p)) /\ SF_vars(LockSession(p))
  /\ \A j \in Jobs : WF_vars(BecomeDue(j)) /\ WF_vars(BecomeStale(j))

FairSpec == Spec /\ Fairness

-----------------------------------------------------------------------------
Labels == {"idle", "unsent", "begin", "created", "locking", "stamping",
           "answered", "stored", "completing", "failing", "done"}

JobRows == [status : {"absent", "pending", "running", "completed", "failed"},
            fresh : BOOLEAN, due : BOOLEAN, result : Nat]

AttemptRows == [number : Nat \ {0}, by : Procs, outcome : Outcomes]

AttestationRows ==
  [attempt : Nat \ {0}, job : Jobs, status : {"pending", "failed", "valid"}]

ProofObjects == [number : Nat \ {0}, kind : {"query", "response"}, by : Procs]

Runs == [job : Jobs \cup {None}, number : Nat, outcome : Outcomes \cup {None}]

\* The rows hold what models.py declares and each process is somewhere in
\* its handler.
TypeOK ==
  /\ jobs \in [Jobs -> JobRows]
  /\ queue \in Seq(Jobs)
  /\ session \in Procs \cup {None}
  /\ rows \in [Jobs -> Procs \cup {None}]
  /\ attempts \subseteq AttemptRows
  /\ attestations \in Seq(AttestationRows)
  /\ objects \subseteq ProofObjects
  /\ pc \in [Procs -> Labels]
  /\ run \in [Procs -> Runs]
  /\ answer \in [Requests -> Nat \cup {ServerError}]
  /\ faults \in 0 .. MaxFaults

(***************************************************************************)
(* Safety.                                                                 *)
(***************************************************************************)
StoredAs(number, kind) == {o.by : o \in {x \in objects : x.number = number /\ x.kind = kind}}

\* The query and the answer that an attempt row and its signed attestation
\* name are in the store, are the ones its own run exchanged with the
\* authority, and were never mixed with those of a run that died or failed
\* after storing its own (put_once before the commit).
EvidenceKept ==
  \A a \in attempts :
    /\ StoredAs(a.number, "query") = {a.by}
    /\ StoredAs(a.number, "response") = IF a.outcome.response THEN {a.by} ELSE {}

\* Attempts are numbered 1, 2, ... without a gap and the attestations tell
\* of each of them once, in that order, however workers, requests and
\* retries overlap: the number is computed several steps before it is used.
AttemptsAttested ==
  /\ Cardinality(attempts) = Len(attestations)
  /\ \A i \in 1 .. Len(attestations) :
       \E a \in attempts : /\ a.number = i
                           /\ attestations[i].attempt = i
                           /\ attestations[i].status = a.outcome.status

\* A completed job names an attestation that exists and was made for that
\* job (main.py raises "completed timestamp job lost its attestation"), and
\* so does every answer, even when a job was run twice.
ResultsAttested ==
  /\ \A j \in Jobs :
       /\ jobs[j].status = "completed" => jobs[j].result # 0
       /\ jobs[j].result # 0 => /\ jobs[j].result \in DOMAIN attestations
                                /\ attestations[jobs[j].result].job = j
  /\ \A r \in Requests :
       answer[r] \notin {Unanswered, ServerError} =>
         /\ answer[r] \in DOMAIN attestations
         /\ attestations[answer[r]].job = KeyOf[r]

\* No two processes wait for each other's locks: a request waits for the
\* session with its job locked, a worker has committed, and so given up the
\* session, before it waits for the job that a request may have locked.
NobodyWaitsInACircle == \A p, q \in Procs : ~WaitCycle(p, q)

(***************************************************************************)
(* Liveness.                                                               *)
(***************************************************************************)
\* A running job does not stay so: it ends, or it is found abandoned and
\* run again, until it ends (worker_stale_seconds; the claims of worker.py).
JobsSettle == \A j \in Jobs : jobs[j].status = "running" ~> jobs[j].status \in {"completed", "failed"}

\* Every request that was sent is answered, though it may wait for workers
\* and for other requests (timestamp_session ends in every branch).
RequestsAnswered == \A r \in Requests : pc[r] = "begin" ~> answer[r] # Unanswered

\* A queued job is completed in the end (tests/test_worker.py:58 says so of
\* a job its worker abandoned).
JobsComplete == \A j \in Jobs : jobs[j].status # "absent" ~> jobs[j].status = "completed"

(***************************************************************************)
(* What tests say and the code does not do.                                *)
(***************************************************************************)
\* tests/test_services_integration.py:177: two requests with one idempotency
\* key get one result.
OneAnswerPerKey ==
  \A r, s \in Requests :
    /\ KeyOf[r] = KeyOf[s]
    /\ {answer[r], answer[s]} \cap {Unanswered, ServerError} = {}
    => answer[r] = answer[s]

=============================================================================
