------------------------- MODULE TimestampJobs_proofs -------------------------
(***************************************************************************)
(* Proofs about TimestampJobs, for every value of its constants.           *)
(*                                                                         *)
(* The invariant is built in layers, each proved on top of the ones        *)
(* before: where a process can be and what it then carries (Placed), who   *)
(* holds a lock while he is there (Held), and what the rows, objects and   *)
(* answers say while only the holder of the session writes them.           *)
(***************************************************************************)
EXTENDS TimestampJobs, FiniteSetTheorems, TLAPS

-----------------------------------------------------------------------------
(***************************************************************************)
(* Types.  A process between two of its steps has a job, its attempt is    *)
(* numbered once it has the session and has an outcome once the query was  *)
(* sent: TypeOK is not inductive without that.                             *)
(***************************************************************************)
Busy == {"begin", "created", "locking", "stamping", "answered", "stored",
         "completing", "failing"}

Numbering == {"stamping", "answered", "stored"}

Placed ==
  \A p \in Procs :
    /\ p \in Workers  => pc[p] \notin {"unsent", "begin", "created", "done"}
    /\ p \in Requests => pc[p] \notin {"idle", "completing"}
    /\ pc[p] \in Busy => run[p].job \in Jobs
    /\ p \in Requests => run[p].job \in {None, KeyOf[p]}
    /\ pc[p] \in Numbering \cup {"completing"} => run[p].number # 0
    /\ pc[p] \in {"answered", "stored"} => run[p].outcome \in Outcomes
    /\ pc[p] = "answered" => run[p].outcome.response

TypeInv == TypeOK /\ Placed /\ IsFiniteSet(attempts)

\* The jobs the processes name exist.
LEMMA JobTypes ==
  /\ Queued \subseteq Jobs
  /\ \A r \in Requests : r \in Procs /\ KeyOf[r] \in Jobs
  /\ \A w \in Workers : w \in Procs /\ w \notin Requests
  /\ \A p \in Procs : p \notin Workers => p \in Requests
  /\ None \notin Jobs /\ None \notin Procs
BY ProcessesAssumption DEF Jobs, Procs

\* What the handlers write to a job's row is well typed.
LEMMA JobRowTypes ==
  ASSUME NEW job \in JobRows, NEW number \in Nat
  PROVE  /\ NewJob \in JobRows /\ Completed(job, number) \in JobRows /\ Failed(job) \in JobRows
         /\ [job EXCEPT !.status = "running", !.fresh = TRUE] \in JobRows
         /\ [job EXCEPT !.due = TRUE] \in JobRows /\ [job EXCEPT !.fresh = FALSE] \in JobRows
<1>1. NoJob \in JobRows
  BY DEF NoJob, JobRows
<1>2. NewJob = [[NoJob EXCEPT !.status = "pending"] EXCEPT !.due = TRUE]
  BY DEF NewJob
<1>3. [NoJob EXCEPT !.status = "pending"] \in JobRows
  BY <1>1 DEF JobRows
<1>4. NewJob \in JobRows
  BY <1>2, <1>3 DEF JobRows
<1>5. QED
  BY <1>4 DEF Completed, Failed, JobRows

\* Giving up locks leaves the locks well typed.
LEMMA ReleaseType ==
  ASSUME TypeOK, NEW p \in Procs, Release(p)
  PROVE  session' \in Procs \cup {None} /\ rows' \in [Jobs -> Procs \cup {None}]
BY DEF TypeOK, Release

\* What a run records is well typed.
LEMMA RecordType ==
  ASSUME TypeInv, NEW p \in Procs, pc[p] = "stored", Record(p)
  PROVE  /\ attempts' \subseteq AttemptRows
         /\ IsFiniteSet(attempts')
         /\ attestations' \in Seq(AttestationRows)
         /\ Len(attestations') = Len(attestations) + 1
<1>1. /\ run[p].number \in Nat \ {0} /\ run[p].job \in Jobs /\ run[p].outcome \in Outcomes
      /\ run[p].outcome.status \in {"pending", "failed", "valid"}
  BY OutcomesAssumption DEF TypeInv, TypeOK, Placed, Busy, Numbering, Runs
<1>2. attempts' \subseteq AttemptRows
  BY <1>1 DEF TypeInv, TypeOK, Record, AttemptRows
<1>3. IsFiniteSet(attempts')
  BY FS_AddElement DEF TypeInv, Record
<1>4. [attempt |-> run[p].number, job |-> run[p].job, status |-> run[p].outcome.status]
        \in AttestationRows
  BY <1>1 DEF AttestationRows
<1>5. QED
  BY <1>2, <1>3, <1>4 DEF TypeInv, TypeOK, Record

\* What the handlers write to a process's run is well typed.
LEMMA RunTypes ==
  ASSUME TypeInv, NEW p \in Procs
  PROVE  /\ NoRun \in Runs /\ run[p] \in Runs
         /\ \A j \in Jobs : [run[p] EXCEPT !.job = j] \in Runs
         /\ \A n \in Nat : [run[p] EXCEPT !.number = n] \in Runs
         /\ \A o \in Outcomes : [run[p] EXCEPT !.outcome = o] \in Runs
BY DEF TypeInv, TypeOK, NoRun, Runs

\* A step that numbers the run of a process leaves the runs well typed.
LEMMA NumberedRunType ==
  ASSUME TypeInv, NEW p \in Procs, NEW n \in Nat, run' = [run EXCEPT ![p].number = n]
  PROVE  run' \in [Procs -> Runs]
BY DEF TypeInv, TypeOK, Runs

\* The handlers of jobs, one step each: none leaves the types, and none leaves
\* a process in the middle of a run without what the rest of it needs.
LEMMA CreateJobType ==
  ASSUME TypeInv, NEW r \in Requests, CreateJob(r)
  PROVE  TypeInv'
<1>1. run[r].job \in Jobs /\ r \in Procs /\ r \notin Workers
  BY JobTypes DEF TypeInv, Placed, Busy, CreateJob
<1>2. TypeOK'
  <2>1. jobs' \in [Jobs -> JobRows] /\ queue' \in Seq(Jobs)
    <3>1. NewJob \in JobRows
      BY <1>1, JobRowTypes DEF TypeInv, TypeOK
    <3>2. QED
      BY <1>1, <3>1 DEF TypeInv, TypeOK, CreateJob
  <2>2. QED
    BY <1>1, <2>1 DEF TypeInv, TypeOK, CreateJob, locks, store, Goto, Labels
<1>3. Placed'
  BY <1>1 DEF TypeInv, TypeOK, Placed, CreateJob, Goto, Busy, Numbering
<1>4. QED
  BY <1>2, <1>3 DEF TypeInv, CreateJob, store

\* A request that locks its job keeps TypeInv: it is answered or goes on with that job.
LEMMA LockJobType ==
  ASSUME TypeInv, NEW r \in Requests, LockJob(r)
  PROVE  TypeInv'
<1>1. run[r].job \in Jobs /\ r \in Procs /\ r \notin Workers
  BY JobTypes DEF TypeInv, Placed, Busy, LockJob
<1>2. CASE /\ answer' = [answer EXCEPT ![r] = jobs[run[r].job].result]
           /\ run' = [run EXCEPT ![r] = NoRun]
           /\ Release(r)
           /\ Goto(r, "done")
           /\ UNCHANGED <<jobs, queue, store, faults>>
  <2>1. TypeOK'
    <3>1. run' \in [Procs -> Runs]
      BY <1>1, <1>2, RunTypes DEF TypeInv, TypeOK
    <3>2. answer' \in [Requests -> Nat \cup {ServerError}]
      BY <1>1, <1>2 DEF TypeInv, TypeOK, JobRows
    <3>3. QED
      BY <1>1, <1>2, <3>1, <3>2, ReleaseType DEF TypeInv, TypeOK, store, Goto, Labels
  <2>2. Placed'
    BY <1>1, <1>2, JobTypes DEF TypeInv, TypeOK, Placed, NoRun, Goto, Busy, Numbering
  <2>3. QED
    BY <1>2, <2>1, <2>2 DEF TypeInv, store
<1>3. CASE /\ rows' = [rows EXCEPT ![run[r].job] = r]
           /\ Goto(r, "locking")
           /\ UNCHANGED <<answer, run, session>>
           /\ UNCHANGED <<jobs, queue, store, faults>>
  <2>1. TypeOK'
    BY <1>1, <1>3 DEF TypeInv, TypeOK, store, Goto, Labels
  <2>2. Placed'
    BY <1>1, <1>3, JobTypes DEF TypeInv, TypeOK, Placed, Goto, Busy, Numbering
  <2>3. QED
    BY <1>3, <2>1, <2>2 DEF TypeInv, store
<1>4. QED
  BY <1>2, <1>3 DEF LockJob

\* A claim keeps TypeInv: the claimed job is the one the worker then carries.
LEMMA ClaimJobType ==
  ASSUME TypeInv, NEW w \in Workers, ClaimJob(w)
  PROVE  TypeInv'
<1>0. w \in Procs /\ w \notin Requests
  BY JobTypes
<1>1. PICK i \in DOMAIN queue :
        /\ jobs' = [jobs EXCEPT ![queue[i]].status = "running", ![queue[i]].fresh = TRUE]
        /\ run' = [run EXCEPT ![w].job = queue[i]]
  BY DEF ClaimJob
<1>2. queue[i] \in Jobs
  BY <1>1 DEF TypeInv, TypeOK
<1>3. TypeOK'
  <2>1. run' \in [Procs -> Runs]
    BY <1>0, <1>1, <1>2, RunTypes DEF TypeInv, TypeOK
  <2>2. jobs' \in [Jobs -> JobRows]
    BY <1>1, <1>2, JobRowTypes DEF TypeInv, TypeOK
  <2>3. QED
    BY <1>0, <2>1, <2>2 DEF TypeInv, TypeOK, ClaimJob, locks, store, Goto, Labels
<1>4. Placed'
  BY <1>0, <1>1, <1>2 DEF TypeInv, TypeOK, Placed, ClaimJob, Goto, Busy, Numbering, Runs
<1>5. QED
  BY <1>3, <1>4 DEF TypeInv, ClaimJob, store

\* The lock of the session keeps TypeInv: the attempt gets its number, which is not 0.
LEMMA LockSessionType ==
  ASSUME TypeInv, NEW p \in Procs, LockSession(p)
  PROVE  TypeInv'
<1>1. Cardinality(attempts) \in Nat
  BY FS_CardinalityType DEF TypeInv
<1>2. TypeOK'
  <2>1. run' \in [Procs -> Runs]
    <3>1. Cardinality(attempts) + 1 \in Nat /\ run' = [run EXCEPT ![p].number = Cardinality(attempts) + 1]
      BY <1>1 DEF LockSession
    <3>2. QED
      BY <3>1, NumberedRunType
  <2>2. QED
    BY <2>1 DEF TypeInv, TypeOK, LockSession, store, Goto, Labels
<1>3. Placed'
  BY <1>1 DEF TypeInv, TypeOK, Placed, LockSession, Goto, Busy, Numbering, Runs
<1>4. QED
  BY <1>2, <1>3 DEF TypeInv, LockSession, store

\* The query and the answer that a run stores carry its number and its name.
LEMMA PutType ==
  ASSUME TypeInv, NEW p \in Procs, PutQuery(p) \/ PutResponse(p)
  PROVE  TypeInv'
<1>1. CASE PutQuery(p)
  <2>1. PICK outcome \in Outcomes :
          /\ objects' = objects \cup {Object(run[p].number, "query", p)}
          /\ run' = [run EXCEPT ![p].outcome = outcome]
          /\ Goto(p, IF outcome.response THEN "answered" ELSE "stored")
    BY <1>1 DEF PutQuery
  <2>2. run[p].number \in Nat \ {0}
    BY <1>1 DEF TypeInv, TypeOK, Placed, PutQuery, Numbering, Runs
  <2>3. objects' \subseteq ProofObjects
    BY <2>1, <2>2 DEF TypeInv, TypeOK, Object, ProofObjects
  <2>4. TypeOK'
    <3>1. run' \in [Procs -> Runs]
      BY <2>1, RunTypes DEF TypeInv, TypeOK
    <3>2. QED
      BY <1>1, <2>1, <2>3, <3>1 DEF TypeInv, TypeOK, PutQuery, locks, Goto, Labels
  <2>5. Placed'
    BY <1>1, <2>1 DEF TypeInv, TypeOK, Placed, PutQuery, Goto, Busy, Numbering, Runs
  <2>6. QED
    BY <1>1, <2>4, <2>5 DEF TypeInv, PutQuery
<1>2. CASE PutResponse(p)
  <2>1. run[p].number \in Nat \ {0}
    BY <1>2 DEF TypeInv, TypeOK, Placed, PutResponse, Numbering, Runs
  <2>2. objects' \subseteq ProofObjects
    BY <1>2, <2>1 DEF TypeInv, TypeOK, PutResponse, Object, ProofObjects
  <2>3. TypeOK'
    BY <1>2, <2>2 DEF TypeInv, TypeOK, PutResponse, locks, Goto, Labels
  <2>4. Placed'
    BY <1>2 DEF TypeInv, TypeOK, Placed, PutResponse, Goto, Busy, Numbering
  <2>5. QED
    BY <1>2, <2>3, <2>4 DEF TypeInv, PutResponse
<1>3. QED
  BY <1>1, <1>2

\* A run that is refused or whose statement fails goes on to mark its job.
LEMMA FailingType ==
  ASSUME TypeInv, NEW p \in Procs, pc[p] \in Busy, Release(p), Goto(p, "failing"),
         UNCHANGED <<jobs, queue, store, run, answer>>, faults' \in 0 .. MaxFaults
  PROVE  TypeInv'
<1>1. TypeOK'
  BY ReleaseType DEF TypeInv, TypeOK, store, Goto, Labels
<1>2. Placed'
  BY DEF TypeInv, TypeOK, Placed, Goto, Busy, Numbering
<1>3. QED
  BY <1>1, <1>2 DEF TypeInv, store

\* The commit of an attempt keeps TypeInv: the new rows have the declared kinds.
LEMMA CommitAttemptType ==
  ASSUME TypeInv, NEW w \in Workers, CommitAttempt(w)
  PROVE  TypeInv'
<1>0. w \in Procs /\ w \notin Requests /\ run[w].job \in Jobs /\ Len(attestations) \in Nat
  BY JobTypes DEF TypeInv, TypeOK, Placed, Busy, CommitAttempt
<1>1. TypeOK'
  <2>1. run' \in [Procs -> Runs]
    <3>1. Len(attestations) + 1 \in Nat /\ run' = [run EXCEPT ![w].number = Len(attestations) + 1]
      BY <1>0 DEF CommitAttempt
    <3>2. QED
      BY <1>0, <3>1, NumberedRunType
  <2>2. pc' \in [Procs -> Labels]
    BY <1>0 DEF TypeInv, TypeOK, CommitAttempt, Goto, Labels
  <2>3. session' \in Procs \cup {None} /\ rows' \in [Jobs -> Procs \cup {None}]
    BY <1>0, ReleaseType DEF TypeInv, CommitAttempt
  <2>4. attempts' \subseteq AttemptRows /\ attestations' \in Seq(AttestationRows)
    BY <1>0, RecordType DEF CommitAttempt
  <2>5. QED
    BY <2>1, <2>2, <2>3, <2>4 DEF TypeInv, TypeOK, CommitAttempt
<1>2. Placed'
  BY <1>0 DEF TypeInv, TypeOK, Placed, CommitAttempt, Goto, Busy, Numbering, Runs
<1>3. QED
  BY <1>0, <1>1, <1>2, RecordType DEF TypeInv, CommitAttempt

\* The completion of a job keeps TypeInv: its result is the attempt the worker carries.
LEMMA CompleteJobType ==
  ASSUME TypeInv, NEW w \in Workers, CompleteJob(w)
  PROVE  TypeInv'
<1>0. w \in Procs /\ w \notin Requests /\ run[w].job \in Jobs /\ run[w].number \in Nat
  BY JobTypes DEF TypeInv, TypeOK, Placed, Busy, CompleteJob, Runs
<1>1. TypeOK'
  <2>1. run' \in [Procs -> Runs]
    BY <1>0, RunTypes DEF TypeInv, TypeOK, CompleteJob
  <2>2. jobs' \in [Jobs -> JobRows]
    BY <1>0, JobRowTypes DEF TypeInv, TypeOK, CompleteJob
  <2>3. QED
    BY <1>0, <2>1, <2>2 DEF TypeInv, TypeOK, CompleteJob, locks, store, Goto, Labels
<1>2. Placed'
  BY <1>0 DEF TypeInv, TypeOK, Placed, CompleteJob, NoRun, Goto, Busy, Numbering
<1>3. QED
  BY <1>1, <1>2 DEF TypeInv, CompleteJob, store

\* The answer to a request keeps TypeInv.
LEMMA AnswerRequestType ==
  ASSUME TypeInv, NEW r \in Requests, AnswerRequest(r)
  PROVE  TypeInv'
<1>0. r \in Procs /\ r \notin Workers /\ run[r].job \in Jobs /\ Len(attestations) + 1 \in Nat
  BY JobTypes DEF TypeInv, TypeOK, Placed, Busy, AnswerRequest
<1>1. TypeOK'
  <2>1. run' \in [Procs -> Runs]
    BY <1>0, RunTypes DEF TypeInv, TypeOK, AnswerRequest
  <2>2. pc' \in [Procs -> Labels]
    BY <1>0 DEF TypeInv, TypeOK, AnswerRequest, Goto, Labels
  <2>3. session' \in Procs \cup {None} /\ rows' \in [Jobs -> Procs \cup {None}]
    BY <1>0, ReleaseType DEF TypeInv, AnswerRequest
  <2>4. attempts' \subseteq AttemptRows /\ attestations' \in Seq(AttestationRows)
    BY <1>0, RecordType DEF AnswerRequest
  <2>5. jobs' \in [Jobs -> JobRows] /\ answer' \in [Requests -> Nat \cup {ServerError}]
    BY <1>0, JobRowTypes DEF TypeInv, TypeOK, AnswerRequest
  <2>6. QED
    BY <2>1, <2>2, <2>3, <2>4, <2>5 DEF TypeInv, TypeOK, AnswerRequest
<1>2. Placed'
  BY <1>0, JobTypes DEF TypeInv, TypeOK, Placed, AnswerRequest, NoRun, Goto, Busy, Numbering
<1>3. QED
  BY <1>0, <1>1, <1>2, RecordType DEF TypeInv, AnswerRequest

\* A process that marks its job, or dies, starts anew or is over.
LEMMA EndType ==
  ASSUME TypeInv, NEW p \in Procs, pc[p] \in Busy,
         run' = [run EXCEPT ![p] = NoRun],
         IF p \in Workers
         THEN Goto(p, "idle") /\ UNCHANGED answer
         ELSE Goto(p, "done") /\ answer' = [answer EXCEPT ![p] = ServerError],
         session' \in Procs \cup {None}, rows' \in [Jobs -> Procs \cup {None}],
         jobs' = jobs \/ jobs' = [jobs EXCEPT ![run[p].job] = Failed(@)],
         faults' \in 0 .. MaxFaults, UNCHANGED <<queue, store>>
  PROVE  TypeInv'
<1>0. run[p].job \in Jobs
  BY DEF TypeInv, Placed
<1>1. TypeOK'
  <2>1. run' \in [Procs -> Runs]
    BY RunTypes DEF TypeInv, TypeOK
  <2>2. jobs' \in [Jobs -> JobRows]
    <3>1. Failed(jobs[run[p].job]) \in JobRows
      BY <1>0, JobRowTypes DEF TypeInv, TypeOK
    <3>2. QED
      BY <3>1 DEF TypeInv, TypeOK
  <2>3. pc' \in [Procs -> Labels]
    BY DEF TypeInv, TypeOK, Goto, Labels
  <2>4. answer' \in [Requests -> Nat \cup {ServerError}]
    BY JobTypes DEF TypeInv, TypeOK
  <2>5. QED
    BY <2>1, <2>2, <2>3, <2>4 DEF TypeInv, TypeOK, store
<1>2. Placed'
  BY JobTypes DEF TypeInv, TypeOK, Placed, NoRun, Goto, Busy, Numbering
<1>3. QED
  BY <1>1, <1>2 DEF TypeInv, store

\* A job that is posted, or whose time has come, changes nothing else.
LEMMA JobOnlyType ==
  ASSUME TypeInv, jobs' \in [Jobs -> JobRows], queue' \in Seq(Jobs),
         UNCHANGED <<locks, store, pc, run, answer, faults>>
  PROVE  TypeInv'
BY DEF TypeInv, TypeOK, Placed, locks, store

\* A request that is sent keeps TypeInv: it carries the job of its idempotency key.
LEMMA SendRequestType ==
  ASSUME TypeInv, NEW r \in Requests, SendRequest(r)
  PROVE  TypeInv'
<1>0. r \in Procs /\ r \notin Workers /\ KeyOf[r] \in Jobs
  BY JobTypes
<1>1. TypeOK'
  <2>1. run' \in [Procs -> Runs]
    BY <1>0, RunTypes DEF TypeInv, TypeOK, SendRequest
  <2>2. QED
    BY <1>0, <2>1 DEF TypeInv, TypeOK, SendRequest, locks, store, Goto, Labels
<1>2. Placed'
  BY <1>0 DEF TypeInv, TypeOK, Placed, SendRequest, Goto, Busy, Numbering, Runs
<1>3. QED
  BY <1>1, <1>2 DEF TypeInv, SendRequest, store

\* The types are an invariant: each handler keeps them, and so do outages,
\* deaths and the passing of time.
LEMMA TypeStep ==
  ASSUME TypeInv, [Next]_vars
  PROVE  TypeInv'
<1>1. ASSUME NEW j \in Queued, Enqueue(j)
      PROVE  TypeInv'
  <2>1. j \in Jobs /\ NewJob \in JobRows
    BY JobTypes, JobRowTypes DEF TypeInv, TypeOK
  <2>2. jobs' \in [Jobs -> JobRows] /\ queue' \in Seq(Jobs)
    BY <1>1, <2>1 DEF TypeInv, TypeOK, Enqueue
  <2>3. QED
    BY <1>1, <2>2, JobOnlyType DEF Enqueue
<1>2. ASSUME NEW r \in Requests, SendRequest(r)
      PROVE  TypeInv'
  BY <1>2, SendRequestType
<1>3. ASSUME NEW r \in Requests, Request(r)
      PROVE  TypeInv'
  BY <1>3, CreateJobType, LockJobType, AnswerRequestType DEF Request
<1>4. ASSUME NEW w \in Workers, Work(w)
      PROVE  TypeInv'
  BY <1>4, ClaimJobType, CommitAttemptType, CompleteJobType DEF Work
<1>5. ASSUME NEW p \in Procs, PutQuery(p) \/ PutResponse(p) \/ LockSession(p)
      PROVE  TypeInv'
  BY <1>5, PutType, LockSessionType
<1>6. ASSUME NEW p \in Procs, RefusedRun(p) \/ Outage(p)
      PROVE  TypeInv'
  <2>1. faults' \in 0 .. MaxFaults
    BY <1>6, ProcessesAssumption DEF TypeInv, TypeOK, RefusedRun, Outage
  <2>2. QED
    BY <1>6, <2>1, FailingType DEF RefusedRun, Outage, Busy
<1>7. ASSUME NEW p \in Procs, MarkFailed(p) \/ Die(p)
      PROVE  TypeInv'
  <2>1. faults' \in 0 .. MaxFaults
    BY <1>7, ProcessesAssumption DEF TypeInv, TypeOK, MarkFailed, Die
  <2>2. pc[p] \in Busy
    BY <1>7 DEF TypeInv, TypeOK, MarkFailed, Die, Busy, Labels
  <2>3. session' \in Procs \cup {None} /\ rows' \in [Jobs -> Procs \cup {None}]
    BY <1>7, ReleaseType DEF TypeInv, TypeOK, MarkFailed, Die, locks
  <2>4. QED
    BY <1>7, <2>1, <2>2, <2>3, EndType DEF MarkFailed, Die
<1>8. ASSUME NEW j \in Jobs, BecomeDue(j) \/ BecomeStale(j)
      PROVE  TypeInv'
  <2>0. /\ [jobs[j] EXCEPT !.due = TRUE] \in JobRows
        /\ [jobs[j] EXCEPT !.fresh = FALSE] \in JobRows
    BY JobRowTypes DEF TypeInv, TypeOK
  <2>1. jobs' \in [Jobs -> JobRows] /\ queue' \in Seq(Jobs)
    BY <1>8, <2>0 DEF TypeInv, TypeOK, BecomeDue, BecomeStale
  <2>2. QED
    BY <1>8, <2>1, JobOnlyType DEF BecomeDue, BecomeStale
<1>9. CASE UNCHANGED vars
  BY <1>9 DEF TypeInv, TypeOK, Placed, vars, locks, store
<1>10. QED
  BY <1>1, <1>2, <1>3, <1>4, <1>5, <1>6, <1>7, <1>8, <1>9 DEF Next, Step

\* TypeInv holds before anything was requested.
LEMMA TypeInit == Init => TypeInv
<1> SUFFICES ASSUME Init PROVE TypeInv
  OBVIOUS
<1>1. NoRun \in Runs /\ NoJob \in JobRows
  BY DEF NoRun, Runs, NoJob, JobRows
<1>2. TypeOK
  BY <1>1, ProcessesAssumption DEF Init, TypeOK, Labels, Unanswered
<1>3. Placed
  BY JobTypes DEF Init, Placed, Busy, Numbering, NoRun
<1>4. IsFiniteSet(attempts)
  BY FS_EmptySet DEF Init
<1>5. QED
  BY <1>2, <1>3, <1>4 DEF TypeInv

\* The rows of jobs, attempts and attestations are well typed and every
\* process is somewhere in its handler, with what its next step needs.
THEOREM JobsTypeCorrect == Spec => []TypeOK
<1>1. TypeInv => TypeOK
  BY DEF TypeInv
<1>2. TypeInv /\ [Next]_vars => TypeInv'
  BY TypeStep
<1>3. QED
  BY <1>1, <1>2, TypeInit, PTL DEF Spec

-----------------------------------------------------------------------------
(***************************************************************************)
(* Locks.  Where a process is tells which locks it holds: the session from *)
(* the number of its attempt to the commit, and a request its job from     *)
(* before it waits for the session.                                        *)
(***************************************************************************)
Held ==
  /\ \A p \in Procs : session = p <=> pc[p] \in Numbering
  /\ \A j \in Jobs : rows[j] # None =>
       /\ rows[j] \in Requests /\ j = KeyOf[rows[j]]
       /\ pc[rows[j]] \in Numbering \cup {"locking"}

\* A process that gives up its locks and goes where none is needed.
LEMMA ReleaseHeld ==
  ASSUME TypeInv, Held, NEW p \in Procs, NEW label,
         label \notin Numbering \cup {"locking"}, Release(p), Goto(p, label)
  PROVE  Held'
BY JobTypes DEF TypeInv, TypeOK, Held, Release, Goto

\* A process that goes on without taking or giving up a lock.
LEMMA MoveHeld ==
  ASSUME TypeInv, Held, NEW p \in Procs, NEW label,
         pc[p] \in Numbering <=> label \in Numbering,
         pc[p] = "locking" => label = "locking",
         UNCHANGED locks, Goto(p, label)
  PROVE  Held'
BY JobTypes DEF TypeInv, TypeOK, Held, Goto, locks

\* Locks are taken when free and given back with the commit: every step keeps Held.
LEMMA HeldStep ==
  ASSUME TypeInv, Held, [Next]_vars
  PROVE  Held'
<1>1. ASSUME NEW r \in Requests, LockJob(r)
      PROVE  Held'
  <2>1. r \in Procs /\ run[r].job = KeyOf[r] /\ pc[r] \in {"created", "begin"}
    BY <1>1, JobTypes DEF TypeInv, Placed, Busy, LockJob
  <2>2. CASE Release(r) /\ Goto(r, "done")
    BY <2>1, <2>2, ReleaseHeld DEF Numbering
  <2>3. CASE /\ rows' = [rows EXCEPT ![run[r].job] = r]
             /\ Goto(r, "locking")
             /\ UNCHANGED session
    BY <2>1, <2>3, JobTypes DEF TypeInv, TypeOK, Held, Goto, Numbering
  <2>4. QED
    BY <1>1, <2>2, <2>3 DEF LockJob
<1>2. ASSUME NEW p \in Procs, LockSession(p)
      PROVE  Held'
  BY <1>2, JobTypes DEF TypeInv, TypeOK, Held, LockSession, SessionFree, Goto, Numbering
<1>3. ASSUME NEW r \in Requests, SendRequest(r) \/ CreateJob(r)
      PROVE  Held'
  <2>1. r \in Procs
    BY JobTypes
  <2>2. QED
    BY <1>3, <2>1, MoveHeld DEF SendRequest, CreateJob, Numbering
<1>4. ASSUME NEW w \in Workers, ClaimJob(w) \/ CompleteJob(w)
      PROVE  Held'
  <2>1. w \in Procs
    BY JobTypes
  <2>2. QED
    BY <1>4, <2>1, MoveHeld DEF ClaimJob, CompleteJob, Numbering
<1>5. ASSUME NEW p \in Procs, PutQuery(p) \/ PutResponse(p)
      PROVE  Held'
  <2>1. UNCHANGED locks /\ pc[p] \in Numbering /\ \E label \in Numbering : Goto(p, label)
    BY <1>5 DEF PutQuery, PutResponse, Numbering
  <2>2. QED
    BY <2>1, MoveHeld DEF Numbering
<1>6. ASSUME NEW p \in Procs, MarkFailed(p)
      PROVE  Held'
  <2>1. \E label \in {"idle", "done"} : Goto(p, label)
    BY <1>6 DEF MarkFailed
  <2>2. QED
    BY <1>6, <2>1, MoveHeld DEF MarkFailed, Numbering
<1>7. ASSUME NEW p \in Procs,
             RefusedRun(p) \/ CommitAttempt(p) \/ AnswerRequest(p) \/ Outage(p) \/ Die(p)
      PROVE  Held'
  <2>1. Release(p)
    BY <1>7 DEF RefusedRun, CommitAttempt, AnswerRequest, Outage, Die
  <2>2. \E label \in {"failing", "completing", "done", "idle"} : Goto(p, label)
    BY <1>7 DEF RefusedRun, CommitAttempt, AnswerRequest, Outage, Die
  <2>3. QED
    BY <2>1, <2>2, ReleaseHeld DEF Numbering
<1>8. CASE UNCHANGED <<locks, pc>>
  BY <1>8 DEF Held, locks
<1>9. QED
  BY <1>1, <1>2, <1>3, <1>4, <1>5, <1>6, <1>7, <1>8, JobTypes
     DEF Next, Step, Request, Work, Enqueue, BecomeDue, BecomeStale, vars

\* Nobody holds a lock at first.
LEMMA HeldInit == Init => Held
BY JobTypes DEF Init, Held, Numbering

\* Held, with the types, in every reachable state.
LEMMA HeldInvariant == Spec => [](TypeInv /\ Held)
<1>1. TypeInv /\ Held /\ [Next]_vars => TypeInv' /\ Held'
  BY TypeStep, HeldStep
<1>2. QED
  BY <1>1, TypeInit, HeldInit, PTL DEF Spec

\* Whoever waits for the session may hold a job, but the one who has the
\* session waits for nobody, so no two processes wait for each other.
THEOREM NobodyDeadlocks == Spec => []NobodyWaitsInACircle
<1>1. ASSUME TypeInv, Held, NEW p \in Procs, NEW q \in Procs, q \in Blockers(p)
      PROVE  \/ pc[p] = "locking" /\ pc[q] \in Numbering
             \/ pc[p] \in {"begin", "created", "completing", "failing"}
                /\ pc[q] \in Numbering \cup {"locking"}
  <2>1. q # None
    BY JobTypes
  <2>2. CASE pc[p] = "locking"
    BY <1>1, <2>2 DEF Held, Blockers
  <2>3. CASE pc[p] \in {"begin", "created", "completing", "failing"}
    <3>1. run[p].job \in Jobs /\ q = rows[run[p].job]
      BY <1>1, <2>3 DEF TypeInv, Placed, Busy, Blockers
    <3>2. QED
      BY <2>1, <2>3, <3>1, <1>1 DEF Held
  <2>4. QED
    BY <1>1, <2>2, <2>3 DEF Blockers
<1>2. TypeInv /\ Held => NobodyWaitsInACircle
  BY <1>1 DEF NobodyWaitsInACircle, WaitCycle, Numbering
<1>3. QED
  BY <1>2, HeldInvariant, PTL

-----------------------------------------------------------------------------
(***************************************************************************)
(* Attempts.  A number is computed when the session is locked and used in  *)
(* the rows several steps later: it is still the next one, since whoever   *)
(* records an attempt has the session.                                     *)
(***************************************************************************)
NextNumber == Len(attestations) + 1

Numbered ==
  /\ Cardinality(attempts) = Len(attestations)
  /\ \A a \in attempts : a.number \in 1 .. Len(attestations)
  /\ \A a, b \in attempts : a.number = b.number => a = b
  /\ \A p \in Procs : pc[p] \in Numbering => run[p].number = NextNumber

\* The attempt and the attestation that the holder of the session records.
LEMMA RecordNumbered ==
  ASSUME TypeInv, Held, Numbered, AttemptsAttested, NEW p \in Procs, pc[p] = "stored",
         Record(p), NEW label, label \notin Numbering, Goto(p, label)
  PROVE  Numbered' /\ AttemptsAttested'
<1> DEFINE new == [number |-> run[p].number, by |-> p, outcome |-> run[p].outcome]
           told == [attempt |-> run[p].number, job |-> run[p].job,
                    status |-> run[p].outcome.status]
           n == Len(attestations)
<1>1. /\ new.number = n + 1 /\ told.attempt = n + 1 /\ told.status = new.outcome.status
      /\ n \in Nat
  BY DEF TypeInv, TypeOK, Numbered, NextNumber, Numbering
<1>2. attempts' = attempts \cup {new} /\ attestations' = Append(attestations, told)
  BY DEF Record
<1>3. \A a \in attempts : a.number # n + 1
  BY <1>1 DEF Numbered
<1>4. /\ Len(attestations') = n + 1
      /\ attestations'[n + 1] = told
      /\ \A i \in 1 .. n : attestations'[i] = attestations[i]
  BY <1>1, <1>2 DEF TypeInv, TypeOK
<1>5. Cardinality(attempts') = n + 1
  <2>1. new \notin attempts
    BY <1>1, <1>3
  <2>2. Cardinality(attempts') = Cardinality(attempts) + 1
    BY <1>2, <2>1, FS_AddElement DEF TypeInv
  <2>3. QED
    BY <2>2 DEF Numbered
<1>6. \A q \in Procs : pc'[q] \notin Numbering
  BY DEF TypeInv, TypeOK, Held, Goto, Numbering
<1> HIDE DEF new, told, n
<1>7. Numbered'
  <2>1. \A a \in attempts' : a.number \in 1 .. Len(attestations')
    BY <1>1, <1>2, <1>4 DEF Numbered, n
  <2>2. \A a, b \in attempts' : a.number = b.number => a = b
    BY <1>1, <1>2, <1>3 DEF Numbered
  <2>3. QED
    BY <1>4, <1>5, <1>6, <2>1, <2>2 DEF Numbered
<1>8. AttemptsAttested'
  <2>1. ASSUME NEW i \in 1 .. n + 1
        PROVE  \E a \in attempts' : /\ a.number = i
                                    /\ attestations'[i].attempt = i
                                    /\ attestations'[i].status = a.outcome.status
    <3>1. CASE i = n + 1
      BY <3>1, <1>1, <1>2, <1>4
    <3>2. CASE i \in 1 .. n
      BY <3>2, <1>2, <1>4 DEF AttemptsAttested, n
    <3>3. QED
      BY <1>1, <3>1, <3>2
  <2>2. QED
    BY <1>4, <1>5, <2>1 DEF AttemptsAttested
<1>9. QED
  BY <1>7, <1>8

\* A step that records nothing and starts no new number.
LEMMA StepNumbered ==
  ASSUME Numbered, AttemptsAttested, UNCHANGED <<attempts, attestations>>,
         \A p \in Procs : pc'[p] \in Numbering =>
           pc[p] \in Numbering /\ run'[p].number = run[p].number
  PROVE  Numbered' /\ AttemptsAttested'
BY DEF Numbered, AttemptsAttested, NextNumber

\* A step of the handlers other than the commits, and of the environment.
LEMMA QuietSteps ==
  ASSUME TypeInv, Held, [Next]_vars,
         \A p \in Procs : ~LockSession(p),
         \A w \in Workers : ~CommitAttempt(w),
         \A r \in Requests : ~AnswerRequest(r)
  PROVE  /\ UNCHANGED <<attempts, attestations>>
         /\ \A p \in Procs : pc'[p] \in Numbering =>
              pc[p] \in Numbering /\ run'[p].number = run[p].number
<1>1. ASSUME NEW r \in Requests, SendRequest(r) \/ CreateJob(r) \/ LockJob(r)
      PROVE  /\ UNCHANGED <<attempts, attestations>>
             /\ \A p \in Procs : pc'[p] \in Numbering =>
                  pc[p] \in Numbering /\ run'[p].number = run[p].number
  BY <1>1, JobTypes
     DEF TypeInv, TypeOK, SendRequest, CreateJob, LockJob, store, Goto, Numbering
<1>2. ASSUME NEW w \in Workers, ClaimJob(w) \/ CompleteJob(w)
      PROVE  /\ UNCHANGED <<attempts, attestations>>
             /\ \A p \in Procs : pc'[p] \in Numbering =>
                  pc[p] \in Numbering /\ run'[p].number = run[p].number
  <2>1. CASE ClaimJob(w)
    BY <2>1, JobTypes DEF TypeInv, TypeOK, ClaimJob, store, Goto, Numbering
  <2>2. CASE CompleteJob(w)
    BY <2>2, JobTypes DEF TypeInv, TypeOK, CompleteJob, store, Goto, Numbering
  <2>3. QED
    BY <1>2, <2>1, <2>2
<1>3. ASSUME NEW q \in Procs, PutQuery(q) \/ PutResponse(q)
      PROVE  /\ UNCHANGED <<attempts, attestations>>
             /\ \A p \in Procs : pc'[p] \in Numbering =>
                  pc[p] \in Numbering /\ run'[p].number = run[p].number
  BY <1>3 DEF TypeInv, TypeOK, PutQuery, PutResponse, Goto, Numbering, Runs
<1>4. ASSUME NEW q \in Procs, RefusedRun(q) \/ MarkFailed(q) \/ Outage(q) \/ Die(q)
      PROVE  /\ UNCHANGED <<attempts, attestations>>
             /\ \A p \in Procs : pc'[p] \in Numbering =>
                  pc[p] \in Numbering /\ run'[p].number = run[p].number
  BY <1>4 DEF TypeInv, TypeOK, RefusedRun, MarkFailed, Outage, Die, store, Goto, Numbering
<1>5. CASE UNCHANGED <<store, pc, run>>
  BY <1>5 DEF store
<1>6. QED
  BY <1>1, <1>2, <1>3, <1>4, <1>5, JobTypes
     DEF Next, Step, Request, Work, Enqueue, BecomeDue, BecomeStale, vars

\* Only the holder of the session numbers attempts and adds attestations: every step
\* keeps Numbered and AttemptsAttested.
LEMMA NumberedStep ==
  ASSUME TypeInv, Held, Numbered, AttemptsAttested, [Next]_vars
  PROVE  Numbered' /\ AttemptsAttested'
<1>1. ASSUME NEW p \in Procs, LockSession(p)
      PROVE  Numbered' /\ AttemptsAttested'
  <2>1. UNCHANGED <<attempts, attestations>> /\ Cardinality(attempts) = Len(attestations)
    BY <1>1 DEF LockSession, store, Numbered
  <2>2. run'[p].number = NextNumber /\ \A q \in Procs \ {p} : run'[q] = run[q] /\ pc'[q] = pc[q]
    BY <1>1, <2>1 DEF TypeInv, TypeOK, LockSession, Goto, NextNumber, Runs
  <2>3. QED
    BY <2>1, <2>2 DEF Numbered, AttemptsAttested, NextNumber
<1>2. ASSUME NEW w \in Workers, CommitAttempt(w)
      PROVE  Numbered' /\ AttemptsAttested'
  BY <1>2, JobTypes, RecordNumbered DEF CommitAttempt, Numbering
<1>3. ASSUME NEW r \in Requests, AnswerRequest(r)
      PROVE  Numbered' /\ AttemptsAttested'
  BY <1>3, JobTypes, RecordNumbered DEF AnswerRequest, Numbering
<1>4. CASE /\ \A p \in Procs : ~LockSession(p)
           /\ \A w \in Workers : ~CommitAttempt(w)
           /\ \A r \in Requests : ~AnswerRequest(r)
  BY <1>4, QuietSteps, StepNumbered
<1>5. QED
  BY <1>1, <1>2, <1>3, <1>4

\* There are no attempts at first.
LEMMA NumberedInit == Init => Numbered /\ AttemptsAttested
BY FS_EmptySet DEF Init, Numbered, AttemptsAttested, Numbering

\* Numbered and AttemptsAttested in every reachable state.
LEMMA NumberedInvariant == Spec => [](TypeInv /\ Held /\ Numbered /\ AttemptsAttested)
<1>1. TypeInv /\ Held /\ Numbered /\ AttemptsAttested /\ [Next]_vars
        => Numbered' /\ AttemptsAttested'
  BY NumberedStep
<1>2. QED
  BY <1>1, NumberedInit, HeldInvariant, PTL DEF Spec

\* Attempts are numbered without a gap and each is attested once, in order,
\* whatever overlaps, is retried or dies.
THEOREM AttemptsAlwaysAttested == Spec => []AttemptsAttested
BY NumberedInvariant, PTL

-----------------------------------------------------------------------------
(***************************************************************************)
(* Evidence.  Objects of a number are only written by the one who has it,  *)
(* and a query is never put beside an answer that a dead run left behind:  *)
(* where there is an answer there is a query, which refuses the new one.   *)
(***************************************************************************)
Written ==
  /\ \A o \in objects : StoredAs(o.number, "query") # {}
  /\ \A p \in Procs :
       /\ pc[p] \in {"answered", "stored"} => StoredAs(run[p].number, "query") = {p}
       /\ pc[p] = "stored" => StoredAs(run[p].number, "response") =
                                IF run[p].outcome.response THEN {p} ELSE {}

\* A process puts its object where there is none of that kind.
LEMMA PutWrites ==
  ASSUME NEW n, NEW kind, NEW p, ~PutRefused(n, kind),
         objects' = objects \cup {Object(n, kind, p)}
  PROVE  /\ StoredAs(n, kind)' = {p}
         /\ \A m, k : <<m, k>> # <<n, kind>> => StoredAs(m, k)' = StoredAs(m, k)
<1>1. StoredAs(n, kind) = {}
  BY DEF PutRefused, StoredAs
<1>2. ASSUME NEW m, NEW k
      PROVE  StoredAs(m, k)' = IF <<m, k>> = <<n, kind>> THEN StoredAs(m, k) \cup {p}
                               ELSE StoredAs(m, k)
  <2>1. Object(n, kind, p).number = n /\ Object(n, kind, p).kind = kind /\ Object(n, kind, p).by = p
    BY DEF Object
  <2>2. \A x : x \in StoredAs(m, k)' <=>
          x \in StoredAs(m, k) \/ (<<m, k>> = <<n, kind>> /\ x = p)
    BY <2>1 DEF StoredAs
  <2>3. QED
    BY <2>2
<1>3. QED
  BY <1>1, <1>2

\* Only one process is between the number and the commit.
LEMMA OneNumbering ==
  ASSUME TypeInv, Held, NEW p \in Procs, NEW q \in Procs,
         pc[p] \in Numbering, pc[q] \in Numbering
  PROVE  p = q
BY DEF Held

\* The query of a run is the first object of its number, and the only query.
LEMMA PutQueryWritten ==
  ASSUME TypeInv, Held, Numbered, Written, EvidenceKept, NEW p \in Procs, PutQuery(p)
  PROVE  Written' /\ EvidenceKept'
<1>1. PICK n \in Nat, outcome \in Outcomes :
        /\ n = run[p].number
        /\ ~PutRefused(n, "query")
        /\ objects' = objects \cup {Object(n, "query", p)}
        /\ run' = [run EXCEPT ![p].outcome = outcome]
        /\ Goto(p, IF outcome.response THEN "answered" ELSE "stored")
  BY DEF TypeInv, TypeOK, Runs, PutQuery
<1>2. /\ StoredAs(n, "query")' = {p}
      /\ \A m, k : <<m, k>> # <<n, "query">> => StoredAs(m, k)' = StoredAs(m, k)
  BY <1>1, PutWrites
<1>3. StoredAs(n, "response") = {}
  BY <1>1 DEF Written, StoredAs, PutRefused
<1>4. run'[p].number = n /\ run'[p].outcome = outcome
  BY <1>1 DEF TypeInv, TypeOK, Runs
<1>5. pc[p] \in Numbering /\ \A q \in Procs : pc'[q] \in Numbering => q = p
  BY <1>1, OneNumbering DEF TypeInv, TypeOK, Goto, PutQuery, Numbering
<1>6. Written'
  <2>1. \A o \in objects' : StoredAs(o.number, "query")' # {}
    BY <1>1, <1>2 DEF Written, Object
  <2>2. pc'[p] = IF outcome.response THEN "answered" ELSE "stored"
    BY <1>1 DEF TypeInv, TypeOK, Goto
  <2>3. StoredAs(n, "response")' = {}
    BY <1>2, <1>3
  <2>4. QED
    BY <1>2, <1>4, <1>5, <2>1, <2>2, <2>3 DEF Written, Numbering
<1>7. EvidenceKept'
  <2>1. \A a \in attempts : a.number # n
    BY <1>1, <1>5 DEF Numbered, NextNumber, TypeInv, TypeOK
  <2>2. attempts' = attempts
    BY DEF PutQuery
  <2>3. QED
    BY <1>2, <2>1, <2>2 DEF EvidenceKept
<1>8. QED
  BY <1>6, <1>7

\* Its answer comes after it, and is the only answer.
LEMMA PutResponseWritten ==
  ASSUME TypeInv, Held, Numbered, Written, EvidenceKept, NEW p \in Procs, PutResponse(p)
  PROVE  Written' /\ EvidenceKept'
<1>1. PICK n \in Nat :
        /\ n = run[p].number
        /\ ~PutRefused(n, "response")
        /\ objects' = objects \cup {Object(n, "response", p)}
        /\ run' = run /\ attempts' = attempts
        /\ pc[p] = "answered" /\ Goto(p, "stored")
  BY DEF TypeInv, TypeOK, Runs, PutResponse
<1>2. /\ StoredAs(n, "response")' = {p}
      /\ \A m, k : <<m, k>> # <<n, "response">> => StoredAs(m, k)' = StoredAs(m, k)
  BY <1>1, PutWrites
<1>3. StoredAs(n, "query") = {p} /\ run[p].outcome.response
  BY <1>1 DEF Written, TypeInv, Placed
<1>4. \A q \in Procs : pc'[q] \in Numbering => q = p
  BY <1>1, OneNumbering DEF TypeInv, TypeOK, Goto, Numbering
<1>5. Written'
  <2>1. \A o \in objects' : StoredAs(o.number, "query")' # {}
    BY <1>1, <1>2, <1>3 DEF Written, Object
  <2>2. StoredAs(n, "query")' = {p}
    BY <1>2, <1>3
  <2>3. QED
    BY <1>1, <1>2, <1>3, <1>4, <2>1, <2>2 DEF Written, Numbering
<1>6. EvidenceKept'
  <2>1. \A a \in attempts : a.number # n
    BY <1>1 DEF Numbered, NextNumber, Numbering, TypeInv, TypeOK
  <2>2. QED
    BY <1>1, <1>2, <2>1 DEF EvidenceKept
<1>7. QED
  BY <1>5, <1>6

\* The commit turns the objects of the run into those of its attempt.
LEMMA RecordWritten ==
  ASSUME TypeInv, Held, Numbered, Written, EvidenceKept, NEW p \in Procs, pc[p] = "stored",
         Record(p), NEW label, label \notin Numbering, Goto(p, label), objects' = objects
  PROVE  Written' /\ EvidenceKept'
<1>1. \A q \in Procs : pc'[q] \notin Numbering
  BY OneNumbering DEF TypeInv, TypeOK, Goto, Numbering
<1>2. \A m, k : StoredAs(m, k)' = StoredAs(m, k)
  BY DEF StoredAs
<1>3. Written'
  BY <1>1, <1>2 DEF Written, Numbering
<1>4. EvidenceKept'
  <2> DEFINE new == [number |-> run[p].number, by |-> p, outcome |-> run[p].outcome]
  <2>1. /\ StoredAs(new.number, "query") = {new.by}
        /\ StoredAs(new.number, "response") = IF new.outcome.response THEN {new.by} ELSE {}
    BY DEF Written
  <2>2. attempts' = attempts \cup {new}
    BY DEF Record
  <2> HIDE DEF new
  <2>3. QED
    BY <1>2, <2>1, <2>2 DEF EvidenceKept
<1>5. QED
  BY <1>3, <1>4

\* A step that stores nothing, records nothing and leaves no process further
\* in its attempt than it was.
LEMMA StepWritten ==
  ASSUME Written, EvidenceKept, UNCHANGED <<attempts, objects>>,
         \A p \in Procs : pc'[p] \in {"answered", "stored"} =>
           pc'[p] = pc[p] /\ run'[p] = run[p]
  PROVE  Written' /\ EvidenceKept'
<1>1. \A m, k : StoredAs(m, k)' = StoredAs(m, k)
  BY DEF StoredAs
<1>2. QED
  BY <1>1 DEF Written, EvidenceKept

\* What was stored under a number is never replaced: every step keeps Written and
\* EvidenceKept.
LEMMA WrittenStep ==
  ASSUME TypeInv, Held, Numbered, Written, EvidenceKept, [Next]_vars
  PROVE  Written' /\ EvidenceKept'
<1>1. ASSUME NEW p \in Procs, PutQuery(p) \/ PutResponse(p)
      PROVE  Written' /\ EvidenceKept'
  BY <1>1, PutQueryWritten, PutResponseWritten
<1>2. ASSUME NEW p \in Procs, CommitAttempt(p) \/ AnswerRequest(p)
      PROVE  Written' /\ EvidenceKept'
  <2>1. /\ pc[p] = "stored" /\ Record(p) /\ objects' = objects
        /\ Goto(p, "completing") \/ Goto(p, "done")
    BY <1>2 DEF CommitAttempt, AnswerRequest
  <2>2. QED
    BY <2>1, RecordWritten DEF Numbering
<1>3. ASSUME NEW r \in Requests, SendRequest(r) \/ CreateJob(r) \/ LockJob(r)
      PROVE  Written' /\ EvidenceKept'
  <2>1. UNCHANGED <<attempts, objects>>
    BY <1>3 DEF SendRequest, CreateJob, LockJob, store
  <2>2. \A p \in Procs : pc'[p] \in {"answered", "stored"} => pc'[p] = pc[p] /\ run'[p] = run[p]
    BY <1>3, JobTypes DEF TypeInv, TypeOK, SendRequest, CreateJob, LockJob, Goto
  <2>3. QED
    BY <2>1, <2>2, StepWritten
<1>4. ASSUME NEW w \in Workers, ClaimJob(w) \/ CompleteJob(w)
      PROVE  Written' /\ EvidenceKept'
  <2>1. UNCHANGED <<attempts, objects>>
    BY <1>4 DEF ClaimJob, CompleteJob, store
  <2>2. \A p \in Procs : pc'[p] \in {"answered", "stored"} => pc'[p] = pc[p] /\ run'[p] = run[p]
    <3>1. CASE ClaimJob(w)
      BY <3>1, JobTypes DEF TypeInv, TypeOK, ClaimJob, Goto
    <3>2. CASE CompleteJob(w)
      BY <3>2, JobTypes DEF TypeInv, TypeOK, CompleteJob, Goto
    <3>3. QED
      BY <1>4, <3>1, <3>2
  <2>3. QED
    BY <2>1, <2>2, StepWritten
<1>5. ASSUME NEW p \in Procs,
             LockSession(p) \/ RefusedRun(p) \/ MarkFailed(p) \/ Outage(p) \/ Die(p)
      PROVE  Written' /\ EvidenceKept'
  <2>1. UNCHANGED <<attempts, objects>>
    BY <1>5 DEF LockSession, RefusedRun, MarkFailed, Outage, Die, store
  <2>2. \A q \in Procs : pc'[q] \in {"answered", "stored"} => pc'[q] = pc[q] /\ run'[q] = run[q]
    BY <1>5 DEF TypeInv, TypeOK, LockSession, RefusedRun, MarkFailed, Outage, Die, Goto
  <2>3. QED
    BY <2>1, <2>2, StepWritten
<1>6. CASE UNCHANGED <<store, pc, run>>
  BY <1>6, StepWritten DEF store
<1>7. QED
  BY <1>1, <1>2, <1>3, <1>4, <1>5, <1>6, JobTypes
     DEF Next, Step, Request, Work, Enqueue, BecomeDue, BecomeStale, vars

\* Nothing is stored at first.
LEMMA WrittenInit == Init => Written /\ EvidenceKept
BY DEF Init, Written, EvidenceKept, Numbering

Recorded == TypeInv /\ Held /\ Numbered /\ AttemptsAttested /\ Written /\ EvidenceKept

\* Recorded in every reachable state.
LEMMA RecordedInvariant == Spec => []Recorded
<1>1. Recorded /\ [Next]_vars => Written' /\ EvidenceKept'
  BY WrittenStep DEF Recorded
<1>2. QED
  BY <1>1, WrittenInit, NumberedInvariant, PTL DEF Spec, Recorded

\* The query and the answer of an attempt that was recorded are in the store,
\* and are those of its own run and of no other.
THEOREM EvidenceAlwaysKept == Spec => []EvidenceKept
BY RecordedInvariant, PTL DEF Recorded

-----------------------------------------------------------------------------
(***************************************************************************)
(* Results.  A worker that has committed its attestation carries its       *)
(* number to the job: attestations are never removed, so it is still       *)
(* there, whoever failed or ran the job in between.                        *)
(***************************************************************************)
Attested(number, job) == number \in DOMAIN attestations /\ attestations[number].job = job

Carried ==
  /\ \A p \in Procs : pc[p] = "completing" => Attested(run[p].number, run[p].job)
  /\ \A j \in Jobs : jobs[j].status = "absent" => jobs[j].result = 0

Results == Carried /\ ResultsAttested

\* What was attested stays so, and what is recorded becomes so.
LEMMA AttestedStays ==
  ASSUME TypeInv, [Next]_vars, NEW number, NEW job, Attested(number, job)
  PROVE  Attested(number, job)'
<1>1. \/ attestations' = attestations
      \/ \E row : attestations' = Append(attestations, row)
  BY DEF Next, Step, Request, Work, Enqueue, BecomeDue, BecomeStale, SendRequest, CreateJob, LockJob,
         ClaimJob, CommitAttempt, CompleteJob, AnswerRequest, PutQuery, PutResponse, RefusedRun,
         MarkFailed, LockSession, Outage, Die, Record, store, vars
<1>2. number \in 1 .. Len(attestations) /\ Len(attestations) \in Nat
  BY DEF TypeInv, TypeOK, Attested
<1>3. ASSUME NEW row, attestations' = Append(attestations, row)
      PROVE  number \in DOMAIN attestations' /\ attestations'[number] = attestations[number]
  BY <1>2, <1>3
<1>4. QED
  BY <1>1, <1>3 DEF Attested

\* What is recorded becomes so.
LEMMA RecordAttested ==
  ASSUME TypeInv, NEW p \in Procs, pc[p] = "stored", Record(p), NEW n \in Nat, NEW j,
         n = Len(attestations) + 1, j = run[p].job
  PROVE  n # 0 /\ Attested(n, j)'
<1> DEFINE told == [attempt |-> run[p].number, job |-> run[p].job,
                    status |-> run[p].outcome.status]
<1>1. attestations' = Append(attestations, told) /\ told.job = j
  BY DEF Record
<1> HIDE DEF told
<1>2. Len(attestations) \in Nat
  BY DEF TypeInv, TypeOK
<1>3. n \in DOMAIN attestations' /\ attestations'[n] = told
  BY <1>1, <1>2 DEF TypeInv, TypeOK
<1>4. QED
  BY <1>1, <1>2, <1>3 DEF Attested

\* A step keeps the results if whatever it changes of a job, of an answer or
\* of what a worker carries is attested, or was already.
LEMMA StepResults ==
  ASSUME TypeInv, Results, [Next]_vars,
         \A p \in Procs : pc'[p] = "completing" =>
           \/ pc[p] = "completing" /\ run'[p] = run[p]
           \/ Attested(run[p].number, run[p].job)',
         \A j \in Jobs :
           \/ /\ jobs'[j].result = jobs[j].result
              /\ jobs'[j].status \in {"absent", "completed"} => jobs'[j].status = jobs[j].status
           \/ /\ jobs'[j].status = "completed" /\ jobs'[j].result # 0
              /\ Attested(jobs[j].result, j)',
         \A r \in Requests :
           \/ answer'[r] \in {answer[r], ServerError}
           \/ Attested(answer[r], KeyOf[r])'
  PROVE  Results'
<1>1. \A number, job : Attested(number, job) => Attested(number, job)'
  BY AttestedStays
<1>2. Carried'
  <2>1. ASSUME NEW p \in Procs, pc[p] = "completing", run'[p] = run[p]
        PROVE  Attested(run[p].number, run[p].job)'
    <3>1. PICK n, j : n = run[p].number /\ j = run[p].job
      OBVIOUS
    <3>2. Attested(n, j)'
      BY <1>1, <2>1, <3>1 DEF Results, Carried
    <3>3. QED
      BY <2>1, <3>1, <3>2
  <2>2. QED
    BY <2>1 DEF Results, Carried
<1>3. ResultsAttested'
  <2>1. ASSUME NEW j \in Jobs
        PROVE  /\ jobs'[j].status = "completed" => jobs'[j].result # 0
               /\ jobs'[j].result # 0 => Attested(jobs[j].result, j)'
    <3>1. CASE /\ jobs'[j].result = jobs[j].result
               /\ jobs'[j].status \in {"absent", "completed"} => jobs'[j].status = jobs[j].status
      <4>1. jobs[j].result # 0 => Attested(jobs[j].result, j)
        BY DEF Results, ResultsAttested, Attested
      <4>2. PICK n : n = jobs[j].result
        OBVIOUS
      <4>3. n # 0 => Attested(n, j)'
        BY <1>1, <4>1, <4>2
      <4>4. QED
        BY <3>1, <4>2, <4>3 DEF Results, ResultsAttested
    <3>2. QED
      BY <3>1
  <2>2. ASSUME NEW r \in Requests, answer'[r] \notin {Unanswered, ServerError}
        PROVE  Attested(answer[r], KeyOf[r])'
    <3>1. CASE answer'[r] = answer[r]
      <4>1. PICK n : n = answer[r]
        OBVIOUS
      <4>2. Attested(n, KeyOf[r])'
        BY <1>1, <2>2, <3>1, <4>1 DEF Results, ResultsAttested, Attested
      <4>3. QED
        BY <3>1, <4>1, <4>2
    <3>2. QED
      BY <2>2, <3>1
  <2>3. QED
    BY <2>1, <2>2 DEF ResultsAttested, Attested
<1>4. QED
  BY <1>2, <1>3 DEF Results

\* Handlers that complete no job and answer nobody but with an error.
LEMMA QuietResults ==
  ASSUME TypeInv, Results, [Next]_vars,
         \A p \in Procs : pc'[p] = "completing" => pc[p] = "completing" /\ run'[p] = run[p],
         \A j \in Jobs : /\ jobs'[j].result = jobs[j].result
                         /\ jobs'[j].status \in {"absent", "completed"} =>
                              jobs'[j].status = jobs[j].status,
         \A r \in Requests : answer'[r] \in {answer[r], ServerError}
  PROVE  Results'
BY StepResults

\* A request that finds its job completed is answered with its result.
LEMMA LockJobResults ==
  ASSUME TypeInv, Results, [Next]_vars, NEW r \in Requests, LockJob(r)
  PROVE  Results'
<1>1. r \in Procs /\ run[r].job = KeyOf[r] /\ KeyOf[r] \in Jobs /\ jobs' = jobs
  BY JobTypes DEF TypeInv, Placed, Busy, LockJob
<1>2. \A p \in Procs : pc'[p] = "completing" => pc[p] = "completing" /\ run'[p] = run[p]
  BY <1>1 DEF TypeInv, TypeOK, LockJob, Goto
<1>3. ASSUME NEW s \in Requests
      PROVE  answer'[s] = answer[s] \/ Attested(answer[s], KeyOf[s])'
  <2>1. CASE /\ s = r
             /\ jobs[KeyOf[r]].status = "completed"
             /\ answer' = [answer EXCEPT ![r] = jobs[KeyOf[r]].result]
    <3>1. PICK n : n = jobs[KeyOf[r]].result
      OBVIOUS
    <3>2. Attested(n, KeyOf[r])
      BY <1>1, <2>1, <3>1 DEF Results, ResultsAttested, Attested
    <3>3. Attested(n, KeyOf[r])'
      BY <3>2, AttestedStays
    <3>4. QED
      BY <2>1, <3>1, <3>3 DEF TypeInv, TypeOK
  <2>2. CASE answer'[s] = answer[s]
    BY <2>2
  <2>3. QED
    BY <1>1, <2>1, <2>2 DEF TypeInv, TypeOK, LockJob
<1>4. QED
  BY <1>1, <1>2, <1>3, StepResults

\* A worker completes its job with the attestation it carries.
LEMMA CompleteJobResults ==
  ASSUME TypeInv, Results, [Next]_vars, NEW w \in Workers, CompleteJob(w)
  PROVE  Results'
<1>1. PICK n \in Nat, j \in Jobs :
        /\ n = run[w].number /\ j = run[w].job /\ n # 0
        /\ jobs' = [jobs EXCEPT ![j] = Completed(@, n)]
  BY JobTypes DEF TypeInv, TypeOK, Placed, Busy, Runs, CompleteJob
<1>2. Attested(n, j)'
  BY <1>1, AttestedStays, JobTypes DEF Results, Carried, CompleteJob
<1>3. jobs'[j].status = "completed" /\ jobs'[j].result = n
  BY <1>1 DEF TypeInv, TypeOK, JobRows, Completed
<1>4. \A p \in Procs : pc'[p] = "completing" => pc[p] = "completing" /\ run'[p] = run[p]
  BY JobTypes DEF TypeInv, TypeOK, CompleteJob, Goto
<1>5. \A i \in Jobs \ {j} : jobs'[i] = jobs[i]
  BY <1>1 DEF TypeInv, TypeOK
<1>6. answer' = answer
  BY DEF CompleteJob
<1>7. QED
  BY <1>1, <1>2, <1>3, <1>4, <1>5, <1>6, StepResults

\* A worker commits the attestation that it will carry to its job ...
LEMMA CommitAttemptResults ==
  ASSUME TypeInv, Results, [Next]_vars, NEW w \in Workers, CommitAttempt(w)
  PROVE  Results'
<1>1. PICK n \in Nat : n = Len(attestations) + 1
  BY DEF TypeInv, TypeOK
<1>0. PICK j : j = run[w].job
  OBVIOUS
<1>2. Attested(n, j)'
  BY <1>0, <1>1, RecordAttested, JobTypes DEF CommitAttempt
<1>3. run'[w].number = n /\ run'[w].job = j
  BY <1>0, <1>1, JobTypes DEF TypeInv, TypeOK, Runs, CommitAttempt
<1>4. \A p \in Procs \ {w} : run'[p] = run[p] /\ pc'[p] = pc[p]
  BY DEF TypeInv, TypeOK, CommitAttempt, Goto
<1>5. jobs' = jobs /\ answer' = answer
  BY DEF CommitAttempt
<1>6. QED
  BY <1>2, <1>3, <1>4, <1>5, StepResults

\* ... and a request one that completes its job and answers it at once.
LEMMA AnswerRequestResults ==
  ASSUME TypeInv, Results, [Next]_vars, NEW r \in Requests, AnswerRequest(r)
  PROVE  Results'
<1>1. PICK n \in Nat, j \in Jobs : n = Len(attestations) + 1 /\ j = run[r].job /\ j = KeyOf[r]
  BY JobTypes DEF TypeInv, TypeOK, Placed, Busy, AnswerRequest
<1>2. n # 0 /\ Attested(n, j)'
  BY <1>1, RecordAttested, JobTypes DEF AnswerRequest
<1>3. jobs' = [jobs EXCEPT ![j] = Completed(@, n)] /\ answer' = [answer EXCEPT ![r] = n]
  BY <1>1 DEF AnswerRequest
<1>4. jobs'[j].status = "completed" /\ jobs'[j].result = n
  BY <1>3 DEF TypeInv, TypeOK, JobRows, Completed
<1>5. \A i \in Jobs \ {j} : jobs'[i] = jobs[i]
  BY <1>3 DEF TypeInv, TypeOK
<1>6. answer'[r] = n /\ \A s \in Requests \ {r} : answer'[s] = answer[s]
  BY <1>3 DEF TypeInv, TypeOK
<1>7. \A p \in Procs : pc'[p] = "completing" => pc[p] = "completing" /\ run'[p] = run[p]
  BY JobTypes DEF TypeInv, TypeOK, AnswerRequest, Goto
<1>8. QED
  BY <1>1, <1>2, <1>4, <1>5, <1>6, <1>7, StepResults

\* Posting, claiming and failing a job leave its result as it was.
LEMMA ResultsStep ==
  ASSUME TypeInv, Results, [Next]_vars
  PROVE  Results'
<1>1. ASSUME NEW j \in Jobs,
             \/ jobs[j].status = "absent" /\ jobs' = [jobs EXCEPT ![j] = NewJob]
             \/ jobs' = [jobs EXCEPT ![j] = Failed(@)]
             \/ jobs' = [jobs EXCEPT ![j].due = TRUE]
             \/ jobs' = [jobs EXCEPT ![j].fresh = FALSE]
             \/ jobs' = [jobs EXCEPT ![j].status = "running", ![j].fresh = TRUE]
      PROVE  \A i \in Jobs : /\ jobs'[i].result = jobs[i].result
                             /\ jobs'[i].status \in {"absent", "completed"} =>
                                  jobs'[i].status = jobs[i].status
  <2>1. NewJob.result = 0 /\ NewJob.status = "pending"
    BY DEF NewJob, NoJob
  <2>2. jobs[j].status = "absent" => jobs[j].result = 0
    BY DEF Results, Carried
  <2>3. \A i \in Jobs \ {j} : jobs'[i] = jobs[i]
    BY <1>1 DEF TypeInv, TypeOK
  <2>4. jobs[j] \in JobRows
    BY DEF TypeInv, TypeOK
  <2>5. \/ jobs[j].status = "absent" /\ jobs'[j] = NewJob
        \/ jobs'[j] = Failed(jobs[j])
        \/ jobs'[j] = [jobs[j] EXCEPT !.due = TRUE]
        \/ jobs'[j] = [jobs[j] EXCEPT !.fresh = FALSE]
        \/ jobs'[j] = [[jobs[j] EXCEPT !.status = "running"] EXCEPT !.fresh = TRUE]
    BY <1>1, <2>4 DEF TypeInv, TypeOK, JobRows
  <2>6. /\ jobs'[j].result = jobs[j].result
        /\ jobs'[j].status \in {"absent", "completed"} => jobs'[j].status = jobs[j].status
    BY <2>1, <2>2, <2>4, <2>5 DEF Failed, JobRows
  <2>7. QED
    BY <2>3, <2>6
<1>2. ASSUME NEW j \in Queued, Enqueue(j)
      PROVE  Results'
  <2>1. UNCHANGED <<pc, run, answer>>
    BY <1>2 DEF Enqueue
  <2>2. QED
    BY <1>1, <1>2, <2>1, JobTypes, QuietResults DEF Enqueue
<1>3. ASSUME NEW j \in Jobs, BecomeDue(j) \/ BecomeStale(j)
      PROVE  Results'
  <2>1. UNCHANGED <<pc, run, answer>>
    BY <1>3 DEF BecomeDue, BecomeStale
  <2>2. QED
    BY <1>1, <1>3, <2>1, QuietResults DEF BecomeDue, BecomeStale
<1>4. ASSUME NEW r \in Requests, CreateJob(r)
      PROVE  Results'
  <2>1. r \in Procs /\ run[r].job \in Jobs
    BY <1>4, JobTypes DEF TypeInv, Placed, Busy, CreateJob
  <2>2. \A p \in Procs : pc'[p] = "completing" => pc[p] = "completing" /\ run'[p] = run[p]
    BY <1>4, <2>1 DEF TypeInv, TypeOK, CreateJob, Goto
  <2>3. answer' = answer
    BY <1>4 DEF CreateJob
  <2>4. QED
    BY <1>1, <1>4, <2>1, <2>2, <2>3, QuietResults DEF CreateJob
<1>5. ASSUME NEW w \in Workers, ClaimJob(w)
      PROVE  Results'
  <2>1. PICK i \in DOMAIN queue :
          jobs' = [jobs EXCEPT ![queue[i]].status = "running", ![queue[i]].fresh = TRUE]
    BY <1>5 DEF ClaimJob
  <2>2. queue[i] \in Jobs
    BY <2>1 DEF TypeInv, TypeOK
  <2>3. \A p \in Procs : pc'[p] = "completing" => pc[p] = "completing" /\ run'[p] = run[p]
    BY <1>5, JobTypes DEF TypeInv, TypeOK, ClaimJob, Goto
  <2>4. answer' = answer
    BY <1>5 DEF ClaimJob
  <2>5. QED
    BY <1>1, <2>1, <2>2, <2>3, <2>4, QuietResults
<1>6. ASSUME NEW p \in Procs, MarkFailed(p)
      PROVE  Results'
  <2>1. run[p].job \in Jobs
    BY <1>6 DEF TypeInv, Placed, Busy, MarkFailed
  <2>2. \A q \in Procs : pc'[q] = "completing" => pc[q] = "completing" /\ run'[q] = run[q]
    BY <1>6 DEF TypeInv, TypeOK, MarkFailed, Goto
  <2>3. \A r \in Requests : answer'[r] \in {answer[r], ServerError}
    BY <1>6 DEF TypeInv, TypeOK, MarkFailed
  <2>4. QED
    BY <1>1, <1>6, <2>1, <2>2, <2>3, QuietResults DEF MarkFailed
<1>7. ASSUME NEW p \in Procs, \/ PutQuery(p) \/ PutResponse(p) \/ RefusedRun(p)
                              \/ LockSession(p) \/ Outage(p) \/ Die(p)
                              \/ p \in Requests /\ SendRequest(p)
      PROVE  Results'
  <2>1. jobs' = jobs
    BY <1>7 DEF PutQuery, PutResponse, RefusedRun, LockSession, Outage, Die, SendRequest
  <2>2. \A q \in Procs : pc'[q] = "completing" => pc[q] = "completing" /\ run'[q] = run[q]
    BY <1>7 DEF TypeInv, TypeOK, PutQuery, PutResponse, RefusedRun, LockSession, Outage, Die,
                SendRequest, Goto
  <2>3. \A r \in Requests : answer'[r] \in {answer[r], ServerError}
    BY <1>7 DEF TypeInv, TypeOK, PutQuery, PutResponse, RefusedRun, LockSession, Outage, Die,
                SendRequest
  <2>4. QED
    BY <2>1, <2>2, <2>3, QuietResults
<1>8. CASE UNCHANGED vars
  BY <1>8, QuietResults DEF vars
<1>9. QED
  BY <1>2, <1>3, <1>4, <1>5, <1>6, <1>7, <1>8, JobTypes, LockJobResults, CompleteJobResults,
     CommitAttemptResults, AnswerRequestResults DEF Next, Step, Request, Work

\* No job has a result at first.
LEMMA ResultsInit == Init => Results
BY JobTypes DEF Init, Results, Carried, ResultsAttested, NoJob, Unanswered, Attested

\* A completed job and an answered request name an attestation that exists
\* and was made for their job, whoever else ran it, failed or died.
THEOREM ResultsAlwaysAttested == Spec => []ResultsAttested
<1>1. TypeInv /\ Results /\ [Next]_vars => Results'
  BY ResultsStep
<1>2. Results => ResultsAttested
  BY DEF Results
<1>3. QED
  BY <1>1, <1>2, ResultsInit, RecordedInvariant, PTL DEF Spec, Recorded

=============================================================================
