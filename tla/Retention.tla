----------------------------- MODULE Retention -----------------------------
(***************************************************************************)
(* Packages of finalized remote sessions and the expiry of their storage:  *)
(* the download handlers of main.py, packaging.ensure_package, retention.  *)
(* protect_final_artifact and retention_cleanup.expire_due_sessions, in    *)
(* the beta that keeps evidence (env beta, evidence mode remote, bucket    *)
(* provider railway), whose API has a disk that no deployment outlives.    *)
(*                                                                         *)
(* A download holds the row of its session until its first commit, which   *)
(* comes before the package is protected; the expirer locks no row before  *)
(* it writes to it; whoever stores proofs of a session holds its row.      *)
(*                                                                         *)
(* Abstractions: time is counted in retention periods; a package is the    *)
(* certificate it was signed with, since that is what makes two packages   *)
(* of a session differ; the objects of a session under one prefix of the   *)
(* bucket stand or fall together.                                          *)
(***************************************************************************)
EXTENDS Naturals, FiniteSets

CONSTANTS
  Sessions,    \* 1 .. n, in the order of their ids
  Legacy,      \* the sessions whose evidence is in the bucket
  Downloads,   \* requests for a package or its checksum
  Expirers,    \* runs of the retention cleanup
  Provers,     \* who stores proofs of sessions: the worker, the ots-processor,
               \* requests for a timestamp or a batch
  Signers,     \* certificates a package may be signed with
  MaxTime,     \* bound: the latest time
  Outages,     \* bound: requests the bucket refuses, deaths and deployments
  None

ASSUME RetentionAssumption ==
  /\ Sessions \subseteq Nat /\ IsFiniteSet(Sessions) /\ Legacy \subseteq Sessions
  /\ Downloads \cap Expirers = {} /\ (Downloads \cup Expirers) \cap Nat = {}
  /\ Provers \cap (Downloads \cup Expirers) = {}
  /\ None \notin Downloads \cup Expirers \cup Signers \cup Nat
  /\ MaxTime \in Nat /\ Outages \in Nat

VARIABLES
  actors,    \* the requests and runs there are; never changes
  life,      \* per session: absent, kept or gone
  storage,   \* per legacy session: status, deadline (storage_expires_at, None
             \* or a time), expired (storage_expired_at is set), package_status
  signer,    \* the certificate of the API that is deployed
  zip,       \* per session, the package on the API's disk
  sha,       \* per session, the package its checksum file tells of
  parts,     \* sessions whose parts are in the bucket (sessions/)
  finals,    \* the packages in the bucket (final/)
  proofs,    \* sessions with proofs in the bucket (proofs/sessions/)
  rowLock,   \* per session, the download that holds its row, or None
  now,
  at,        \* per process, where it is
  job,       \* per process, what it works on
  outages,   \* how many are left
  promised,  \* history: per session, a period after the earliest beginning of
             \* a protection that stored its package
  late,      \* history: sessions with a download under way between the deletion
             \* of their objects and the commit that says so
  reproved   \* history: sessions whose proofs were stored after that deletion

bucket   == <<parts, finals, proofs>>
disk     == <<signer, zip, sha>>
history  == <<promised, late, reproved>>
retentionVars == <<actors, life, storage, disk, bucket, rowLock, now, at, job, outages, history>>

Workers == Downloads \cup Expirers

\* session: the one it works on; seen: what it read of it; package: the one it
\* answers with; until: how long that is to be kept; stored: the bucket has it;
\* due: what is left to expire.
NoJob == [session |-> None, seen |-> [status |-> None, deadline |-> None],
          package |-> None, until |-> None, stored |-> FALSE, due |-> {}]

Go(p, place) == at' = [at EXCEPT ![p] = place]

\* The request is answered, or its transaction rolled back.
Leave(p) ==
  /\ Go(p, "idle")
  /\ job' = [job EXCEPT ![p] = NoJob]
  /\ rowLock' = [s \in Sessions |-> IF rowLock[s] = p THEN None ELSE rowLock[s]]

-----------------------------------------------------------------------------
(***************************************************************************)
(* GET /package and /package.sha256.                                       *)
(***************************************************************************)
StorageActive(s) == ~storage[s].expired /\ storage[s].status # "expired"

Packaged(s) == zip[s] # None /\ sha[s] # None

Free(s) == rowLock[s] = None

\* An expirer has deleted the objects and not said so yet.
Emptied(s) == \E c \in Expirers : at[c] = "marking" /\ job[c].session = s

\* retention_deadline, when protect_final_artifact begins.
RetentionDeadline == now + 1

\* require_capture_session for update, then require_storage_active: 404, 410
\* or a package, which is there already or is to be made.
Admit(p) ==
  /\ p \in Downloads \cap actors /\ at[p] = "idle"
  /\ \E s \in Legacy :
       /\ life[s] = "kept" /\ Free(s) /\ StorageActive(s)
       /\ rowLock' = [rowLock EXCEPT ![s] = p]
       /\ job' = [job EXCEPT ![p] = [NoJob EXCEPT !.session = s, !.package = sha[s],
                  !.seen = [status |-> storage[s].status, deadline |-> storage[s].deadline],
                  !.until = IF Packaged(s) THEN RetentionDeadline ELSE None]]
       /\ Go(p, IF Packaged(s) THEN "protecting" ELSE "packing")
       /\ late' = IF Emptied(s) THEN late \cup {s} ELSE late
  /\ UNCHANGED <<actors, life, storage, disk, bucket, now, outages, promised, reproved>>

\* The members are read and the package linked under its name, unless that
\* is taken; without the parts the answer is 500.
LinkPackage(p) ==
  /\ at[p] = "packing"
  /\ LET s == job[p].session
     IN  IF s \in parts
         THEN /\ zip' = [zip EXCEPT ![s] = IF @ = None THEN signer ELSE @]
              /\ Go(p, "hashing")
              /\ UNCHANGED <<rowLock, job>>
         ELSE Leave(p) /\ UNCHANGED zip
  /\ UNCHANGED <<actors, life, storage, signer, sha, bucket, now, outages, history>>

\* hash_path(target): of the package that is there, which may not be the one
\* just made.
HashOf(p) == zip[job[p].session]

\* write_once refuses another checksum.  The first commit releases the row.
WriteHash(p) ==
  /\ at[p] = "hashing"
  /\ LET s == job[p].session
     IN  IF sha[s] \in {None, HashOf(p)}
         THEN /\ sha' = [sha EXCEPT ![s] = HashOf(p)]
              /\ storage' = [storage EXCEPT ![s].package = "available"]
              /\ job' = [job EXCEPT ![p].package = HashOf(p), ![p].until = RetentionDeadline]
              /\ rowLock' = [rowLock EXCEPT ![s] = None]
              /\ Go(p, "protecting")
         ELSE Leave(p) /\ UNCHANGED <<sha, storage>>
  /\ UNCHANGED <<actors, life, signer, zip, bucket, now, outages, history>>

Earlier(t, u) == IF t = None \/ u < t THEN u ELSE t

\* storage.protect_final: put unless it is there, then verified.
ProtectFinal(p) ==
  /\ at[p] = "protecting"
  /\ finals' = finals \cup {[session |-> job[p].session, package |-> job[p].package]}
  /\ job' = [job EXCEPT ![p].stored = TRUE]
  /\ promised' = [promised EXCEPT ![job[p].session] = Earlier(@, job[p].until)]
  /\ Go(p, "recording")
  /\ UNCHANGED <<actors, life, storage, disk, parts, proofs, rowLock, now, outages, late, reproved>>

\* The exception is caught: the status says retention_failed.
ProtectFails(p) ==
  /\ at[p] = "protecting" /\ outages > 0
  /\ outages' = outages - 1
  /\ Go(p, "recording")
  /\ UNCHANGED <<actors, life, storage, disk, bucket, rowLock, now, job, history>>

Outcome(p) == IF job[p].stored THEN "stored" ELSE "retention_failed"

\* Also when the package could not be stored.
MutantExtends(p) == job[p].seen.deadline = None \/ job[p].seen.deadline < job[p].until

\* The deadline that was taken before the upload replaces one that was earlier
\* when the download read it.
Extends(p) ==
  job[p].stored /\ (job[p].seen.deadline = None \/ job[p].seen.deadline < job[p].until)

\* The second commit writes what differs from what the download read before
\* the first one; the update of a row that was purged fails.
RecordProtection(p) ==
  /\ at[p] = "recording"
  /\ LET s == job[p].session
         deadline == IF Extends(p) THEN job[p].until ELSE storage[s].deadline
         status == IF Outcome(p) # job[p].seen.status THEN Outcome(p) ELSE storage[s].status
         writes == Extends(p) \/ Outcome(p) # job[p].seen.status
     IN  /\ writes => rowLock[s] \in {None, p}
         /\ IF writes /\ life[s] = "gone"
            THEN UNCHANGED storage
            ELSE storage' = [storage EXCEPT ![s].status = status, ![s].deadline = deadline]
  /\ Leave(p)
  /\ UNCHANGED <<actors, life, disk, bucket, now, outages, history>>

-----------------------------------------------------------------------------
(***************************************************************************)
(* expire_due_sessions.                                                    *)
(***************************************************************************)
\* Only what is stored is looked at.
MutantStoredSessions == {s \in Legacy :
  /\ life[s] = "kept" /\ storage[s].status = "stored"
  /\ storage[s].deadline # None /\ storage[s].deadline <= now}

DueSessions == {s \in Legacy :
  /\ life[s] = "kept" /\ ~storage[s].expired
  /\ storage[s].deadline # None /\ storage[s].deadline <= now}

ListDue(c) ==
  /\ c \in Expirers \cap actors /\ at[c] = "idle"
  /\ DueSessions # {}
  /\ job' = [job EXCEPT ![c].due = DueSessions]
  /\ Go(c, "expiring")
  /\ UNCHANGED <<actors, life, storage, disk, bucket, rowLock, now, outages, history>>

FinalsOf(s) == {f \in finals : f.session = s}

UnderWay(s) == \E p \in Downloads : job[p].session = s

MutantEmptyPrefixes(s, n) ==
  /\ parts'  = IF n > 0 THEN parts \ {s} ELSE parts
  /\ finals' = IF n > 1 THEN finals \ FinalsOf(s) ELSE finals
  /\ proofs' = proofs

\* storage.delete_session empties one prefix after the other, n of them.
EmptyPrefixes(s, n) ==
  /\ parts'  = IF n > 0 THEN parts \ {s} ELSE parts
  /\ finals' = IF n > 1 THEN finals \ FinalsOf(s) ELSE finals
  /\ proofs' = IF n > 2 THEN proofs \ {s} ELSE proofs

DeleteSession(c) ==
  /\ at[c] = "expiring"
  /\ \E s \in job[c].due :
       /\ job' = [job EXCEPT ![c].session = s]
       /\ EmptyPrefixes(s, 3)
       /\ late' = IF UnderWay(s) THEN late \cup {s} ELSE late \ {s}
       /\ reproved' = reproved \ {s}
  /\ Go(c, "marking")
  /\ UNCHANGED <<actors, life, storage, disk, rowLock, now, outages, promised>>

\* The bucket fails after some of the prefixes, or the commit fails after all.
DeletionFails(c) ==
  /\ at[c] = "expiring" /\ outages > 0
  /\ outages' = outages - 1
  /\ \E s \in job[c].due, n \in 0 .. 3 :
       /\ job' = [job EXCEPT ![c].session = s]
       /\ EmptyPrefixes(s, n)
  /\ Go(c, "failing")
  /\ UNCHANGED <<actors, life, storage, disk, rowLock, now, history>>

\* The next session, or the end of the run.
NextDue(c) ==
  LET rest == job[c].due \ {job[c].session}
  IN  /\ job' = [job EXCEPT ![c] = [NoJob EXCEPT !.due = rest]]
      /\ Go(c, IF rest = {} THEN "idle" ELSE "expiring")

\* The row is written when it is free; one that was purged is not there.
Mark(c, row) ==
  /\ Free(job[c].session)
  /\ storage' = IF life[job[c].session] = "kept"
                THEN [storage EXCEPT ![job[c].session] = row] ELSE storage
  /\ NextDue(c)
  /\ UNCHANGED <<actors, life, disk, bucket, rowLock, now, outages, history>>

MarkExpired(c) ==
  at[c] = "marking"
    /\ Mark(c, [storage[job[c].session] EXCEPT !.status = "expired", !.expired = TRUE])

MarkFailed(c) ==
  at[c] = "failing"
    /\ Mark(c, [storage[job[c].session] EXCEPT !.status = "expiration_failed"])

-----------------------------------------------------------------------------
MutantPurgeable(s) == TRUE

\* purge_session of privacy_cleanup (the rest of it: OtsPipeline), for an
\* evidence mode of hash_only or storage that has expired.
Purgeable(s) == s \in Legacy => storage[s].expired

\* Its proofs go before its row.
PurgeSession(s) ==
  /\ life' = [life EXCEPT ![s] = "gone"]
  /\ proofs' = proofs \ {s}
  /\ UNCHANGED <<actors, storage, disk, parts, finals, rowLock, now, at, job, outages, history>>

CreateRow(s) ==
  /\ life' = [life EXCEPT ![s] = "kept"]
  /\ UNCHANGED <<actors, storage, disk, bucket, rowLock, now, at, job, outages, history>>

\* timestamp_capture and create_merkle_batch lock the session and store what
\* they made of it; neither asks whether its storage has expired.
StoreProof(s) ==
  /\ life[s] = "kept" /\ Free(s)
  /\ proofs' = proofs \cup {s}
  /\ reproved' = IF s \in Legacy /\ (storage[s].expired \/ Emptied(s))
                 THEN reproved \cup {s} ELSE reproved
  /\ UNCHANGED <<actors, life, storage, disk, parts, finals, rowLock, now, at, job, outages,
                 promised, late>>

Tick ==
  /\ now < MaxTime /\ now' = now + 1
  /\ UNCHANGED <<actors, life, storage, disk, bucket, rowLock, at, job, outages, history>>

\* A deployment of the API, with a new certificate or the same: another disk,
\* and what it was doing is lost.
Redeploy ==
  /\ outages > 0 /\ outages' = outages - 1
  /\ signer' \in Signers
  /\ zip' = [s \in Legacy |-> None] /\ sha' = [s \in Legacy |-> None]
  /\ at' = [p \in Workers |-> IF p \in Downloads THEN "idle" ELSE at[p]]
  /\ job' = [p \in Workers |-> IF p \in Downloads THEN NoJob ELSE job[p]]
  /\ rowLock' = [s \in Sessions |-> IF rowLock[s] \in Downloads THEN None ELSE rowLock[s]]
  /\ UNCHANGED <<actors, life, storage, bucket, now, history>>

\* A process dies: what it committed, linked and put stays.
Crash(p) ==
  /\ at[p] # "idle" /\ outages > 0
  /\ outages' = outages - 1
  /\ Leave(p)
  /\ UNCHANGED <<actors, life, storage, disk, bucket, now, history>>

RetentionInit ==
  /\ storage = [s \in Legacy |-> [status |-> "staging", deadline |-> None, expired |-> FALSE,
                                  package |-> "not_generated"]]
  /\ signer \in Signers
  /\ zip = [s \in Legacy |-> None] /\ sha = [s \in Legacy |-> None]
  /\ parts = Legacy /\ finals = {} /\ proofs = {}
  /\ rowLock = [s \in Sessions |-> None]
  /\ now = 0
  /\ at = [p \in Workers |-> "idle"] /\ job = [p \in Workers |-> NoJob]
  /\ promised = [s \in Legacy |-> None] /\ late = {} /\ reproved = {}

Downloading(p) ==
  \/ Admit(p) \/ LinkPackage(p) \/ WriteHash(p)
  \/ ProtectFinal(p) \/ ProtectFails(p) \/ RecordProtection(p)

Expiring(c) ==
  \/ ListDue(c) \/ DeleteSession(c) \/ DeletionFails(c) \/ MarkExpired(c) \/ MarkFailed(c)

RetentionNext ==
  \/ \E p \in Workers : Downloading(p) \/ Expiring(p) \/ Crash(p)
  \/ actors \cap Provers # {} /\ \E s \in Sessions : StoreProof(s)
  \/ Redeploy
  \/ Tick

-----------------------------------------------------------------------------
Times == 0 .. MaxTime + 1

Statuses == {"staging", "stored", "retention_failed", "expired", "expiration_failed"}

StorageRows ==
  [status : Statuses, deadline : Times \cup {None}, expired : BOOLEAN,
   package : {"not_generated", "available"}]

Packages == [session : Legacy, package : Signers]

Places == {"idle", "packing", "hashing", "protecting", "recording",
           "expiring", "marking", "failing"}

JobRows ==
  [session : Legacy \cup {None},
   seen : [status : Statuses \cup {None}, deadline : Times \cup {None}],
   package : Signers \cup {None}, until : Times \cup {None}, stored : BOOLEAN,
   due : SUBSET Legacy]

\* The rows, files and objects are those of models.py and storage.py.
RetentionTypeOK ==
  /\ life \in [Sessions -> {"absent", "kept", "gone"}]
  /\ storage \in [Legacy -> StorageRows]
  /\ signer \in Signers
  /\ zip \in [Legacy -> Signers \cup {None}] /\ sha \in [Legacy -> Signers \cup {None}]
  /\ parts \subseteq Legacy /\ finals \subseteq Packages /\ proofs \subseteq Sessions
  /\ rowLock \in [Sessions -> Workers \cup {None}]
  /\ now \in 0 .. MaxTime /\ outages \in Nat
  /\ at \in [Workers -> Places] /\ job \in [Workers -> JobRows]
  /\ promised \in [Legacy -> Times \cup {None}]
  /\ late \subseteq Legacy /\ reproved \subseteq Legacy

\* An expired session has nothing left in the bucket, whatever failed half-way
\* (docs/operations.md: the prefixes are emptied and only then `expired' is
\* recorded), unless a download was under way between the two, which may put
\* its package back, or its proofs were stored after they were deleted:
\* nothing will delete these again.
ExpiredEmptied ==
  \A s \in Legacy : storage[s].expired =>
    /\ s \notin parts
    /\ FinalsOf(s) # {} => s \in late
    /\ s \in proofs => s \in reproved

\* No evidence is deleted before its package was stored and a whole period has
\* passed since that protection began, or the first of them that stored it:
\* however long an upload takes, and however stale the deadline is that a
\* download has read or computed before it (docs/operations.md:26: 30 days).
KeptForAPeriod ==
  \A s \in Legacy : s \notin parts => promised[s] # None /\ promised[s] <= now

PastDue(s) == storage[s].deadline # None /\ storage[s].deadline <= now

\* Storage that is due expires, however many runs of the expirer fail or die,
\* unless a download gives it a new deadline (docs/operations.md: a partial
\* failure is tried again).
DueExpires ==
  \A s \in Legacy :
    PastDue(s) /\ actors \cap Expirers # {} ~> storage[s].expired \/ life[s] = "gone" \/ ~PastDue(s)

=============================================================================
