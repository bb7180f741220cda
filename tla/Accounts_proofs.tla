--------------------------- MODULE Accounts_proofs ---------------------------
(***************************************************************************)
(* Theorems about the specification of Accounts, for every value of the    *)
(* constants, with those of Retention, which it composes.                  *)
(***************************************************************************)
EXTENDS Accounts, FiniteSetTheorems, WellFoundedInduction, TLAPS

-----------------------------------------------------------------------------
(***************************************************************************)
(* What every step of Retention preserves, and every step of a module that *)
(* composes it: the invariant StoredInv, from which ExpiredEmptied,        *)
(* KeptForAPeriod and EvidenceIsKnown follow.                              *)
(***************************************************************************)
AtDownload == {"packing", "hashing", "protecting", "recording"}
AtExpirer  == {"expiring", "marking", "failing"}

\* Each process is where only its kind goes, and holds what its place supposes:
\* a session, a package on the disk, or the package and for how long.
Placed(p) ==
  /\ at[p] \in AtDownload => p \in Downloads /\ job[p].session \in Legacy
  /\ at[p] \in AtExpirer => p \in Expirers
  /\ at[p] \in {"marking", "failing"} => job[p].session \in Legacy
  /\ at[p] = "hashing" => zip[job[p].session] # None
  /\ at[p] \in {"protecting", "recording"} => job[p].package # None /\ job[p].until # None
  /\ job[p].stored => at[p] = "recording"

PlacesInv == RetentionTypeOK /\ \A p \in Workers : Placed(p)

\* No deadline is before what was promised,
DeadlinesPromised == \A s \in Legacy :
  storage[s].deadline # None => promised[s] # None /\ promised[s] <= storage[s].deadline

\* nor is one that a download is about to record,
UntilsPromised == \A p \in Workers : at[p] = "recording" /\ job[p].stored =>
  promised[job[p].session] # None /\ promised[job[p].session] <= job[p].until

\* and what an expirer is still to delete was due when it was listed.
DuesPromised == \A p \in Workers : \A s \in job[p].due :
  promised[s] # None /\ promised[s] <= now

PromisesInv == DeadlinesPromised /\ UntilsPromised /\ DuesPromised /\ KeptForAPeriod

\* What is deleted, and not given back by a download that was under way, is
\* deleted altogether, and no download works on it.
EmptiedStays == \A s \in Legacy : Emptied(s) \/ storage[s].expired =>
  /\ s \notin parts
  /\ s \notin late => FinalsOf(s) = {} /\ ~UnderWay(s)
  /\ s \in proofs => s \in reproved

\* A row is purged only after its storage has expired, and its proofs before it.
GoneExpired == \A s \in Sessions : life[s] = "gone" =>
  /\ s \in Legacy => storage[s].expired
  /\ s \notin proofs

EmptyingInv == EmptiedStays /\ GoneExpired

StoredInv == PlacesInv /\ PromisesInv /\ EmptyingInv

-----------------------------------------------------------------------------
(***************************************************************************)
(* The steps.                                                              *)
(***************************************************************************)
\* What a composing module does to this state besides RetentionNext: it
\* purges and creates rows, and its own processes die of outages, after they
\* have deleted proofs or not.
PurgeRow  == \E s \in Sessions : life[s] = "kept" /\ Purgeable(s) /\ PurgeSession(s)
InsertRow == \E s \in Sessions \ Legacy : CreateRow(s)
OtherOutage ==
  /\ outages > 0 /\ outages' = outages - 1
  /\ proofs' \in SUBSET proofs
  /\ UNCHANGED <<actors, life, storage, disk, parts, finals, rowLock, now, at, job, history>>

RetentionStep ==
  RetentionNext \/ PurgeRow \/ InsertRow \/ OtherOutage \/ UNCHANGED retentionVars

\* Each step by its name: how proofs below split RetentionStep.
LEMMA RetentionSteps ==
  ASSUME RetentionStep
  PROVE  \/ \E p \in Workers :
              \/ Admit(p) \/ LinkPackage(p) \/ WriteHash(p) \/ ProtectFinal(p)
              \/ ProtectFails(p) \/ RecordProtection(p)
              \/ ListDue(p) \/ DeleteSession(p) \/ DeletionFails(p)
              \/ MarkExpired(p) \/ MarkFailed(p) \/ Crash(p)
         \/ (\E s \in Sessions : StoreProof(s)) \/ Redeploy
         \/ Tick \/ PurgeRow \/ InsertRow \/ OtherOutage \/ UNCHANGED retentionVars
BY DEF RetentionStep, RetentionNext, Downloading, Expiring

\* The facts about constants that the proofs use.
LEMMA RetentionConstants ==
  /\ Sessions \subseteq Nat /\ Legacy \subseteq Sessions /\ None \notin Nat
  /\ Downloads \cap Expirers = {} /\ None \notin Workers /\ None \notin Signers
  /\ MaxTime \in Nat /\ Times \subseteq Nat /\ None \notin Times
BY RetentionAssumption DEF Workers, Times

\* A job that is nobody's is of the type of jobs.
LEMMA NoJobType == NoJob \in JobRows /\ NoJob.session = None /\ NoJob.due = {} /\ ~NoJob.stored
BY DEF NoJob, JobRows

\* A job remains one when a field of it is assigned.
LEMMA JobFieldTypes ==
  ASSUME NEW j \in JobRows
  PROVE  /\ \A s \in Legacy \cup {None} : [j EXCEPT !.session = s] \in JobRows
         /\ \A x \in Signers \cup {None}, t \in Times \cup {None} :
              [[j EXCEPT !.package = x] EXCEPT !.until = t] \in JobRows
         /\ [j EXCEPT !.stored = TRUE] \in JobRows
         /\ \A D \in SUBSET Legacy : [j EXCEPT !.due = D] \in JobRows
         /\ j.session \in Legacy \cup {None} /\ j.package \in Signers \cup {None}
         /\ j.until \in Times \cup {None} /\ j.due \in SUBSET Legacy
BY DEF JobRows

\* And a row of the storage remains one.
LEMMA StorageFieldTypes ==
  ASSUME NEW r \in StorageRows
  PROVE  /\ \A x \in Statuses : [r EXCEPT !.status = x] \in StorageRows
         /\ \A d \in Times \cup {None} : [r EXCEPT !.deadline = d] \in StorageRows
         /\ \A b \in BOOLEAN : [r EXCEPT !.expired = b] \in StorageRows
         /\ [r EXCEPT !.package = "available"] \in StorageRows
BY DEF StorageRows

\* A deadline that is taken now is a time.
LEMMA DeadlineType ==
  ASSUME RetentionTypeOK
  PROVE  RetentionDeadline \in Times /\ RetentionDeadline # None
BY RetentionConstants DEF RetentionTypeOK, RetentionDeadline, Times

\* What is kept of a session for a download that leaves or is lost.
LEMMA LeaveType ==
  ASSUME RetentionTypeOK, NEW p \in Workers, Leave(p)
  PROVE  /\ at' \in [Workers -> Places] /\ job' \in [Workers -> JobRows]
         /\ rowLock' \in [Sessions -> Workers \cup {None}]
         /\ at'[p] = "idle" /\ job'[p] = NoJob
         /\ \A q \in Workers \ {p} : at'[q] = at[q] /\ job'[q] = job[q]
BY NoJobType DEF RetentionTypeOK, Leave, Go, Places

\* What a download that is admitted takes with it.
LEMMA AdmitJob ==
  ASSUME RetentionTypeOK, NEW p \in Workers, Admit(p)
  PROVE  \E s \in Legacy :
           /\ p \in Downloads /\ life[s] = "kept" /\ StorageActive(s)
           /\ job' \in [Workers -> JobRows] /\ at' \in [Workers -> Places]
           /\ rowLock' \in [Sessions -> Workers \cup {None}]
           /\ job'[p].session = s /\ job'[p].due = {} /\ ~job'[p].stored
           /\ \/ at'[p] = "packing"
              \/ at'[p] = "protecting" /\ job'[p].package # None /\ job'[p].until # None
           /\ late' = IF Emptied(s) THEN late \cup {s} ELSE late
           /\ \A q \in Workers \ {p} : at'[q] = at[q] /\ job'[q] = job[q]
<1>1. PICK s \in Legacy :
        /\ life[s] = "kept" /\ StorageActive(s)
        /\ rowLock' = [rowLock EXCEPT ![s] = p]
        /\ job' = [job EXCEPT ![p] = [NoJob EXCEPT !.session = s, !.package = sha[s],
                   !.seen = [status |-> storage[s].status, deadline |-> storage[s].deadline],
                   !.until = IF Packaged(s) THEN RetentionDeadline ELSE None]]
        /\ at' = [at EXCEPT ![p] = IF Packaged(s) THEN "protecting" ELSE "packing"]
        /\ late' = IF Emptied(s) THEN late \cup {s} ELSE late
  BY DEF Admit, Go
<1>2. PICK until : until = IF Packaged(s) THEN RetentionDeadline ELSE None
  OBVIOUS
<1> DEFINE j == [NoJob EXCEPT !.session = s, !.package = sha[s],
                   !.seen = [status |-> storage[s].status, deadline |-> storage[s].deadline],
                   !.until = until]
<1>3. until \in Times \cup {None} /\ (Packaged(s) => until # None)
  BY <1>2, DeadlineType
<1>4. /\ storage[s].status \in Statuses /\ storage[s].deadline \in Times \cup {None}
      /\ sha[s] \in Signers \cup {None}
  BY DEF RetentionTypeOK, StorageRows
<1>5. j \in JobRows
  BY <1>3, <1>4 DEF NoJob, JobRows
<1>6. j.session = s /\ j.package = sha[s] /\ j.until = until /\ j.due = {} /\ ~j.stored
  BY DEF NoJob
<1>7. job' = [job EXCEPT ![p] = j]
  BY <1>1, <1>2
<1> HIDE DEF j
<1>8. job' \in [Workers -> JobRows] /\ job'[p] = j
  BY <1>5, <1>7 DEF RetentionTypeOK
<1>9. /\ at' \in [Workers -> Places]
      /\ at'[p] = IF Packaged(s) THEN "protecting" ELSE "packing"
      /\ rowLock' \in [Sessions -> Workers \cup {None}]
  BY <1>1, RetentionConstants DEF RetentionTypeOK, Places
<1>10. \A q \in Workers \ {p} : at'[q] = at[q] /\ job'[q] = job[q]
  BY <1>1, <1>7 DEF RetentionTypeOK
<1>11. Packaged(s) => sha[s] # None
  BY DEF Packaged
<1>12. p \in Downloads
  BY DEF Admit
<1> QED
  BY <1>1, <1>3, <1>6, <1>8, <1>9, <1>10, <1>11, <1>12

\* What a download holds after the package was linked, or was not.
LEMMA LinkJob ==
  ASSUME PlacesInv, NEW p \in Workers, LinkPackage(p)
  PROVE  /\ job' \in [Workers -> JobRows] /\ at' \in [Workers -> Places]
         /\ rowLock' \in [Sessions -> Workers \cup {None}]
         /\ zip' \in [Legacy -> Signers \cup {None}]
         /\ \A s \in Legacy : zip[s] # None => zip'[s] # None
         /\ \A q \in Workers \ {p} : at'[q] = at[q] /\ job'[q] = job[q]
         /\ \/ at'[p] = "idle" /\ job'[p] = NoJob
            \/ at'[p] = "hashing" /\ job'[p] = job[p] /\ zip'[job[p].session] # None
<1> DEFINE s == job[p].session
<1>1. s \in Legacy /\ RetentionTypeOK
  BY DEF LinkPackage, PlacesInv, Placed, AtDownload
<1>2. CASE s \in parts
  <2>1. /\ zip' = [zip EXCEPT ![s] = IF @ = None THEN signer ELSE @]
        /\ at' = [at EXCEPT ![p] = "hashing"] /\ job' = job /\ rowLock' = rowLock
    BY <1>2 DEF LinkPackage, Go
  <2> QED
    BY <1>1, <2>1, RetentionConstants DEF RetentionTypeOK, Places
<1>3. CASE s \notin parts
  BY <1>1, <1>3, LeaveType DEF LinkPackage, RetentionTypeOK
<1> QED
  BY <1>2, <1>3

\* And after the checksum was written, or was another.
LEMMA HashJob ==
  ASSUME PlacesInv, NEW p \in Workers, WriteHash(p)
  PROVE  /\ job' \in [Workers -> JobRows] /\ at' \in [Workers -> Places]
         /\ rowLock' \in [Sessions -> Workers \cup {None}]
         /\ sha' \in [Legacy -> Signers \cup {None}]
         /\ storage' \in [Legacy -> StorageRows]
         /\ \A s \in Legacy : /\ storage'[s].deadline = storage[s].deadline
                              /\ storage'[s].expired = storage[s].expired
         /\ \A q \in Workers \ {p} : at'[q] = at[q] /\ job'[q] = job[q]
         /\ \/ at'[p] = "idle" /\ job'[p] = NoJob
            \/ /\ at'[p] = "protecting"
               /\ job'[p].session = job[p].session /\ job'[p].due = job[p].due
               /\ job'[p].stored = job[p].stored
               /\ job'[p].package # None /\ job'[p].until # None
<1> DEFINE s == job[p].session
<1>1. s \in Legacy /\ RetentionTypeOK /\ zip[s] # None
  BY DEF WriteHash, PlacesInv, Placed, AtDownload
<1>2. HashOf(p) \in Signers
  BY <1>1 DEF HashOf, RetentionTypeOK
<1>3. CASE sha[s] \in {None, HashOf(p)}
  <2> DEFINE j == [[job[p] EXCEPT !.package = HashOf(p)] EXCEPT !.until = RetentionDeadline]
  <2>1. /\ sha' = [sha EXCEPT ![s] = HashOf(p)]
        /\ storage' = [storage EXCEPT ![s].package = "available"]
        /\ job' = [job EXCEPT ![p] = j]
        /\ rowLock' = [rowLock EXCEPT ![s] = None]
        /\ at' = [at EXCEPT ![p] = "protecting"]
    BY <1>1, <1>3 DEF WriteHash, Go, RetentionTypeOK
  <2>2. job[p] \in JobRows /\ RetentionDeadline \in Times /\ RetentionDeadline # None
    BY <1>1, DeadlineType DEF RetentionTypeOK
  <2>3. j \in JobRows
    BY <1>2, <2>2, JobFieldTypes
  <2>4. /\ j.session = job[p].session /\ j.due = job[p].due /\ j.stored = job[p].stored
        /\ j.package = HashOf(p) /\ j.until = RetentionDeadline
    BY <2>2 DEF JobRows
  <2> HIDE DEF j
  <2>5. /\ job' \in [Workers -> JobRows] /\ job'[p] = j
        /\ at' \in [Workers -> Places] /\ at'[p] = "protecting"
        /\ \A q \in Workers \ {p} : at'[q] = at[q] /\ job'[q] = job[q]
    BY <1>1, <2>1, <2>3 DEF RetentionTypeOK, Places
  <2>6. /\ sha' \in [Legacy -> Signers \cup {None}]
        /\ rowLock' \in [Sessions -> Workers \cup {None}]
    BY <1>1, <1>2, <2>1 DEF RetentionTypeOK
  <2>7. /\ storage' \in [Legacy -> StorageRows]
        /\ \A r \in Legacy : /\ storage'[r].deadline = storage[r].deadline
                             /\ storage'[r].expired = storage[r].expired
    BY <1>1, <2>1, StorageFieldTypes DEF RetentionTypeOK, StorageRows
  <2> QED
    BY <1>2, <2>2, <2>4, <2>5, <2>6, <2>7, RetentionConstants
<1>4. CASE sha[s] \notin {None, HashOf(p)}
  BY <1>1, <1>4, LeaveType DEF WriteHash, RetentionTypeOK
<1> QED
  BY <1>3, <1>4

\* What a download promises when it has stored its package.
LEMMA ProtectJob ==
  ASSUME PlacesInv, NEW p \in Workers, ProtectFinal(p)
  PROVE  /\ job' \in [Workers -> JobRows] /\ at' \in [Workers -> Places]
         /\ p \in Downloads /\ job[p].session \in Legacy /\ job[p].until \in Times
         /\ finals' \subseteq Packages
         /\ finals' = finals \cup {[session |-> job[p].session, package |-> job[p].package]}
         /\ promised' = [promised EXCEPT ![job[p].session] = Earlier(@, job[p].until)]
         /\ promised' \in [Legacy -> Times \cup {None}]
         /\ at'[p] = "recording" /\ job'[p].due = job[p].due
         /\ job'[p].session = job[p].session
         /\ job'[p].package = job[p].package /\ job'[p].until = job[p].until
         /\ job[p].package # None /\ job[p].until # None
         /\ \A q \in Workers \ {p} : at'[q] = at[q] /\ job'[q] = job[q]
<1> DEFINE s == job[p].session
<1>1. /\ RetentionTypeOK /\ p \in Downloads /\ s \in Legacy
      /\ job[p].package # None /\ job[p].until # None
  BY DEF ProtectFinal, PlacesInv, Placed, AtDownload
<1>2. job[p] \in JobRows
  BY <1>1 DEF RetentionTypeOK
<1>3. job[p].package \in Signers /\ job[p].until \in Times
  BY <1>1, <1>2, JobFieldTypes
<1>4. /\ finals' = finals \cup {[session |-> s, package |-> job[p].package]}
      /\ job' = [job EXCEPT ![p].stored = TRUE] /\ at' = [at EXCEPT ![p] = "recording"]
      /\ promised' = [promised EXCEPT ![s] = Earlier(@, job[p].until)]
  BY DEF ProtectFinal, Go
<1>5. finals' \subseteq Packages
  BY <1>1, <1>3, <1>4 DEF Packages, RetentionTypeOK
<1>6. Earlier(promised[s], job[p].until) \in Times \cup {None}
  BY <1>1, <1>3 DEF Earlier, RetentionTypeOK
<1>7. promised' \in [Legacy -> Times \cup {None}]
  BY <1>1, <1>4, <1>6 DEF RetentionTypeOK
<1>8. /\ job' \in [Workers -> JobRows] /\ at' \in [Workers -> Places] /\ at'[p] = "recording"
      /\ \A q \in Workers \ {p} : at'[q] = at[q] /\ job'[q] = job[q]
  BY <1>1, <1>2, <1>4, JobFieldTypes DEF RetentionTypeOK, Places
<1>9. /\ job'[p].session = job[p].session /\ job'[p].due = job[p].due
      /\ job'[p].package = job[p].package /\ job'[p].until = job[p].until
  BY <1>1, <1>2, <1>4 DEF RetentionTypeOK, JobRows
<1> QED
  BY <1>1, <1>3, <1>4, <1>5, <1>7, <1>8, <1>9

\* What the second commit writes: a deadline it holds, or the one there is.
LEMMA RecordedRows ==
  ASSUME PlacesInv, NEW p \in Workers, RecordProtection(p)
  PROVE  /\ job[p].session \in Legacy
         /\ storage' \in [Legacy -> StorageRows]
         /\ \A s \in Legacy :
              /\ storage'[s].expired = storage[s].expired
              /\ \/ storage'[s].deadline = storage[s].deadline
                 \/ /\ s = job[p].session /\ at[p] = "recording" /\ job[p].stored
                    /\ storage'[s].deadline = job[p].until
<1> DEFINE s == job[p].session
<1>1. s \in Legacy /\ RetentionTypeOK
  BY DEF RecordProtection, PlacesInv, Placed, AtDownload
<1>2. PICK deadline : deadline = IF Extends(p) THEN job[p].until ELSE storage[s].deadline
  OBVIOUS
<1>3. PICK status :
        status = IF Outcome(p) # job[p].seen.status THEN Outcome(p) ELSE storage[s].status
  OBVIOUS
<1> DEFINE row == [[storage[s] EXCEPT !.status = status] EXCEPT !.deadline = deadline]
<1>4. /\ storage[s] \in StorageRows /\ storage[s].status \in Statuses
      /\ storage[s].deadline \in Times \cup {None} /\ job[p].until \in Times \cup {None}
  BY <1>1 DEF RetentionTypeOK, StorageRows, JobRows
<1>5. /\ deadline \in Times \cup {None}
      /\ \/ deadline = storage[s].deadline
         \/ job[p].stored /\ deadline = job[p].until
  BY <1>2, <1>4 DEF Extends
<1>6. status \in Statuses
  BY <1>3, <1>4 DEF Outcome, Statuses
<1>7. \/ storage' = storage
      \/ storage' = [storage EXCEPT ![s].status = status, ![s].deadline = deadline]
  BY <1>2, <1>3 DEF RecordProtection
<1>8. [storage EXCEPT ![s].status = status, ![s].deadline = deadline] = [storage EXCEPT ![s] = row]
  BY <1>1 DEF RetentionTypeOK
<1>9. [storage[s] EXCEPT !.status = status] \in StorageRows
  BY <1>4, <1>6, StorageFieldTypes
<1>10. row \in StorageRows
  BY <1>5, <1>9, StorageFieldTypes
<1>11. row.expired = storage[s].expired /\ row.deadline = deadline
  BY <1>4 DEF StorageRows
<1>12. at[p] = "recording"
  BY DEF RecordProtection
<1> HIDE DEF row
<1> QED
  BY <1>1, <1>5, <1>7, <1>8, <1>10, <1>11, <1>12 DEF RetentionTypeOK

\* What an expirer writes: to the row it works on, while it is kept.
LEMMA MarkedRows ==
  ASSUME PlacesInv, NEW c \in Workers, MarkExpired(c) \/ MarkFailed(c)
  PROVE  /\ c \in Expirers /\ job[c].session \in Legacy
         /\ storage' \in [Legacy -> StorageRows]
         /\ \A s \in Legacy :
              /\ storage'[s].deadline = storage[s].deadline
              /\ storage[s].expired => storage'[s].expired
              /\ storage'[s].expired => storage[s].expired \/ Emptied(s)
         /\ job' \in [Workers -> JobRows] /\ at' \in [Workers -> Places]
         /\ at'[c] \in {"idle", "expiring"}
         /\ job'[c].session = None /\ job'[c].due \subseteq job[c].due /\ ~job'[c].stored
         /\ \A q \in Workers \ {c} : at'[q] = at[q] /\ job'[q] = job[q]
         /\ UNCHANGED <<actors, life, disk, bucket, rowLock, now, outages, history>>
<1> DEFINE s == job[c].session
           rest == job[c].due \ {s}
<1>1. /\ RetentionTypeOK /\ c \in Expirers /\ s \in Legacy /\ at[c] \in {"marking", "failing"}
  BY DEF MarkExpired, MarkFailed, PlacesInv, Placed, AtExpirer
<1>2. \/ at[c] = "marking"
         /\ Mark(c, [[storage[s] EXCEPT !.status = "expired"] EXCEPT !.expired = TRUE])
      \/ at[c] = "failing" /\ Mark(c, [storage[s] EXCEPT !.status = "expiration_failed"])
  BY DEF MarkExpired, MarkFailed
<1>3. storage[s] \in StorageRows /\ "expired" \in Statuses /\ "expiration_failed" \in Statuses
  BY <1>1 DEF RetentionTypeOK, Statuses
<1>4. PICK row \in StorageRows :
        /\ Mark(c, row) /\ row.deadline = storage[s].deadline
        /\ storage[s].expired => row.expired
        /\ row.expired => storage[s].expired \/ at[c] = "marking"
  <2>1. CASE at[c] = "marking"
    <3> DEFINE r1 == [storage[s] EXCEPT !.status = "expired"]
               r2 == [r1 EXCEPT !.expired = TRUE]
    <3>1. r1 \in StorageRows
      BY <1>3, StorageFieldTypes
    <3>2. r2 \in StorageRows
      BY <3>1, StorageFieldTypes
    <3>3. r2.deadline = storage[s].deadline /\ r2.expired = TRUE
      BY <1>3 DEF StorageRows
    <3>4. Mark(c, r2)
      BY <1>2, <2>1
    <3> QED
      BY <2>1, <3>2, <3>3, <3>4
  <2>2. CASE at[c] = "failing"
    <3> DEFINE r == [storage[s] EXCEPT !.status = "expiration_failed"]
    <3>1. r \in StorageRows
      BY <1>3, StorageFieldTypes
    <3>2. r.deadline = storage[s].deadline /\ r.expired = storage[s].expired
      BY <1>3 DEF StorageRows
    <3>3. Mark(c, r)
      BY <1>2, <2>2
    <3> QED
      BY <3>1, <3>2, <3>3
  <2> QED
    BY <1>1, <2>1, <2>2
<1>5. at[c] = "marking" => Emptied(s)
  BY <1>1 DEF Emptied
<1>6. storage' \in {storage, [storage EXCEPT ![s] = row]}
  BY <1>4 DEF Mark
<1>7. /\ storage' \in [Legacy -> StorageRows]
      /\ \A r \in Legacy :
           /\ storage'[r].deadline = storage[r].deadline
           /\ storage[r].expired => storage'[r].expired
           /\ storage'[r].expired => storage[r].expired \/ Emptied(r)
  BY <1>1, <1>4, <1>5, <1>6 DEF RetentionTypeOK
<1> DEFINE j == [NoJob EXCEPT !.due = rest]
<1>8. /\ job' = [job EXCEPT ![c] = j]
      /\ at' = [at EXCEPT ![c] = IF rest = {} THEN "idle" ELSE "expiring"]
      /\ UNCHANGED <<actors, life, disk, bucket, rowLock, now, outages, history>>
  BY <1>4 DEF Mark, NextDue, Go
<1>9. rest \in SUBSET Legacy
  BY <1>1, JobFieldTypes DEF RetentionTypeOK
<1>10. j \in JobRows
  BY <1>9, NoJobType, JobFieldTypes
<1>11. j.session = None /\ j.due = rest /\ ~j.stored
  BY DEF NoJob
<1> HIDE DEF j
<1>12. /\ job' \in [Workers -> JobRows] /\ at' \in [Workers -> Places] /\ job'[c] = j
       /\ at'[c] \in {"idle", "expiring"}
       /\ \A q \in Workers \ {c} : at'[q] = at[q] /\ job'[q] = job[q]
  BY <1>1, <1>8, <1>10 DEF RetentionTypeOK, Places
<1> QED
  BY <1>1, <1>7, <1>8, <1>11, <1>12

\* What a deletion takes, whole or in part.
LEMMA DeletedJob ==
  ASSUME PlacesInv, NEW c \in Workers, DeleteSession(c) \/ DeletionFails(c)
  PROVE  /\ c \in Expirers
         /\ job' \in [Workers -> JobRows] /\ at' \in [Workers -> Places]
         /\ \A q \in Workers \ {c} : at'[q] = at[q] /\ job'[q] = job[q]
         /\ \E s \in job[c].due :
              /\ s \in Legacy /\ job'[c].session = s /\ job'[c].due = job[c].due
              /\ job'[c].stored = job[c].stored
              /\ parts' \in {parts, parts \ {s}} /\ finals' \in {finals, finals \ FinalsOf(s)}
              /\ proofs' \in {proofs, proofs \ {s}}
              /\ \/ /\ DeleteSession(c) /\ at'[c] = "marking"
                    /\ parts' = parts \ {s} /\ finals' = finals \ FinalsOf(s)
                    /\ proofs' = proofs \ {s}
                    /\ late' = IF UnderWay(s) THEN late \cup {s} ELSE late \ {s}
                    /\ reproved' = reproved \ {s}
                 \/ /\ DeletionFails(c) /\ at'[c] = "failing"
                    /\ UNCHANGED <<late, reproved>>
<1>1. RetentionTypeOK /\ c \in Expirers
  BY DEF DeleteSession, DeletionFails, PlacesInv, Placed, AtExpirer
<1>2. PICK s \in job[c].due :
        /\ job' = [job EXCEPT ![c].session = s]
        /\ parts' \in {parts, parts \ {s}} /\ finals' \in {finals, finals \ FinalsOf(s)}
        /\ proofs' \in {proofs, proofs \ {s}}
        /\ \/ /\ DeleteSession(c) /\ at' = [at EXCEPT ![c] = "marking"]
              /\ parts' = parts \ {s} /\ finals' = finals \ FinalsOf(s) /\ proofs' = proofs \ {s}
              /\ late' = IF UnderWay(s) THEN late \cup {s} ELSE late \ {s}
              /\ reproved' = reproved \ {s}
           \/ /\ DeletionFails(c) /\ at' = [at EXCEPT ![c] = "failing"]
              /\ UNCHANGED <<late, reproved>>
  BY DEF DeleteSession, DeletionFails, EmptyPrefixes, Go, history
<1>3. s \in Legacy /\ job[c] \in JobRows
  BY <1>1, JobFieldTypes DEF RetentionTypeOK
<1>4. /\ job' \in [Workers -> JobRows] /\ at' \in [Workers -> Places]
      /\ \A q \in Workers \ {c} : at'[q] = at[q] /\ job'[q] = job[q]
  BY <1>1, <1>2, <1>3, JobFieldTypes DEF RetentionTypeOK, Places
<1>5. job'[c].session = s /\ job'[c].due = job[c].due /\ job'[c].stored = job[c].stored
  BY <1>1, <1>2, <1>3 DEF RetentionTypeOK, JobRows
<1>6. (DeleteSession(c) /\ at' = [at EXCEPT ![c] = "marking"] => at'[c] = "marking")
      /\ (at' = [at EXCEPT ![c] = "failing"] => at'[c] = "failing")
  BY <1>1 DEF RetentionTypeOK
<1> QED
  BY <1>1, <1>2, <1>3, <1>4, <1>5, <1>6

\* A deployment of the API leaves no download, and the expirers as they were.
LEMMA RedeployedJobs ==
  ASSUME RetentionTypeOK, Redeploy
  PROVE  /\ job' \in [Workers -> JobRows] /\ at' \in [Workers -> Places]
         /\ rowLock' \in [Sessions -> Workers \cup {None}]
         /\ \A p \in Downloads : at'[p] = "idle" /\ job'[p] = NoJob
         /\ \A p \in Workers \ Downloads : at'[p] = at[p] /\ job'[p] = job[p]
BY NoJobType DEF Redeploy, RetentionTypeOK, Places, Workers

-----------------------------------------------------------------------------
(***************************************************************************)
(* Types and places.                                                       *)
(***************************************************************************)
\* A step of one process: the others are where they were, on a disk that has
\* lost nothing.
LEMMA PlacesKept ==
  ASSUME PlacesInv, RetentionTypeOK', NEW p \in Workers,
         \A s \in Legacy : zip[s] # None => zip'[s] # None,
         \A q \in Workers \ {p} : at'[q] = at[q] /\ job'[q] = job[q],
         at'[p] \in AtDownload => p \in Downloads /\ job'[p].session \in Legacy,
         at'[p] \in AtExpirer => p \in Expirers,
         at'[p] \in {"marking", "failing"} => job'[p].session \in Legacy,
         at'[p] = "hashing" => zip'[job'[p].session] # None,
         at'[p] \in {"protecting", "recording"} => job'[p].package # None /\ job'[p].until # None,
         job'[p].stored => at'[p] = "recording"
  PROVE  PlacesInv'
<1>1. Placed(p)'
  BY DEF Placed
<1>2. ASSUME NEW q \in Workers, q # p PROVE Placed(q)'
  BY <1>2 DEF PlacesInv, Placed, AtDownload
<1> QED
  BY <1>1, <1>2 DEF PlacesInv

\* Every step keeps types and places.
LEMMA PlacesStep ==
  ASSUME PlacesInv, RetentionStep
  PROVE  PlacesInv'
<1> USE RetentionConstants
<1>1. ASSUME NEW p \in Workers, Admit(p) PROVE PlacesInv'
  <2>1. RetentionTypeOK'
    BY <1>1, AdmitJob DEF Admit, PlacesInv, RetentionTypeOK, disk, bucket
  <2>2. /\ p \in Downloads /\ job'[p].session \in Legacy /\ ~job'[p].stored
        /\ \A q \in Workers \ {p} : at'[q] = at[q] /\ job'[q] = job[q]
        /\ \/ at'[p] = "packing"
           \/ at'[p] = "protecting" /\ job'[p].package # None /\ job'[p].until # None
    BY <1>1, AdmitJob DEF PlacesInv
  <2>3. zip' = zip
    BY <1>1 DEF Admit, disk
  <2> QED
    BY <2>1, <2>2, <2>3, PlacesKept DEF AtDownload, AtExpirer
<1>2. ASSUME NEW p \in Workers, LinkPackage(p) PROVE PlacesInv'
  <2>1. RetentionTypeOK'
    BY <1>2, LinkJob DEF LinkPackage, PlacesInv, RetentionTypeOK, bucket, history
  <2>2. p \in Downloads /\ job[p].session \in Legacy /\ ~job[p].stored
    BY <1>2 DEF LinkPackage, PlacesInv, Placed, AtDownload
  <2> QED
    BY <1>2, <2>1, <2>2, LinkJob, NoJobType, PlacesKept DEF AtDownload, AtExpirer
<1>3. ASSUME NEW p \in Workers, WriteHash(p) PROVE PlacesInv'
  <2>1. RetentionTypeOK'
    BY <1>3, HashJob DEF WriteHash, PlacesInv, RetentionTypeOK, bucket, history
  <2>2. p \in Downloads /\ job[p].session \in Legacy /\ ~job[p].stored
    BY <1>3 DEF WriteHash, PlacesInv, Placed, AtDownload
  <2> QED
    BY <1>3, <2>1, <2>2, HashJob, NoJobType, PlacesKept DEF WriteHash, AtDownload, AtExpirer
<1>4. ASSUME NEW p \in Workers, ProtectFinal(p) PROVE PlacesInv'
  <2>1. RetentionTypeOK'
    BY <1>4, ProtectJob DEF ProtectFinal, PlacesInv, RetentionTypeOK, disk
  <2> QED
    BY <1>4, <2>1, ProtectJob, PlacesKept DEF ProtectFinal, disk, AtDownload, AtExpirer
<1>5. ASSUME NEW p \in Workers, ProtectFails(p) PROVE PlacesInv'
  <2>1. RetentionTypeOK'
    BY <1>5 DEF ProtectFails, Go, PlacesInv, RetentionTypeOK, Places, disk, bucket, history
  <2> QED
    BY <1>5, <2>1, PlacesKept
    DEF ProtectFails, Go, PlacesInv, Placed, RetentionTypeOK, disk, AtDownload, AtExpirer
<1>6. ASSUME NEW p \in Workers, RecordProtection(p) PROVE PlacesInv'
  <2>1. RetentionTypeOK'
    BY <1>6, RecordedRows, LeaveType
    DEF RecordProtection, PlacesInv, RetentionTypeOK, disk, bucket, history
  <2> QED
    BY <1>6, <2>1, LeaveType, NoJobType, PlacesKept
    DEF RecordProtection, PlacesInv, disk, AtDownload, AtExpirer
<1>7. ASSUME NEW p \in Workers, ListDue(p) PROVE PlacesInv'
  <2>1. DueSessions \in SUBSET Legacy
    BY DEF DueSessions
  <2>2. job' \in [Workers -> JobRows]
    BY <1>7, <2>1, JobFieldTypes DEF ListDue, PlacesInv, RetentionTypeOK
  <2>3. RetentionTypeOK'
    BY <1>7, <2>2 DEF ListDue, Go, PlacesInv, RetentionTypeOK, Places, disk, bucket, history
  <2>4. ~job'[p].stored
    BY <1>7 DEF ListDue, PlacesInv, Placed, RetentionTypeOK, JobRows
  <2> QED
    BY <1>7, <2>3, <2>4, PlacesKept
    DEF ListDue, Go, PlacesInv, RetentionTypeOK, disk, AtDownload, AtExpirer
<1>8. ASSUME NEW p \in Workers, DeleteSession(p) \/ DeletionFails(p) PROVE PlacesInv'
  <2>1. PICK s \in Legacy :
          /\ p \in Expirers
          /\ job' \in [Workers -> JobRows] /\ at' \in [Workers -> Places]
          /\ \A q \in Workers \ {p} : at'[q] = at[q] /\ job'[q] = job[q]
          /\ job'[p].session = s /\ at'[p] \in {"marking", "failing"}
          /\ job'[p].stored = job[p].stored
          /\ parts' \subseteq parts /\ finals' \subseteq finals /\ proofs' \subseteq proofs
          /\ late' \in {late, late \cup {s}, late \ {s}} /\ reproved' \in {reproved, reproved \ {s}}
    BY <1>8, DeletedJob DEF FinalsOf
  <2>2. /\ UNCHANGED <<life, storage, disk, rowLock, now, promised>>
        /\ outages' \in {outages, outages - 1} /\ (outages' = outages - 1 => outages > 0)
    BY <1>8 DEF DeleteSession, DeletionFails, history, PlacesInv, RetentionTypeOK
  <2>3. RetentionTypeOK'
    BY <2>1, <2>2 DEF PlacesInv, RetentionTypeOK, disk
  <2>4. ~job[p].stored
    BY <1>8 DEF DeleteSession, DeletionFails, PlacesInv, Placed
  <2> QED
    BY <2>1, <2>2, <2>3, <2>4, PlacesKept DEF disk, AtDownload, AtExpirer
<1>9. ASSUME NEW p \in Workers, MarkExpired(p) \/ MarkFailed(p) PROVE PlacesInv'
  <2>1. RetentionTypeOK'
    BY <1>9, MarkedRows DEF PlacesInv, RetentionTypeOK, disk, bucket, history
  <2> QED
    BY <1>9, <2>1, MarkedRows, PlacesKept DEF disk, AtDownload, AtExpirer
<1>10. ASSUME NEW p \in Workers, Crash(p) PROVE PlacesInv'
  <2>1. RetentionTypeOK'
    BY <1>10, LeaveType DEF Crash, PlacesInv, RetentionTypeOK, disk, bucket, history
  <2> QED
    BY <1>10, <2>1, LeaveType, NoJobType, PlacesKept DEF Crash, PlacesInv, disk, AtDownload, AtExpirer
<1>11. CASE Redeploy
  <2>1. RetentionTypeOK'
    BY <1>11, RedeployedJobs
    DEF Redeploy, PlacesInv, RetentionTypeOK, bucket, history
  <2>2. ASSUME NEW p \in Workers PROVE Placed(p)'
    BY <1>11, RedeployedJobs, NoJobType
    DEF PlacesInv, Placed, AtDownload, AtExpirer
  <2> QED
    BY <2>1, <2>2 DEF PlacesInv
<1>12. CASE \/ \E s \in Sessions : StoreProof(s)
            \/ Tick \/ PurgeRow \/ InsertRow \/ OtherOutage \/ UNCHANGED retentionVars
  <2>1. UNCHANGED <<storage, signer, zip, sha, parts, finals, rowLock, at, job, promised, late>>
    BY <1>12
    DEF StoreProof, Tick, PurgeRow, PurgeSession, InsertRow, CreateRow, OtherOutage,
        retentionVars, disk, bucket, history
  <2>2. life' \in [Sessions -> {"absent", "kept", "gone"}]
    BY <1>12
    DEF StoreProof, Tick, PurgeRow, PurgeSession, InsertRow, CreateRow, OtherOutage,
        retentionVars, PlacesInv, RetentionTypeOK
  <2>3. now' \in 0 .. MaxTime /\ outages' \in Nat
    BY <1>12
    DEF StoreProof, Tick, PurgeRow, PurgeSession, InsertRow, CreateRow, OtherOutage,
        retentionVars, PlacesInv, RetentionTypeOK
  <2>4. proofs' \subseteq Sessions /\ reproved' \subseteq Legacy
    BY <1>12
    DEF StoreProof, Tick, PurgeRow, PurgeSession, InsertRow, CreateRow, OtherOutage,
        retentionVars, bucket, history, PlacesInv, RetentionTypeOK
  <2>5. RetentionTypeOK'
    BY <2>1, <2>2, <2>3, <2>4 DEF PlacesInv, RetentionTypeOK
  <2> QED
    BY <2>1, <2>5 DEF PlacesInv, Placed
<1> QED
  BY RetentionSteps, <1>1, <1>2, <1>3, <1>4, <1>5, <1>6, <1>7, <1>8, <1>9, <1>10, <1>11, <1>12

-----------------------------------------------------------------------------
(***************************************************************************)
(* Promises.                                                               *)
(***************************************************************************)
\* Times are numbers, None aside.
LEMMA TimesType ==
  ASSUME PlacesInv
  PROVE  /\ now \in Nat /\ None \notin Nat
         /\ \A s \in Legacy : /\ storage[s].deadline \in Nat \cup {None}
                              /\ promised[s] \in Nat \cup {None}
         /\ \A p \in Workers : /\ job[p].until \in Nat \cup {None}
                               /\ job[p].session \in Legacy \cup {None}
                               /\ job[p].due \subseteq Legacy
                               /\ at[p] = "recording" =>
                                    job[p].session \in Legacy /\ job[p].until \in Nat
<1>1. now \in Nat /\ Times \subseteq Nat /\ None \notin Nat
  BY RetentionConstants DEF PlacesInv, RetentionTypeOK
<1>2. ASSUME NEW s \in Legacy
      PROVE  storage[s] \in StorageRows /\ promised[s] \in Times \cup {None}
  BY DEF PlacesInv, RetentionTypeOK
<1>3. ASSUME NEW s \in Legacy PROVE storage[s].deadline \in Times \cup {None}
  BY <1>2 DEF StorageRows
<1>4. ASSUME NEW p \in Workers
      PROVE  /\ job[p].until \in Times \cup {None} /\ job[p].due \subseteq Legacy
             /\ job[p].session \in Legacy \cup {None}
  BY JobFieldTypes DEF PlacesInv, RetentionTypeOK
<1>5. ASSUME NEW p \in Workers, at[p] = "recording"
      PROVE  job[p].session \in Legacy /\ job[p].until # None
  BY <1>5 DEF PlacesInv, Placed, AtDownload
<1> QED
  BY <1>1, <1>2, <1>3, <1>4, <1>5

\* A step of one process, or of all downloads, that deletes nothing, promises
\* nothing and lists nothing.
LEMMA PromisesKept ==
  ASSUME PlacesInv, PromisesInv, now' = now, UNCHANGED <<promised, parts>>,
         \A s \in Legacy : storage'[s].deadline = storage[s].deadline,
         \A q \in Workers :
           /\ job'[q].due \subseteq job[q].due
           /\ at'[q] = "recording" /\ job'[q].stored => at[q] = "recording" /\ job'[q] = job[q]
  PROVE  PromisesInv'
<1>1. DeadlinesPromised' /\ DuesPromised' /\ KeptForAPeriod'
  BY DEF PromisesInv, DeadlinesPromised, DuesPromised, KeptForAPeriod
<1>2. UntilsPromised'
  BY DEF PromisesInv, UntilsPromised
<1> QED
  BY <1>1, <1>2 DEF PromisesInv

\* A step deletes the parts of a session that is listed as due, at most.
LEMMA PromisesDeleted ==
  ASSUME PlacesInv, PromisesInv, NEW c \in Workers, NEW s \in job[c].due,
         job'[c].due = job[c].due, at'[c] # "recording",
         \A q \in Workers \ {c} : at'[q] = at[q] /\ job'[q] = job[q],
         parts' \in {parts, parts \ {s}}, UNCHANGED <<storage, now, promised>>
  PROVE  PromisesInv'
<1>1. s \in Legacy /\ promised[s] # None /\ promised[s] <= now
  BY TimesType DEF PromisesInv, DuesPromised
<1>2. DeadlinesPromised' /\ DuesPromised'
  BY DEF PromisesInv, DeadlinesPromised, DuesPromised
<1>3. UntilsPromised'
  BY DEF PromisesInv, UntilsPromised
<1>4. KeptForAPeriod'
  BY <1>1 DEF PromisesInv, KeptForAPeriod
<1> QED
  BY <1>2, <1>3, <1>4 DEF PromisesInv

\* A package that is stored may bring the promise forward, never back.
LEMMA PromisesStored ==
  ASSUME PlacesInv, PromisesInv, NEW p \in Workers, ProtectFinal(p)
  PROVE  PromisesInv'
<1> DEFINE s == job[p].session
           u == job[p].until
<1>1. /\ s \in Legacy /\ u \in Nat /\ UNCHANGED <<storage, now, parts>>
      /\ promised' = [promised EXCEPT ![s] = Earlier(@, u)]
      /\ promised \in [Legacy -> Times \cup {None}]
      /\ at'[p] = "recording" /\ job'[p].due = job[p].due
      /\ job'[p].session = s /\ job'[p].until = u
      /\ \A q \in Workers \ {p} : at'[q] = at[q] /\ job'[q] = job[q]
  BY ProtectJob, RetentionConstants DEF ProtectFinal, PlacesInv, RetentionTypeOK
<1>2. ASSUME NEW r \in Legacy
      PROVE  /\ promised[r] # None => promised'[r] # None /\ promised'[r] <= promised[r]
             /\ promised'[r] \in Nat \cup {None} /\ promised[r] \in Nat \cup {None}
  BY <1>1, TimesType DEF Earlier
<1>3. promised'[s] # None /\ promised'[s] <= u
  BY <1>1, TimesType DEF Earlier
<1>4. ASSUME NEW r \in Legacy, NEW t \in Nat, promised[r] # None /\ promised[r] <= t
      PROVE  promised'[r] # None /\ promised'[r] <= t
  BY <1>2, <1>4
<1>5. DeadlinesPromised'
  BY <1>1, <1>4, TimesType DEF PromisesInv, DeadlinesPromised
<1>6. DuesPromised'
  <2>1. ASSUME NEW q \in Workers, NEW r \in job'[q].due
        PROVE  promised'[r] # None /\ promised'[r] <= now
    <3>1. r \in job[q].due /\ r \in Legacy
      BY <1>1, TimesType
    <3> QED
      BY <3>1, <1>4, TimesType DEF PromisesInv, DuesPromised
  <2> QED
    BY <1>1, <2>1 DEF DuesPromised
<1>7. UntilsPromised'
  <2>1. ASSUME NEW q \in Workers, q # p, at'[q] = "recording" /\ job'[q].stored
        PROVE  promised'[job'[q].session] # None /\ promised'[job'[q].session] <= job'[q].until
    <3>1. at[q] = "recording" /\ job[q].stored /\ job'[q] = job[q]
      BY <1>1, <2>1
    <3> QED
      BY <3>1, <1>4, TimesType DEF PromisesInv, UntilsPromised
  <2> QED
    BY <1>1, <1>3, <2>1 DEF UntilsPromised
<1>8. KeptForAPeriod'
  BY <1>1, <1>4, TimesType DEF PromisesInv, KeptForAPeriod
<1> QED
  BY <1>5, <1>6, <1>7, <1>8 DEF PromisesInv

\* A deadline that is recorded was promised when the package was stored.
LEMMA PromisesRecorded ==
  ASSUME PlacesInv, PromisesInv, NEW p \in Workers, RecordProtection(p)
  PROVE  PromisesInv'
<1>1. \A s \in Legacy :
        \/ storage'[s].deadline = storage[s].deadline
        \/ /\ s = job[p].session /\ at[p] = "recording" /\ job[p].stored
           /\ storage'[s].deadline = job[p].until
  BY RecordedRows
<1>2. UNCHANGED <<now, promised, parts>>
  BY DEF RecordProtection, bucket, history
<1>3. /\ at'[p] = "idle" /\ job'[p].due = {}
      /\ \A q \in Workers \ {p} : at'[q] = at[q] /\ job'[q] = job[q]
  BY LeaveType, NoJobType DEF RecordProtection, PlacesInv
<1>4. DeadlinesPromised'
  BY <1>1, <1>2 DEF PromisesInv, DeadlinesPromised, UntilsPromised
<1>5. UntilsPromised' /\ DuesPromised' /\ KeptForAPeriod'
  BY <1>2, <1>3 DEF PromisesInv, UntilsPromised, DuesPromised, KeptForAPeriod
<1> QED
  BY <1>4, <1>5 DEF PromisesInv

\* Every step keeps the deadlines, what is due, and what was promised.
LEMMA PromisesStep ==
  ASSUME PlacesInv, PromisesInv, RetentionStep
  PROVE  PromisesInv'
<1>1. ASSUME NEW p \in Workers, Admit(p) PROVE PromisesInv'
  BY <1>1, AdmitJob, PromisesKept DEF Admit, bucket, PlacesInv
<1>2. ASSUME NEW p \in Workers, LinkPackage(p) PROVE PromisesInv'
  BY <1>2, LinkJob, NoJobType, PromisesKept DEF LinkPackage, bucket, history
<1>3. ASSUME NEW p \in Workers, WriteHash(p) PROVE PromisesInv'
  BY <1>3, HashJob, NoJobType, PromisesKept DEF WriteHash, bucket, history
<1>4. ASSUME NEW p \in Workers, ProtectFails(p) PROVE PromisesInv'
  <2>1. UNCHANGED <<storage, promised, parts, now, job>> /\ at' = [at EXCEPT ![p] = "recording"]
    BY <1>4 DEF ProtectFails, Go, bucket, history
  <2>2. ~job[p].stored
    BY <1>4 DEF ProtectFails, PlacesInv, Placed
  <2> QED
    BY <2>1, <2>2, PromisesKept DEF PlacesInv, RetentionTypeOK
<1>5. ASSUME NEW p \in Workers, ListDue(p) PROVE PromisesInv'
  <2>1. UNCHANGED <<storage, promised, parts, now>> /\ job' = [job EXCEPT ![p].due = DueSessions]
        /\ at' = [at EXCEPT ![p] = "expiring"]
    BY <1>5 DEF ListDue, Go, bucket, history
  <2>2. ASSUME NEW s \in DueSessions PROVE promised[s] # None /\ promised[s] <= now
    <3>1. /\ s \in Legacy /\ storage[s].deadline # None /\ storage[s].deadline <= now
          /\ promised[s] # None /\ promised[s] <= storage[s].deadline
      BY DEF DueSessions, PromisesInv, DeadlinesPromised
    <3>2. now \in Nat /\ storage[s].deadline \in Nat /\ promised[s] \in Nat
      BY <3>1, TimesType
    <3> QED
      BY <3>1, <3>2
  <2>3. ASSUME NEW q \in Workers PROVE job'[q].due \in {job[q].due, DueSessions}
    BY <2>1 DEF PlacesInv, RetentionTypeOK, JobRows
  <2>4. DuesPromised'
    BY <2>1, <2>2, <2>3 DEF PromisesInv, DuesPromised
  <2>5. UntilsPromised'
    BY <2>1 DEF PromisesInv, UntilsPromised, PlacesInv, RetentionTypeOK
  <2> QED
    BY <2>1, <2>4, <2>5 DEF PromisesInv, DeadlinesPromised, KeptForAPeriod
<1>6. ASSUME NEW p \in Workers, DeleteSession(p) \/ DeletionFails(p) PROVE PromisesInv'
  <2>1. UNCHANGED <<storage, now, promised>>
    BY <1>6 DEF DeleteSession, DeletionFails, history
  <2>2. at'[p] # "recording"
    BY <1>6, DeletedJob
  <2> QED
    BY <1>6, <2>1, <2>2, DeletedJob, PromisesDeleted
<1>7. ASSUME NEW p \in Workers, MarkExpired(p) \/ MarkFailed(p) PROVE PromisesInv'
  BY <1>7, MarkedRows, PromisesKept DEF bucket, history
<1>8. ASSUME NEW p \in Workers, Crash(p) PROVE PromisesInv'
  BY <1>8, LeaveType, NoJobType, PromisesKept DEF Crash, bucket, history, PlacesInv
<1>9. CASE Redeploy
  <2>1. UNCHANGED <<storage, now, promised, parts>>
    BY <1>9 DEF Redeploy, bucket, history
  <2>2. ASSUME NEW q \in Workers
        PROVE  /\ job'[q].due \subseteq job[q].due
               /\ at'[q] = "recording" => at[q] = "recording" /\ job'[q] = job[q]
    BY <1>9, RedeployedJobs, NoJobType DEF PlacesInv
  <2> QED
    BY <2>1, <2>2, PromisesKept
<1>10. CASE Tick
  <2>1. UNCHANGED <<storage, promised, parts, at, job>> /\ now' = now + 1
    BY <1>10 DEF Tick, bucket, history
  <2>2. now \in Nat /\ \A s \in Legacy : promised[s] # None => promised[s] \in Nat
    BY TimesType
  <2>3. DuesPromised'
    <3>1. ASSUME NEW q \in Workers, NEW s \in job[q].due
          PROVE  promised[s] # None /\ promised[s] <= now + 1
      <4>1. s \in Legacy
        BY TimesType
      <4> QED
        BY <4>1, <2>2 DEF PromisesInv, DuesPromised
    <3> QED
      BY <2>1, <3>1 DEF DuesPromised
  <2>4. DeadlinesPromised' /\ UntilsPromised' /\ KeptForAPeriod'
    BY <2>1, <2>2 DEF PromisesInv, DeadlinesPromised, UntilsPromised, KeptForAPeriod
  <2> QED
    BY <2>3, <2>4 DEF PromisesInv
<1>11. CASE \/ \E s \in Sessions : StoreProof(s)
            \/ PurgeRow \/ InsertRow \/ OtherOutage \/ UNCHANGED retentionVars
  <2>1. UNCHANGED <<storage, promised, parts, at, job, now>>
    BY <1>11
    DEF StoreProof, PurgeRow, PurgeSession, InsertRow, CreateRow, OtherOutage, retentionVars,
        bucket, history
  <2> QED
    BY <2>1, PromisesKept
<1> QED
  BY RetentionSteps, <1>1, <1>2, <1>3, <1>4, <1>5, <1>6, <1>7, <1>8, <1>9, <1>10, <1>11,
     PromisesStored, PromisesRecorded

-----------------------------------------------------------------------------
(***************************************************************************)
(* What is emptied.                                                        *)
(***************************************************************************)
\* A step that puts nothing back: what is empty after it was empty before,
\* and no download has begun.
LEMMA EmptiedKept ==
  ASSUME EmptyingInv, parts' \subseteq parts, finals' \subseteq finals,
         proofs' \subseteq proofs, reproved \subseteq reproved', late \subseteq late',
         \A s \in Legacy : Emptied(s)' \/ storage'[s].expired =>
           /\ Emptied(s) \/ storage[s].expired
           /\ s \notin late' => (UnderWay(s)' => UnderWay(s))
  PROVE  EmptiedStays'
BY DEF EmptyingInv, EmptiedStays, FinalsOf

\* The session of another process, or of one that leaves, is as before.
LEMMA OthersKept ==
  ASSUME NEW p \in Workers, NEW s \in Legacy,
         \A q \in Workers \ {p} : at'[q] = at[q] /\ job'[q] = job[q]
  PROVE  /\ job'[p].session \in {None, job[p].session} => (UnderWay(s)' => UnderWay(s))
         /\ p \in Expirers => (UnderWay(s)' => UnderWay(s))
         /\ at'[p] # "marking" => (Emptied(s)' => Emptied(s))
<1>1. None # s /\ Downloads \subseteq Workers /\ Expirers \subseteq Workers
      /\ Downloads \cap Expirers = {}
  BY RetentionConstants DEF Workers
<1> QED
  BY <1>1 DEF UnderWay, Emptied

\* A step of a download or of a death that puts nothing in the bucket and
\* writes no row of the storage.
LEMMA EmptyingKept ==
  ASSUME EmptyingInv, NEW p \in Workers,
         \A q \in Workers \ {p} : at'[q] = at[q] /\ job'[q] = job[q],
         job'[p].session \in {None, job[p].session}, at'[p] # "marking",
         UNCHANGED <<life, bucket, late, reproved>>,
         \A s \in Legacy : storage'[s].expired = storage[s].expired
  PROVE  EmptyingInv'
<1>1. EmptiedStays'
  BY OthersKept, EmptiedKept DEF bucket
<1>2. GoneExpired'
  BY RetentionConstants DEF EmptyingInv, GoneExpired, bucket
<1> QED
  BY <1>1, <1>2 DEF EmptyingInv

\* What is gone stays gone, and only what expired is gone.
LEMMA EmptyingStep ==
  ASSUME PlacesInv, EmptyingInv, RetentionStep
  PROVE  EmptyingInv'
<1>1. ASSUME NEW p \in Workers, Admit(p) PROVE EmptyingInv'
  <2>1. PICK s \in Legacy :
          /\ StorageActive(s) /\ job'[p].session = s /\ at'[p] # "marking"
          /\ late' = IF Emptied(s) THEN late \cup {s} ELSE late
          /\ \A q \in Workers \ {p} : at'[q] = at[q] /\ job'[q] = job[q]
    BY <1>1, AdmitJob DEF PlacesInv
  <2>2. UNCHANGED <<life, storage, parts, finals, proofs, reproved>>
    BY <1>1 DEF Admit, bucket
  <2>3. ASSUME NEW r \in Legacy PROVE Emptied(r)' => Emptied(r)
    BY <2>1, OthersKept
  <2>4. ASSUME NEW r \in Legacy, r # s, UnderWay(r)' PROVE UnderWay(r)
    BY <2>1, <2>4 DEF UnderWay, Workers
  <2>5. EmptiedStays'
    BY <2>1, <2>2, <2>3, <2>4, EmptiedKept DEF StorageActive
  <2>6. GoneExpired'
    BY <2>2 DEF EmptyingInv, GoneExpired
  <2> QED
    BY <2>5, <2>6 DEF EmptyingInv
<1>2. ASSUME NEW p \in Workers, LinkPackage(p) PROVE EmptyingInv'
  BY <1>2, LinkJob, NoJobType, EmptyingKept DEF LinkPackage, history
<1>3. ASSUME NEW p \in Workers, WriteHash(p) PROVE EmptyingInv'
  BY <1>3, HashJob, NoJobType, EmptyingKept DEF WriteHash, history
<1>4. ASSUME NEW p \in Workers, ProtectFinal(p) PROVE EmptyingInv'
  <2> DEFINE s == job[p].session
  <2>1. /\ p \in Downloads /\ s \in Legacy
        /\ finals' = finals \cup {[session |-> s, package |-> job[p].package]}
        /\ at'[p] # "marking" /\ job'[p].session = s
        /\ \A q \in Workers \ {p} : at'[q] = at[q] /\ job'[q] = job[q]
    BY <1>4, ProtectJob
  <2>2. UNCHANGED <<life, storage, parts, proofs, late, reproved>>
    BY <1>4 DEF ProtectFinal
  <2>3. UnderWay(s)
    BY <2>1 DEF UnderWay
  <2>4. ASSUME NEW r \in Legacy, Emptied(r)' \/ storage'[r].expired
        PROVE  /\ r \notin parts' /\ (r \in proofs' => r \in reproved')
               /\ r \notin late' => FinalsOf(r)' = {} /\ ~UnderWay(r)'
    <3>1. (Emptied(r)' => Emptied(r)) /\ (UnderWay(r)' => UnderWay(r))
      BY <2>1, OthersKept
    <3>2. /\ r \notin parts /\ (r \in proofs => r \in reproved)
          /\ r \notin late => FinalsOf(r) = {} /\ ~UnderWay(r)
      BY <2>2, <2>4, <3>1 DEF EmptyingInv, EmptiedStays
    <3>3. r \notin late => r # s
      BY <2>3, <3>2
    <3> QED
      BY <2>1, <2>2, <3>1, <3>2, <3>3 DEF FinalsOf
  <2>5. EmptiedStays'
    BY <2>4 DEF EmptiedStays
  <2>6. GoneExpired'
    BY <2>2 DEF EmptyingInv, GoneExpired
  <2> QED
    BY <2>5, <2>6 DEF EmptyingInv
<1>5. ASSUME NEW p \in Workers, ProtectFails(p) PROVE EmptyingInv'
  BY <1>5, EmptyingKept DEF ProtectFails, Go, PlacesInv, RetentionTypeOK, history
<1>6. ASSUME NEW p \in Workers, RecordProtection(p) PROVE EmptyingInv'
  BY <1>6, RecordedRows, LeaveType, NoJobType, EmptyingKept
  DEF RecordProtection, history, PlacesInv
<1>7. ASSUME NEW p \in Workers, ListDue(p) PROVE EmptyingInv'
  <2>1. /\ at'[p] # "marking" /\ job'[p].session = job[p].session
        /\ \A q \in Workers \ {p} : at'[q] = at[q] /\ job'[q] = job[q]
    BY <1>7 DEF ListDue, Go, PlacesInv, RetentionTypeOK, JobRows
  <2> QED
    BY <1>7, <2>1, EmptyingKept DEF ListDue, history
<1>8. ASSUME NEW p \in Workers, DeleteSession(p) PROVE EmptyingInv'
  <2>1. PICK s \in job[p].due :
          /\ s \in Legacy /\ job'[p].session = s /\ p \in Expirers
          /\ parts' \subseteq parts /\ finals' \subseteq finals /\ proofs' \subseteq proofs
          /\ \A q \in Workers \ {p} : at'[q] = at[q] /\ job'[q] = job[q]
          /\ \/ /\ parts' = parts \ {s} /\ finals' = finals \ FinalsOf(s) /\ proofs' = proofs \ {s}
                /\ late' = IF UnderWay(s) THEN late \cup {s} ELSE late \ {s}
                /\ reproved' = reproved \ {s}
             \/ DeletionFails(p)
    BY <1>8, DeletedJob DEF FinalsOf
  <2>2. UNCHANGED <<life, storage>>
    BY <1>8 DEF DeleteSession
  <2>3. ~DeletionFails(p)
    BY <1>8, RetentionConstants DEF DeleteSession, DeletionFails, Go, PlacesInv, RetentionTypeOK
  <2>4. ASSUME NEW r \in Legacy, UnderWay(r)' PROVE UnderWay(r)
    BY <2>1, <2>4, OthersKept
  <2>5. ASSUME NEW r \in Legacy, r # s, Emptied(r)' PROVE Emptied(r)
    BY <2>1, <2>5 DEF Emptied, Workers
  <2>6. ASSUME NEW r \in Legacy, Emptied(r)' \/ storage'[r].expired
        PROVE  /\ r \notin parts' /\ (r \in proofs' => r \in reproved')
               /\ r \notin late' => FinalsOf(r)' = {} /\ ~UnderWay(r)'
    <3>1. CASE r = s
      BY <3>1, <2>1, <2>3, <2>4 DEF FinalsOf
    <3>2. CASE r # s
      <4>1. /\ r \notin parts /\ (r \in proofs => r \in reproved)
            /\ r \notin late => FinalsOf(r) = {} /\ ~UnderWay(r)
        BY <3>2, <2>2, <2>5, <2>6 DEF EmptyingInv, EmptiedStays
      <4>2. r \in late => r \in late'
        BY <3>2, <2>1, <2>3
      <4> QED
        BY <3>2, <4>1, <4>2, <2>1, <2>3, <2>4 DEF FinalsOf
    <3> QED
      BY <3>1, <3>2
  <2>7. EmptiedStays'
    BY <2>6 DEF EmptiedStays
  <2>8. GoneExpired'
    BY <2>1, <2>2 DEF EmptyingInv, GoneExpired
  <2> QED
    BY <2>7, <2>8 DEF EmptyingInv
<1>9. ASSUME NEW p \in Workers, DeletionFails(p) PROVE EmptyingInv'
  <2>1. /\ p \in Expirers /\ parts' \subseteq parts /\ finals' \subseteq finals
        /\ proofs' \subseteq proofs
        /\ \A q \in Workers \ {p} : at'[q] = at[q] /\ job'[q] = job[q]
    BY <1>9, DeletedJob DEF FinalsOf
  <2>2. UNCHANGED <<life, storage, late, reproved>> /\ at'[p] # "marking"
    BY <1>9 DEF DeletionFails, Go, history, PlacesInv, RetentionTypeOK
  <2>3. EmptiedStays'
    BY <2>1, <2>2, OthersKept, EmptiedKept
  <2>4. GoneExpired'
    BY <2>1, <2>2 DEF EmptyingInv, GoneExpired
  <2> QED
    BY <2>3, <2>4 DEF EmptyingInv
<1>10. ASSUME NEW p \in Workers, MarkExpired(p) \/ MarkFailed(p) PROVE EmptyingInv'
  <2>1. UNCHANGED <<life, parts, finals, proofs, late, reproved>>
    BY <1>10, MarkedRows DEF bucket, history
  <2>2. ASSUME NEW r \in Legacy
        PROVE  /\ Emptied(r)' => Emptied(r)
               /\ UnderWay(r)' => UnderWay(r)
    BY <1>10, MarkedRows, OthersKept
  <2>3. EmptiedStays'
    BY <1>10, <2>1, <2>2, MarkedRows, EmptiedKept
  <2>4. GoneExpired'
    BY <1>10, <2>1, MarkedRows DEF EmptyingInv, GoneExpired
  <2> QED
    BY <2>3, <2>4 DEF EmptyingInv
<1>11. ASSUME NEW p \in Workers, Crash(p) PROVE EmptyingInv'
  BY <1>11, LeaveType, NoJobType, EmptyingKept DEF Crash, history, PlacesInv
<1>12. CASE Redeploy
  <2>1. UNCHANGED <<life, storage, parts, finals, proofs, late, reproved>>
    BY <1>12 DEF Redeploy, bucket, history
  <2>2. ASSUME NEW r \in Legacy
        PROVE  (Emptied(r)' => Emptied(r)) /\ (UnderWay(r)' => UnderWay(r))
    BY <1>12, RedeployedJobs, NoJobType, RetentionConstants
    DEF PlacesInv, Emptied, UnderWay, Workers
  <2> QED
    BY <2>1, <2>2, EmptiedKept DEF EmptyingInv, GoneExpired
<1>13. ASSUME NEW t \in Sessions, StoreProof(t) PROVE EmptyingInv'
  <2>1. /\ UNCHANGED <<life, storage, at, job, parts, finals, late>>
        /\ life[t] = "kept" /\ proofs' = proofs \cup {t} /\ reproved \subseteq reproved'
        /\ t \in Legacy /\ (storage[t].expired \/ Emptied(t)) => t \in reproved'
    BY <1>13 DEF StoreProof
  <2>2. EmptiedStays'
    BY <2>1 DEF EmptyingInv, EmptiedStays, Emptied, UnderWay, FinalsOf
  <2>3. GoneExpired'
    BY <2>1 DEF EmptyingInv, GoneExpired
  <2> QED
    BY <2>2, <2>3 DEF EmptyingInv
<1>14. CASE Tick \/ PurgeRow \/ InsertRow \/ OtherOutage \/ UNCHANGED retentionVars
  <2>1. UNCHANGED <<storage, parts, finals, at, job, late, reproved>> /\ proofs' \subseteq proofs
    BY <1>14
    DEF Tick, PurgeRow, PurgeSession, InsertRow, CreateRow, OtherOutage, retentionVars,
        bucket, history
  <2>2. ASSUME NEW s \in Sessions, life'[s] = "gone"
        PROVE  (s \in Legacy => storage[s].expired) /\ s \notin proofs'
    <3>1. \/ life[s] = "gone" /\ proofs' \subseteq proofs
          \/ Purgeable(s) /\ s \notin proofs'
      BY <1>14, <2>1, <2>2
      DEF Tick, PurgeRow, PurgeSession, InsertRow, CreateRow, OtherOutage, retentionVars,
          PlacesInv, RetentionTypeOK
    <3> QED
      BY <3>1 DEF Purgeable, EmptyingInv, GoneExpired
  <2> QED
    BY <2>1, <2>2 DEF EmptyingInv, GoneExpired, EmptiedStays, Emptied, UnderWay, FinalsOf
<1> QED
  BY RetentionSteps, <1>1, <1>2, <1>3, <1>4, <1>5, <1>6, <1>7, <1>8, <1>9, <1>10, <1>11, <1>12,
     <1>13, <1>14

-----------------------------------------------------------------------------
(***************************************************************************)
(* All together.                                                           *)
(***************************************************************************)
\* StoredInv is kept by every step of the storage and of whoever composes it.
LEMMA StoredStep ==
  ASSUME StoredInv, RetentionStep
  PROVE  StoredInv'
BY PlacesStep, PromisesStep, EmptyingStep DEF StoredInv

\* StoredInv holds of any initial rows the module admits.
LEMMA StoredInit ==
  ASSUME RetentionInit, life \in [Sessions -> {"absent", "kept"}], outages \in Nat
  PROVE  StoredInv
<1> USE RetentionConstants
<1>1. RetentionTypeOK
  BY NoJobType
  DEF RetentionInit, RetentionTypeOK, StorageRows, Statuses, Packages, Places
<1>2. PlacesInv
  BY <1>1, NoJobType DEF RetentionInit, PlacesInv, Placed, AtDownload, AtExpirer
<1>3. PromisesInv
  BY NoJobType
  DEF RetentionInit, PromisesInv, DeadlinesPromised, UntilsPromised, DuesPromised, KeptForAPeriod
<1>4. EmptyingInv
  BY DEF RetentionInit, EmptyingInv, EmptiedStays, GoneExpired, Emptied, Workers
<1> QED
  BY <1>2, <1>3, <1>4 DEF StoredInv

\* What the invariant says of deleted evidence: an expired session has none
\* left, and neither has one whose row is gone.
LEMMA StoredConsequences ==
  ASSUME StoredInv
  PROVE  KeptForAPeriod /\ ExpiredEmptied /\ EvidenceIsKnown
<1>1. KeptForAPeriod
  BY DEF StoredInv, PromisesInv
<1>2. ExpiredEmptied
  BY DEF StoredInv, EmptyingInv, EmptiedStays, ExpiredEmptied
<1>3. ASSUME NEW s \in Sessions, life[s] = "gone", s \notin Legacy
      PROVE  s \notin parts /\ FinalsOf(s) = {}
  BY <1>3 DEF StoredInv, PlacesInv, RetentionTypeOK, Packages, FinalsOf
<1>4. EvidenceIsKnown
  BY <1>2, <1>3 DEF StoredInv, EmptyingInv, GoneExpired, ExpiredEmptied, EvidenceIsKnown
<1> QED
  BY <1>1, <1>2, <1>4

-----------------------------------------------------------------------------
(***************************************************************************)
(* The inductive invariant.  A link that is being exchanged is held by one *)
(* browser, and is not exchanged yet; there are links and sessions left    *)
(* for whoever is to get one.                                              *)
(***************************************************************************)
Asking(p) == pc[p] \in {"asking", "issuing"}

Creating(p) == pc[p] \in {"creating", "inserting"}

PeoplePlaced == \A p \in People :
  /\ Asking(p) \/ pc[p] = "refusing" =>
       p \in Visitors \cap actors /\ run[p].email \in Emails /\ run[p].address \in Addresses
  /\ pc[p] = "granting" \/ Creating(p) => p \in Browsers
  /\ Creating(p) => run[p].account \in Accounts
  /\ pc[p] \in {"purging", "erasing"} => p \in Cleaners

Askers == {v \in Visitors : Asking(v)}

Creators == {b \in Browsers : Creating(b)}

LinksLeft == quota + Cardinality(Askers) <= Cardinality(NewLinks)

SessionsLeft == Cardinality(Creators) <= Cardinality(NewSessions)

Granting == {b \in Browsers : pc[b] = "granting"}

GrantsHeld == \A b \in Granting :
  /\ run[b].link \in Links /\ link[run[b].link] # None
  /\ ~link[run[b].link].consumed /\ granted[run[b].link] = 0
  /\ \A q \in Granting : run[q].link = run[b].link => q = b

GrantedOnce == \A l \in Links :
  /\ granted[l] <= 1
  /\ granted[l] = 1 => link[l] = None \/ link[l].consumed

PeopleInv ==
  /\ StoredInv /\ AccountsTypeOK /\ PeoplePlaced
  /\ LinksLeft /\ SessionsLeft
  /\ GrantsHeld /\ GrantedOnce

-----------------------------------------------------------------------------
(***************************************************************************)
(* Constants and operators.                                                *)
(***************************************************************************)
\* The facts about constants that the proofs use.
LEMMA AccountConstants ==
  /\ Accounts \subseteq Nat /\ Links \subseteq Nat /\ Sessions \subseteq Nat
  /\ None \notin Accounts /\ None \notin Links /\ None \notin Sessions
  /\ None \notin Emails /\ None \notin Addresses /\ None \notin LinkRows
  /\ Visitors \cap Browsers = {} /\ Visitors \cap Cleaners = {} /\ Browsers \cap Cleaners = {}
  /\ People = Visitors \cup Browsers \cup Cleaners
  /\ EmailLimit \in Nat \ {0} /\ AddressLimit \in Nat \ {0}
BY AccountsAssumption, RetentionAssumption DEF People

\* Everything that is counted is finite.
LEMMA AccountsFinite ==
  /\ \A S \in SUBSET Visitors : IsFiniteSet(S) /\ Cardinality(S) \in Nat
  /\ \A S \in SUBSET Browsers : IsFiniteSet(S) /\ Cardinality(S) \in Nat
  /\ \A S \in SUBSET Links : IsFiniteSet(S) /\ Cardinality(S) \in Nat
  /\ \A S \in SUBSET Sessions : IsFiniteSet(S) /\ Cardinality(S) \in Nat
<1>1. IsFiniteSet(People) /\ IsFiniteSet(Links) /\ IsFiniteSet(Sessions)
  BY AccountsAssumption, RetentionAssumption
<1>2. ASSUME NEW T, IsFiniteSet(T), NEW S \in SUBSET T
      PROVE  IsFiniteSet(S) /\ Cardinality(S) \in Nat
  BY <1>2, FS_Subset, FS_CardinalityType
<1>3. Visitors \subseteq People /\ Browsers \subseteq People
  BY DEF People
<1> QED
  BY <1>1, <1>2, <1>3

\* A set of numbers that is not empty has a lowest one.
LEMMA LowestIsLeast ==
  ASSUME NEW S \in SUBSET Nat, S # {}
  PROVE  Lowest(S) \in S /\ \A y \in S : Lowest(S) <= y
<1>1. PICK x \in S : \A y \in S : ~ (<<y, x>> \in OpToRel(<, Nat))
  BY WFMin, NatLessThanWellFounded
<1>2. \A y \in S : ~ (y < x)
  BY <1>1 DEF OpToRel
<1>3. \E z \in S : \A y \in S : z <= y
  BY <1>2
<1> QED
  BY <1>3 DEF Lowest

\* A set counts as many as one that has it and no more than that.
LEMMA CountSubset ==
  ASSUME NEW T, IsFiniteSet(T), NEW S \in SUBSET T
  PROVE  Cardinality(S) <= Cardinality(T)
BY FS_Subset

\* What is in a set that counts one at least.
LEMMA CountNotEmpty ==
  ASSUME NEW S, IsFiniteSet(S), Cardinality(S) >= 1
  PROVE  S # {}
BY FS_EmptySet

\* A set without one of its members.
LEMMA CountRemoved ==
  ASSUME NEW S, IsFiniteSet(S), NEW x \in S
  PROVE  Cardinality(S \ {x}) = Cardinality(S) - 1
BY FS_RemoveElement

\* A set with one more.
LEMMA CountAdded ==
  ASSUME NEW S, IsFiniteSet(S), NEW x
  PROVE  IsFiniteSet(S \cup {x}) /\ Cardinality(S \cup {x}) \in {Cardinality(S), Cardinality(S) + 1}
BY FS_AddElement

\* A process remains one when a field of what it works on is assigned.
LEMMA RunFieldTypes ==
  ASSUME NEW r \in RunRows
  PROVE  /\ \A e \in Emails, i \in Addresses :
              [[r EXCEPT !.email = e] EXCEPT !.address = i] \in RunRows
         /\ \A a \in Accounts \cup {None} : [r EXCEPT !.account = a] \in RunRows
         /\ \A l \in Links \cup {None} : [r EXCEPT !.link = l] \in RunRows
         /\ \A S \in SUBSET Sessions : [r EXCEPT !.targets = S] \in RunRows
         /\ \A S \in SUBSET Sessions : 
              [[r EXCEPT !.targets = S] EXCEPT !.failed = TRUE] \in RunRows
         /\ r.targets \in SUBSET Sessions /\ r.account \in Accounts \cup {None}
BY DEF RunRows

\* As one that works on nothing is.
LEMMA NoRunType == NoRun \in RunRows
BY DEF NoRun, RunRows

-----------------------------------------------------------------------------
(***************************************************************************)
(* The steps.                                                              *)
(***************************************************************************)
\* Each step by its name: how the proofs below split Next.
LEMMA AccountSteps ==
  ASSUME Next
  PROVE  \/ RetentionNext /\ UNCHANGED <<accountVars, pc, run, quota>>
         \/ \E p \in People :
              \/ CountAttempts(p) \/ Refuse(p) \/ FindAccount(p) \/ IssueLink(p) \/ CannotIssue(p)
              \/ LockLink(p) \/ Grant(p)
              \/ Authenticate(p) \/ FindOwner(p) \/ InsertSession(p)
              \/ StartErasure(p) \/ StartRound(p) \/ PurgeNext(p) \/ PurgeFails(p)
              \/ LockAccount(p) \/ Erase(p)
              \/ BreakDeadlock(p) \/ Die(p)
         \/ (\E l \in Links : ExpireLink(l))
         \/ (\E t \in access : ExpireToken(t))
BY DEF Next, Proceed

\* The sets that are counted, and how many they are.
LEMMA Counts ==
  ASSUME PeopleInv
  PROVE  /\ IsFiniteSet(Askers) /\ Cardinality(Askers) \in Nat
         /\ IsFiniteSet(Creators) /\ Cardinality(Creators) \in Nat
         /\ IsFiniteSet(NewLinks) /\ Cardinality(NewLinks) \in Nat
         /\ IsFiniteSet(NewSessions) /\ Cardinality(NewSessions) \in Nat
         /\ quota \in Nat /\ quota + Cardinality(Askers) <= Cardinality(NewLinks)
         /\ Cardinality(Creators) <= Cardinality(NewSessions)
<1>1. /\ Askers \in SUBSET Visitors /\ Creators \in SUBSET Browsers
      /\ NewLinks \in SUBSET Links /\ NewSessions \in SUBSET Sessions
  BY DEF Askers, Creators, NewLinks, NewSessions
<1> QED
  BY <1>1, AccountsFinite DEF PeopleInv, LinksLeft, SessionsLeft, AccountsTypeOK

\* There is a link left for whoever is to get one.
LEMMA NewLinkExists ==
  ASSUME PeopleInv, NEW p \in People, Asking(p)
  PROVE  Lowest(NewLinks) \in NewLinks
<1>1. p \in Askers
  BY DEF PeopleInv, PeoplePlaced, Askers
<1>2. Cardinality(Askers) # 0
  BY <1>1, Counts, FS_EmptySet
<1>3. Cardinality(NewLinks) >= 1
  BY <1>2, Counts
<1>4. NewLinks # {} /\ NewLinks \in SUBSET Nat
  BY <1>3, Counts, CountNotEmpty, AccountConstants DEF NewLinks
<1> QED
  BY <1>4, LowestIsLeast

\* There is a session left for whoever is to create one.
LEMMA NewSessionExists ==
  ASSUME PeopleInv, NEW p \in People, Creating(p)
  PROVE  Lowest(NewSessions) \in NewSessions
<1>1. p \in Creators
  BY DEF PeopleInv, PeoplePlaced, Creators
<1>2. Cardinality(Creators) # 0
  BY <1>1, Counts, FS_EmptySet
<1>3. Cardinality(NewSessions) >= 1
  BY <1>2, Counts
<1>4. NewSessions # {} /\ NewSessions \in SUBSET Nat
  BY <1>3, Counts, CountNotEmpty, AccountConstants DEF NewSessions
<1> QED
  BY <1>4, LowestIsLeast

\* The next session of a cleanup is one.
LEMMA TargetExists ==
  ASSUME PeopleInv, NEW c \in People, run[c].targets # {}
  PROVE  Lowest(run[c].targets) \in run[c].targets /\ Lowest(run[c].targets) \in Sessions
<1>1. run[c].targets \in SUBSET Sessions
  BY RunFieldTypes DEF PeopleInv, AccountsTypeOK
<1> QED
  BY <1>1, LowestIsLeast, AccountConstants

\* What the steps of people do to the storage.
LEMMA PeopleRetention ==
  ASSUME PeopleInv, [Next]_vars
  PROVE  RetentionStep
<1>1. CASE UNCHANGED retentionVars
  BY <1>1 DEF RetentionStep
<1>2. CASE RetentionNext
  BY <1>2 DEF RetentionStep
<1>3. ASSUME NEW p \in People, InsertSession(p) PROVE RetentionStep
  <2>1. Creating(p)
    BY <1>3 DEF InsertSession, Creating
  <2>2. Lowest(NewSessions) \in Sessions \ Legacy
    BY <2>1, NewSessionExists DEF NewSessions
  <2> QED
    BY <1>3, <2>2 DEF InsertSession, RetentionStep, InsertRow
<1>4. ASSUME NEW p \in People, PurgeNext(p) PROVE RetentionStep
  <2>1. Lowest(run[p].targets) \in Sessions
    BY <1>4, TargetExists DEF PurgeNext
  <2> QED
    BY <1>4, <2>1 DEF PurgeNext, RetentionStep, PurgeRow
<1>5. ASSUME NEW p \in People, PurgeFails(p) \/ Die(p) PROVE RetentionStep
  <2>1. OtherOutage
    BY <1>5 DEF PurgeFails, Die, OtherOutage, bucket
  <2> QED
    BY <2>1 DEF RetentionStep
<1>6. CASE UNCHANGED vars
  BY <1>6, <1>1, Zenon DEF vars
<1>7. ASSUME NEW p \in People,
             \/ CountAttempts(p) \/ Refuse(p) \/ FindAccount(p) \/ IssueLink(p) \/ CannotIssue(p)
             \/ LockLink(p) \/ Grant(p) \/ Authenticate(p) \/ FindOwner(p)
             \/ StartErasure(p) \/ StartRound(p) \/ LockAccount(p) \/ Erase(p) \/ BreakDeadlock(p)
      PROVE  RetentionStep
  BY <1>7, <1>1
  DEF CountAttempts, Refuse, FindAccount, IssueLink, CannotIssue, LockLink, Grant, Authenticate,
      FindOwner, StartErasure, StartRound, ListSessions, LockAccount, Erase, BreakDeadlock
<1>8. ASSUME NEW l \in Links, ExpireLink(l) PROVE RetentionStep
  BY <1>8, <1>1 DEF ExpireLink
<1>9. ASSUME NEW t \in access, ExpireToken(t) PROVE RetentionStep
  BY <1>9, <1>1, Zenon DEF ExpireToken
<1> QED
  BY AccountSteps, <1>2, <1>3, <1>4, <1>5, <1>6, <1>7, <1>8, <1>9

\* The storage leaves the rows of sessions to people.
LEMMA RetentionKeepsRows ==
  ASSUME RetentionNext
  PROVE  life' = life
BY DEF RetentionNext, Downloading, Expiring, Admit, LinkPackage, WriteHash, ProtectFinal,
       ProtectFails, RecordProtection, ListDue, DeleteSession, DeletionFails, MarkExpired,
       MarkFailed, Mark, Crash, StoreProof, Redeploy, Tick

\* Who acts is settled at the start.
LEMMA ActorsKept ==
  ASSUME RetentionStep
  PROVE  actors' = actors
BY RetentionSteps
DEF Admit, LinkPackage, WriteHash, ProtectFinal, ProtectFails, RecordProtection, ListDue,
    DeleteSession, DeletionFails, MarkExpired, MarkFailed, Mark, Crash, StoreProof, Redeploy,
    Tick, PurgeRow, PurgeSession, InsertRow, CreateRow, OtherOutage, retentionVars

-----------------------------------------------------------------------------
(***************************************************************************)
(* Types and places.                                                       *)
(***************************************************************************)
\* A process that has finished.
LEMMA FinishType ==
  ASSUME AccountsTypeOK, NEW p \in People, Finish(p)
  PROVE  /\ pc' \in [People -> Stages] /\ run' \in [People -> RunRows]
         /\ pc'[p] = "idle" /\ run'[p] = NoRun
         /\ \A q \in People \ {p} : pc'[q] = pc[q] /\ run'[q] = run[q]
BY NoRunType DEF Finish, AccountsTypeOK, Stages

\* A step of p leaves the others where they are, and takes p where its kind
\* goes, with what it needs there.
Goes(p) ==
  /\ pc' \in [People -> Stages] /\ run' \in [People -> RunRows]
  /\ \A q \in People \ {p} : pc'[q] = pc[q] /\ run'[q] = run[q]
  /\ pc'[p] \in {"asking", "issuing", "refusing"} =>
       p \in Visitors \cap actors /\ run'[p].email \in Emails /\ run'[p].address \in Addresses
  /\ pc'[p] \in {"granting", "creating", "inserting"} => p \in Browsers
  /\ pc'[p] \in {"creating", "inserting"} => run'[p].account \in Accounts
  /\ pc'[p] \in {"purging", "erasing"} => p \in Cleaners

\* A person who finishes moves, and nobody else does.
LEMMA FinishGoes ==
  ASSUME AccountsTypeOK, NEW p \in People, Finish(p)
  PROVE  Goes(p)
BY FinishType DEF Goes

\* The steps of people, one by one.
PersonStep(p) ==
  \/ CountAttempts(p) \/ Refuse(p) \/ FindAccount(p) \/ IssueLink(p) \/ CannotIssue(p)
  \/ LockLink(p) \/ Grant(p)
  \/ Authenticate(p) \/ FindOwner(p) \/ InsertSession(p)
  \/ StartErasure(p) \/ StartRound(p) \/ PurgeNext(p) \/ PurgeFails(p)
  \/ LockAccount(p) \/ Erase(p)
  \/ BreakDeadlock(p) \/ Die(p)

\* Each step of a person moves that person alone, to a place and a run that exist.
LEMMA PersonGoes ==
  ASSUME PeopleInv, NEW p \in People, PersonStep(p)
  PROVE  Goes(p)
<1>1. /\ AccountsTypeOK /\ pc \in [People -> Stages] /\ run \in [People -> RunRows]
      /\ run[p] \in RunRows
  BY DEF PeopleInv, AccountsTypeOK
<1>2. /\ pc[p] \in {"asking", "issuing"} \/ pc[p] = "refusing" =>
           p \in Visitors \cap actors /\ run[p].email \in Emails /\ run[p].address \in Addresses
      /\ pc[p] \in {"creating", "inserting"} => run[p].account \in Accounts
  BY DEF PeopleInv, PeoplePlaced, Asking, Creating
<1>3. ASSUME CountAttempts(p) PROVE Goes(p)
  <2>1. PICK e \in Emails, i \in Addresses :
          /\ p \in Visitors /\ p \in actors
          /\ pc' = [pc EXCEPT ![p] = IF Allowed(e, i) THEN "asking" ELSE "refusing"]
          /\ run' = [run EXCEPT ![p].email = e, ![p].address = i]
    BY <1>3 DEF CountAttempts, Step
  <2> DEFINE r == [[run[p] EXCEPT !.email = e] EXCEPT !.address = i]
  <2>2. [run EXCEPT ![p].email = e, ![p].address = i] = [run EXCEPT ![p] = r]
    BY <1>1
  <2>3. r \in RunRows /\ r.email = e /\ r.address = i
    BY <1>1, RunFieldTypes DEF RunRows
  <2> HIDE DEF r
  <2>4. pc' \in [People -> Stages] /\ run' \in [People -> RunRows]
    BY <1>1, <2>1, <2>2, <2>3 DEF Stages
  <2>5. /\ run'[p] = r /\ pc'[p] \in {"asking", "refusing"}
        /\ \A q \in People \ {p} : pc'[q] = pc[q] /\ run'[q] = run[q]
    BY <1>1, <2>1, <2>2
  <2> QED
    BY <2>1, <2>3, <2>4, <2>5 DEF Goes
<1>4. ASSUME FindAccount(p) PROVE Goes(p)
  <2>1. PICK a \in Accounts \cup {None} : run' = [run EXCEPT ![p].account = a]
    <3>1. (\E a \in Accounts : user[a] = run[p].email)
            => (CHOOSE a \in Accounts : user[a] = run[p].email) \in Accounts
      OBVIOUS
    <3> QED
      BY <1>4, <3>1 DEF FindAccount
  <2>2. pc[p] = "asking" /\ pc' = [pc EXCEPT ![p] = "issuing"]
    BY <1>4 DEF FindAccount, Step
  <2>3. [run[p] EXCEPT !.account = a] \in RunRows
    BY <1>1, RunFieldTypes
  <2>4. pc' \in [People -> Stages] /\ run' \in [People -> RunRows]
    BY <1>1, <2>1, <2>2, <2>3 DEF Stages
  <2>5. /\ run'[p].email = run[p].email /\ run'[p].address = run[p].address /\ pc'[p] = "issuing"
        /\ \A q \in People \ {p} : pc'[q] = pc[q] /\ run'[q] = run[q]
    BY <1>1, <2>1, <2>2 DEF RunRows
  <2> QED
    BY <1>2, <2>2, <2>4, <2>5 DEF Goes
<1>5. ASSUME LockLink(p) PROVE Goes(p)
  <2>1. PICK l \in inbox :
          /\ p \in Browsers /\ pc' = [pc EXCEPT ![p] = "granting"]
          /\ run' = [run EXCEPT ![p].link = l]
    BY <1>5 DEF LockLink, Step
  <2>2. [run[p] EXCEPT !.link = l] \in RunRows
    BY <1>1, RunFieldTypes DEF AccountsTypeOK
  <2>3. pc' \in [People -> Stages] /\ run' \in [People -> RunRows]
    BY <1>1, <2>1, <2>2 DEF Stages
  <2> QED
    BY <1>1, <2>1, <2>3 DEF Goes
<1>6. ASSUME Authenticate(p) PROVE Goes(p)
  <2>1. PICK token \in access :
          /\ p \in Browsers /\ pc' = [pc EXCEPT ![p] = "creating"]
          /\ run' = [run EXCEPT ![p].account = token.user]
    BY <1>6 DEF Authenticate, Step
  <2>2. token.user \in Accounts
    BY DEF PeopleInv, AccountsTypeOK
  <2>3. [run[p] EXCEPT !.account = token.user] \in RunRows
    BY <1>1, <2>2, RunFieldTypes
  <2>4. pc' \in [People -> Stages] /\ run' \in [People -> RunRows]
    BY <1>1, <2>1, <2>3 DEF Stages
  <2>5. /\ run'[p].account = token.user /\ pc'[p] = "creating"
        /\ \A q \in People \ {p} : pc'[q] = pc[q] /\ run'[q] = run[q]
    BY <1>1, <2>1 DEF RunRows
  <2> QED
    BY <2>1, <2>2, <2>4, <2>5 DEF Goes
<1>7. ASSUME FindOwner(p) PROVE Goes(p)
  <2>1. CASE Finish(p)
    BY <1>1, <2>1, FinishGoes
  <2>2. CASE Step(p, "creating", "inserting") /\ UNCHANGED run
    <3>1. pc' \in [People -> Stages] /\ run' \in [People -> RunRows]
      BY <1>1, <2>2 DEF Step, Stages
    <3> QED
      BY <1>1, <1>2, <1>7, <2>2, <3>1 DEF Goes, Step, FindOwner
  <2> QED
    BY <1>7, <2>1, <2>2 DEF FindOwner
<1>8. ASSUME StartErasure(p) \/ StartRound(p) PROVE Goes(p)
  <2>1. PICK a \in Accounts \cup {None}, targets \in SUBSET Sessions : ListSessions(p, a, targets)
    BY <1>8 DEF StartErasure, StartRound, KeptSessions
  <2>2. PICK old \in SUBSET Links :
          run' = [run EXCEPT ![p] = [NoRun EXCEPT !.account = a, !.targets = targets, !.old = old]]
    BY <2>1 DEF ListSessions
  <2>3. [NoRun EXCEPT !.account = a, !.targets = targets, !.old = old] \in RunRows
    BY DEF NoRun, RunRows
  <2>4. p \in Cleaners /\ pc' = [pc EXCEPT ![p] = "purging"]
    BY <2>1 DEF ListSessions, Step
  <2>5. pc' \in [People -> Stages] /\ run' \in [People -> RunRows]
    BY <1>1, <2>2, <2>3, <2>4 DEF Stages
  <2> QED
    BY <1>1, <2>2, <2>4, <2>5 DEF Goes
<1>9. ASSUME PurgeNext(p) \/ PurgeFails(p) PROVE Goes(p)
  <2>1. p \in Cleaners /\ pc[p] = "purging" /\ pc' = pc
    BY <1>9 DEF PurgeNext, PurgeFails
  <2>2. PICK rest \in SUBSET Sessions :
          \/ run' = [run EXCEPT ![p].targets = rest]
          \/ run' = [run EXCEPT ![p].targets = rest, ![p].failed = TRUE]
    <3>1. run[p].targets \ {Lowest(run[p].targets)} \in SUBSET Sessions
      BY <1>1, RunFieldTypes
    <3>2. CASE PurgeNext(p)
      BY <3>1, <3>2 DEF PurgeNext
    <3>3. CASE PurgeFails(p)
      BY <3>1, <3>3 DEF PurgeFails
    <3> QED
      BY <1>9, <3>2, <3>3
  <2> DEFINE r == [run[p] EXCEPT !.targets = rest]
             t == [[run[p] EXCEPT !.targets = rest] EXCEPT !.failed = TRUE]
  <2>3. [run EXCEPT ![p].targets = rest, ![p].failed = TRUE] = [run EXCEPT ![p] = t]
    BY <1>1
  <2>4. r \in RunRows /\ t \in RunRows
    BY <1>1, RunFieldTypes
  <2>5. run' = [run EXCEPT ![p] = r] \/ run' = [run EXCEPT ![p] = t]
    BY <2>2, <2>3
  <2> HIDE DEF r, t
  <2>6. run' \in [People -> RunRows] /\ \A q \in People \ {p} : run'[q] = run[q]
    BY <1>1, <2>4, <2>5
  <2> QED
    BY <1>1, <2>1, <2>6 DEF Goes
<1>10. ASSUME LockAccount(p) PROVE Goes(p)
  <2>1. p \in Cleaners /\ pc' = [pc EXCEPT ![p] = "erasing"] /\ run' = run
    BY <1>10 DEF LockAccount, Step
  <2>2. pc' \in [People -> Stages]
    BY <1>1, <2>1 DEF Stages
  <2> QED
    BY <1>1, <2>1, <2>2 DEF Goes
<1>11. ASSUME Refuse(p) \/ IssueLink(p) \/ CannotIssue(p) \/ Grant(p) \/ InsertSession(p)
              \/ Erase(p) \/ BreakDeadlock(p) \/ Die(p)
       PROVE  Goes(p)
  <2>1. Finish(p)
    BY <1>11
    DEF Refuse, IssueLink, CannotIssue, Grant, InsertSession, Erase, BreakDeadlock, Die
  <2> QED
    BY <1>1, <2>1, FinishGoes
<1> QED
  BY <1>3, <1>4, <1>5, <1>6, <1>7, <1>8, <1>9, <1>10, <1>11 DEF PersonStep

\* So everybody remains placed.
LEMMA PlacedStep ==
  ASSUME PeopleInv, NEW p \in People, Goes(p), actors' = actors
  PROVE  PeoplePlaced'
<1>1. ASSUME NEW q \in People
      PROVE  /\ Asking(q)' \/ pc'[q] = "refusing" =>
                  q \in Visitors \cap actors /\ run'[q].email \in Emails
                    /\ run'[q].address \in Addresses
             /\ pc'[q] = "granting" \/ Creating(q)' => q \in Browsers
             /\ Creating(q)' => run'[q].account \in Accounts
             /\ pc'[q] \in {"purging", "erasing"} => q \in Cleaners
  BY DEF Goes, PeopleInv, PeoplePlaced, Asking, Creating
<1> QED
  BY <1>1 DEF PeoplePlaced

\* An attempt that is recorded.
LEMMA RecordType ==
  ASSUME PeopleInv, NEW p \in People, Asking(p) \/ pc[p] = "refusing", RecordAttempt(p)
  PROVE  /\ NewAttempt(p) \in AttemptRows
         /\ attempts' \subseteq AttemptRows /\ IsFiniteSet(attempts')
         /\ attempts \subseteq attempts' /\ NewAttempt(p) \in attempts'
<1>1. IsFiniteSet(attempts) /\ attempts \subseteq AttemptRows
  BY DEF PeopleInv, AccountsTypeOK
<1>2. Cardinality(attempts) + 1 \in Nat
  BY <1>1, FS_CardinalityType
<1>3. run[p].email \in Emails /\ run[p].address \in Addresses
  BY DEF PeopleInv, PeoplePlaced
<1>4. NewAttempt(p) \in AttemptRows
  BY <1>2, <1>3 DEF NewAttempt, AttemptRows
<1> QED
  BY <1>1, <1>4, CountAdded DEF RecordAttempt

\* Every step keeps the types.
LEMMA AccountsTypeStep ==
  ASSUME PeopleInv, [Next]_vars
  PROVE  AccountsTypeOK'
<1>1. RetentionStep /\ AccountsTypeOK
  BY PeopleRetention DEF PeopleInv
<1>2. actors' = actors
  BY <1>1, ActorsKept
<1>3. ASSUME NEW p \in People, PersonStep(p)
      PROVE  /\ actors' \subseteq People \cup Workers \cup Provers
             /\ pc' \in [People -> Stages] /\ run' \in [People -> RunRows]
  BY <1>1, <1>2, <1>3, PersonGoes DEF Goes, AccountsTypeOK
<1>4. ASSUME NEW p \in People, CountAttempts(p) PROVE AccountsTypeOK'
  <2>1. quota > 0 /\ quota' = quota - 1 /\ UNCHANGED accountVars
    BY <1>4 DEF CountAttempts
  <2>2. quota' \in Nat
    BY <1>1, <2>1 DEF AccountsTypeOK
  <2>3. PersonStep(p)
    BY <1>4 DEF PersonStep
  <2> QED
    BY <1>1, <1>3, <2>1, <2>2, <2>3 DEF accountVars, AccountsTypeOK
<1>5. ASSUME NEW p \in People, Refuse(p) PROVE AccountsTypeOK'
  BY <1>1, <1>3, <1>5, RecordType DEF PersonStep, Refuse, AccountsTypeOK
<1>6. ASSUME NEW p \in People, IssueLink(p) PROVE AccountsTypeOK'
  <2>1. Asking(p) /\ run[p].email \in Emails
    BY <1>6 DEF IssueLink, Asking, PeopleInv, PeoplePlaced
  <2>2. Lowest(NewLinks) \in Links
    BY <2>1, NewLinkExists DEF NewLinks
  <2>3. PICK a \in Accounts :
          /\ user' = [user EXCEPT ![a] = run[p].email]
          /\ link' = [link EXCEPT ![Lowest(NewLinks)] =
                        [user |-> a, consumed |-> FALSE, expired |-> FALSE]]
    BY <1>6 DEF IssueLink, NewAccounts
  <2>4. [user |-> a, consumed |-> FALSE, expired |-> FALSE] \in LinkRows
    BY DEF LinkRows
  <2>5. user' \in [Accounts -> Emails \cup {None, "erased"}]
    BY <1>1, <2>1, <2>3 DEF AccountsTypeOK
  <2>6. link' \in [Links -> LinkRows \cup {None}]
    BY <1>1, <2>2, <2>3, <2>4 DEF AccountsTypeOK
  <2>7. inbox' \subseteq Links /\ UNCHANGED <<owner, access, granted, quota>>
    BY <1>1, <1>6, <2>2 DEF IssueLink, AccountsTypeOK
  <2>8. attempts' \subseteq AttemptRows /\ IsFiniteSet(attempts') /\ sent' \subseteq attempts'
    BY <1>1, <1>6, <2>1, RecordType DEF IssueLink, AccountsTypeOK
  <2> QED
    BY <1>1, <1>3, <1>6, <2>5, <2>6, <2>7, <2>8 DEF PersonStep, AccountsTypeOK
<1>7. ASSUME NEW p \in People,
             FindAccount(p) \/ CannotIssue(p) \/ LockLink(p) \/ Authenticate(p) \/ FindOwner(p)
             \/ StartErasure(p) \/ StartRound(p) \/ PurgeNext(p) \/ PurgeFails(p)
             \/ LockAccount(p) \/ BreakDeadlock(p) \/ Die(p)
      PROVE  AccountsTypeOK'
  <2>1. UNCHANGED accountVars /\ quota' = quota
    BY <1>7
    DEF FindAccount, CannotIssue, LockLink, Authenticate, FindOwner, StartErasure, StartRound,
        ListSessions, PurgeNext, PurgeFails, LockAccount, BreakDeadlock, Die
  <2> QED
    BY <1>1, <1>3, <1>7, <2>1, Zenon DEF PersonStep, accountVars, AccountsTypeOK
<1>8. ASSUME NEW p \in People, Grant(p) PROVE AccountsTypeOK'
  <2> DEFINE l == run[p].link
  <2>1. p \in Granting
    BY <1>8 DEF Grant, Granting
  <2>2. l \in Links /\ link[l] \in LinkRows
    BY <1>1, <2>1 DEF PeopleInv, GrantsHeld, AccountsTypeOK
  <2>3. /\ link' = [link EXCEPT ![l].consumed = TRUE]
        /\ access' = access \cup {[link |-> l, user |-> link[l].user]}
        /\ granted' = [granted EXCEPT ![l] = @ + 1]
        /\ UNCHANGED <<user, owner, inbox, attempts, sent, quota>>
    BY <1>8 DEF Grant
  <2>4. [link[l] EXCEPT !.consumed = TRUE] \in LinkRows
    BY <2>2 DEF LinkRows
  <2>5. link' \in [Links -> LinkRows \cup {None}]
    BY <1>1, <2>2, <2>3, <2>4 DEF AccountsTypeOK
  <2>6. access' \subseteq [link : Links, user : Accounts]
    BY <1>1, <2>2, <2>3 DEF AccountsTypeOK, LinkRows
  <2>7. granted' \in [Links -> Nat]
    BY <1>1, <2>2, <2>3 DEF AccountsTypeOK
  <2> QED
    BY <1>1, <1>3, <1>8, <2>3, <2>5, <2>6, <2>7 DEF PersonStep, AccountsTypeOK
<1>9. ASSUME NEW p \in People, InsertSession(p) PROVE AccountsTypeOK'
  <2>1. Creating(p) /\ run[p].account \in Accounts
    BY <1>9 DEF InsertSession, Creating, PeopleInv, PeoplePlaced
  <2>2. Lowest(NewSessions) \in Sessions
    BY <2>1, NewSessionExists DEF NewSessions
  <2>3. owner' \in [Sessions -> Accounts \cup {None}]
    BY <1>1, <1>9, <2>1, <2>2 DEF InsertSession, AccountsTypeOK
  <2> QED
    BY <1>1, <1>3, <1>9, <2>3 DEF PersonStep, InsertSession, AccountsTypeOK
<1>10. ASSUME NEW p \in People, Erase(p) PROVE AccountsTypeOK'
  <2>1. link' \in [Links -> LinkRows \cup {None}]
    BY <1>1, <1>10 DEF Erase, DeleteLinks, AccountsTypeOK
  <2>2. access' \subseteq [link : Links, user : Accounts]
    BY <1>1, <1>10 DEF Erase, AccountsTypeOK
  <2>3. user' \in [Accounts -> Emails \cup {None, "erased"}]
    BY <1>1, <1>10 DEF Erase, AccountsTypeOK
  <2>4. UNCHANGED <<owner, inbox, attempts, granted, sent, quota>>
    BY <1>10 DEF Erase
  <2> QED
    BY <1>1, <1>3, <1>10, <2>1, <2>2, <2>3, <2>4 DEF PersonStep, AccountsTypeOK
<1>11. ASSUME NEW l \in Links, ExpireLink(l) PROVE AccountsTypeOK'
  <2>1. [link[l] EXCEPT !.expired = TRUE] \in LinkRows
    BY <1>1, <1>11 DEF ExpireLink, AccountsTypeOK, LinkRows
  <2>2. link' \in [Links -> LinkRows \cup {None}]
    BY <1>1, <1>11, <2>1 DEF ExpireLink, AccountsTypeOK
  <2> QED
    BY <1>1, <1>2, <1>11, <2>2 DEF ExpireLink, AccountsTypeOK
<1>12. ASSUME NEW t \in access, ExpireToken(t) PROVE AccountsTypeOK'
  BY <1>1, <1>2, <1>12 DEF ExpireToken, AccountsTypeOK
<1>13. CASE UNCHANGED <<accountVars, pc, run, quota>>
  BY <1>1, <1>2, <1>13 DEF accountVars, AccountsTypeOK
<1> QED
  BY AccountSteps, <1>4, <1>5, <1>6, <1>7, <1>8, <1>9, <1>10, <1>11, <1>12, <1>13 DEF vars

\* Every step keeps what people carry where they are.
LEMMA PlacedKept ==
  ASSUME PeopleInv, [Next]_vars
  PROVE  PeoplePlaced'
<1>1. actors' = actors
  BY PeopleRetention, ActorsKept
<1>2. CASE UNCHANGED <<pc, run>>
  BY <1>1, <1>2 DEF PeopleInv, PeoplePlaced, Asking, Creating
<1>3. ASSUME NEW p \in People, PersonStep(p) PROVE PeoplePlaced'
  BY <1>1, <1>3, PersonGoes, PlacedStep
<1> QED
  BY AccountSteps, <1>2, <1>3 DEF PersonStep, ExpireLink, ExpireToken, vars

-----------------------------------------------------------------------------
(***************************************************************************)
(* Links and sessions that are left.                                       *)
(***************************************************************************)
\* Nobody else begins to ask or to create when p steps.
LEMMA CountedKept ==
  ASSUME PeopleInv, NEW p \in People, Goes(p)
  PROVE  /\ Askers' \subseteq Askers \cup {p} /\ Creators' \subseteq Creators \cup {p}
         /\ pc'[p] \notin {"asking", "issuing"} => Askers' \subseteq Askers \ {p}
         /\ pc'[p] \notin {"creating", "inserting"} => Creators' \subseteq Creators \ {p}
BY AccountConstants DEF Goes, Askers, Creators, Asking, Creating

\* Sessions are only taken by those who create them.
LEMMA SessionsLeftKept ==
  ASSUME PeopleInv, Creators' \subseteq Creators, NewSessions \subseteq NewSessions'
  PROVE  SessionsLeft'
<1>1. NewSessions' \in SUBSET Sessions
  BY DEF NewSessions
<1>2. IsFiniteSet(NewSessions') /\ Cardinality(NewSessions') \in Nat
  BY <1>1, AccountsFinite
<1>3. Cardinality(Creators') \in Nat /\ Cardinality(Creators') <= Cardinality(Creators)
  BY Counts, FS_Subset, FS_CardinalityType
<1>4. Cardinality(NewSessions) <= Cardinality(NewSessions')
  BY <1>2, FS_Subset
<1> QED
  BY <1>2, <1>3, <1>4, Counts DEF SessionsLeft

\* A browser that is about to create a session finds one left: every step keeps
\* SessionsLeft.
LEMMA SessionsLeftStep ==
  ASSUME PeopleInv, [Next]_vars
  PROVE  SessionsLeft'
<1>1. ASSUME NEW p \in People, Authenticate(p) PROVE SessionsLeft'
  <2> DEFINE busy == {b \in Browsers : pc[b] # "idle"}
  <2>1. Goes(p) /\ NewSessions' = NewSessions
    BY <1>1, PersonGoes DEF PersonStep, Authenticate, NewSessions, retentionVars
  <2>2. Creators' \subseteq Creators \cup {p}
    BY <2>1, CountedKept
  <2>3. Cardinality(NewSessions) > Cardinality(busy)
    BY <1>1 DEF Authenticate
  <2>4. Creators \in SUBSET busy /\ busy \in SUBSET Browsers
    BY DEF Creators, Creating
  <2>5. IsFiniteSet(busy) /\ Cardinality(busy) \in Nat
    BY <2>4, AccountsFinite
  <2>6. Cardinality(Creators) <= Cardinality(busy)
    BY <2>4, <2>5, CountSubset
  <2> HIDE DEF busy
  <2>7. /\ IsFiniteSet(Creators \cup {p})
        /\ Cardinality(Creators \cup {p}) \in {Cardinality(Creators), Cardinality(Creators) + 1}
    BY Counts, CountAdded
  <2>8. Cardinality(Creators') \in Nat /\ Cardinality(Creators') <= Cardinality(Creators \cup {p})
    BY <2>2, <2>7, FS_Subset, FS_CardinalityType
  <2> QED
    BY <2>1, <2>3, <2>5, <2>6, <2>7, <2>8, Counts DEF SessionsLeft
<1>2. ASSUME NEW p \in People, InsertSession(p) PROVE SessionsLeft'
  <2> DEFINE s == Lowest(NewSessions)
  <2>1. p \in Creators /\ Creating(p)
    BY <1>2 DEF InsertSession, Creators, Creating
  <2>2. s \in NewSessions
    BY <2>1, NewSessionExists
  <2>3. life' = [life EXCEPT ![s] = "kept"]
    BY <1>2 DEF InsertSession, CreateRow
  <2>4. Goes(p) /\ pc'[p] = "idle"
    BY <1>2, PersonGoes, FinishType DEF PersonStep, InsertSession, PeopleInv
  <2>5. Creators' \in SUBSET (Creators \ {p})
    BY <2>4, CountedKept
  <2>6. NewSessions \ {s} \subseteq NewSessions' /\ NewSessions' \in SUBSET Sessions
    BY <2>3 DEF NewSessions, PeopleInv, StoredInv, PlacesInv, RetentionTypeOK
  <2>7. Cardinality(NewSessions \ {s}) = Cardinality(NewSessions) - 1
    BY <2>2, Counts, CountRemoved
  <2>8. Cardinality(Creators \ {p}) = Cardinality(Creators) - 1 /\ IsFiniteSet(Creators \ {p})
    BY <2>1, Counts, CountRemoved, FS_RemoveElement
  <2>9. Cardinality(Creators') \in Nat /\ Cardinality(Creators') <= Cardinality(Creators \ {p})
    BY <2>5, <2>8, FS_Subset, FS_CardinalityType
  <2>10. IsFiniteSet(NewSessions') /\ Cardinality(NewSessions') \in Nat
    BY <2>6, AccountsFinite
  <2>11. Cardinality(NewSessions \ {s}) <= Cardinality(NewSessions')
    BY <2>6, <2>10, CountSubset
  <2> QED
    BY <2>7, <2>8, <2>9, <2>10, <2>11, Counts DEF SessionsLeft
<1>3. ASSUME NEW p \in People, FindOwner(p) PROVE SessionsLeft'
  <2>1. Goes(p) /\ NewSessions' = NewSessions /\ p \in Creators
    BY <1>3, PersonGoes
    DEF PersonStep, FindOwner, NewSessions, retentionVars, Creators, Creating
  <2>2. Creators' \subseteq Creators
    BY <2>1, CountedKept
  <2> QED
    BY <2>1, <2>2, SessionsLeftKept
<1>4. ASSUME NEW p \in People,
             \/ CountAttempts(p) \/ Refuse(p) \/ FindAccount(p) \/ IssueLink(p) \/ CannotIssue(p)
             \/ LockLink(p) \/ Grant(p)
             \/ StartErasure(p) \/ StartRound(p) \/ PurgeNext(p) \/ PurgeFails(p)
             \/ LockAccount(p) \/ Erase(p) \/ BreakDeadlock(p) \/ Die(p)
      PROVE  SessionsLeft'
  <2>1. PersonStep(p) /\ Goes(p)
    BY <1>4, PersonGoes DEF PersonStep
  <2>2. pc'[p] \notin {"creating", "inserting"}
    <3>1. CASE Finish(p)
      BY <3>1, FinishType DEF PeopleInv
    <3>2. CASE PurgeNext(p) \/ PurgeFails(p)
      BY <3>2 DEF PurgeNext, PurgeFails
    <3>3. CASE CountAttempts(p) \/ FindAccount(p) \/ LockLink(p) \/ StartErasure(p)
               \/ StartRound(p) \/ LockAccount(p)
      BY <3>3, ZenonT(60)
      DEF CountAttempts, FindAccount, LockLink, StartErasure, StartRound, ListSessions,
          LockAccount, Step, PeopleInv, AccountsTypeOK
    <3> QED
      BY <1>4, <3>1, <3>2, <3>3
      DEF Refuse, IssueLink, CannotIssue, Grant, Erase, BreakDeadlock, Die
  <2>3. Creators' \subseteq Creators
    BY <2>1, <2>2, CountedKept
  <2>4. NewSessions \subseteq NewSessions'
    <3>1. CASE life' = life
      BY <3>1 DEF NewSessions
    <3>2. CASE \E s \in Sessions : life[s] = "kept" /\ PurgeSession(s)
      BY <3>2 DEF NewSessions, PurgeSession, PeopleInv, StoredInv, PlacesInv, RetentionTypeOK
    <3>3. CASE PurgeNext(p)
      <4>1. Lowest(run[p].targets) \in Sessions
        BY <3>3, TargetExists DEF PurgeNext
      <4> QED
        BY <3>1, <3>2, <3>3, <4>1 DEF PurgeNext, retentionVars
    <3> QED
      BY <1>4, <3>1, <3>3
      DEF CountAttempts, Refuse, FindAccount, IssueLink, CannotIssue, LockLink, Grant,
          StartErasure, StartRound, ListSessions, PurgeFails, LockAccount, Erase, BreakDeadlock,
          Die, retentionVars
  <2> QED
    BY <2>3, <2>4, SessionsLeftKept
<1>5. CASE UNCHANGED pc /\ life' = life
  BY <1>5, SessionsLeftKept DEF Creators, Creating, NewSessions
<1>6. CASE RetentionNext /\ UNCHANGED pc
  <2>1. life' = life
    BY <1>6, RetentionKeepsRows
  <2> QED
    BY <1>5, <1>6, <2>1, Zenon
<1> QED
  BY AccountSteps, <1>1, <1>2, <1>3, <1>4, <1>5, <1>6
  DEF ExpireLink, ExpireToken, vars, retentionVars

\* Links are only taken by those who ask for them.
LEMMA LinksLeftKept ==
  ASSUME PeopleInv, Askers' \subseteq Askers, NewLinks \subseteq NewLinks', quota' = quota
  PROVE  LinksLeft'
<1>1. NewLinks' \in SUBSET Links
  BY DEF NewLinks
<1>2. IsFiniteSet(NewLinks') /\ Cardinality(NewLinks') \in Nat
  BY <1>1, AccountsFinite
<1>3. Cardinality(Askers') \in Nat /\ Cardinality(Askers') <= Cardinality(Askers)
  BY Counts, FS_Subset, FS_CardinalityType
<1>4. Cardinality(NewLinks) <= Cardinality(NewLinks')
  BY <1>2, FS_Subset
<1> QED
  BY <1>2, <1>3, <1>4, Counts DEF LinksLeft

\* A visitor who was let in finds a link left: every step keeps LinksLeft.
LEMMA LinksLeftStep ==
  ASSUME PeopleInv, [Next]_vars
  PROVE  LinksLeft'
<1>1. ASSUME NEW p \in People, CountAttempts(p) PROVE LinksLeft'
  <2>1. Goes(p) /\ NewLinks' = NewLinks
    BY <1>1, PersonGoes DEF PersonStep, CountAttempts, NewLinks, accountVars
  <2>2. Askers' \subseteq Askers \cup {p}
    BY <2>1, CountedKept
  <2>3. quota > 0 /\ quota' = quota - 1
    BY <1>1 DEF CountAttempts
  <2>4. /\ IsFiniteSet(Askers \cup {p})
        /\ Cardinality(Askers \cup {p}) \in {Cardinality(Askers), Cardinality(Askers) + 1}
    BY Counts, CountAdded
  <2>5. Cardinality(Askers') \in Nat /\ Cardinality(Askers') <= Cardinality(Askers \cup {p})
    BY <2>2, <2>4, FS_Subset, FS_CardinalityType
  <2> QED
    BY <2>1, <2>3, <2>4, <2>5, Counts DEF LinksLeft
<1>2. ASSUME NEW p \in People, IssueLink(p) PROVE LinksLeft'
  <2> DEFINE l == Lowest(NewLinks)
  <2>1. p \in Askers /\ Asking(p)
    BY <1>2 DEF IssueLink, Askers, Asking
  <2>2. l \in NewLinks
    BY <2>1, NewLinkExists
  <2>3. /\ \A k \in Links : k # l => link'[k] = link[k]
        /\ inbox' \in {inbox, inbox \cup {l}} /\ granted' = granted /\ quota' = quota
    BY <1>2 DEF IssueLink, PeopleInv, AccountsTypeOK
  <2>4. Goes(p) /\ pc'[p] = "idle"
    BY <1>2, PersonGoes, FinishType DEF PersonStep, IssueLink, PeopleInv
  <2>5. Askers' \in SUBSET (Askers \ {p})
    BY <2>4, CountedKept
  <2>6. NewLinks \ {l} \subseteq NewLinks' /\ NewLinks' \in SUBSET Links
    BY <2>3 DEF NewLinks
  <2>7. Cardinality(NewLinks \ {l}) = Cardinality(NewLinks) - 1
    BY <2>2, Counts, CountRemoved
  <2>8. Cardinality(Askers \ {p}) = Cardinality(Askers) - 1 /\ IsFiniteSet(Askers \ {p})
    BY <2>1, Counts, CountRemoved, FS_RemoveElement
  <2>9. Cardinality(Askers') \in Nat /\ Cardinality(Askers') <= Cardinality(Askers \ {p})
    BY <2>5, <2>8, FS_Subset, FS_CardinalityType
  <2>10. IsFiniteSet(NewLinks') /\ Cardinality(NewLinks') \in Nat
    BY <2>6, AccountsFinite
  <2>11. Cardinality(NewLinks \ {l}) <= Cardinality(NewLinks')
    BY <2>6, <2>10, CountSubset
  <2> QED
    BY <2>3, <2>7, <2>8, <2>9, <2>10, <2>11, Counts DEF LinksLeft
<1>3. ASSUME NEW p \in People, FindAccount(p) PROVE LinksLeft'
  <2>1. Goes(p) /\ NewLinks' = NewLinks /\ quota' = quota /\ pc[p] = "asking"
    BY <1>3, PersonGoes DEF PersonStep, FindAccount, Step, NewLinks, accountVars
  <2>2. p \in Askers
    BY <2>1 DEF Askers, Asking, PeopleInv, PeoplePlaced
  <2>3. Askers' \subseteq Askers
    BY <2>1, <2>2, CountedKept
  <2> QED
    BY <2>1, <2>3, LinksLeftKept
<1>4. ASSUME NEW p \in People,
             \/ Refuse(p) \/ CannotIssue(p) \/ LockLink(p) \/ Grant(p)
             \/ Authenticate(p) \/ FindOwner(p) \/ InsertSession(p)
             \/ StartErasure(p) \/ StartRound(p) \/ PurgeNext(p) \/ PurgeFails(p)
             \/ LockAccount(p) \/ Erase(p) \/ BreakDeadlock(p) \/ Die(p)
      PROVE  LinksLeft'
  <2>1. PersonStep(p) /\ Goes(p)
    BY <1>4, PersonGoes DEF PersonStep
  <2>2. pc'[p] \notin {"asking", "issuing"}
    <3>1. CASE Finish(p)
      BY <3>1, FinishType DEF PeopleInv
    <3>2. CASE PurgeNext(p) \/ PurgeFails(p)
      BY <3>2 DEF PurgeNext, PurgeFails
    <3>3. CASE LockLink(p) \/ Authenticate(p) \/ StartErasure(p) \/ StartRound(p)
               \/ LockAccount(p) \/ (FindOwner(p) /\ Step(p, "creating", "inserting"))
      BY <3>3, ZenonT(60)
      DEF Authenticate, LockLink, StartErasure, StartRound, ListSessions,
          LockAccount, Step, PeopleInv, AccountsTypeOK
    <3> QED
      BY <1>4, <3>1, <3>2, <3>3
      DEF Refuse, CannotIssue, Grant, InsertSession, FindOwner, Erase, BreakDeadlock, Die
  <2>3. Askers' \subseteq Askers
    BY <2>1, <2>2, CountedKept
  <2>4. NewLinks \subseteq NewLinks' /\ quota' = quota
    <3>1. CASE UNCHANGED <<link, granted, inbox, quota>>
      BY <3>1 DEF NewLinks
    <3>2. CASE Grant(p)
      <4>1. p \in Granting
        BY <3>2 DEF Grant, Granting
      <4>2. run[p].link \in Links /\ link[run[p].link] # None
        BY <4>1 DEF PeopleInv, GrantsHeld
      <4>3. /\ \A k \in Links : k # run[p].link => link'[k] = link[k] /\ granted'[k] = granted[k]
            /\ inbox' = inbox /\ quota' = quota
        BY <3>2 DEF Grant, PeopleInv, AccountsTypeOK
      <4> QED
        BY <4>2, <4>3 DEF NewLinks
    <3>3. CASE Erase(p)
      <4>1. /\ \A k \in Links : link'[k] = link[k] \/ link'[k] = None
            /\ UNCHANGED <<granted, inbox, quota>>
        BY <3>3 DEF Erase, DeleteLinks
      <4> QED
        BY <4>1 DEF NewLinks
    <3> QED
      BY <1>4, <3>1, <3>2, <3>3
      DEF Refuse, CannotIssue, LockLink, Authenticate, FindOwner, InsertSession,
          StartErasure, StartRound, ListSessions, PurgeNext, PurgeFails, LockAccount,
          BreakDeadlock, Die, accountVars
  <2> QED
    BY <2>3, <2>4, LinksLeftKept
<1>5. ASSUME NEW l \in Links, ExpireLink(l) PROVE LinksLeft'
  <2>1. /\ \A k \in Links : k # l => link'[k] = link[k]
        /\ link[l] # None /\ UNCHANGED <<granted, inbox, quota, pc>>
    BY <1>5 DEF ExpireLink, PeopleInv, AccountsTypeOK
  <2>2. NewLinks \subseteq NewLinks' /\ Askers' = Askers
    BY <2>1 DEF NewLinks, Askers, Asking
  <2> QED
    BY <2>1, <2>2, LinksLeftKept
<1>6. CASE UNCHANGED <<link, granted, inbox, quota, pc>>
  BY <1>6, LinksLeftKept DEF NewLinks, Askers, Asking
<1> QED
  BY AccountSteps, <1>1, <1>2, <1>3, <1>4, <1>5, <1>6
  DEF ExpireToken, vars, accountVars

-----------------------------------------------------------------------------
(***************************************************************************)
(* Links are used once.                                                    *)
(***************************************************************************)
\* A step by which nobody begins to exchange a link, and which leaves the
\* links that are being exchanged as they are.
LEMMA GrantsKept ==
  ASSUME PeopleInv, Granting' \subseteq Granting,
         \A b \in Granting' :
           /\ run'[b].link = run[b].link
           /\ link'[run[b].link] # None /\ ~link'[run[b].link].consumed
           /\ granted'[run[b].link] = granted[run[b].link]
  PROVE  GrantsHeld'
BY DEF PeopleInv, GrantsHeld

\* Of the people only p changes its place.
LEMMA GrantingKept ==
  ASSUME PeopleInv, NEW p \in People, Goes(p)
  PROVE  /\ Granting' \subseteq Granting \cup {p}
         /\ pc'[p] # "granting" => Granting' \subseteq Granting \ {p}
         /\ \A b \in Granting \ {p} : run'[b] = run[b]
BY DEF Goes, Granting, People

\* The row lock keeps browsers from one link apart: every step keeps GrantsHeld and
\* GrantedOnce.
LEMMA GrantsStep ==
  ASSUME PeopleInv, [Next]_vars
  PROVE  GrantsHeld' /\ GrantedOnce'
<1>1. ASSUME NEW p \in People, LockLink(p) PROVE GrantsHeld' /\ GrantedOnce'
  <2>1. PICK l \in inbox :
          /\ LinkHolders(l) = {} /\ Good(l)
          /\ run' = [run EXCEPT ![p].link = l]
    BY <1>1 DEF LockLink
  <2>2. l \in Links /\ UNCHANGED <<link, granted>>
    BY <1>1 DEF LockLink, accountVars, PeopleInv, AccountsTypeOK
  <2>3. link[l] # None /\ ~link[l].consumed /\ granted[l] = 0
    BY <2>1, <2>2 DEF Good, PeopleInv, GrantedOnce, AccountsTypeOK
  <2>4. Goes(p) /\ run'[p].link = l
    BY <1>1, <2>1, PersonGoes DEF PersonStep, PeopleInv, AccountsTypeOK, RunRows
  <2>5. /\ Granting' \subseteq Granting \cup {p}
        /\ \A b \in Granting \ {p} : run'[b] = run[b]
    BY <2>4, GrantingKept
  <2>6. \A b \in Granting : run[b].link # l
    BY <2>1 DEF LinkHolders, Granting
  <2>7. GrantsHeld'
    BY <2>2, <2>3, <2>4, <2>5, <2>6 DEF PeopleInv, GrantsHeld
  <2> QED
    BY <2>2, <2>7 DEF PeopleInv, GrantedOnce
<1>2. ASSUME NEW p \in People, Grant(p) PROVE GrantsHeld' /\ GrantedOnce'
  <2> DEFINE l == run[p].link
  <2>1. p \in Granting
    BY <1>2 DEF Grant, Granting
  <2>2. /\ l \in Links /\ link[l] # None /\ granted[l] = 0
        /\ \A q \in Granting \ {p} : run[q].link # l
    BY <2>1 DEF PeopleInv, GrantsHeld
  <2>3. link[l] \in LinkRows
    BY <2>2 DEF PeopleInv, AccountsTypeOK
  <2>4. /\ link'[l].consumed /\ granted'[l] = 1
        /\ \A k \in Links : k # l => link'[k] = link[k] /\ granted'[k] = granted[k]
    BY <1>2, <2>2, <2>3 DEF Grant, PeopleInv, AccountsTypeOK, LinkRows
  <2>5. Goes(p) /\ pc'[p] = "idle"
    BY <1>2, PersonGoes, FinishType DEF PersonStep, Grant, PeopleInv
  <2>6. Granting' \subseteq Granting \ {p} /\ \A b \in Granting \ {p} : run'[b] = run[b]
    BY <2>5, GrantingKept
  <2>7. ASSUME NEW b \in Granting'
        PROVE  /\ run'[b].link = run[b].link
               /\ link'[run[b].link] # None /\ ~link'[run[b].link].consumed
               /\ granted'[run[b].link] = granted[run[b].link]
    <3>1. b \in Granting /\ run'[b] = run[b] /\ run[b].link # l
      BY <2>2, <2>6
    <3>2. /\ run[b].link \in Links /\ link[run[b].link] # None
          /\ ~link[run[b].link].consumed
      BY <3>1 DEF PeopleInv, GrantsHeld
    <3> QED
      BY <2>4, <3>1, <3>2
  <2>8. GrantsHeld'
    BY <2>6, <2>7, GrantsKept
  <2>9. GrantedOnce'
    BY <2>4 DEF PeopleInv, GrantedOnce
  <2> QED
    BY <2>8, <2>9
<1>3. ASSUME NEW p \in People, IssueLink(p) PROVE GrantsHeld' /\ GrantedOnce'
  <2> DEFINE l == Lowest(NewLinks)
  <2>1. Asking(p)
    BY <1>3 DEF IssueLink, Asking
  <2>2. l \in Links /\ link[l] = None /\ granted[l] = 0
    BY <2>1, NewLinkExists DEF NewLinks
  <2>3. granted' = granted /\ \A k \in Links : k # l => link'[k] = link[k]
    BY <1>3 DEF IssueLink, PeopleInv, AccountsTypeOK
  <2>4. Goes(p) /\ pc'[p] = "idle"
    BY <1>3, PersonGoes, FinishType DEF PersonStep, IssueLink, PeopleInv
  <2>5. Granting' \subseteq Granting \ {p} /\ \A b \in Granting \ {p} : run'[b] = run[b]
    BY <2>4, GrantingKept
  <2>6. ASSUME NEW b \in Granting
        PROVE  /\ link'[run[b].link] # None /\ ~link'[run[b].link].consumed
               /\ granted'[run[b].link] = granted[run[b].link]
    BY <2>2, <2>3 DEF PeopleInv, GrantsHeld
  <2>7. GrantsHeld'
    BY <2>5, <2>6, GrantsKept
  <2>8. GrantedOnce'
    BY <2>2, <2>3 DEF PeopleInv, GrantedOnce
  <2> QED
    BY <2>7, <2>8
<1>4. ASSUME NEW p \in People, Erase(p) PROVE GrantsHeld' /\ GrantedOnce'
  <2>1. granted' = granted /\ (link' = link \/ DeleteLinks(p))
    BY <1>4 DEF Erase
  <2>2. ASSUME NEW k \in Links PROVE link'[k] = link[k] \/ (k \in Doomed(p) /\ link'[k] = None)
    BY <2>1 DEF DeleteLinks
  <2>3. ASSUME NEW b \in Granting PROVE run[b].link \notin Doomed(p)
    <3>1. UNION {LinkHolders(l) : l \in Doomed(p)} = {}
      BY <1>4 DEF Erase, Blockers
    <3>2. b \in LinkHolders(run[b].link)
      BY DEF LinkHolders, Granting
    <3> QED
      BY <3>1, <3>2
  <2>4. Goes(p) /\ pc'[p] = "idle"
    BY <1>4, PersonGoes, FinishType DEF PersonStep, Erase, PeopleInv
  <2>5. Granting' \subseteq Granting \ {p} /\ \A b \in Granting \ {p} : run'[b] = run[b]
    BY <2>4, GrantingKept
  <2>6. ASSUME NEW b \in Granting
        PROVE  /\ link'[run[b].link] # None /\ ~link'[run[b].link].consumed
               /\ granted'[run[b].link] = granted[run[b].link]
    <3>1. /\ run[b].link \in Links /\ link[run[b].link] # None
          /\ ~link[run[b].link].consumed
      BY DEF PeopleInv, GrantsHeld
    <3> QED
      BY <2>1, <2>2, <2>3, <3>1
  <2>7. GrantsHeld'
    BY <2>5, <2>6, GrantsKept
  <2>8. GrantedOnce'
    BY <2>1, <2>2 DEF PeopleInv, GrantedOnce
  <2> QED
    BY <2>7, <2>8
<1>5. ASSUME NEW l \in Links, ExpireLink(l) PROVE GrantsHeld' /\ GrantedOnce'
  <2>1. UNCHANGED <<granted, pc, run>> /\ link[l] # None
        /\ link' = [link EXCEPT ![l].expired = TRUE]
    BY <1>5 DEF ExpireLink
  <2>2. link[l] \in LinkRows
    BY <2>1 DEF PeopleInv, AccountsTypeOK
  <2>3. [link[l] EXCEPT !.expired = TRUE] \in LinkRows
        /\ [link[l] EXCEPT !.expired = TRUE].consumed = link[l].consumed
    BY <2>2 DEF LinkRows
  <2>4. ASSUME NEW k \in Links
        PROVE  link[k] # None => link'[k] # None /\ link'[k].consumed = link[k].consumed
    <3>1. link \in [Links -> LinkRows \cup {None}]
      BY DEF PeopleInv, AccountsTypeOK
    <3>2. CASE k = l
      BY <2>1, <2>3, <3>1, <3>2, AccountConstants
    <3>3. CASE k # l
      BY <2>1, <3>1, <3>3
    <3> QED
      BY <3>2, <3>3
  <2>5. \A k \in Links : link[k] = None => link'[k] = None
    BY <2>1 DEF PeopleInv, AccountsTypeOK
  <2>6. GrantsHeld'
    BY <2>1, <2>4 DEF PeopleInv, GrantsHeld, Granting
  <2>7. GrantedOnce'
    BY <2>1, <2>4, <2>5 DEF PeopleInv, GrantedOnce
  <2> QED
    BY <2>6, <2>7
<1>6. ASSUME NEW p \in People,
             \/ CountAttempts(p) \/ Refuse(p) \/ FindAccount(p) \/ CannotIssue(p)
             \/ Authenticate(p) \/ FindOwner(p) \/ InsertSession(p)
             \/ StartErasure(p) \/ StartRound(p) \/ PurgeNext(p) \/ PurgeFails(p)
             \/ LockAccount(p) \/ BreakDeadlock(p) \/ Die(p)
      PROVE  GrantsHeld' /\ GrantedOnce'
  <2>1. PersonStep(p) /\ Goes(p)
    BY <1>6, PersonGoes DEF PersonStep
  <2>2. pc'[p] # "granting"
    <3>1. CASE Finish(p)
      BY <3>1, FinishType DEF PeopleInv
    <3>2. CASE PurgeNext(p) \/ PurgeFails(p)
      BY <3>2 DEF PurgeNext, PurgeFails
    <3>3. CASE CountAttempts(p) \/ FindAccount(p) \/ Authenticate(p) \/ StartErasure(p)
               \/ StartRound(p) \/ LockAccount(p)
               \/ (FindOwner(p) /\ Step(p, "creating", "inserting"))
      BY <3>3, ZenonT(60)
      DEF CountAttempts, FindAccount, Authenticate, StartErasure, StartRound, ListSessions,
          LockAccount, Step, PeopleInv, AccountsTypeOK
    <3> QED
      BY <1>6, <3>1, <3>2, <3>3
      DEF Refuse, CannotIssue, FindOwner, InsertSession, BreakDeadlock, Die
  <2>3. Granting' \subseteq Granting \ {p} /\ \A b \in Granting \ {p} : run'[b] = run[b]
    BY <2>1, <2>2, GrantingKept
  <2>4. UNCHANGED <<link, granted>>
    BY <1>6
    DEF CountAttempts, Refuse, FindAccount, CannotIssue, Authenticate, FindOwner, InsertSession,
        StartErasure, StartRound, ListSessions, PurgeNext, PurgeFails, LockAccount,
        BreakDeadlock, Die, accountVars
  <2>5. ASSUME NEW b \in Granting
        PROVE  /\ link'[run[b].link] # None /\ ~link'[run[b].link].consumed
               /\ granted'[run[b].link] = granted[run[b].link]
    BY <2>4 DEF PeopleInv, GrantsHeld
  <2>6. GrantsHeld'
    BY <2>3, <2>5, GrantsKept
  <2> QED
    BY <2>4, <2>6 DEF PeopleInv, GrantedOnce
<1>7. CASE UNCHANGED <<link, granted, pc, run>>
  BY <1>7 DEF PeopleInv, GrantsHeld, GrantedOnce, Granting
<1> QED
  BY AccountSteps, <1>1, <1>2, <1>3, <1>4, <1>5, <1>6, <1>7
  DEF ExpireToken, vars, accountVars

-----------------------------------------------------------------------------
\* PeopleInv is inductive.
LEMMA PeopleStep ==
  ASSUME PeopleInv, [Next]_vars
  PROVE  PeopleInv'
<1>1. StoredInv'
  BY PeopleRetention, StoredStep DEF PeopleInv
<1> QED
  BY <1>1, AccountsTypeStep, PlacedKept, LinksLeftStep, SessionsLeftStep, GrantsStep
  DEF PeopleInv

\* PeopleInv holds in every scene.
LEMMA PeopleInit ==
  ASSUME Init
  PROVE  PeopleInv
<1>1. PICK scene \in Scenes :
        /\ actors = scene.actors /\ outages = scene.outages
        /\ user = scene.users /\ quota = scene.quota
        /\ link = [l \in Links |-> IF l \in DOMAIN scene.links
                     THEN [user |-> scene.links[l], consumed |-> FALSE, expired |-> FALSE]
                     ELSE None]
        /\ inbox = DOMAIN scene.links
        /\ owner = [s \in Sessions |-> IF s \in DOMAIN scene.owners THEN scene.owners[s] ELSE None]
        /\ life = [s \in Sessions |-> IF s \in DOMAIN scene.owners THEN "kept" ELSE "absent"]
  BY DEF Init
<1>2. /\ scene.actors \subseteq People \cup Workers \cup Provers
      /\ scene.users \in [Accounts -> Emails \cup {None}]
      /\ scene.outages \in 0 .. Outages /\ Outages \in Nat
      /\ DOMAIN scene.links \subseteq Links
      /\ scene.quota \in 0 .. Cardinality(Links \ DOMAIN scene.links)
  BY AccountsAssumption, RetentionAssumption
<1>3. /\ \A s \in DOMAIN scene.owners : scene.owners[s] \in Accounts
      /\ \A l \in DOMAIN scene.links : scene.links[l] \in Accounts
  BY AccountsAssumption DEF Taken
<1>4. StoredInv
  BY <1>1, <1>2, StoredInit DEF Init
<1>5. /\ pc = [p \in People |-> "idle"] /\ run = [p \in People |-> NoRun]
      /\ access = {} /\ attempts = {} /\ sent = {} /\ granted = [l \in Links |-> 0]
  BY DEF Init
<1>6. AccountsTypeOK
  <2>1. link \in [Links -> LinkRows \cup {None}]
    BY <1>1, <1>3 DEF LinkRows
  <2>2. owner \in [Sessions -> Accounts \cup {None}]
    BY <1>1, <1>3
  <2>3. /\ user \in [Accounts -> Emails \cup {None, "erased"}] /\ inbox \subseteq Links
        /\ actors \subseteq People \cup Workers \cup Provers
    BY <1>1, <1>2
  <2>4. quota \in Nat
    <3>1. Links \ DOMAIN scene.links \in SUBSET Links
      OBVIOUS
    <3>2. Cardinality(Links \ DOMAIN scene.links) \in Nat
      BY <3>1, AccountsFinite
    <3> QED
      BY <1>1, <1>2, <3>2
  <2>5. /\ pc \in [People -> Stages] /\ run \in [People -> RunRows]
        /\ granted \in [Links -> Nat] /\ access \subseteq [link : Links, user : Accounts]
    BY <1>5, NoRunType DEF Stages
  <2>6. attempts \subseteq AttemptRows /\ IsFiniteSet(attempts) /\ sent \subseteq attempts
    BY <1>5, FS_EmptySet
  <2> QED
    BY <2>1, <2>2, <2>3, <2>4, <2>5, <2>6 DEF AccountsTypeOK
<1>7. PeoplePlaced
  BY <1>5 DEF PeoplePlaced, Asking, Creating
<1>8. Askers = {} /\ Creators = {} /\ Granting = {}
  BY <1>5 DEF Askers, Creators, Granting, Asking, Creating, People
<1>9. LinksLeft
  <2>1. NewLinks = Links \ DOMAIN scene.links
    <3>1. ASSUME NEW l \in DOMAIN scene.links
          PROVE  [user |-> scene.links[l], consumed |-> FALSE, expired |-> FALSE] # None
      <4>1. scene.links[l] \in Accounts
        BY <1>3
      <4>2. [user |-> scene.links[l], consumed |-> FALSE, expired |-> FALSE] \in LinkRows
        BY <4>1 DEF LinkRows
      <4> QED
        BY <4>2, AccountConstants
    <3>2. ASSUME NEW l \in Links PROVE link[l] = None <=> l \notin DOMAIN scene.links
      <4>1. link[l] = IF l \in DOMAIN scene.links
              THEN [user |-> scene.links[l], consumed |-> FALSE, expired |-> FALSE] ELSE None
        BY <1>1
      <4>2. CASE l \in DOMAIN scene.links
        BY <4>1, <4>2, <3>1
      <4>3. CASE l \notin DOMAIN scene.links
        BY <4>1, <4>3
      <4> QED
        BY <4>2, <4>3
    <3>3. inbox = DOMAIN scene.links /\ \A l \in Links : granted[l] = 0
      BY <1>1, <1>5
    <3> QED
      BY <3>2, <3>3 DEF NewLinks
  <2>2. NewLinks \in SUBSET Links
    BY DEF NewLinks
  <2>3. Cardinality(NewLinks) \in Nat /\ Cardinality(Askers) = 0
    BY <1>8, <2>2, AccountsFinite, FS_EmptySet
  <2> QED
    BY <1>1, <1>2, <2>1, <2>3 DEF LinksLeft
<1>10. SessionsLeft
  <2>1. NewSessions \in SUBSET Sessions
    BY DEF NewSessions
  <2>2. Cardinality(NewSessions) \in Nat /\ Cardinality(Creators) = 0
    BY <1>8, <2>1, AccountsFinite, FS_EmptySet
  <2> QED
    BY <2>2 DEF SessionsLeft
<1>11. GrantsHeld /\ GrantedOnce
  BY <1>5, <1>8 DEF GrantsHeld, GrantedOnce
<1> QED
  BY <1>4, <1>6, <1>7, <1>9, <1>10, <1>11 DEF PeopleInv

-----------------------------------------------------------------------------
(***************************************************************************)
(* Nothing outlives its account.  Whoever inserts a session has its owner, *)
(* and no cleanup is erasing that one.                                     *)
(***************************************************************************)
KeptOwned == \A s \in Sessions : life[s] = "kept" => owner[s] \in Accounts

InsertersOwned == \A b \in Browsers : pc[b] = "inserting" => Exists(run[b].account)

HoldersApart == \A b \in Browsers, c \in Cleaners :
  pc[b] = "inserting" /\ pc[c] = "erasing" => run[b].account # run[c].account

OrphansInv == KeptOwned /\ NoOrphans /\ InsertersOwned /\ HoldersApart

\* A step that gives nothing an owner, and takes no account from anything.
LEMMA OrphansKept ==
  ASSUME PeopleInv, OrphansInv,
         \A a \in Accounts : Exists(a) => user'[a] \in Emails,
         owner' = owner, \A s \in Sessions : life'[s] = "kept" => life[s] = "kept",
         \A l \in Links : link'[l] # None => link[l] # None /\ link'[l].user = link[l].user,
         access' \subseteq access,
         \A q \in People : pc'[q] \in {"inserting", "erasing"} =>
           pc'[q] = pc[q] /\ run'[q].account = run[q].account
  PROVE  OrphansInv'
<1>1. KeptOwned'
  BY DEF OrphansInv, KeptOwned
<1>2. \A s \in Sessions : life'[s] = "kept" => user'[owner'[s]] \in Emails
  BY DEF OrphansInv, KeptOwned, NoOrphans, Exists
<1>3. ASSUME NEW l \in Links, link'[l] # None PROVE user'[link'[l].user] \in Emails
  <2>1. link[l] # None /\ link'[l].user = link[l].user
    BY <1>3
  <2>2. link[l].user \in Accounts
    BY <2>1 DEF PeopleInv, AccountsTypeOK, LinkRows
  <2> QED
    BY <2>1, <2>2 DEF OrphansInv, NoOrphans, Exists
<1>4. ASSUME NEW t \in access' PROVE user'[t.user] \in Emails
  <2>1. t \in access /\ t.user \in Accounts
    BY DEF PeopleInv, AccountsTypeOK
  <2> QED
    BY <2>1 DEF OrphansInv, NoOrphans, Exists
<1>5. NoOrphans'
  BY <1>2, <1>3, <1>4 DEF NoOrphans, Exists
<1>6. ASSUME NEW b \in Browsers, pc'[b] = "inserting" PROVE user'[run'[b].account] \in Emails
  <2>1. b \in People /\ pc[b] = "inserting" /\ run'[b].account = run[b].account
    BY <1>6 DEF People
  <2>2. run[b].account \in Accounts
    BY <2>1 DEF PeopleInv, PeoplePlaced, Creating
  <2> QED
    BY <2>1, <2>2 DEF OrphansInv, InsertersOwned, Exists
<1>7. InsertersOwned'
  BY <1>6 DEF InsertersOwned, Exists
<1>8. HoldersApart'
  BY DEF OrphansInv, HoldersApart, People
<1> QED
  BY <1>1, <1>5, <1>7, <1>8 DEF OrphansInv

\* Every step keeps OrphansInv.
LEMMA OrphansStep ==
  ASSUME PeopleInv, OrphansInv, [Next]_vars
  PROVE  OrphansInv'
<1> DEFINE Same(p) == \A q \in People \ {p} : pc'[q] = pc[q] /\ run'[q] = run[q]
<1>1. ASSUME NEW p \in People, IssueLink(p) PROVE OrphansInv'
  <2>1. Asking(p) /\ run[p].email \in Emails
    BY <1>1 DEF IssueLink, Asking, PeopleInv, PeoplePlaced
  <2>2. PICK a \in Accounts :
          /\ user' = [user EXCEPT ![a] = run[p].email]
          /\ link' = [link EXCEPT ![Lowest(NewLinks)] =
                        [user |-> a, consumed |-> FALSE, expired |-> FALSE]]
    BY <1>1 DEF IssueLink, NewAccounts
  <2>3. Same(p) /\ pc'[p] = "idle"
    BY <1>1, FinishType DEF IssueLink, PeopleInv
  <2>4. user'[a] \in Emails /\ \A b \in Accounts : Exists(b) => user'[b] \in Emails
    BY <2>1, <2>2 DEF Exists, PeopleInv, AccountsTypeOK
  <2>5. UNCHANGED <<life, owner, access>>
    BY <1>1 DEF IssueLink, retentionVars
  <2>6. ASSUME NEW l \in Links, link'[l] # None
        PROVE  link'[l].user = a \/ (link[l] # None /\ link'[l] = link[l])
    BY <2>2, <2>6 DEF PeopleInv, AccountsTypeOK
  <2>7. ASSUME NEW l \in Links, link'[l] # None PROVE user'[link'[l].user] \in Emails
    <3>1. CASE link'[l].user = a
      BY <2>4, <3>1
    <3>2. CASE link[l] # None /\ link'[l] = link[l]
      <4>1. link[l].user \in Accounts
        BY <3>2 DEF PeopleInv, AccountsTypeOK, LinkRows
      <4> QED
        BY <2>4, <3>2, <4>1 DEF OrphansInv, NoOrphans, Exists
    <3> QED
      BY <2>6, <2>7, <3>1, <3>2
  <2>8. \A t \in access : t.user \in Accounts
    BY DEF PeopleInv, AccountsTypeOK
  <2>9. /\ \A s \in Sessions : life'[s] = "kept" => user'[owner'[s]] \in Emails
        /\ \A t \in access' : user'[t.user] \in Emails
    BY <2>4, <2>5, <2>8 DEF OrphansInv, KeptOwned, NoOrphans, Exists
  <2>10. NoOrphans'
    BY <2>7, <2>9 DEF NoOrphans, Exists
  <2>11. ASSUME NEW b \in Browsers, pc'[b] = "inserting" PROVE user'[run'[b].account] \in Emails
    <3>1. b \in People \ {p} /\ pc[b] = "inserting" /\ run'[b] = run[b]
      BY <2>3, <2>11 DEF People
    <3>2. run[b].account \in Accounts
      BY <3>1 DEF PeopleInv, PeoplePlaced, Creating
    <3> QED
      BY <2>4, <3>1, <3>2 DEF OrphansInv, InsertersOwned, Exists
  <2>12. InsertersOwned'
    BY <2>11 DEF InsertersOwned, Exists
  <2>13. KeptOwned' /\ HoldersApart'
    BY <2>3, <2>5 DEF OrphansInv, KeptOwned, HoldersApart, People
  <2> QED
    BY <2>10, <2>12, <2>13 DEF OrphansInv
<1>2. ASSUME NEW p \in People, Grant(p) PROVE OrphansInv'
  <2> DEFINE l == run[p].link
  <2>1. p \in Granting
    BY <1>2 DEF Grant, Granting
  <2>2. l \in Links /\ link[l] # None /\ link[l] \in LinkRows
    BY <2>1 DEF PeopleInv, GrantsHeld, AccountsTypeOK
  <2>3. /\ access' = access \cup {[link |-> l, user |-> link[l].user]}
        /\ link' = [link EXCEPT ![l].consumed = TRUE]
        /\ UNCHANGED <<user, owner, life>>
    BY <1>2 DEF Grant, retentionVars
  <2>4. \A k \in Links : link'[k] # None => link[k] # None /\ link'[k].user = link[k].user
    BY <2>2, <2>3 DEF PeopleInv, AccountsTypeOK, LinkRows
  <2>5. Same(p) /\ pc'[p] = "idle"
    BY <1>2, FinishType DEF Grant, PeopleInv
  <2>6. NoOrphans'
    BY <2>2, <2>3, <2>4 DEF OrphansInv, NoOrphans, Exists
  <2>7. KeptOwned' /\ InsertersOwned' /\ HoldersApart'
    BY <2>3, <2>5
    DEF OrphansInv, KeptOwned, InsertersOwned, HoldersApart, People, Exists
  <2> QED
    BY <2>6, <2>7 DEF OrphansInv
<1>3. ASSUME NEW p \in People, FindOwner(p) PROVE OrphansInv'
  <2>1. UNCHANGED <<life, owner, user, link, access>>
    BY <1>3 DEF FindOwner, retentionVars, accountVars
  <2>2. CASE Finish(p)
    BY <2>1, <2>2, FinishType, OrphansKept DEF Exists, PeopleInv
  <2>3. CASE Exists(run[p].account) /\ Step(p, "creating", "inserting") /\ run' = run
    <3>1. pc' = [pc EXCEPT ![p] = "inserting"] /\ p \in Browsers
      BY <1>3, <2>3 DEF Step, FindOwner
    <3>2. ASSUME NEW c \in Cleaners, pc[c] = "erasing" PROVE run[c].account # run[p].account
      BY <1>3, <3>2 DEF FindOwner, UserHolders
    <3>3. HoldersApart'
      BY <2>3, <3>1, <3>2, AccountConstants
      DEF OrphansInv, HoldersApart, People, PeopleInv, AccountsTypeOK
    <3>4. InsertersOwned'
      BY <2>1, <2>3, <3>1
      DEF OrphansInv, InsertersOwned, Exists, People, PeopleInv, AccountsTypeOK
    <3>5. KeptOwned' /\ NoOrphans'
      BY <2>1 DEF OrphansInv, KeptOwned, NoOrphans, Exists
    <3> QED
      BY <3>3, <3>4, <3>5 DEF OrphansInv
  <2> QED
    BY <1>3, <2>2, <2>3 DEF FindOwner
<1>4. ASSUME NEW p \in People, InsertSession(p) PROVE OrphansInv'
  <2> DEFINE s == Lowest(NewSessions)
  <2>1. Creating(p) /\ p \in Browsers /\ pc[p] = "inserting"
    BY <1>4 DEF InsertSession, Creating
  <2>2. s \in Sessions
    BY <2>1, NewSessionExists DEF NewSessions
  <2>3. run[p].account \in Accounts /\ Exists(run[p].account)
    BY <2>1 DEF PeopleInv, PeoplePlaced, OrphansInv, InsertersOwned, Exists
  <2>4. /\ life' = [life EXCEPT ![s] = "kept"]
        /\ owner' = [owner EXCEPT ![s] = run[p].account]
        /\ UNCHANGED <<user, link, access>>
    BY <1>4 DEF InsertSession, CreateRow
  <2>5. Same(p) /\ pc'[p] = "idle"
    BY <1>4, FinishType DEF InsertSession, PeopleInv
  <2>6. /\ owner'[s] = run[p].account
        /\ \A r \in Sessions \ {s} : owner'[r] = owner[r] /\ life'[r] = life[r]
    BY <2>2, <2>4 DEF PeopleInv, AccountsTypeOK, StoredInv, PlacesInv, RetentionTypeOK
  <2>7. KeptOwned'
    BY <2>3, <2>6 DEF OrphansInv, KeptOwned
  <2>8. NoOrphans'
    BY <2>3, <2>4, <2>6 DEF OrphansInv, NoOrphans, Exists
  <2>9. InsertersOwned' /\ HoldersApart'
    BY <2>4, <2>5 DEF OrphansInv, InsertersOwned, HoldersApart, People, Exists
  <2> QED
    BY <2>7, <2>8, <2>9 DEF OrphansInv
<1>5. ASSUME NEW p \in People, LockAccount(p) PROVE OrphansInv'
  <2>1. /\ UNCHANGED <<life, owner, user, link, access, run>> /\ p \in Cleaners
        /\ pc' = [pc EXCEPT ![p] = "erasing"]
    BY <1>5 DEF LockAccount, Step, retentionVars, accountVars
  <2>2. ASSUME NEW b \in Browsers, pc[b] = "inserting" PROVE run[b].account # run[p].account
    BY <1>5, <2>2 DEF LockAccount, UserHolders
  <2>3. HoldersApart'
    BY <2>1, <2>2, AccountConstants
    DEF OrphansInv, HoldersApart, People, PeopleInv, AccountsTypeOK
  <2>4. KeptOwned' /\ NoOrphans' /\ InsertersOwned'
    BY <2>1, AccountConstants
    DEF OrphansInv, KeptOwned, NoOrphans, InsertersOwned, Exists, PeopleInv, AccountsTypeOK
  <2> QED
    BY <2>3, <2>4 DEF OrphansInv
<1>6. ASSUME NEW p \in People, Erase(p) PROVE OrphansInv'
  <2> DEFINE a == run[p].account
  <2>1. UNCHANGED <<life, owner>> /\ p \in Cleaners /\ pc[p] = "erasing"
    BY <1>6 DEF Erase, retentionVars
  <2>2. Same(p) /\ pc'[p] = "idle"
    BY <1>6, FinishType DEF Erase, PeopleInv
  <2>3. \A l \in Links : link'[l] # None => link[l] # None /\ link'[l] = link[l]
    BY <1>6 DEF Erase, DeleteLinks
  <2>4. access' \subseteq access
    BY <1>6 DEF Erase
  <2>5. CASE user' = user
    BY <2>1, <2>2, <2>3, <2>4, <2>5, OrphansKept DEF Exists
  <2>6. CASE user' # user
    <3>1. Deletes(p) /\ user' = [user EXCEPT ![a] = "erased"]
      BY <1>6, <2>6 DEF Erase
    <3>2. /\ link' = [l \in Links |-> IF l \in Doomed(p) THEN None ELSE link[l]]
          /\ access' = {t \in access : t.user # a}
      BY <1>6, <2>6, <3>1 DEF Erase, DeleteLinks
    <3>3. KeptSessions(a) = {} /\ LinksOf(a) \subseteq Doomed(p)
      BY <3>1 DEF Deletes, Gained, Doomed
    <3>4. \A b \in Accounts : b # a /\ Exists(b) => user'[b] \in Emails
      BY <3>1 DEF Exists, PeopleInv, AccountsTypeOK
    <3>5. \A s \in Sessions : life'[s] = "kept" => owner'[s] # a /\ user'[owner'[s]] \in Emails
      BY <2>1, <3>3, <3>4 DEF KeptSessions, OrphansInv, KeptOwned, NoOrphans, Exists
    <3>6. ASSUME NEW l \in Links, link'[l] # None PROVE user'[link'[l].user] \in Emails
      <4>1. l \notin LinksOf(a) /\ link[l] # None /\ link'[l] = link[l]
        BY <3>2, <3>3, <3>6
      <4>2. link[l].user # a /\ link[l].user \in Accounts
        BY <4>1 DEF LinksOf, PeopleInv, AccountsTypeOK, LinkRows
      <4> QED
        BY <3>4, <4>1, <4>2 DEF OrphansInv, NoOrphans, Exists
    <3>7. \A t \in access' : user'[t.user] \in Emails
      BY <3>2, <3>4 DEF OrphansInv, NoOrphans, Exists, PeopleInv, AccountsTypeOK
    <3>8. NoOrphans'
      BY <3>5, <3>6, <3>7 DEF NoOrphans, Exists
    <3>9. ASSUME NEW b \in Browsers, pc'[b] = "inserting" PROVE user'[run'[b].account] \in Emails
      <4>1. b \in People \ {p} /\ pc[b] = "inserting" /\ run'[b] = run[b]
        BY <2>2, <3>9 DEF People
      <4>2. run[b].account # a /\ run[b].account \in Accounts
        BY <2>1, <4>1 DEF OrphansInv, HoldersApart, PeopleInv, PeoplePlaced, Creating
      <4> QED
        BY <3>4, <4>1, <4>2 DEF OrphansInv, InsertersOwned, Exists
    <3>10. InsertersOwned'
      BY <3>9 DEF InsertersOwned, Exists
    <3>11. KeptOwned' /\ HoldersApart'
      BY <2>1, <2>2 DEF OrphansInv, KeptOwned, HoldersApart, People
    <3> QED
      BY <3>8, <3>10, <3>11 DEF OrphansInv
  <2> QED
    BY <2>5, <2>6
<1>7. ASSUME NEW p \in People,
             \/ CountAttempts(p) \/ Refuse(p) \/ FindAccount(p) \/ CannotIssue(p)
             \/ LockLink(p) \/ Authenticate(p)
             \/ StartErasure(p) \/ StartRound(p) \/ PurgeNext(p) \/ PurgeFails(p)
             \/ BreakDeadlock(p) \/ Die(p)
      PROVE  OrphansInv'
  <2>1. Goes(p)
    BY <1>7, PersonGoes DEF PersonStep
  <2>2. pc'[p] \notin {"inserting", "erasing"}
    <3>1. CASE Finish(p)
      BY <3>1, FinishType DEF PeopleInv
    <3>2. CASE PurgeNext(p) \/ PurgeFails(p)
      BY <3>2 DEF PurgeNext, PurgeFails
    <3>3. CASE CountAttempts(p) \/ FindAccount(p) \/ LockLink(p) \/ Authenticate(p)
               \/ StartErasure(p) \/ StartRound(p)
      BY <3>3, ZenonT(60)
      DEF CountAttempts, FindAccount, LockLink, Authenticate, StartErasure, StartRound,
          ListSessions, Step, PeopleInv, AccountsTypeOK
    <3> QED
      BY <1>7, <3>1, <3>2, <3>3 DEF Refuse, CannotIssue, BreakDeadlock, Die
  <2>3. UNCHANGED <<user, owner, link, access>>
    BY <1>7
    DEF CountAttempts, Refuse, FindAccount, CannotIssue, LockLink, Authenticate, StartErasure,
        StartRound, ListSessions, PurgeNext, PurgeFails, BreakDeadlock, Die, accountVars
  <2>4. \A s \in Sessions : life'[s] = "kept" => life[s] = "kept"
    <3>1. CASE life' = life
      BY <3>1
    <3>2. CASE \E s \in Sessions : PurgeSession(s)
      BY <3>2 DEF PurgeSession, PeopleInv, StoredInv, PlacesInv, RetentionTypeOK
    <3>3. CASE PurgeNext(p)
      <4>1. Lowest(run[p].targets) \in Sessions
        BY <3>3, TargetExists DEF PurgeNext
      <4> QED
        BY <3>1, <3>2, <3>3, <4>1 DEF PurgeNext, retentionVars
    <3> QED
      BY <1>7, <3>1, <3>3
      DEF CountAttempts, Refuse, FindAccount, CannotIssue, LockLink, Authenticate,
          StartErasure, StartRound, ListSessions, PurgeFails, BreakDeadlock, Die, retentionVars
  <2> QED
    BY <2>1, <2>2, <2>3, <2>4, OrphansKept DEF Goes, Exists
<1>8. ASSUME NEW l \in Links, ExpireLink(l) PROVE OrphansInv'
  <2>1. /\ UNCHANGED <<life, owner, user, access, pc, run>> /\ link[l] # None
        /\ link' = [link EXCEPT ![l].expired = TRUE]
    BY <1>8 DEF ExpireLink, retentionVars
  <2>2. \A k \in Links : link'[k] # None => link[k] # None /\ link'[k].user = link[k].user
    BY <2>1 DEF PeopleInv, AccountsTypeOK, LinkRows
  <2> QED
    BY <2>1, <2>2, OrphansKept DEF Exists
<1>9. CASE UNCHANGED <<life, owner, user, link, pc, run>> /\ access' \subseteq access
  BY <1>9, OrphansKept DEF Exists
<1>10. CASE RetentionNext /\ UNCHANGED <<accountVars, pc, run, quota>>
  <2>1. life' = life
    BY <1>10, RetentionKeepsRows
  <2> QED
    BY <1>9, <1>10, <2>1, Zenon DEF accountVars
<1> QED
  BY AccountSteps, <1>1, <1>2, <1>3, <1>4, <1>5, <1>6, <1>7, <1>8, <1>9, <1>10
  DEF ExpireToken, vars, retentionVars, accountVars

-----------------------------------------------------------------------------
(***************************************************************************)
(* The limits.  Requests that have passed the count and not been answered  *)
(* are counted with the links that were issued.                            *)
(***************************************************************************)
Waiting(e)   == {v \in Askers : run[v].email = e}
WaitingAt(i) == {v \in Askers : run[v].address = i}

Visiting == Visitors \cap actors

RequestsCounted ==
  /\ \A e \in Emails :
       Cardinality(OfEmail(e, sent)) + Cardinality(Waiting(e))
         <= EmailLimit + (Cardinality(Visiting) - 1)
  /\ \A i \in Addresses :
       Cardinality(OfAddress(i, sent)) + Cardinality(WaitingAt(i))
         <= AddressLimit + (Cardinality(Visiting) - 1)

\* Two counts that do not grow.
LEMMA SumKept ==
  ASSUME NEW A, NEW B, IsFiniteSet(A), IsFiniteSet(B), NEW n \in Int,
         Cardinality(A) + Cardinality(B) <= n,
         NEW C \in SUBSET A, NEW D \in SUBSET B
  PROVE  Cardinality(C) + Cardinality(D) <= n
<1>1. /\ Cardinality(A) \in Nat /\ Cardinality(B) \in Nat
      /\ Cardinality(C) \in Nat /\ Cardinality(D) \in Nat
      /\ Cardinality(C) <= Cardinality(A) /\ Cardinality(D) <= Cardinality(B)
  BY FS_Subset, FS_CardinalityType
<1> QED
  BY <1>1

\* One that grows by one when the other loses one.
LEMMA SumMoved ==
  ASSUME NEW A, NEW B, IsFiniteSet(A), IsFiniteSet(B), NEW n \in Int,
         Cardinality(A) + Cardinality(B) <= n,
         NEW r, NEW p \in B,
         NEW C \in SUBSET (A \cup {r}), NEW D \in SUBSET (B \ {p})
  PROVE  Cardinality(C) + Cardinality(D) <= n
<1>1. Cardinality(A) \in Nat /\ Cardinality(B) \in Nat
  BY FS_CardinalityType
<1>2. /\ IsFiniteSet(A \cup {r})
      /\ Cardinality(A \cup {r}) = IF r \in A THEN Cardinality(A) ELSE Cardinality(A) + 1
  BY FS_AddElement
<1>3. IsFiniteSet(B \ {p}) /\ Cardinality(B \ {p}) = Cardinality(B) - 1
  BY FS_RemoveElement
<1>4. /\ Cardinality(C) \in Nat /\ Cardinality(C) <= Cardinality(A \cup {r})
      /\ Cardinality(D) \in Nat /\ Cardinality(D) <= Cardinality(B \ {p})
  BY <1>2, <1>3, FS_Subset, FS_CardinalityType
<1>5. Cardinality(A \cup {r}) \in {Cardinality(A), Cardinality(A) + 1}
  BY <1>2
<1> QED
  BY <1>1, <1>3, <1>4, <1>5

\* A count below its limit, and at most everybody.
LEMMA SumFresh ==
  ASSUME NEW A, NEW V, IsFiniteSet(A), IsFiniteSet(V), NEW limit \in Nat,
         Cardinality(A) < limit,
         NEW C \in SUBSET A, NEW D \in SUBSET V
  PROVE  Cardinality(C) + Cardinality(D) <= limit + (Cardinality(V) - 1)
<1>1. /\ Cardinality(A) \in Nat /\ Cardinality(V) \in Nat
      /\ Cardinality(C) \in Nat /\ Cardinality(D) \in Nat
      /\ Cardinality(C) <= Cardinality(A) /\ Cardinality(D) <= Cardinality(V)
  BY FS_Subset, FS_CardinalityType
<1> QED
  BY <1>1

\* What is counted is finite, and nobody waits who does not act.
LEMMA RequestSets ==
  ASSUME PeopleInv
  PROVE  /\ IsFiniteSet(Visiting) /\ Cardinality(Visiting) \in Nat
         /\ Askers \subseteq Visiting
         /\ IsFiniteSet(attempts) /\ sent \subseteq attempts
         /\ \A e : /\ IsFiniteSet(OfEmail(e, attempts)) /\ IsFiniteSet(OfEmail(e, sent))
                   /\ OfEmail(e, sent) \subseteq OfEmail(e, attempts)
                   /\ IsFiniteSet(Waiting(e))
         /\ \A i : /\ IsFiniteSet(OfAddress(i, attempts)) /\ IsFiniteSet(OfAddress(i, sent))
                   /\ OfAddress(i, sent) \subseteq OfAddress(i, attempts)
                   /\ IsFiniteSet(WaitingAt(i))
<1>1. Visiting \in SUBSET Visitors
  BY DEF Visiting
<1>2. IsFiniteSet(Visiting) /\ Cardinality(Visiting) \in Nat
  BY <1>1, AccountsFinite
<1>3. Askers \subseteq Visiting
  BY DEF Askers, Visiting, PeopleInv, PeoplePlaced, People
<1>4. IsFiniteSet(attempts) /\ sent \subseteq attempts
  BY DEF PeopleInv, AccountsTypeOK
<1>5. ASSUME NEW S \in SUBSET attempts PROVE IsFiniteSet(S)
  BY <1>4, FS_Subset
<1>6. ASSUME NEW S \in SUBSET Visiting PROVE IsFiniteSet(S)
  BY <1>2, FS_Subset
<1>7. ASSUME NEW e
      PROVE  /\ OfEmail(e, attempts) \in SUBSET attempts /\ OfEmail(e, sent) \in SUBSET attempts
             /\ OfEmail(e, sent) \subseteq OfEmail(e, attempts)
             /\ Waiting(e) \in SUBSET Visiting
  BY <1>3, <1>4 DEF OfEmail, Waiting
<1>8. ASSUME NEW i
      PROVE  /\ OfAddress(i, attempts) \in SUBSET attempts
             /\ OfAddress(i, sent) \in SUBSET attempts
             /\ OfAddress(i, sent) \subseteq OfAddress(i, attempts)
             /\ WaitingAt(i) \in SUBSET Visiting
  BY <1>3, <1>4 DEF OfAddress, WaitingAt
<1> QED
  BY <1>2, <1>3, <1>4, <1>5, <1>6, <1>7, <1>8

\* Nobody begins to wait.
LEMMA RequestsKept ==
  ASSUME PeopleInv, RequestsCounted, sent' = sent, actors' = actors,
         \A v \in Askers' : v \in Askers /\ run'[v].email = run[v].email
                              /\ run'[v].address = run[v].address
  PROVE  RequestsCounted'
<1>1. Visiting' = Visiting /\ Cardinality(Visiting) - 1 \in Int
  BY RequestSets DEF Visiting
<1>2. ASSUME NEW e \in Emails
      PROVE  Cardinality(OfEmail(e, sent)) + Cardinality(Waiting(e)')
               <= EmailLimit + (Cardinality(Visiting) - 1)
  <2>1. Waiting(e)' \in SUBSET Waiting(e)
    BY DEF Waiting
  <2>2. Cardinality(OfEmail(e, sent)) + Cardinality(Waiting(e))
          <= EmailLimit + (Cardinality(Visiting) - 1)
    BY DEF RequestsCounted
  <2>3. EmailLimit + (Cardinality(Visiting) - 1) \in Int
    BY <1>1, AccountConstants
  <2> QED
    BY <2>1, <2>2, <2>3, RequestSets, SumKept
<1>3. ASSUME NEW i \in Addresses
      PROVE  Cardinality(OfAddress(i, sent)) + Cardinality(WaitingAt(i)')
               <= AddressLimit + (Cardinality(Visiting) - 1)
  <2>1. WaitingAt(i)' \in SUBSET WaitingAt(i)
    BY DEF WaitingAt
  <2>2. Cardinality(OfAddress(i, sent)) + Cardinality(WaitingAt(i))
          <= AddressLimit + (Cardinality(Visiting) - 1)
    BY DEF RequestsCounted
  <2>3. AddressLimit + (Cardinality(Visiting) - 1) \in Int
    BY <1>1, AccountConstants
  <2> QED
    BY <2>1, <2>2, <2>3, RequestSets, SumKept
<1> QED
  BY <1>1, <1>2, <1>3 DEF RequestsCounted

\* A request that has passed the count waits.
LEMMA RequestsAllowed ==
  ASSUME PeopleInv, RequestsCounted, NEW p \in People, CountAttempts(p), actors' = actors
  PROVE  RequestsCounted'
<1>1. PICK e0 \in Emails, i0 \in Addresses :
        /\ pc' = [pc EXCEPT ![p] = IF Allowed(e0, i0) THEN "asking" ELSE "refusing"]
        /\ run' = [run EXCEPT ![p].email = e0, ![p].address = i0]
  BY DEF CountAttempts, Step
<1>2. sent' = sent /\ PersonStep(p) /\ Goes(p)
  BY PersonGoes DEF PersonStep, CountAttempts, accountVars
<1>3. run'[p].email = e0 /\ run'[p].address = i0
  <2>1. run \in [People -> RunRows] /\ run[p] \in RunRows
    BY DEF PeopleInv, AccountsTypeOK
  <2>2. run'[p] = [[run[p] EXCEPT !.email = e0] EXCEPT !.address = i0]
    BY <1>1, <2>1
  <2> QED
    BY <2>1, <2>2 DEF RunRows
<1>4. /\ sent' = sent /\ PersonStep(p) /\ Goes(p)
      /\ run'[p].email = e0 /\ run'[p].address = i0
  BY <1>2, <1>3
<1>5. Askers' \subseteq Askers \cup {p} /\ \A v \in Askers \ {p} : run'[v] = run[v]
  BY <1>4, CountedKept DEF Goes, Askers, People
<1>6. Visiting' = Visiting /\ Askers' \subseteq Visiting
  BY PlacedStep, <1>4 DEF Visiting, Askers, PeoplePlaced, People
<1>7. CASE ~Allowed(e0, i0)
  <2>1. pc'[p] = "refusing"
    BY <1>1, <1>7 DEF PeopleInv, AccountsTypeOK
  <2>2. Askers' \subseteq Askers \ {p}
    BY <1>4, <2>1, CountedKept
  <2> QED
    BY <1>4, <1>5, <2>2, RequestsKept
<1>8. CASE Allowed(e0, i0)
  <2>1. /\ Cardinality(OfEmail(e0, attempts)) < EmailLimit
        /\ Cardinality(OfAddress(i0, attempts)) < AddressLimit
    BY <1>8 DEF Allowed
  <2>2. /\ EmailLimit \in Nat /\ AddressLimit \in Nat
        /\ EmailLimit + (Cardinality(Visiting) - 1) \in Int
        /\ AddressLimit + (Cardinality(Visiting) - 1) \in Int
    BY RequestSets, AccountConstants
  <2>3. ASSUME NEW e \in Emails
        PROVE  Cardinality(OfEmail(e, sent)) + Cardinality(Waiting(e)')
                 <= EmailLimit + (Cardinality(Visiting) - 1)
    <3>1. CASE e = e0
      <4>1. Waiting(e)' \in SUBSET Visiting
        BY <1>6 DEF Waiting
      <4>2. /\ OfEmail(e, sent) \in SUBSET OfEmail(e, attempts)
            /\ IsFiniteSet(OfEmail(e, attempts)) /\ IsFiniteSet(Visiting)
        BY RequestSets
      <4>3. Cardinality(OfEmail(e, attempts)) < EmailLimit
        BY <2>1, <3>1
      <4> QED
        BY <2>2, <4>1, <4>2, <4>3, SumFresh
    <3>2. CASE e # e0
      <4>1. Waiting(e)' \in SUBSET Waiting(e)
        BY <1>4, <1>5, <3>2 DEF Waiting
      <4>2. Cardinality(OfEmail(e, sent)) + Cardinality(Waiting(e))
              <= EmailLimit + (Cardinality(Visiting) - 1)
        BY DEF RequestsCounted
      <4> QED
        BY <2>2, <4>1, <4>2, RequestSets, SumKept
    <3> QED
      BY <3>1, <3>2
  <2>4. ASSUME NEW i \in Addresses
        PROVE  Cardinality(OfAddress(i, sent)) + Cardinality(WaitingAt(i)')
                 <= AddressLimit + (Cardinality(Visiting) - 1)
    <3>1. CASE i = i0
      <4>1. WaitingAt(i)' \in SUBSET Visiting
        BY <1>6 DEF WaitingAt
      <4>2. /\ OfAddress(i, sent) \in SUBSET OfAddress(i, attempts)
            /\ IsFiniteSet(OfAddress(i, attempts)) /\ IsFiniteSet(Visiting)
        BY RequestSets
      <4>3. Cardinality(OfAddress(i, attempts)) < AddressLimit
        BY <2>1, <3>1
      <4> QED
        BY <2>2, <4>1, <4>2, <4>3, SumFresh
    <3>2. CASE i # i0
      <4>1. WaitingAt(i)' \in SUBSET WaitingAt(i)
        BY <1>4, <1>5, <3>2 DEF WaitingAt
      <4>2. Cardinality(OfAddress(i, sent)) + Cardinality(WaitingAt(i))
              <= AddressLimit + (Cardinality(Visiting) - 1)
        BY DEF RequestsCounted
      <4> QED
        BY <2>2, <4>1, <4>2, RequestSets, SumKept
    <3> QED
      BY <3>1, <3>2
  <2> QED
    BY <1>4, <1>6, <2>3, <2>4 DEF RequestsCounted
<1> QED
  BY <1>7, <1>8

\* One that gets its link is counted with those that were issued.
LEMMA RequestsIssued ==
  ASSUME PeopleInv, RequestsCounted, NEW p \in People, IssueLink(p), actors' = actors
  PROVE  RequestsCounted'
<1> DEFINE r == NewAttempt(p)
<1>1. /\ p \in Askers /\ sent' = sent \cup {r} /\ Visiting' = Visiting
      /\ r.email = run[p].email /\ r.address = run[p].address
  BY DEF IssueLink, Askers, Asking, Visiting, NewAttempt
<1>2. /\ pc'[p] = "idle" /\ \A q \in People \ {p} : pc'[q] = pc[q] /\ run'[q] = run[q]
  BY FinishType DEF IssueLink, PeopleInv
<1>3. Askers' \subseteq Askers \ {p} /\ \A v \in Askers \ {p} : run'[v] = run[v]
  BY <1>2 DEF Askers, Asking, People
<1> HIDE DEF r
<1>4. /\ EmailLimit + (Cardinality(Visiting) - 1) \in Int
      /\ AddressLimit + (Cardinality(Visiting) - 1) \in Int
  BY RequestSets, AccountConstants
<1>5. ASSUME NEW e \in Emails
      PROVE  Cardinality(OfEmail(e, sent)') + Cardinality(Waiting(e)')
               <= EmailLimit + (Cardinality(Visiting) - 1)
  <2>1. /\ Cardinality(OfEmail(e, sent)) + Cardinality(Waiting(e))
             <= EmailLimit + (Cardinality(Visiting) - 1)
        /\ IsFiniteSet(OfEmail(e, sent)) /\ IsFiniteSet(Waiting(e))
    BY RequestSets DEF RequestsCounted
  <2>2. CASE run[p].email = e
    <3>1. /\ OfEmail(e, sent)' \in SUBSET (OfEmail(e, sent) \cup {r})
          /\ Waiting(e)' \in SUBSET (Waiting(e) \ {p}) /\ p \in Waiting(e)
      BY <1>1, <1>3, <2>2 DEF OfEmail, Waiting
    <3> QED
      BY <1>4, <2>1, <3>1, SumMoved
  <2>3. CASE run[p].email # e
    <3>1. /\ OfEmail(e, sent)' \in SUBSET OfEmail(e, sent)
          /\ Waiting(e)' \in SUBSET Waiting(e)
      BY <1>1, <1>3, <2>3 DEF OfEmail, Waiting
    <3> QED
      BY <1>4, <2>1, <3>1, SumKept
  <2> QED
    BY <2>2, <2>3
<1>6. ASSUME NEW i \in Addresses
      PROVE  Cardinality(OfAddress(i, sent)') + Cardinality(WaitingAt(i)')
               <= AddressLimit + (Cardinality(Visiting) - 1)
  <2>1. /\ Cardinality(OfAddress(i, sent)) + Cardinality(WaitingAt(i))
             <= AddressLimit + (Cardinality(Visiting) - 1)
        /\ IsFiniteSet(OfAddress(i, sent)) /\ IsFiniteSet(WaitingAt(i))
    BY RequestSets DEF RequestsCounted
  <2>2. CASE run[p].address = i
    <3>1. /\ OfAddress(i, sent)' \in SUBSET (OfAddress(i, sent) \cup {r})
          /\ WaitingAt(i)' \in SUBSET (WaitingAt(i) \ {p}) /\ p \in WaitingAt(i)
      BY <1>1, <1>3, <2>2 DEF OfAddress, WaitingAt
    <3> QED
      BY <1>4, <2>1, <3>1, SumMoved
  <2>3. CASE run[p].address # i
    <3>1. /\ OfAddress(i, sent)' \in SUBSET OfAddress(i, sent)
          /\ WaitingAt(i)' \in SUBSET WaitingAt(i)
      BY <1>1, <1>3, <2>3 DEF OfAddress, WaitingAt
    <3> QED
      BY <1>4, <2>1, <3>1, SumKept
  <2> QED
    BY <2>2, <2>3
<1> QED
  BY <1>1, <1>5, <1>6 DEF RequestsCounted

\* Every step keeps RequestsCounted.
LEMMA RequestsStep ==
  ASSUME PeopleInv, RequestsCounted, [Next]_vars
  PROVE  RequestsCounted'
<1>1. actors' = actors
  BY PeopleRetention, ActorsKept
<1>2. ASSUME NEW p \in People, CountAttempts(p) PROVE RequestsCounted'
  BY <1>1, <1>2, RequestsAllowed
<1>3. ASSUME NEW p \in People, IssueLink(p) PROVE RequestsCounted'
  BY <1>1, <1>3, RequestsIssued
<1>4. ASSUME NEW p \in People, FindAccount(p) PROVE RequestsCounted'
  <2>1. /\ sent' = sent /\ Goes(p) /\ pc[p] = "asking"
        /\ run'[p].email = run[p].email /\ run'[p].address = run[p].address
    BY <1>4, PersonGoes
    DEF PersonStep, FindAccount, Step, accountVars, PeopleInv, AccountsTypeOK, RunRows
  <2>2. p \in Askers
    BY <2>1 DEF Askers, Asking, PeopleInv, PeoplePlaced
  <2>3. Askers' \subseteq Askers /\ \A v \in Askers \ {p} : run'[v] = run[v]
    BY <2>1, <2>2, CountedKept DEF Goes, Askers, People
  <2> QED
    BY <1>1, <2>1, <2>3, RequestsKept
<1>5. ASSUME NEW p \in People,
             \/ Refuse(p) \/ CannotIssue(p) \/ LockLink(p) \/ Grant(p)
             \/ Authenticate(p) \/ FindOwner(p) \/ InsertSession(p)
             \/ StartErasure(p) \/ StartRound(p) \/ PurgeNext(p) \/ PurgeFails(p)
             \/ LockAccount(p) \/ Erase(p) \/ BreakDeadlock(p) \/ Die(p)
      PROVE  RequestsCounted'
  <2>1. PersonStep(p) /\ Goes(p)
    BY <1>5, PersonGoes DEF PersonStep
  <2>2. pc'[p] \notin {"asking", "issuing"}
    <3>1. CASE Finish(p)
      BY <3>1, FinishType DEF PeopleInv
    <3>2. CASE PurgeNext(p) \/ PurgeFails(p)
      BY <3>2 DEF PurgeNext, PurgeFails
    <3>3. CASE LockLink(p) \/ Authenticate(p) \/ StartErasure(p) \/ StartRound(p)
               \/ LockAccount(p) \/ (FindOwner(p) /\ Step(p, "creating", "inserting"))
      BY <3>3, ZenonT(60)
      DEF Authenticate, LockLink, StartErasure, StartRound, ListSessions,
          LockAccount, Step, PeopleInv, AccountsTypeOK
    <3> QED
      BY <1>5, <3>1, <3>2, <3>3
      DEF Refuse, CannotIssue, Grant, InsertSession, FindOwner, Erase, BreakDeadlock, Die
  <2>3. Askers' \subseteq Askers \ {p} /\ \A v \in Askers \ {p} : run'[v] = run[v]
    BY <2>1, <2>2, CountedKept DEF Goes, Askers, People
  <2>4. sent' = sent
    BY <1>5
    DEF Refuse, CannotIssue, LockLink, Grant, Authenticate, FindOwner, InsertSession,
        StartErasure, StartRound, ListSessions, PurgeNext, PurgeFails, LockAccount, Erase,
        BreakDeadlock, Die, accountVars
  <2> QED
    BY <1>1, <2>3, <2>4, RequestsKept
<1>6. CASE UNCHANGED <<sent, pc, run>>
  BY <1>1, <1>6, RequestsKept DEF Askers, Asking
<1> QED
  BY AccountSteps, <1>2, <1>3, <1>4, <1>5, <1>6
  DEF ExpireLink, ExpireToken, vars, accountVars

-----------------------------------------------------------------------------
(***************************************************************************)
(* The theorems.                                                           *)
(***************************************************************************)
AccountsInv == PeopleInv /\ OrphansInv /\ RequestsCounted

\* AccountsInv holds in every scene.
LEMMA AccountsInit == Init => AccountsInv
<1> SUFFICES ASSUME Init PROVE AccountsInv
  OBVIOUS
<1>1. PeopleInv
  BY PeopleInit
<1>2. PICK scene \in Scenes :
        /\ user = scene.users
        /\ link = [l \in Links |-> IF l \in DOMAIN scene.links
                     THEN [user |-> scene.links[l], consumed |-> FALSE, expired |-> FALSE]
                     ELSE None]
        /\ owner = [s \in Sessions |-> IF s \in DOMAIN scene.owners THEN scene.owners[s] ELSE None]
        /\ life = [s \in Sessions |-> IF s \in DOMAIN scene.owners THEN "kept" ELSE "absent"]
  BY DEF Init
<1>3. /\ \A s \in DOMAIN scene.owners : scene.owners[s] \in Taken(scene)
      /\ \A l \in DOMAIN scene.links : scene.links[l] \in Taken(scene)
      /\ scene.users \in [Accounts -> Emails \cup {None}]
  BY AccountsAssumption
<1>4. \A a \in Taken(scene) : a \in Accounts /\ Exists(a)
  BY <1>2, <1>3 DEF Taken, Exists
<1>5. /\ pc = [p \in People |-> "idle"] /\ access = {} /\ sent = {}
  BY DEF Init
<1>6. \A l \in Links : link[l] # None => Exists(link[l].user)
  BY <1>2, <1>3, <1>4
<1>7. \A s \in Sessions : life[s] = "kept" => owner[s] \in Accounts /\ Exists(owner[s])
  BY <1>2, <1>3, <1>4
<1>8. OrphansInv
  BY <1>5, <1>6, <1>7
  DEF OrphansInv, KeptOwned, NoOrphans, InsertersOwned, HoldersApart, People
<1>9. RequestsCounted
  <2>1. Askers = {}
    BY <1>5 DEF Askers, Asking, People
  <2>2. /\ \A e \in Emails : OfEmail(e, sent) = {} /\ Waiting(e) = {}
        /\ \A i \in Addresses : OfAddress(i, sent) = {} /\ WaitingAt(i) = {}
    BY <1>5, <2>1 DEF OfEmail, OfAddress, Waiting, WaitingAt
  <2>3. /\ Cardinality({}) = 0 /\ Cardinality(Visiting) \in Nat
        /\ EmailLimit \in Nat \ {0} /\ AddressLimit \in Nat \ {0}
    BY <1>1, RequestSets, FS_EmptySet, AccountConstants
  <2>4. \A n \in Nat, limit \in Nat \ {0} : 0 + 0 <= limit + (n - 1)
    OBVIOUS
  <2> QED
    BY <2>2, <2>3, <2>4 DEF RequestsCounted
<1> QED
  BY <1>1, <1>8, <1>9 DEF AccountsInv

\* AccountsInv is inductive.
LEMMA AccountsStep == AccountsInv /\ [Next]_vars => AccountsInv'
BY PeopleStep, OrphansStep, RequestsStep DEF AccountsInv

\* AccountsInv holds always.
LEMMA AccountsInvariant == Spec => []AccountsInv
BY AccountsInit, AccountsStep, PTL DEF Spec

\* Every row, file, object and process of accounts and retention is of its
\* type, in the composition of both (models.py, auth.py, storage.py).
THEOREM AccountsTypeCorrect == Spec => []TypeOK
<1>1. AccountsInv => TypeOK
  BY DEF AccountsInv, PeopleInv, StoredInv, PlacesInv, TypeOK
<1> QED
  BY <1>1, AccountsInvariant, PTL

\* No evidence is deleted before its package was stored and a period has
\* passed since the first of the protections that stored it began, however
\* stale the deadlines are that downloads hold while they upload
\* (retention.protect_final_artifact, retention_cleanup.expire_due_sessions).
THEOREM PromisesAreKept == Spec => []KeptForAPeriod
<1>1. AccountsInv => KeptForAPeriod
  BY StoredConsequences DEF AccountsInv, PeopleInv
<1> QED
  BY <1>1, AccountsInvariant, PTL

\* What is recorded as expired has nothing left under any of its prefixes,
\* but for the package of a download that was under way and for proofs that
\* were stored later (retention_cleanup.expire_due_sessions, storage.
\* delete_session).
THEOREM ExpiredStaysEmpty == Spec => []ExpiredEmptied
<1>1. AccountsInv => ExpiredEmptied
  BY StoredConsequences DEF AccountsInv, PeopleInv
<1> QED
  BY <1>1, AccountsInvariant, PTL

\* No row is purged while the bucket has parts or proofs of its session, or a
\* package that no download put back, whoever erases accounts or does the
\* daily round (privacy_cleanup.purge_session).
THEOREM EvidenceStaysKnown == Spec => []EvidenceIsKnown
<1>1. AccountsInv => EvidenceIsKnown
  BY StoredConsequences DEF AccountsInv, PeopleInv
<1> QED
  BY <1>1, AccountsInvariant, PTL

\* No link is exchanged for two tokens, however many browsers open it and
\* whatever is erased meanwhile (auth.consume_magic_link).
THEOREM LinksGrantOnce == Spec => []LinkUsedOnce
<1>1. AccountsInv => LinkUsedOnce
  BY DEF AccountsInv, PeopleInv, GrantedOnce, LinkUsedOnce
<1> QED
  BY <1>1, AccountsInvariant, PTL

\* No session, link or token outlives its account: whoever creates a session
\* holds the row of its owner, for which the erasure waits
\* (privacy_cleanup.cleanup_personal_data, main.create_capture_session).
THEOREM NothingIsOrphaned == Spec => []NoOrphans
<1>1. AccountsInv => NoOrphans
  BY DEF AccountsInv, OrphansInv
<1> QED
  BY <1>1, AccountsInvariant, PTL

\* The unlocked count lets through at most one request less than there are
\* visitors beyond the limit (auth.register_magic_link_attempt).
THEOREM ExcessStaysBounded == Spec => []ExcessBounded
<1>1. ASSUME AccountsInv PROVE ExcessBounded
  <2> DEFINE excess == Cardinality(Visiting) - 1
  <2>1. excess \in Int /\ EmailLimit \in Nat /\ AddressLimit \in Nat
    BY <1>1, RequestSets, AccountConstants DEF AccountsInv
  <2>2. ASSUME NEW e \in Emails PROVE Cardinality(OfEmail(e, sent)) <= EmailLimit + excess
    <3>1. Cardinality(OfEmail(e, sent)) + Cardinality(Waiting(e)) <= EmailLimit + excess
      BY <1>1 DEF AccountsInv, RequestsCounted
    <3>2. Cardinality(OfEmail(e, sent)) \in Nat /\ Cardinality(Waiting(e)) \in Nat
      BY <1>1, RequestSets, FS_CardinalityType DEF AccountsInv
    <3> HIDE DEF excess
    <3> QED
      BY <2>1, <3>1, <3>2
  <2>3. ASSUME NEW i \in Addresses
        PROVE  Cardinality(OfAddress(i, sent)) <= AddressLimit + excess
    <3>1. Cardinality(OfAddress(i, sent)) + Cardinality(WaitingAt(i)) <= AddressLimit + excess
      BY <1>1 DEF AccountsInv, RequestsCounted
    <3>2. Cardinality(OfAddress(i, sent)) \in Nat /\ Cardinality(WaitingAt(i)) \in Nat
      BY <1>1, RequestSets, FS_CardinalityType DEF AccountsInv
    <3> HIDE DEF excess
    <3> QED
      BY <2>1, <3>1, <3>2
  <2> QED
    BY <2>2, <2>3 DEF ExcessBounded, Visiting
<1> QED
  BY <1>1, AccountsInvariant, PTL

==============================================================================
