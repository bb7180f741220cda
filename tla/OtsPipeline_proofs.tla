------------------------- MODULE OtsPipeline_proofs -------------------------
(***************************************************************************)
(* Proofs about OtsPipeline, for every value of its constants.             *)
(*                                                                         *)
(* The invariant has two parts: what each process may rely on where it is  *)
(* (Own), and what the tables and the store say (Tables).  A step of one   *)
(* process disturbs the others only in what no lock keeps from it          *)
(* (Guarantee), so that Own of the others is one lemma (OthersKept), and   *)
(* each action is looked at once, for its own process and the tables.      *)
(***************************************************************************)
EXTENDS OtsPipeline, MerkleTree_proofs, FiniteSetTheorems

-----------------------------------------------------------------------------
(***************************************************************************)
(* The inductive invariant.                                                *)
(***************************************************************************)
Claimed   == {"locking", "fetching", "recording", "settling", "failing"}
Upgraded  == {"fetching", "recording"}
Purged    == {"purging", "sharing", "deleting", "counting", "erasing"}
Shared    == {"sharing", "deleting", "counting", "erasing"}
Deleted   == {"deleting", "counting", "erasing"}
Gathered  == {"gathering", "batching", "recording"}

\* Which script p is in, and what p then works on.
Placed(p) ==
  /\ pc[p] \in {"ensuring", "created", "upgrading", "settling"} => p \in Loops
  /\ pc[p] \in {"unsent", "gathering"} => p \in Operators
  /\ pc[p] \in {"batching", "locking", "fetching", "recording", "failing"} =>
       p \in Loops \cup Operators
  /\ pc[p] \in Purged => p \in Cleaners
  /\ pc[p] \in Claimed \cup {"created"} => run[p].batch \in Batches
  /\ pc[p] \in {"recording", "settling"} => run[p].status \in Verdicts
  /\ pc[p] \in Purged \cup {"gathering", "batching"} => run[p].sessions # {}

\* p holds the rows of sessions it wants, and of no others.
SessionsHeld(p) ==
  /\ pc[p] \notin Gathered \cup Purged \cup {"failing"} => LockedSessions(p) = {}
  /\ pc[p] \in Gathered \cup Purged => LockedSessions(p) \subseteq Wanted(p)

\* A batch is made of sessions that are locked, have a manifest and, if a
\* loop selected them, are in no batch.
BatchReady(p) ==
  pc[p] = "batching" => \A s \in run[p].sessions :
    /\ sessionRow[s] = p /\ life[s] = "finalized"
    /\ p \in Loops => \A b \in Batches : s \notin members[b]

\* An upgrade holds its batch, and what it read of it is still so.
UpgradeReady(p) ==
  LET b == run[p].batch
  IN  /\ pc[p] \in Upgraded =>
           batchRow[b] = p /\ Exists(b) /\ run[p].number = Len(complements[b]) + 1
      /\ pc[p] = "recording" =>
           /\ run[p].sessions = members[b]
           /\ run[p].content \in SourceContent(b) + 1 .. Calendars
           /\ UpgradeObject(b, run[p].number, run[p].content) \in objects
      /\ pc[p] \in Claimed /\ p \in Loops => jobs[b] = "running"

\* A purge holds its session and the batches it read, and what it has
\* deleted stays away.
PurgeReady(c) ==
  /\ pc[c] \in Shared =>
       /\ sessionRow[Target(c)] = c
       /\ run[c].batches = {b \in Batches : Target(c) \in members[b]}
  /\ pc[c] \in Deleted =>
       /\ \A b \in run[c].batches : batchRow[b] = c /\ jobs[b] # "running"
       /\ stamping[Target(c)] \notin Underway
  /\ pc[c] \in {"counting", "erasing"} =>
       Target(c) \in begun /\ InScope("sessions", Target(c)) = {} /\ Target(c) \notin strays
  /\ pc[c] = "erasing" =>
       /\ run[c].emptied = {b \in run[c].batches : members[b] = {Target(c)}}
       /\ \A b \in run[c].emptied : InScope("merkle", b) = {}

Own(p) == Placed(p) /\ SessionsHeld(p) /\ BatchReady(p) /\ UpgradeReady(p) /\ PurgeReady(p)

\* A job is run by one loop at a time.
ClaimedOnce ==
  \A p, q \in Loops :
    pc[p] \in Claimed /\ pc[q] \in Claimed /\ run[p].batch = run[q].batch => p = q

\* Rows that are locked exist, and the sessions that are being timestamped.
RowsExist ==
  \A s \in Sessions :
    /\ sessionRow[s] # None => life[s] # "gone"
    /\ stamping[s] \in Underway => life[s] = "finalized"

\* Batches that were never made have no trace.
UnusedBlank ==
  \A b \in Unused :
    /\ complements[b] = <<>>
    /\ \A s \in Sessions : \A i \in DOMAIN attestations[s] : attestations[s][i].batch # b

Records == UnusedBlank /\ PurgedLeaveNothing /\ ComplementsAttested /\ RetainedProofsVerify

Tables == ClaimedOnce /\ RowsExist /\ Records

PipelineInv == TypeOK /\ (\A p \in Procs : Own(p)) /\ Tables

-----------------------------------------------------------------------------
(***************************************************************************)
(* Types.                                                                  *)
(***************************************************************************)
LEMMA PipelineConstants ==
  /\ Sessions \subseteq Nat /\ Batches \subseteq Nat
  /\ None \notin Procs /\ None \notin Sessions /\ None \notin Batches
  /\ BatchSize \in Nat \ {0} /\ Calendars \in Nat
  /\ Verdicts \subseteq {Pending, "bitcoin_attestation_available", "confirmed", "verification_failed"}
BY PipelineAssumption

\* Rows are taken in order: Least is the least of them.
LEMMA LeastIsLeast ==
  ASSUME NEW S, S \subseteq Nat, S # {}
  PROVE  Least(S) \in S /\ \A y \in S : Least(S) <= y
<1>1. PICK x \in S : \A y \in S : ~ (<<y, x>> \in OpToRel(<, Nat))
  BY WFMin, NatLessThanWellFounded
<1>2. \A y \in S : ~ (y < x)
  BY <1>1 DEF OpToRel
<1>3. \E m \in S : \A y \in S : m <= y
  BY <1>2
<1> QED
  BY <1>3 DEF Least

\* The fields of what a process works on.
LEMMA RunFields ==
  ASSUME NEW r \in Runs
  PROVE  /\ r.sessions \subseteq Sessions /\ r.batches \subseteq Batches
         /\ r.emptied \subseteq Batches /\ r.batch \in Batches \cup {None}
         /\ r.number \in Nat /\ r.content \in 0 .. Calendars
         /\ r.status \in Verdicts \cup {None}
BY DEF Runs

\* A process that works on nothing.
LEMMA NoRunType == NoRun \in Runs
BY PipelineConstants DEF NoRun, Runs

\* What a step writes into a run.
LEMMA RunSet ==
  ASSUME NEW r \in Runs
  PROVE  /\ \A S \in SUBSET Sessions : [r EXCEPT !.sessions = S] \in Runs
         /\ \A B \in SUBSET Batches : [r EXCEPT !.batches = B] \in Runs
         /\ \A B \in SUBSET Batches : [r EXCEPT !.emptied = B] \in Runs
         /\ \A b \in Batches : [r EXCEPT !.batch = b] \in Runs
         /\ \A b \in Batches, B \in SUBSET Batches :
              [r EXCEPT !.batch = b, !.batches = B] \in Runs
         /\ \A n \in Nat : [r EXCEPT !.number = n] \in Runs
         /\ \A n \in 0 .. Calendars, v \in Verdicts, S \in SUBSET Sessions :
              [r EXCEPT !.content = n, !.status = v, !.sessions = S] \in Runs
BY DEF Runs

\* ... and what is then read from it.
LEMMA RunGet ==
  ASSUME NEW r \in Runs
  PROVE  /\ \A S \in SUBSET Sessions : [r EXCEPT !.sessions = S].sessions = S
         /\ \A B : [r EXCEPT !.emptied = B].emptied = B
                  /\ [r EXCEPT !.emptied = B].sessions = r.sessions
                  /\ [r EXCEPT !.emptied = B].batches = r.batches
         /\ \A B : [r EXCEPT !.batches = B].batches = B
                  /\ [r EXCEPT !.batches = B].sessions = r.sessions
                  /\ [r EXCEPT !.batches = B].batch = r.batch
         /\ \A b : [r EXCEPT !.batch = b].batch = b
         /\ \A b, B : [r EXCEPT !.batch = b, !.batches = B].batch = b
         /\ \A n : [r EXCEPT !.number = n].number = n /\ [r EXCEPT !.number = n].batch = r.batch
         /\ \A n, v, S :
              LET q == [r EXCEPT !.content = n, !.status = v, !.sessions = S]
              IN  q.content = n /\ q.status = v /\ q.sessions = S
                  /\ q.batch = r.batch /\ q.number = r.number
BY DEF Runs

\* A session's new attestations are of the declared kind.
LEMMA AttestType ==
  ASSUME TypeOK, NEW S, NEW b \in Batches, NEW n \in Nat, NEW v \in BatchStatuses,
         Attest(S, b, n, v)
  PROVE  attestations' \in [Sessions -> Seq(Told)]
<1>1. [batch |-> b, number |-> n, status |-> v] \in Told
  BY DEF Told
<1>2. \A s \in Sessions : Append(attestations[s], [batch |-> b, number |-> n, status |-> v]) \in Seq(Told)
  BY <1>1 DEF TypeOK
<1> QED
  BY <1>2 DEF TypeOK, Attest

\* The end of a transaction, ...
LEMMA ReleaseType ==
  ASSUME TypeOK, NEW p, Release(p)
  PROVE  sessionRow' \in [Sessions -> Procs \cup {None}] /\ batchRow' \in [Batches -> Procs \cup {None}]
BY DEF TypeOK, Release

\* ... the next step of a process, ...
LEMMA GotoType ==
  ASSUME TypeOK, NEW p \in Procs, NEW l \in Labels, Goto(p, l)
  PROVE  /\ pc' \in [Procs -> Labels] /\ pc'[p] = l
         /\ \A q \in Procs \ {p} : pc'[q] = pc[q]
BY DEF TypeOK, Goto

\* ... and what it works on, keep their types.
LEMMA RunType ==
  ASSUME TypeOK, NEW p \in Procs, NEW r \in Runs, run' = [run EXCEPT ![p] = r]
  PROVE  /\ run' \in [Procs -> Runs] /\ run'[p] = r
         /\ \A q \in Procs \ {p} : run'[q] = run[q]
BY DEF TypeOK

-----------------------------------------------------------------------------
(***************************************************************************)
(* What a step of p leaves to the others.                                  *)
(***************************************************************************)
\* Only p moves, and the roles stay.
Moves(p) ==
  /\ role' = role
  /\ pc' \in [Procs -> Labels] /\ run' \in [Procs -> Runs]
  /\ \A q \in Procs \ {p} : pc'[q] = pc[q] /\ run'[q] = run[q]

\* p takes rows that are free and gives back its own.
LocksKept(p) ==
  /\ \A s \in Sessions : \/ sessionRow'[s] = sessionRow[s]
                         \/ sessionRow[s] \in {None, p} /\ sessionRow'[s] \in {None, p}
  /\ \A b \in Batches : \/ batchRow'[b] = batchRow[b]
                        \/ batchRow[b] \in {None, p} /\ batchRow'[b] \in {None, p}

\* p changes sessions, memberships and batches only while it has their rows,
\* and no timestamp is begun under a purge.
RowsKept(p) ==
  /\ \A s \in Sessions : stamping'[s] \in Underway => stamping[s] \in Underway \/ ~StampLocked(s)
  /\ \A s \in Sessions : life'[s] = life[s] \/ sessionRow[s] \in {None, p}
  /\ \A s \in Sessions, b \in Batches :
       sessionRow[s] # p /\ sessionRow[s] # None => (s \in members'[b] <=> s \in members[b])
  /\ \A b \in Batches : Exists(b) /\ batchRow[b] # p =>
       members'[b] = members[b] /\ complements'[b] = complements[b] /\ Exists(b)'

\* A running job is only settled by its loop, and none is claimed under a purge.
JobsKept(p) ==
  /\ \A b \in Batches : jobs[b] = "running" =>
       jobs'[b] = "running" \/ (p \in Loops /\ pc[p] \in Claimed /\ run[p].batch = b)
  /\ \A b \in Batches : jobs'[b] = "running" => jobs[b] = "running" \/ ~JobLocked(b)

\* p puts objects under names it has the rows for.
StoreKept(p) ==
  /\ \A o \in objects' \ objects :
       \/ o.scope = "sessions" /\ o.owner \in Sessions /\ sessionRow[o.owner] = p
       \/ o.scope = "merkle" /\ o.owner \in Batches /\ (batchRow[o.owner] = p \/ ~Exists(o.owner))
  /\ \A o \in objects \ objects' :
       o.scope = "merkle" => o.owner \in Batches /\ batchRow[o.owner] = p
  /\ \A s \in strays' \ strays : s \in Sessions /\ sessionRow[s] = p
  /\ begun \subseteq begun'

Guarantee(p) == Moves(p) /\ LocksKept(p) /\ RowsKept(p) /\ JobsKept(p) /\ StoreKept(p)

\* The roles are given once.
LEMMA RolesKept ==
  ASSUME role' = role
  PROVE  Loops' = Loops /\ Operators' = Operators /\ Cleaners' = Cleaners
BY DEF Loops, Operators, Cleaners, With

\* The roles exclude each other.
LEMMA RolesApart ==
  /\ Loops \cap Operators = {} /\ Loops \cap Cleaners = {} /\ Operators \cap Cleaners = {}
  /\ Loops \subseteq Procs /\ Operators \subseteq Procs /\ Cleaners \subseteq Procs
BY DEF Loops, Operators, Cleaners, With

\* What a cleanup goes for is one of its sessions.
LEMMA TargetType ==
  ASSUME TypeOK, NEW c \in Procs, run[c].sessions # {}
  PROVE  Target(c) \in run[c].sessions /\ Target(c) \in Sessions
<1>1. run[c].sessions \subseteq Sessions
  BY RunFields DEF TypeOK
<1> QED
  BY <1>1, LeastIsLeast, PipelineConstants DEF Target

\* Nothing that another process relies on changes under it.
LEMMA OthersKept ==
  ASSUME PipelineInv, NEW p \in Procs \cup {None}, Guarantee(p),
         NEW q \in Procs, q # p
  PROVE  Own(q)'
<1>1. /\ pc'[q] = pc[q] /\ run'[q] = run[q] /\ q # None
      /\ Loops' = Loops /\ Operators' = Operators /\ Cleaners' = Cleaners
  BY RolesKept, PipelineConstants DEF Guarantee, Moves
<1>2. Own(q) /\ TypeOK /\ Tables
  BY DEF PipelineInv
<1>3. Placed(q)'
  BY <1>1, <1>2 DEF Own, Placed
<1>4. \A s \in Sessions : sessionRow'[s] = q <=> sessionRow[s] = q
  BY <1>1 DEF Guarantee, LocksKept
<1>5. LockedSessions(q)' = LockedSessions(q)
  BY <1>4 DEF LockedSessions
<1>6. Target(q)' = Target(q) /\ Wanted(q)' = Wanted(q)
  BY <1>1 DEF Target, Wanted
<1>7. SessionsHeld(q)'
  BY <1>1, <1>2, <1>5, <1>6 DEF Own, SessionsHeld
<1>8. \A b \in Batches : batchRow[b] = q => batchRow'[b] = q
  BY <1>1 DEF Guarantee, LocksKept
<1>9. run[q].sessions \subseteq Sessions /\ run[q].batches \subseteq Batches /\ run[q].emptied \subseteq Batches
  BY <1>2, RunFields DEF TypeOK
<1>10. BatchReady(q)'
  <2>1. ASSUME pc[q] = "batching", NEW s \in run[q].sessions
        PROVE  /\ sessionRow'[s] = q /\ life'[s] = "finalized"
               /\ q \in Loops => \A b \in Batches : s \notin members'[b]
    <3>1. /\ s \in Sessions /\ sessionRow[s] = q /\ life[s] = "finalized"
          /\ q \in Loops => \A b \in Batches : s \notin members[b]
      BY <1>2, <1>9, <2>1 DEF Own, BatchReady
    <3> QED
      BY <3>1, <1>1, <1>4 DEF Guarantee, RowsKept
  <2> QED
    BY <1>1, <2>1 DEF BatchReady
<1>11. UpgradeReady(q)'
  <2>1. PICK b : b = run[q].batch
    OBVIOUS
  <2>2. ASSUME pc[q] \in Upgraded
        PROVE  /\ b \in Batches /\ batchRow'[b] = q /\ Exists(b)'
               /\ complements'[b] = complements[b] /\ members'[b] = members[b]
               /\ run[q].number = Len(complements[b]) + 1
    <3>1. b \in Batches /\ batchRow[b] = q /\ Exists(b) /\ run[q].number = Len(complements[b]) + 1
      BY <1>2, <2>1, <2>2 DEF Own, Placed, UpgradeReady, Upgraded, Claimed
    <3> QED
      BY <3>1, <1>8 DEF Guarantee, RowsKept
  <2>3. ASSUME pc[q] = "recording"
        PROVE  /\ run[q].sessions = members[b] /\ run[q].content \in SourceContent(b) + 1 .. Calendars
               /\ UpgradeObject(b, run[q].number, run[q].content) \in objects'
    <3>1. /\ run[q].sessions = members[b] /\ run[q].content \in SourceContent(b) + 1 .. Calendars
          /\ UpgradeObject(b, run[q].number, run[q].content) \in objects
          /\ b \in Batches /\ batchRow[b] = q
      BY <1>2, <2>1, <2>2, <2>3 DEF Own, UpgradeReady, Upgraded
    <3> QED
      BY <3>1 DEF Guarantee, StoreKept, UpgradeObject
  <2>4. ASSUME pc[q] \in Claimed, q \in Loops
        PROVE  jobs'[b] = "running"
    <3>1. b \in Batches /\ jobs[b] = "running"
      BY <1>2, <2>1, <2>4 DEF Own, Placed, UpgradeReady
    <3>2. ~(p \in Loops /\ pc[p] \in Claimed /\ run[p].batch = b)
      BY <1>2, <2>1, <2>4 DEF Tables, ClaimedOnce
    <3> QED
      BY <3>1, <3>2 DEF Guarantee, JobsKept
  <2>5. pc[q] \in Upgraded => SourceContent(b)' = SourceContent(b)
    BY <2>2 DEF SourceContent
  <2> QED
    BY <1>1, <2>1, <2>2, <2>3, <2>4, <2>5 DEF UpgradeReady, Upgraded, UpgradeObject
<1>12. PurgeReady(q)'
  <2>1. ASSUME pc[q] \in Shared
        PROVE  /\ Target(q) \in Sessions /\ sessionRow[Target(q)] = q /\ sessionRow'[Target(q)] = q
               /\ run[q].batches = {b \in Batches : Target(q) \in members[b]}
               /\ run[q].batches = {b \in Batches : Target(q) \in members'[b]}
    <3>1. Target(q) \in Sessions
      BY <1>2, <2>1, TargetType DEF Own, Placed, Shared, Purged
    <3>2. sessionRow[Target(q)] = q /\ run[q].batches = {b \in Batches : Target(q) \in members[b]}
      BY <1>2, <2>1 DEF Own, PurgeReady
    <3> QED
      BY <3>1, <3>2, <1>1, <1>4 DEF Guarantee, RowsKept
  <2>2. ASSUME pc[q] \in Deleted, NEW b \in run[q].batches
        PROVE  /\ batchRow[b] = q /\ batchRow'[b] = q /\ jobs'[b] # "running"
               /\ members'[b] = members[b] /\ Exists(b)
    <3>1. b \in Batches /\ batchRow[b] = q /\ jobs[b] # "running"
      BY <1>2, <1>9, <2>2 DEF Own, PurgeReady
    <3>2. q \in Cleaners
      BY <1>2, <2>2 DEF Own, Placed, Deleted, Purged
    <3>3. JobLocked(b)
      BY <3>2, <2>2 DEF JobLocked, Deleted
    <3>4. Exists(b)
      BY <1>2, <2>1, <2>2, <3>1 DEF Tables, Records, PurgedLeaveNothing, Deleted, Shared
    <3> QED
      BY <3>1, <3>3, <3>4, <1>8 DEF Guarantee, RowsKept, JobsKept
  <2>3. ASSUME pc[q] \in {"counting", "erasing"}
        PROVE  Target(q) \in begun' /\ InScope("sessions", Target(q))' = {} /\ Target(q) \notin strays'
    <3>1. Target(q) \in begun /\ InScope("sessions", Target(q)) = {} /\ Target(q) \notin strays
      BY <1>2, <2>3 DEF Own, PurgeReady
    <3>2. sessionRow[Target(q)] = q
      BY <2>1, <2>3 DEF Shared
    <3> QED
      BY <1>1, <1>6, <3>1, <3>2 DEF Guarantee, StoreKept, InScope
  <2>4. ASSUME pc[q] = "erasing"
        PROVE  /\ run[q].emptied = {b \in run[q].batches : members'[b] = {Target(q)}}
               /\ \A b \in run[q].emptied : InScope("merkle", b)' = {}
    <3>1. /\ run[q].emptied = {b \in run[q].batches : members[b] = {Target(q)}}
          /\ \A b \in run[q].emptied : InScope("merkle", b) = {}
      BY <1>2, <2>4 DEF Own, PurgeReady
    <3>2. ASSUME NEW b \in run[q].emptied PROVE InScope("merkle", b)' = {}
      <4>1. b \in Batches /\ batchRow[b] = q /\ Exists(b) /\ InScope("merkle", b) = {}
        BY <3>1, <3>2, <1>9, <2>2, <2>4 DEF Deleted
      <4> QED
        BY <4>1, <1>1 DEF Guarantee, StoreKept, InScope
    <3> QED
      BY <3>1, <3>2, <2>2, <2>4 DEF Deleted
  <2>5. ASSUME pc[q] \in Deleted PROVE stamping'[Target(q)] \notin Underway
    <3>1. q \in Cleaners /\ stamping[Target(q)] \notin Underway
      BY <1>2, <2>5 DEF Own, Placed, PurgeReady, Deleted, Purged
    <3>2. StampLocked(Target(q)) /\ Target(q) \in Sessions
      BY <3>1, <2>1, <2>5 DEF StampLocked, Deleted, Shared
    <3> QED
      BY <3>1, <3>2 DEF Guarantee, RowsKept
  <2> QED
    BY <1>1, <1>6, <2>1, <2>2, <2>3, <2>4, <2>5 DEF PurgeReady
<1> QED
  BY <1>3, <1>7, <1>10, <1>11, <1>12 DEF Own

-----------------------------------------------------------------------------
(***************************************************************************)
(* Steps that change no session, record or object.                         *)
(***************************************************************************)
Kept(p) == TypeOK' /\ Guarantee(p) /\ Own(p)' /\ Tables'

\* A step writes to its own run and goes to one place.
LEMMA StepMoves ==
  ASSUME TypeOK, role' = role, NEW p \in Procs, NEW l \in Labels, NEW r \in Runs,
         Goto(p, l), run' = [run EXCEPT ![p] = r] \/ (run' = run /\ r = run[p])
  PROVE  Moves(p) /\ pc'[p] = l /\ run'[p] = r
BY DEF TypeOK, Goto, Moves

\* The end of a transaction.
LEMMA ReleaseGives ==
  ASSUME TypeOK, NEW p \in Procs, Release(p)
  PROVE  /\ LocksKept(p) /\ LockedSessions(p)' = {} /\ \A s \in Sessions : sessionRow'[s] # p
         /\ sessionRow' \in [Sessions -> Procs \cup {None}]
         /\ batchRow' \in [Batches -> Procs \cup {None}]
<1>1. None # p
  BY PipelineConstants
<1>2. /\ sessionRow' \in [Sessions -> Procs \cup {None}]
      /\ batchRow' \in [Batches -> Procs \cup {None}]
  BY ReleaseType
<1>3. LocksKept(p) /\ \A s \in Sessions : sessionRow'[s] # p
  BY <1>1 DEF Release, LocksKept, TypeOK
<1> QED
  BY <1>2, <1>3 DEF LockedSessions

\* Who waits for nothing holds no session.
LEMMA OwnAtRest ==
  ASSUME NEW p \in Procs, LockedSessions(p)' = {}, Placed(p)',
         pc'[p] \in {"idle", "done", "ensuring", "created", "upgrading"}
  PROVE  Own(p)'
BY DEF Own, Placed, SessionsHeld, BatchReady, UpgradeReady, PurgeReady, Claimed, Upgraded, Purged,
       Shared, Deleted, Gathered

\* Records that nobody touches stay true.
LEMMA RecordsKept ==
  ASSUME Records, UNCHANGED <<life, cleared, ledger, store, begun>>
  PROVE  Records'
<1>1. UnusedBlank'
  BY DEF Records, UnusedBlank, Unused, ledger
<1>2. PurgedLeaveNothing'
  BY DEF Records, PurgedLeaveNothing, ledger, store, InScope, Exists
<1>3. ComplementsAttested'
  BY DEF Records, ComplementsAttested, ledger
<1>4. RetainedProofsVerify'
  BY DEF Records, RetainedProofsVerify, ledger, store, InScope
<1> QED
  BY <1>1, <1>2, <1>3, <1>4 DEF Records

\* Loops claim different jobs as long as only one moves, and keeps its job.
LEMMA ClaimedKept ==
  ASSUME PipelineInv, NEW p \in Procs, Moves(p),
         p \in Loops /\ pc'[p] \in Claimed => pc[p] \in Claimed /\ run'[p].batch = run[p].batch
  PROVE  ClaimedOnce'
<1>1. Loops' = Loops /\ Loops \subseteq Procs
  BY RolesKept, RolesApart DEF Moves
<1>2. \A q \in Loops : pc'[q] \in Claimed => pc[q] \in Claimed /\ run'[q].batch = run[q].batch
  BY <1>1 DEF Moves
<1> QED
  BY <1>1, <1>2 DEF ClaimedOnce, PipelineInv, Tables

\* A step that writes neither a row of a batch nor an object.
LEMMA QuietStep ==
  ASSUME PipelineInv, NEW p \in Procs, Moves(p), LocksKept(p), JobsKept(p),
         UNCHANGED <<site, ledger, store, begun>>,
         jobs' \in [Batches -> JobStatuses], faults' \in Nat,
         sessionRow' \in [Sessions -> Procs \cup {None}],
         batchRow' \in [Batches -> Procs \cup {None}],
         \A s \in Sessions : sessionRow'[s] = p => life[s] # "gone",
         ClaimedOnce', Own(p)'
  PROVE  Kept(p)
<1>1. TypeOK'
  BY DEF PipelineInv, TypeOK, Moves, site, ledger, store
<1>2. RowsKept(p) /\ StoreKept(p)
  BY DEF RowsKept, StoreKept, site, ledger, store, Exists
<1>3. RowsExist'
  BY PipelineConstants DEF PipelineInv, Tables, RowsExist, LocksKept, site
<1>4. Records'
  BY RecordsKept DEF PipelineInv, Tables, site
<1> QED
  BY <1>1, <1>2, <1>3, <1>4 DEF Kept, Guarantee, Tables

\* A job that only p's loop may settle, or nobody touches.
LEMMA JobsUntouched ==
  ASSUME jobs' = jobs, NEW p
  PROVE  JobsKept(p)
BY DEF JobsKept

\* A step without a lock, a job or a deadline of anybody.
LEMMA SilentStep ==
  ASSUME PipelineInv, NEW p \in Procs, NEW l \in Labels, NEW r \in Runs,
         Goto(p, l), run' = [run EXCEPT ![p] = r] \/ (run' = run /\ r = run[p]),
         UNCHANGED <<site, ledger, jobs, store, rows, begun, faults>>,
         p \in Loops /\ l \in Claimed => pc[p] \in Claimed /\ r.batch = run[p].batch,
         Own(p)'
  PROVE  Kept(p)
<1>1. Moves(p) /\ pc'[p] = l /\ run'[p] = r
  BY StepMoves DEF PipelineInv, site
<1>2. LocksKept(p) /\ \A s \in Sessions : sessionRow'[s] = p => life[s] # "gone"
  BY PipelineConstants DEF LocksKept, rows, PipelineInv, Tables, RowsExist
<1>3. ClaimedOnce'
  BY <1>1, ClaimedKept
<1> QED
  BY <1>1, <1>2, <1>3, QuietStep, JobsUntouched DEF PipelineInv, TypeOK, rows

\* Nobody holds sessions where nothing is locked.
LEMMA NoneHeld ==
  ASSUME NEW p \in Procs, Own(p), rows' = rows,
         pc[p] \notin Gathered \cup Purged \cup {"failing"}
  PROVE  LockedSessions(p)' = {}
BY DEF Own, SessionsHeld, LockedSessions, rows

-----------------------------------------------------------------------------
(***************************************************************************)
(* The steps of the loop and of the batch endpoint before a batch is made. *)
(***************************************************************************)
LEMMA ReadPendingKept ==
  ASSUME PipelineInv, NEW p \in Procs, ReadPending(p)
  PROVE  Kept(p)
<1>1. PICK r : r = [run[p] EXCEPT !.batches = {b \in Batches : batches[b] = Pending}]
  OBVIOUS
<1>2. r \in Runs /\ run' = [run EXCEPT ![p] = r]
  BY <1>1, RunSet DEF ReadPending, PipelineInv, TypeOK
<1>3. pc'[p] = "ensuring" /\ run'[p] = r /\ role' = role
  BY <1>2 DEF ReadPending, PipelineInv, TypeOK, Goto, site
<1>4. Placed(p)'
  BY <1>3, RolesKept DEF ReadPending, Placed, Claimed, Purged
<1>5. Own(p)'
  BY <1>3, <1>4, NoneHeld, OwnAtRest
  DEF ReadPending, PipelineInv, Gathered, Purged
<1> QED
  BY <1>2, <1>5, SilentStep DEF ReadPending, Labels, Claimed

\* A job is created at most once, and never running.
LEMMA CreateJobKept ==
  ASSUME PipelineInv, NEW p \in Procs, NEW b \in Batches, GetOrCreateJob(b)
  PROVE  jobs' \in [Batches -> JobStatuses] /\ JobsKept(p)
BY DEF PipelineInv, TypeOK, GetOrCreateJob, JobStatuses, JobsKept

\* The loop gets its batch a job.
LEMMA EnsureJobKept ==
  ASSUME PipelineInv, NEW p \in Procs, EnsureJob(p)
  PROVE  Kept(p)
<1>1. PICK b \in run[p].batches :
        GetOrCreateJob(b) /\ run' = [run EXCEPT ![p].batches = @ \ {b}]
  BY DEF EnsureJob
<1>2. PICK r : r = [run[p] EXCEPT !.batches = run[p].batches \ {b}]
  OBVIOUS
<1>3. run[p] \in Runs /\ run[p].batches \subseteq Batches
  BY RunFields DEF PipelineInv, TypeOK
<1>4. b \in Batches /\ r \in Runs /\ run' = [run EXCEPT ![p] = r]
  BY <1>1, <1>2, <1>3, RunSet DEF PipelineInv, TypeOK
<1>5. Moves(p) /\ pc'[p] = pc[p] /\ run'[p] = r
  BY <1>4 DEF EnsureJob, PipelineInv, TypeOK, Moves, site
<1>6. Placed(p)'
  BY <1>5, RolesKept DEF EnsureJob, PipelineInv, Own, Placed, Claimed, Purged, site
<1>7. Own(p)'
  BY <1>5, <1>6, NoneHeld, OwnAtRest
  DEF EnsureJob, PipelineInv, Gathered, Purged
<1>8. LocksKept(p) /\ \A s \in Sessions : sessionRow'[s] = p => life[s] # "gone"
  BY PipelineConstants DEF EnsureJob, LocksKept, rows, PipelineInv, Tables, RowsExist
<1>9. ClaimedOnce'
  BY <1>5, ClaimedKept DEF EnsureJob, Claimed
<1> QED
  BY <1>1, <1>4, <1>5, <1>7, <1>8, <1>9, CreateJobKept, QuietStep
  DEF EnsureJob, PipelineInv, TypeOK, rows

\* The loop takes sessions in no batch yet, which are closed and whole.
LEMMA SelectSessionsKept ==
  ASSUME PipelineInv, NEW p \in Procs, SelectSessions(p)
  PROVE  Kept(p)
<1>1. PICK S : S = NextSessions
  OBVIOUS
<1>2. \A s \in S : s \in Sessions /\ Eligible(s)
  BY <1>1 DEF NextSessions
<1>3. PICK r : r = [run[p] EXCEPT !.sessions = S]
  OBVIOUS
<1>4. r \in Runs /\ run' = [run EXCEPT ![p] = r] /\ r.sessions = S
  <2>1. run[p] \in Runs /\ S \in SUBSET Sessions
    BY <1>2 DEF PipelineInv, TypeOK
  <2>2. run' = [run EXCEPT ![p] = r]
    BY <1>1, <1>3 DEF SelectSessions, PipelineInv, TypeOK
  <2> QED
    BY <1>3, <2>1, <2>2, RunSet, RunGet
<1>5. PICK l \in {"upgrading", "batching"} :
        Goto(p, l) /\ (l = "batching" => S # {}) /\ (l = "upgrading" => S = {})
  BY <1>1 DEF SelectSessions
<1>6. Moves(p) /\ pc'[p] = l /\ run'[p] = r /\ role' = role
  <2>1. l \in Labels /\ role' = role
    BY <1>5 DEF SelectSessions, Labels, site
  <2> QED
    BY <1>4, <1>5, <2>1, StepMoves DEF PipelineInv
<1>7. p \in Loops /\ LockedSessions(p) = {}
  BY DEF SelectSessions, PipelineInv, Own, Placed, SessionsHeld, Gathered, Purged
<1>8. /\ sessionRow' = [s \in Sessions |-> IF s \in S THEN p ELSE sessionRow[s]]
      /\ \A s \in S : sessionRow[s] = None /\ life[s] = "finalized"
                      /\ \A b \in Batches : s \notin members[b]
  BY <1>1, <1>2 DEF SelectSessions, Eligible
<1>9. LockedSessions(p)' = S
  BY <1>2, <1>7, <1>8 DEF LockedSessions
<1>10. Placed(p)'
  BY <1>4, <1>5, <1>6, <1>7, RolesKept DEF Placed, Claimed, Purged
<1>11. Own(p)'
  <2>1. CASE l = "upgrading"
    BY <1>5, <1>6, <1>9, <1>10, <2>1, OwnAtRest
  <2>2. CASE l = "batching"
    <3>1. p \notin Cleaners'
      BY <1>6, <1>7, RolesKept, RolesApart
    <3>2. SessionsHeld(p)'
      BY <1>4, <1>6, <1>9, <2>2, <3>1 DEF SessionsHeld, Wanted, Gathered
    <3>3. BatchReady(p)'
      BY <1>2, <1>4, <1>6, <1>8, <2>2
      DEF SelectSessions, BatchReady, site, ledger
    <3> QED
      BY <1>6, <1>10, <2>2, <3>2, <3>3
      DEF Own, UpgradeReady, PurgeReady, Upgraded, Claimed, Shared, Deleted
  <2> QED
    BY <2>1, <2>2
<1>12. /\ LocksKept(p) /\ \A s \in Sessions : sessionRow'[s] = p => life[s] # "gone"
       /\ sessionRow' \in [Sessions -> Procs \cup {None}]
  BY <1>7, <1>8 DEF SelectSessions, LocksKept, PipelineInv, TypeOK, LockedSessions
<1>13. ClaimedOnce'
  BY <1>5, <1>6, ClaimedKept DEF Claimed
<1> QED
  BY <1>6, <1>11, <1>12, <1>13, JobsUntouched, QuietStep
  DEF SelectSessions, PipelineInv, TypeOK

\* An operator names the sessions.
LEMMA RequestBatchKept ==
  ASSUME PipelineInv, NEW p \in Procs, RequestBatch(p)
  PROVE  Kept(p)
<1>1. PICK S \in (SUBSET Sessions) \ {{}} : run' = [run EXCEPT ![p].sessions = S]
  BY DEF RequestBatch
<1>2. PICK r : r = [run[p] EXCEPT !.sessions = S]
  OBVIOUS
<1>3. r \in Runs /\ run' = [run EXCEPT ![p] = r] /\ r.sessions = S
  <2>1. run[p] \in Runs
    BY DEF PipelineInv, TypeOK
  <2> QED
    BY <1>1, <1>2, <2>1, RunSet, RunGet
<1>4. pc'[p] = "gathering" /\ run'[p] = r /\ role' = role
  BY <1>3 DEF RequestBatch, PipelineInv, TypeOK, Goto, site
<1>5. Placed(p)'
  BY <1>1, <1>3, <1>4, RolesKept DEF RequestBatch, Placed, Claimed, Purged
<1>6. LockedSessions(p)' = {}
  BY NoneHeld DEF RequestBatch, PipelineInv, Gathered, Purged
<1>7. Own(p)'
  BY <1>4, <1>5, <1>6
  DEF Own, SessionsHeld, BatchReady, UpgradeReady, PurgeReady, Upgraded, Claimed, Purged, Shared,
      Deleted, Gathered
<1> QED
  BY <1>3, <1>7, SilentStep DEF RequestBatch, Labels, Claimed

\* The sessions are read again under their locks.
LEMMA GatherSessionsKept ==
  ASSUME PipelineInv, NEW p \in Procs, GatherSessions(p)
  PROVE  Kept(p)
<1>1. /\ p \in Operators /\ p \notin Cleaners /\ p \notin Loops /\ run[p] \in Runs
      /\ run[p].sessions # {} /\ run[p].sessions \subseteq Sessions /\ role' = role
  BY RolesApart, RunFields DEF GatherSessions, PipelineInv, TypeOK, Own, Placed, site
<1>2. CASE Manifested(p) /\ Goto(p, "batching") /\ UNCHANGED <<rows, run>>
  <2>1. pc'[p] = "batching" /\ run'[p] = run[p]
    BY <1>2 DEF PipelineInv, TypeOK, Goto
  <2>2. LockedSessions(p)' = run[p].sessions /\ \A s \in run[p].sessions : life[s] = "finalized"
    BY <1>1, <1>2 DEF Manifested, GotAll, Wanted, LockedSessions, rows
  <2>3. Placed(p)' /\ SessionsHeld(p)'
    BY <1>1, <2>1, <2>2, RolesKept DEF Placed, SessionsHeld, Wanted, Claimed, Purged, Gathered
  <2>4. BatchReady(p)'
    BY <1>1, <2>1, <2>2, RolesKept DEF GatherSessions, BatchReady, LockedSessions, site
  <2>5. Own(p)'
    BY <2>1, <2>3, <2>4 DEF Own, UpgradeReady, PurgeReady, Upgraded, Claimed, Shared, Deleted
  <2> QED
    BY <1>1, <1>2, <2>5, SilentStep DEF GatherSessions, Labels, Claimed
<1>3. CASE Goto(p, "done") /\ Release(p) /\ run' = [run EXCEPT ![p] = NoRun]
  <2>1. Moves(p) /\ pc'[p] = "done"
    BY <1>1, <1>3, StepMoves, NoRunType DEF PipelineInv, Labels
  <2>2. Own(p)' /\ ClaimedOnce'
    BY <1>3, <2>1, ReleaseGives, OwnAtRest, ClaimedKept DEF Placed, Claimed, Purged, PipelineInv
  <2> QED
    BY <1>3, <2>1, <2>2, ReleaseGives, JobsUntouched, QuietStep
    DEF GatherSessions, PipelineInv, TypeOK
<1> QED
  BY <1>2, <1>3 DEF GatherSessions

-----------------------------------------------------------------------------
(***************************************************************************)
(* The ends of transactions.                                               *)
(***************************************************************************)
\* Who gives back its rows has nothing to rely on but its claimed job.
LEMMA TransactionEnds ==
  ASSUME PipelineInv, NEW p \in Procs, NEW r \in Runs,
         NEW l \in {"idle", "done", "upgrading", "purging", "failing"},
         Release(p), Goto(p, l), run' = [run EXCEPT ![p] = r] \/ (run' = run /\ r = run[p]),
         UNCHANGED <<site, ledger, store, begun>>,
         jobs' \in [Batches -> JobStatuses], JobsKept(p), faults' \in Nat,
         l = "upgrading" => p \in Loops,
         l = "purging" => p \in Cleaners /\ r.sessions # {},
         l = "failing" => p \notin Cleaners /\ pc[p] \in Claimed /\ r = run[p] /\ jobs' = jobs
  PROVE  Kept(p)
<1>1. l \in Labels /\ role' = role /\ TypeOK /\ Own(p)
  BY DEF Labels, site, PipelineInv
<1>2. Moves(p) /\ pc'[p] = l /\ run'[p] = r
  BY <1>1, StepMoves
<1>3. Loops' = Loops /\ Operators' = Operators /\ Cleaners' = Cleaners
  BY <1>1, RolesKept
<1>4. Placed(p)'
  BY <1>1, <1>2, <1>3 DEF Own, Placed, Purged, Claimed
<1>5. LockedSessions(p)' = {}
  BY <1>1, ReleaseGives
<1>6. UpgradeReady(p)'
  BY <1>1, <1>2, <1>3 DEF Own, UpgradeReady, Upgraded, Claimed
<1>7. Own(p)'
  BY <1>2, <1>4, <1>5, <1>6 DEF Own, SessionsHeld, BatchReady, PurgeReady, Shared, Deleted
<1>8. ClaimedOnce'
  BY <1>2, ClaimedKept DEF Claimed
<1> QED
  BY <1>1, <1>2, <1>7, <1>8, ReleaseGives, QuietStep

\* A cleanup goes on with the next of its sessions.
LEMMA NextTargetKept ==
  ASSUME PipelineInv, NEW c \in Cleaners, NextTarget(c),
         UNCHANGED <<site, ledger, jobs, store, begun>>, faults' \in Nat
  PROVE  Kept(c)
<1>1. PICK rest : rest = run[c].sessions \ {Target(c)}
  OBVIOUS
<1>2. PICK r : r = [NoRun EXCEPT !.sessions = rest]
  OBVIOUS
<1>3. PICK l : l = IF rest = {} THEN "idle" ELSE "purging"
  OBVIOUS
<1>4. c \in Procs /\ run[c] \in Runs /\ rest \in SUBSET Sessions
  BY <1>1, RolesApart, RunFields DEF PipelineInv, TypeOK
<1>5. r \in Runs /\ r.sessions = rest
  BY <1>2, <1>4, NoRunType, RunSet, RunGet
<1>6. Release(c) /\ Goto(c, l) /\ run' = [run EXCEPT ![c] = r]
  BY <1>1, <1>2, <1>3 DEF NextTarget
<1>7. l \in {"idle", "done", "upgrading", "purging", "failing"} /\ l \in {"idle", "purging"}
      /\ (l = "purging" => rest # {})
  BY <1>3
<1> QED
  BY <1>4, <1>5, <1>6, <1>7, TransactionEnds, JobsUntouched DEF PipelineInv, TypeOK

\* A transaction that an error rolls back.
LEMMA RollbackKept ==
  ASSUME PipelineInv, NEW p \in Procs, Rollback(p),
         UNCHANGED <<site, ledger, jobs, store, begun>>, faults' \in Nat
  PROVE  Kept(p)
<1>1. jobs' \in [Batches -> JobStatuses] /\ JobsKept(p)
  BY JobsUntouched DEF PipelineInv, TypeOK
<1>2. CASE p \in Cleaners
  BY <1>2, NextTargetKept DEF Rollback
<1>3. CASE /\ p \notin Cleaners /\ pc[p] \in {"locking", "fetching", "recording", "settling"}
           /\ Goto(p, "failing") /\ Release(p) /\ UNCHANGED run
  <2>1. run[p] \in Runs /\ pc[p] \in Claimed
    BY <1>3 DEF PipelineInv, TypeOK, Claimed
  <2> QED
    BY <1>1, <1>3, <2>1, TransactionEnds
<1>4. CASE /\ Release(p) /\ run' = [run EXCEPT ![p] = NoRun]
           /\ Goto(p, IF p \in Operators THEN "done" ELSE "idle")
  <2>1. PICK l \in {"idle", "done"} : l = IF p \in Operators THEN "done" ELSE "idle"
    OBVIOUS
  <2> QED
    BY <1>1, <1>4, <2>1, NoRunType, TransactionEnds
<1> QED
  BY <1>2, <1>3, <1>4 DEF Rollback

\* A call to a service fails, ...
LEMMA OutageKept ==
  ASSUME PipelineInv, NEW p \in Procs, Outage(p)
  PROVE  Kept(p)
<1>1. faults' \in Nat
  BY DEF Outage, PipelineInv, TypeOK
<1> QED
  BY <1>1, RollbackKept DEF Outage

\* ... the database breaks a deadlock, ...
LEMMA BreakDeadlockKept ==
  ASSUME PipelineInv, NEW p \in Procs, BreakDeadlock(p)
  PROVE  Kept(p)
<1>1. faults' \in Nat
  BY DEF BreakDeadlock, PipelineInv, TypeOK
<1> QED
  BY <1>1, RollbackKept DEF BreakDeadlock

\* ... or the process dies: its transaction is undone.
LEMMA DieKept ==
  ASSUME PipelineInv, NEW p \in Procs, Die(p)
  PROVE  Kept(p)
<1>1. PICK l \in {"idle", "done"} : l = IF p \in Operators THEN "done" ELSE "idle"
  OBVIOUS
<1>2. jobs' \in [Batches -> JobStatuses] /\ JobsKept(p) /\ faults' \in Nat
  BY JobsUntouched DEF Die, PipelineInv, TypeOK
<1> QED
  BY <1>1, <1>2, NoRunType, TransactionEnds DEF Die

-----------------------------------------------------------------------------
(***************************************************************************)
(* The steps of an upgrade that record nothing.                            *)
(***************************************************************************)
\* A loop goes on with the next job, or with its next turn.
LEMMA JobStep ==
  ASSUME PipelineInv, NEW p \in Loops, NEW r \in Runs, NEW l \in {"upgrading", "idle"},
         pc[p] \in {"created", "upgrading", "settling"},
         Goto(p, l), run' = [run EXCEPT ![p] = r],
         UNCHANGED <<site, ledger, store, rows, begun, faults>>,
         jobs' \in [Batches -> JobStatuses], JobsKept(p)
  PROVE  Kept(p)
<1>1. p \in Procs /\ l \in Labels /\ role' = role /\ TypeOK /\ Own(p)
  BY RolesApart DEF Labels, site, PipelineInv
<1>2. Moves(p) /\ pc'[p] = l /\ run'[p] = r
  BY <1>1, StepMoves
<1>3. Placed(p)'
  BY <1>1, <1>2, RolesKept DEF Placed, Purged, Claimed
<1>4. LockedSessions(p)' = {}
  BY <1>1, NoneHeld DEF Gathered, Purged
<1>5. Own(p)'
  BY <1>1, <1>2, <1>3, <1>4, OwnAtRest
<1>6. ClaimedOnce'
  BY <1>1, <1>2, ClaimedKept DEF Claimed
<1>7. LocksKept(p) /\ \A s \in Sessions : sessionRow'[s] = p => life[s] # "gone"
  BY <1>1, PipelineConstants DEF LocksKept, rows, PipelineInv, Tables, RowsExist
<1> QED
  BY <1>1, <1>2, <1>5, <1>6, <1>7, QuietStep DEF TypeOK, rows

\* A new batch gets its job.
LEMMA CreateUpgradeJobKept ==
  ASSUME PipelineInv, NEW p \in Procs, CreateUpgradeJob(p)
  PROVE  Kept(p)
<1>1. p \in Loops /\ run[p].batch \in Batches /\ pc[p] = "created"
  BY DEF CreateUpgradeJob, PipelineInv, Own, Placed
<1> QED
  BY <1>1, CreateJobKept, NoRunType, JobStep DEF CreateUpgradeJob

\* A turn of the loop ends.
LEMMA FinishTurnKept ==
  ASSUME PipelineInv, NEW p \in Procs, FinishTurn(p)
  PROVE  Kept(p)
<1>1. p \in Loops /\ pc[p] = "upgrading" /\ jobs' \in [Batches -> JobStatuses]
  BY DEF FinishTurn, PipelineInv, Own, Placed, TypeOK
<1> QED
  BY <1>1, JobsUntouched, NoRunType, JobStep DEF FinishTurn

\* What a loop does to the job it has claimed concerns nobody else.
LEMMA OwnJobKept ==
  ASSUME PipelineInv, NEW p \in Loops, pc[p] \in Claimed, NEW x \in JobStatuses, x # "running",
         jobs' = [jobs EXCEPT ![run[p].batch] = x]
  PROVE  jobs' \in [Batches -> JobStatuses] /\ JobsKept(p)
BY DEF PipelineInv, TypeOK, JobsKept

\* A batch whose job runs elsewhere is put off.
LEMMA PutOffRun ==
  ASSUME NEW r \in Runs
  PROVE  [NoRun EXCEPT !.batches = r.batches] \in Runs
BY NoRunType, RunFields, RunSet

\* The result of an upgrade is written into its job.
LEMMA SettleJobKept ==
  ASSUME PipelineInv, NEW p \in Procs, SettleJob(p)
  PROVE  Kept(p)
<1>1. p \in Loops /\ pc[p] = "settling" /\ run[p] \in Runs
  BY DEF SettleJob, PipelineInv, Own, Placed, TypeOK
<1>2. PICK x \in JobStatuses :
        x # "running" /\ x = IF run[p].status = Pending THEN "pending" ELSE "completed"
  BY DEF JobStatuses
<1>3. jobs' \in [Batches -> JobStatuses] /\ JobsKept(p)
  BY <1>1, <1>2, OwnJobKept DEF SettleJob, Claimed
<1>4. PICK r \in Runs : r = [NoRun EXCEPT !.batches = run[p].batches]
  BY <1>1, PutOffRun
<1> QED
  BY <1>1, <1>3, <1>4, JobStep DEF SettleJob

\* The calendars had nothing new.
LEMMA StillPendingKept ==
  ASSUME PipelineInv, NEW p \in Procs, StillPending(p)
  PROVE  Kept(p)
<1>1. pc[p] = "fetching" /\ run[p] \in Runs
  BY DEF StillPending, PipelineInv, TypeOK
<1>2. jobs' \in [Batches -> JobStatuses] /\ JobsKept(p)
  <2>1. CASE p \in Loops
    <3>1. jobs' = [jobs EXCEPT ![run[p].batch] = "pending"]
      BY <2>1 DEF StillPending
    <3> QED
      BY <1>1, <2>1, <3>1, OwnJobKept DEF Claimed, JobStatuses
  <2>2. CASE p \notin Loops
    BY <2>2, JobsUntouched DEF StillPending, PipelineInv, TypeOK
  <2> QED
    BY <2>1, <2>2
<1>3. PICK r \in Runs : r = [NoRun EXCEPT !.batches = run[p].batches]
  BY <1>1, PutOffRun
<1>4. PICK l \in {"upgrading", "done"} : l = IF p \in Loops THEN "upgrading" ELSE "done"
  OBVIOUS
<1>5. faults' \in Nat
  BY DEF StillPending, PipelineInv, TypeOK
<1> QED
  BY <1>2, <1>3, <1>4, <1>5, TransactionEnds DEF StillPending

\* An upgrade that failed leaves its job to be tried again.
LEMMA FailUpgradeKept ==
  ASSUME PipelineInv, NEW p \in Procs, FailUpgrade(p)
  PROVE  Kept(p)
<1>1. pc[p] = "failing"
  BY DEF FailUpgrade
<1>2. jobs' \in [Batches -> JobStatuses] /\ JobsKept(p)
  <2>1. CASE p \in Loops /\ jobs[run[p].batch] # "absent"
    <3>1. jobs' = [jobs EXCEPT ![run[p].batch] = "failed"]
      BY <2>1 DEF FailUpgrade
    <3> QED
      BY <1>1, <2>1, <3>1, OwnJobKept DEF Claimed, JobStatuses
  <2>2. CASE ~(p \in Loops /\ jobs[run[p].batch] # "absent")
    <3>1. jobs' = jobs
      BY <2>2 DEF FailUpgrade
    <3> QED
      BY <3>1, JobsUntouched DEF PipelineInv, TypeOK
  <2> QED
    BY <2>1, <2>2
<1>3. PICK l \in {"idle", "done"} : l = IF p \in Loops THEN "idle" ELSE "done"
  OBVIOUS
<1>4. faults' \in Nat
  BY DEF FailUpgrade, PipelineInv, TypeOK
<1> QED
  BY <1>2, <1>3, <1>4, NoRunType, TransactionEnds DEF FailUpgrade

\* A job that is due is nobody's, and is not claimed under a purge.
LEMMA ClaimUpgradeKept ==
  ASSUME PipelineInv, NEW p \in Procs, NEW b \in Batches, ClaimUpgrade(p, b)
  PROVE  Kept(p)
<1>1. p \in Loops /\ pc[p] = "upgrading" /\ run[p] \in Runs /\ run[p].batches \subseteq Batches
      /\ TypeOK /\ role' = role
  BY RunFields DEF ClaimUpgrade, PipelineInv, Own, Placed, TypeOK, site
<1>2. PICK r : r = [run[p] EXCEPT !.batch = b, !.batches = run[p].batches \cup {b}]
  OBVIOUS
<1>3. run' = [run EXCEPT ![p] = r]
  BY <1>1, <1>2 DEF ClaimUpgrade, TypeOK
<1>4. r \in Runs /\ r.batch = b
  <2>1. run[p].batches \cup {b} \in SUBSET Batches
    BY <1>1
  <2>2. r \in Runs
    BY <1>1, <1>2, <2>1, RunSet
  <2>3. r.batch = b
    BY <1>1, <1>2 DEF Runs
  <2> QED
    BY <2>2, <2>3
<1>5. Moves(p) /\ pc'[p] = "locking" /\ run'[p] = r
  BY <1>1, <1>3, <1>4, StepMoves DEF ClaimUpgrade, Labels
<1>6. /\ jobs[b] \in {"pending", "failed"} /\ ~JobLocked(b)
      /\ jobs' = [jobs EXCEPT ![b] = "running"] /\ rows' = rows
  BY DEF ClaimUpgrade, Due
<1>7. jobs' \in [Batches -> JobStatuses] /\ JobsKept(p) /\ jobs'[b] = "running"
  BY <1>1, <1>6 DEF TypeOK, JobStatuses, JobsKept
<1>8. Own(p)'
  <2>1. Placed(p)'
    BY <1>1, <1>4, <1>5, RolesKept DEF Placed, Purged, Claimed
  <2>2. LockedSessions(p)' = {}
    BY <1>1, <1>6, NoneHeld DEF PipelineInv, Gathered, Purged
  <2> QED
    BY <1>4, <1>5, <1>7, <2>1, <2>2
    DEF Own, SessionsHeld, BatchReady, UpgradeReady, PurgeReady, Upgraded, Claimed, Purged, Shared,
        Deleted, Gathered
<1>9. ClaimedOnce'
  <2>1. Loops' = Loops /\ Loops \subseteq Procs
    BY <1>1, RolesKept, RolesApart
  <2>2. \A q \in Loops \ {p} : pc'[q] = pc[q] /\ run'[q] = run[q]
    BY <1>5, <2>1 DEF Moves
  <2>3. \A q \in Loops : pc[q] \in Claimed => run[q].batch # b
    BY <1>6, <2>1 DEF PipelineInv, Own, UpgradeReady
  <2> QED
    BY <1>4, <1>5, <2>1, <2>2, <2>3 DEF ClaimedOnce, PipelineInv, Tables
<1>10. LocksKept(p) /\ \A s \in Sessions : sessionRow'[s] = p => life[s] # "gone"
  BY <1>6, PipelineConstants DEF LocksKept, rows, PipelineInv, Tables, RowsExist
<1> QED
  BY <1>1, <1>5, <1>6, <1>7, <1>8, <1>9, <1>10, QuietStep DEF ClaimUpgrade, TypeOK, rows

\* An operator names a batch to upgrade.
LEMMA RequestUpgradeKept ==
  ASSUME PipelineInv, NEW p \in Procs, RequestUpgrade(p)
  PROVE  Kept(p)
<1>1. PICK b \in Batches : run' = [run EXCEPT ![p].batch = b]
  BY DEF RequestUpgrade
<1>2. PICK r : r = [run[p] EXCEPT !.batch = b]
  OBVIOUS
<1>3. r \in Runs /\ run' = [run EXCEPT ![p] = r] /\ r.batch = b
  <2>1. run[p] \in Runs
    BY DEF PipelineInv, TypeOK
  <2>2. r \in Runs
    BY <1>2, <2>1, RunSet
  <2>3. r.batch = b
    BY <1>2, <2>1 DEF Runs
  <2> QED
    BY <1>1, <1>2, <2>2, <2>3
<1>4. pc'[p] = "locking" /\ run'[p] = r /\ role' = role
  BY <1>3 DEF RequestUpgrade, PipelineInv, TypeOK, Goto, site
<1>5. p \in Operators /\ p \notin Loops /\ p \notin Loops' /\ p \in Operators'
  BY <1>4, RolesKept, RolesApart DEF RequestUpgrade
<1>6. Placed(p)'
  BY <1>3, <1>4, <1>5 DEF Placed, Claimed, Purged
<1>7. LockedSessions(p)' = {}
  BY NoneHeld DEF RequestUpgrade, PipelineInv, Gathered, Purged
<1>8. Own(p)'
  BY <1>4, <1>5, <1>6, <1>7
  DEF Own, SessionsHeld, BatchReady, UpgradeReady, PurgeReady, Upgraded, Claimed, Purged, Shared,
      Deleted, Gathered
<1> QED
  BY <1>3, <1>5, <1>8, SilentStep DEF RequestUpgrade, Labels, Claimed

\* Nothing to upgrade.
LEMMA RefusedUpgradeKept ==
  ASSUME PipelineInv, NEW p \in Procs, RefusedUpgrade(p)
  PROVE  Kept(p)
<1>1. pc[p] = "fetching" /\ run[p] \in Runs /\ Own(p) /\ TypeOK
  BY DEF RefusedUpgrade, PipelineInv, TypeOK
<1>2. pc'[p] = "failing" /\ run'[p] = run[p] /\ role' = role /\ rows' = rows /\ jobs' = jobs
  BY <1>1 DEF RefusedUpgrade, TypeOK, Goto, site
<1>3. Own(p)'
  BY <1>1, <1>2, RolesKept
  DEF Own, Placed, SessionsHeld, BatchReady, UpgradeReady, PurgeReady, Upgraded, Claimed, Purged,
      Shared, Deleted, Gathered
<1> QED
  BY <1>1, <1>2, <1>3, SilentStep DEF RefusedUpgrade, Labels, Claimed

\* The upgrade has its batch, or finds it gone or never submitted.
LEMMA LockBatchKept ==
  ASSUME PipelineInv, NEW p \in Procs, LockBatch(p)
  PROVE  Kept(p)
<1>1. PICK b : b = run[p].batch
  OBVIOUS
<1>2. /\ pc[p] = "locking" /\ batchRow[b] = None /\ b \in Batches /\ p \in Loops \cup Operators
      /\ (p \in Loops => jobs[b] = "running") /\ run[p] \in Runs /\ TypeOK /\ role' = role
      /\ jobs' = jobs /\ sessionRow' = sessionRow /\ LockedSessions(p) = {}
  BY <1>1
  DEF LockBatch, PipelineInv, Own, Placed, SessionsHeld, UpgradeReady, TypeOK, site, Claimed,
      Gathered, Purged
<1>3. /\ Loops' = Loops /\ Operators' = Operators /\ LockedSessions(p)' = {}
      /\ \A s \in Sessions : sessionRow'[s] = p => life[s] # "gone"
  BY <1>2, RolesKept DEF LockedSessions
<1>4. CASE Goto(p, "failing") /\ UNCHANGED <<batchRow, run>>
  <2>1. pc'[p] = "failing" /\ run'[p] = run[p]
    BY <1>2, <1>4 DEF Goto, TypeOK
  <2>2. Own(p)'
    BY <1>1, <1>2, <1>3, <2>1
    DEF Own, Placed, SessionsHeld, BatchReady, UpgradeReady, PurgeReady, Upgraded, Claimed, Purged,
        Shared, Deleted, Gathered
  <2> QED
    BY <1>2, <1>4, <2>2, SilentStep DEF LockBatch, Labels, Claimed, rows
<1>5. CASE /\ Exists(b) /\ batchRow' = [batchRow EXCEPT ![b] = p]
           /\ run' = [run EXCEPT ![p].number = Len(complements[b]) + 1] /\ Goto(p, "fetching")
  <2>1. PICK r : r = [run[p] EXCEPT !.number = Len(complements[b]) + 1]
    OBVIOUS
  <2>2. Len(complements[b]) + 1 \in Nat
    BY <1>2 DEF TypeOK
  <2>3. r \in Runs
    BY <1>2, <2>1, <2>2, RunSet
  <2>4. r.number = Len(complements[b]) + 1 /\ r.batch = b
    BY <1>1, <1>2, <2>1 DEF Runs
  <2>5. run' = [run EXCEPT ![p] = r]
    BY <1>2, <1>5, <2>1 DEF TypeOK
  <2>6. Moves(p) /\ pc'[p] = "fetching" /\ run'[p] = r
    BY <1>2, <1>5, <2>3, <2>5, StepMoves DEF Labels
  <2>7. batchRow' \in [Batches -> Procs \cup {None}] /\ batchRow'[b] = p /\ LocksKept(p)
    BY <1>2, <1>5 DEF TypeOK, LocksKept
  <2>8. Exists(b)' /\ complements' = complements
    BY <1>5 DEF LockBatch, Exists, ledger
  <2>9. Own(p)'
    BY <1>2, <1>3, <2>4, <2>6, <2>7, <2>8
    DEF Own, Placed, SessionsHeld, BatchReady, UpgradeReady, PurgeReady, Upgraded, Claimed, Purged,
        Shared, Deleted, Gathered
  <2>10. ClaimedOnce'
    BY <1>1, <1>2, <2>4, <2>6, ClaimedKept DEF Claimed
  <2> QED
    BY <1>2, <1>3, <2>6, <2>7, <2>9, <2>10, JobsUntouched, QuietStep DEF LockBatch, TypeOK
<1> QED
  BY <1>1, <1>4, <1>5 DEF LockBatch

-----------------------------------------------------------------------------
(***************************************************************************)
(* The steps of a purge before it deletes.                                 *)
(***************************************************************************)
LEMMA StartCleanupKept ==
  ASSUME PipelineInv, NEW c \in Procs, StartCleanup(c)
  PROVE  Kept(c)
<1>1. PICK S \in SUBSET Sessions : S # {} /\ run' = [run EXCEPT ![c].sessions = S]
  BY DEF StartCleanup
<1>2. PICK r : r = [run[c] EXCEPT !.sessions = S]
  OBVIOUS
<1>3. r \in Runs /\ run' = [run EXCEPT ![c] = r] /\ r.sessions = S
  <2>1. run[c] \in Runs
    BY DEF PipelineInv, TypeOK
  <2> QED
    BY <1>1, <1>2, <2>1, RunSet, RunGet
<1>4. pc'[c] = "purging" /\ run'[c] = r /\ role' = role
  BY <1>3 DEF StartCleanup, PipelineInv, TypeOK, Goto, site
<1>5. Placed(c)'
  BY <1>1, <1>3, <1>4, RolesKept DEF StartCleanup, Placed, Claimed, Purged
<1>6. LockedSessions(c)' = {}
  BY NoneHeld DEF StartCleanup, PipelineInv, Gathered, Purged
<1>7. Own(c)'
  BY <1>4, <1>5, <1>6
  DEF Own, SessionsHeld, BatchReady, UpgradeReady, PurgeReady, Upgraded, Claimed, Purged, Shared,
      Deleted, Gathered
<1> QED
  BY <1>3, <1>7, SilentStep DEF StartCleanup, Labels, Claimed

\* A purge that goes on keeps its target.
LEMMA PurgeGoesOn ==
  ASSUME PipelineInv, NEW c \in Cleaners, pc[c] \in Purged, NEW l \in {"sharing", "deleting"},
         NEW r \in Runs, r.sessions = run[c].sessions,
         Goto(c, l), run' = [run EXCEPT ![c] = r] \/ (run' = run /\ r = run[c]),
         UNCHANGED <<site, ledger, jobs, store, rows, begun, faults>>,
         sessionRow[Target(c)] = c,
         r.batches = {b \in Batches : Target(c) \in members[b]},
         l = "deleting" => /\ \A b \in r.batches : batchRow[b] = c /\ jobs[b] # "running"
                           /\ stamping[Target(c)] \notin Underway
  PROVE  Kept(c)
<1>1. c \in Procs /\ c \notin Loops /\ role' = role /\ TypeOK /\ Own(c)
  BY RolesApart DEF PipelineInv, site
<1>2. pc'[c] = l /\ run'[c] = r
  BY <1>1 DEF TypeOK, Goto
<1>3. Target(c)' = Target(c) /\ Wanted(c)' = Wanted(c) /\ LockedSessions(c)' = LockedSessions(c)
  BY <1>1, <1>2, RolesKept DEF Target, Wanted, LockedSessions, rows
<1>4. Placed(c)'
  BY <1>1, <1>2, RolesKept DEF Own, Placed, Purged, Claimed
<1>5. SessionsHeld(c)'
  BY <1>1, <1>2, <1>3 DEF Own, SessionsHeld, Gathered, Purged
<1>6. PurgeReady(c)'
  <2>1. stamping' = stamping
    BY DEF site
  <2> QED
    BY <1>2, <1>3, <2>1 DEF PurgeReady, Shared, Deleted, rows, ledger
<1>7. Own(c)'
  BY <1>2, <1>4, <1>5, <1>6 DEF Own, BatchReady, UpgradeReady, Upgraded, Claimed
<1>8. l \in Labels
  BY DEF Labels
<1> QED
  BY <1>1, <1>7, <1>8, SilentStep

\* A purge reads the batches of its sessions.
LEMMA ReadMembershipKept ==
  ASSUME PipelineInv, NEW c \in Procs, ReadMembership(c)
  PROVE  Kept(c)
<1>1. c \in Cleaners /\ pc[c] \in Purged /\ run[c] \in Runs /\ run[c].sessions # {}
      /\ faults' \in Nat
  BY DEF ReadMembership, PipelineInv, TypeOK, Own, Placed, Purged
<1>2. CASE NextTarget(c)
  BY <1>1, <1>2, NextTargetKept DEF ReadMembership, rows
<1>3. CASE /\ GotAll(c) /\ Goto(c, "sharing") /\ UNCHANGED rows
           /\ run' = [run EXCEPT ![c].batches = {b \in Batches : Target(c) \in members[b]}]
  <2>1. PICK B : B = {b \in Batches : Target(c) \in members[b]}
    OBVIOUS
  <2>2. PICK r : r = [run[c] EXCEPT !.batches = B]
    OBVIOUS
  <2>3. r \in Runs
    BY <1>1, <2>1, <2>2, RunSet
  <2>4. r.batches = B /\ r.sessions = run[c].sessions
    BY <1>1, <2>2 DEF Runs
  <2>5. run' = [run EXCEPT ![c] = r]
    BY <1>3, <2>1, <2>2 DEF PipelineInv, TypeOK
  <2>6. Target(c) \in Sessions
    BY <1>1, TargetType, RolesApart DEF PipelineInv
  <2>7. sessionRow[Target(c)] = c
    BY <1>1, <1>3, <2>6 DEF GotAll, Wanted, LockedSessions
  <2> QED
    BY <1>1, <1>3, <2>1, <2>3, <2>4, <2>5, <2>7, PurgeGoesOn DEF ReadMembership
<1> QED
  BY <1>2, <1>3 DEF ReadMembership

\* A purge gives way to an upgrade that runs.
LEMMA CheckJobsKept ==
  ASSUME PipelineInv, NEW c \in Procs, CheckJobs(c)
  PROVE  Kept(c)
<1>1. /\ c \in Cleaners /\ pc[c] \in Purged /\ run[c] \in Runs /\ faults' \in Nat
      /\ run[c].batches \subseteq Batches /\ sessionRow[Target(c)] = c
      /\ run[c].batches = {b \in Batches : Target(c) \in members[b]}
  BY RunFields DEF CheckJobs, PipelineInv, TypeOK, Own, Placed, PurgeReady, Purged, Shared
<1>2. CASE NextTarget(c)
  BY <1>1, <1>2, NextTargetKept DEF CheckJobs
<1>3. CASE /\ stamping[Target(c)] # "running" /\ \A b \in run[c].batches : jobs[b] # "running"
           /\ Goto(c, "deleting") /\ UNCHANGED <<rows, run>>
  <2>1. \A b \in run[c].batches : batchRow[b] = c
    BY <1>1 DEF CheckJobs, BatchesToLock, LockedBatches
  <2>2. stamping[Target(c)] \notin Underway
    BY <1>3 DEF CheckJobs, AwaitsStamp, Underway
  <2> QED
    BY <1>1, <1>3, <2>1, <2>2, PurgeGoesOn DEF CheckJobs
<1> QED
  BY <1>2, <1>3 DEF CheckJobs

-----------------------------------------------------------------------------
(***************************************************************************)
(* The steps that take a row.                                              *)
(***************************************************************************)
\* A row taken is one more to rely on.
LEMMA LockKept ==
  ASSUME PipelineInv, NEW p \in Procs, pc[p] \in {"gathering", "recording", "purging", "sharing"},
         UNCHANGED <<site, ledger, jobs, store, pc, run, begun, faults>>,
         sessionRow' \in [Sessions -> Procs \cup {None}],
         batchRow' \in [Batches -> Procs \cup {None}],
         \A s \in Sessions : sessionRow'[s] = sessionRow[s]
           \/ (sessionRow[s] = None /\ sessionRow'[s] = p /\ s \in Wanted(p) /\ life[s] # "gone"),
         \A b \in Batches : batchRow'[b] = batchRow[b]
           \/ (batchRow[b] = None /\ batchRow'[b] = p)
  PROVE  Kept(p)
<1>1. role' = role /\ TypeOK /\ Own(p) /\ run[p] \in Runs /\ p # None
  BY PipelineConstants DEF PipelineInv, TypeOK, site
<1>2. /\ Loops' = Loops /\ Operators' = Operators /\ Cleaners' = Cleaners
      /\ Target(p)' = Target(p) /\ Wanted(p)' = Wanted(p)
  BY <1>1, RolesKept DEF Target, Wanted
<1>3. Placed(p)'
  BY <1>1, <1>2 DEF Own, Placed
<1>4. LockedSessions(p)' \subseteq LockedSessions(p) \cup Wanted(p)
  BY DEF LockedSessions
<1>5. SessionsHeld(p)'
  BY <1>1, <1>2, <1>4 DEF Own, SessionsHeld, Gathered, Purged
<1>6. UpgradeReady(p)'
  <2>1. PICK b : b = run[p].batch
    OBVIOUS
  <2>2. pc[p] \in Claimed => b \in Batches
    BY <1>1, <2>1 DEF Own, Placed
  <2>3. SourceContent(b)' = SourceContent(b) /\ Exists(b)' = Exists(b)
    BY DEF SourceContent, Exists, ledger
  <2> QED
    BY <1>1, <1>2, <2>1, <2>2, <2>3
    DEF Own, UpgradeReady, Upgraded, Claimed, ledger, store, UpgradeObject
<1>7. PurgeReady(p)'
  <2>1. ASSUME pc[p] = "sharing" PROVE sessionRow'[Target(p)] = p
    <3>1. run[p].sessions # {} /\ sessionRow[Target(p)] = p
      BY <1>1, <2>1 DEF Own, Placed, PurgeReady, Purged, Shared
    <3> QED
      BY <1>1, <3>1, TargetType
  <2> QED
    BY <1>1, <1>2, <2>1 DEF Own, PurgeReady, Shared, Deleted, ledger
<1>8. Own(p)'
  BY <1>3, <1>5, <1>6, <1>7 DEF Own, BatchReady
<1>9. Moves(p) /\ LocksKept(p)
  BY <1>1 DEF Moves, LocksKept, TypeOK
<1>10. \A s \in Sessions : sessionRow'[s] = p => life[s] # "gone"
  BY <1>1 DEF PipelineInv, Tables, RowsExist
<1>11. ClaimedOnce'
  BY <1>9, ClaimedKept
<1> QED
  BY <1>1, <1>8, <1>9, <1>10, <1>11, JobsUntouched, QuietStep DEF TypeOK

\* A session is locked.
LEMMA LockNextSessionKept ==
  ASSUME PipelineInv, NEW p \in Procs, LockNextSession(p)
  PROVE  Kept(p)
<1>1. SessionsToLock(p) # {} /\ SessionsToLock(p) \subseteq Sessions
  <2>1. pc[p] = "purging" => run[p].sessions # {} /\ p \in Procs
    BY DEF PipelineInv, Own, Placed, Purged
  <2>2. p \in Cleaners => pc[p] = "purging"
    BY RolesApart DEF LockNextSession, PipelineInv, Own, Placed
  <2>3. run[p].sessions \subseteq Sessions
    BY RunFields DEF PipelineInv, TypeOK
  <2>4. Wanted(p) \subseteq Sessions
    BY <2>1, <2>2, <2>3, TargetType DEF Wanted, PipelineInv
  <2> QED
    BY <2>4 DEF LockNextSession, SessionsToLock
<1>2. PICK s : s = Least(SessionsToLock(p))
  OBVIOUS
<1>3. s \in Sessions /\ s \in Wanted(p) /\ life[s] # "gone"
  BY <1>1, <1>2, LeastIsLeast, PipelineConstants DEF SessionsToLock
<1>4. sessionRow[s] = None /\ sessionRow' = [sessionRow EXCEPT ![s] = p]
  BY <1>2 DEF LockNextSession
<1>5. sessionRow' \in [Sessions -> Procs \cup {None}] /\ batchRow' \in [Batches -> Procs \cup {None}]
      /\ batchRow' = batchRow
  <2>1. batchRow' = batchRow
    BY DEF LockNextSession
  <2>2. sessionRow \in [Sessions -> Procs \cup {None}] /\ batchRow \in [Batches -> Procs \cup {None}]
    BY DEF PipelineInv, TypeOK
  <2> QED
    BY <1>3, <1>4, <2>1, <2>2
<1>6. \A t \in Sessions : sessionRow'[t] = sessionRow[t]
           \/ (sessionRow[t] = None /\ sessionRow'[t] = p /\ t \in Wanted(p) /\ life[t] # "gone")
  BY <1>3, <1>4 DEF PipelineInv, TypeOK
<1> QED
  BY <1>5, <1>6, LockKept DEF LockNextSession

\* A batch that the purge shares is locked.
LEMMA LockSharedKept ==
  ASSUME PipelineInv, NEW c \in Procs, LockShared(c)
  PROVE  Kept(c)
<1>1. PICK b : b = Least(BatchesToLock(c))
  OBVIOUS
<1>2. b \in Batches
  <2>1. BatchesToLock(c) \subseteq Batches /\ BatchesToLock(c) # {}
    BY RunFields DEF LockShared, BatchesToLock, PipelineInv, TypeOK
  <2> QED
    BY <1>1, <2>1, LeastIsLeast, PipelineConstants
<1>3. batchRow[b] = None /\ batchRow' = [batchRow EXCEPT ![b] = c] /\ sessionRow' = sessionRow
  BY <1>1 DEF LockShared
<1>4. sessionRow' \in [Sessions -> Procs \cup {None}] /\ batchRow' \in [Batches -> Procs \cup {None}]
  BY <1>2, <1>3 DEF PipelineInv, TypeOK
<1>5. \A x \in Batches : batchRow'[x] = batchRow[x] \/ (batchRow[x] = None /\ batchRow'[x] = c)
  BY <1>2, <1>3 DEF PipelineInv, TypeOK
<1> QED
  BY <1>3, <1>4, <1>5, LockKept DEF LockShared

-----------------------------------------------------------------------------
(***************************************************************************)
(* Steps that change the store alone.                                      *)
(***************************************************************************)
ObjectsOwned ==
  \A o \in objects : \/ o.scope = "merkle" /\ o.owner \in Batches
                     \/ o.scope = "sessions" /\ o.owner \in Sessions

\* A step that writes objects and no row.
LEMMA StoreStep ==
  ASSUME PipelineInv, NEW p \in Procs, Moves(p), LocksKept(p),
         UNCHANGED <<site, ledger, jobs>>, faults' \in Nat,
         sessionRow' \in [Sessions -> Procs \cup {None}],
         batchRow' \in [Batches -> Procs \cup {None}],
         \A s \in Sessions : sessionRow'[s] = p => life[s] # "gone",
         ObjectsOwned', strays' \subseteq Sessions, begun' \subseteq Sessions, StoreKept(p),
         ClaimedOnce', PurgedLeaveNothing', RetainedProofsVerify', Own(p)'
  PROVE  Kept(p)
<1>1. TypeOK'
  BY DEF PipelineInv, TypeOK, Moves, ObjectsOwned, site, ledger
<1>2. RowsKept(p) /\ JobsKept(p)
  BY JobsUntouched DEF RowsKept, site, ledger, Exists
<1>3. RowsExist'
  BY PipelineConstants DEF PipelineInv, Tables, RowsExist, LocksKept, site
<1>4. UnusedBlank'
  BY DEF PipelineInv, Tables, Records, UnusedBlank, Unused, ledger
<1>5. ComplementsAttested'
  BY DEF PipelineInv, Tables, Records, ComplementsAttested, ledger
<1> QED
  BY <1>1, <1>2, <1>3, <1>4, <1>5 DEF Kept, Guarantee, Tables, Records

\* A batch that is not made may leave proofs of its sessions, which p holds.
LEMMA FailBatchKept ==
  ASSUME PipelineInv, NEW p \in Procs, FailBatch(p)
  PROVE  Kept(p)
<1>1. /\ pc[p] = "batching" /\ run[p].sessions \subseteq Sessions /\ TypeOK
      /\ \A s \in run[p].sessions : sessionRow[s] = p /\ life[s] = "finalized"
  BY RunFields DEF FailBatch, PipelineInv, TypeOK, Own, BatchReady
<1>2. PICK l \in {"idle", "done"} : l = IF p \in Loops THEN "idle" ELSE "done"
  OBVIOUS
<1>3. Moves(p) /\ pc'[p] = l /\ role' = role
  BY <1>1, <1>2, NoRunType, StepMoves DEF FailBatch, Labels, site
<1>4. Own(p)'
  BY <1>1, <1>3, ReleaseGives, OwnAtRest DEF FailBatch, Placed, Claimed, Purged
<1>5. ClaimedOnce'
  BY <1>3, ClaimedKept DEF Claimed
<1>6. strays' \subseteq strays \cup run[p].sessions
  BY DEF FailBatch
<1>7. StoreKept(p) /\ ObjectsOwned' /\ strays' \subseteq Sessions /\ begun' \subseteq Sessions
  BY <1>1, <1>6 DEF FailBatch, StoreKept, TypeOK, ObjectsOwned
<1>8. PurgedLeaveNothing'
  <2>1. PurgedLeaveNothing
    BY DEF PipelineInv, Tables, Records
  <2> QED
    BY <1>1, <1>6, <2>1 DEF FailBatch, PurgedLeaveNothing, site, ledger, InScope, Exists
<1>9. RetainedProofsVerify'
  <2>1. RetainedProofsVerify
    BY DEF PipelineInv, Tables, Records
  <2> QED
    BY <2>1 DEF FailBatch, RetainedProofsVerify, site, ledger, InScope
<1>10. \A s \in Sessions : sessionRow'[s] = p => life[s] # "gone"
  BY <1>1, ReleaseGives DEF FailBatch
<1>11. faults' \in Nat
  BY <1>1 DEF FailBatch, TypeOK
<1> QED
  BY <1>1, <1>3, <1>4, <1>5, <1>7, <1>8, <1>9, <1>10, <1>11, ReleaseGives, StoreStep DEF FailBatch

\* The upgrades an upgrade starts from are counted.
LEMMA SourceContentType ==
  ASSUME TypeOK, NEW b \in Batches
  PROVE  SourceContent(b) \in Nat
<1>1. complements[b] \in Seq(Upgrades)
  BY DEF TypeOK
<1>2. CASE complements[b] # <<>>
  <2>1. complements[b][Len(complements[b])] \in Upgrades
    BY <1>1, <1>2
  <2>2. complements[b][Len(complements[b])].content \in Nat
    BY <2>1, PipelineConstants DEF Upgrades
  <2> QED
    BY <1>2, <2>2 DEF SourceContent
<1> QED
  BY <1>2 DEF SourceContent

\* The object of an upgrade is stored under the lock of its batch.
LEMMA PutComplementKept ==
  ASSUME PipelineInv, NEW p \in Procs, PutComplement(p)
  PROVE  Kept(p)
<1>1. PICK b : b = run[p].batch
  OBVIOUS
<1>2. /\ pc[p] = "fetching" /\ b \in Batches /\ run[p] \in Runs /\ TypeOK /\ Own(p)
      /\ p \in Loops \cup Operators /\ batchRow[b] = p /\ Exists(b) /\ role' = role
      /\ LockedSessions(p) = {} /\ rows' = rows
  BY <1>1
  DEF PutComplement, PipelineInv, TypeOK, Own, Placed, SessionsHeld, UpgradeReady, Upgraded,
      Claimed, Gathered, Purged, site
<1>3. PICK content \in Improvements(b), verdict \in Verdicts :
        /\ objects' = objects \cup {UpgradeObject(b, run[p].number, content)}
        /\ run' = [run EXCEPT ![p].content = content, ![p].status = verdict,
                              ![p].sessions = members[b]]
  BY <1>1 DEF PutComplement, VerdictsOn
<1>4. /\ content \in SourceContent(b) + 1 .. Calendars /\ content \in 0 .. Calendars
      /\ verdict \in Verdicts /\ members[b] \in SUBSET Sessions
  <2>1. anchors \in 0 .. Calendars /\ SourceContent(b) \in Nat
    BY <1>2, SourceContentType DEF TypeOK
  <2>2. content \in SourceContent(b) + 1 .. anchors
    BY <1>3 DEF Improvements
  <2>3. content \in SourceContent(b) + 1 .. Calendars /\ content \in 0 .. Calendars
    BY <2>1, <2>2, PipelineConstants
  <2> QED
    BY <1>2, <1>3, <2>3 DEF TypeOK
<1>5. PICK r : r = [run[p] EXCEPT !.content = content, !.status = verdict, !.sessions = members[b]]
  OBVIOUS
<1>6. r \in Runs
  BY <1>2, <1>4, <1>5, RunSet
<1>7. /\ r.content = content /\ r.status = verdict /\ r.sessions = members[b]
      /\ r.batch = b /\ r.number = run[p].number
  BY <1>1, <1>2, <1>5 DEF Runs
<1>8. run' = [run EXCEPT ![p] = r]
  BY <1>2, <1>3, <1>5 DEF TypeOK
<1>9. Moves(p) /\ pc'[p] = "recording" /\ run'[p] = r
  <2>1. Goto(p, "recording") /\ "recording" \in Labels
    BY DEF PutComplement, Labels
  <2> QED
    BY <1>2, <1>6, <1>8, <2>1, StepMoves
<1>10. LockedSessions(p)' = {} /\ Loops' = Loops /\ Operators' = Operators
  BY <1>2, RolesKept DEF LockedSessions, rows
<1>11. Placed(p)'
  BY <1>2, <1>4, <1>7, <1>9, <1>10 DEF Placed, Purged, Claimed
<1>12. UpgradeReady(p)'
  <2>1. /\ batchRow' = batchRow /\ Exists(b)' = Exists(b) /\ complements' = complements
        /\ members' = members /\ jobs' = jobs
    BY DEF PutComplement, rows, ledger, Exists
  <2>2. SourceContent(b)' = SourceContent(b)
    BY <2>1 DEF SourceContent
  <2>3. UpgradeObject(b, r.number, r.content) \in objects'
    BY <1>3, <1>7
  <2>4. run[p].number = Len(complements[b]) + 1 /\ (p \in Loops => jobs[b] = "running")
    BY <1>1, <1>2 DEF Own, UpgradeReady, Upgraded, Claimed
  <2>5. UpgradeObject(b, r.number, r.content)' = UpgradeObject(b, r.number', r.content')
    BY DEF UpgradeObject
  <2> QED
    BY <1>2, <1>4, <1>7, <1>9, <1>10, <2>1, <2>2, <2>3, <2>4 DEF UpgradeReady, UpgradeObject
<1>13. Own(p)'
  BY <1>9, <1>10, <1>11, <1>12
  DEF Own, SessionsHeld, BatchReady, PurgeReady, Shared, Deleted, Gathered, Purged
<1>14. ClaimedOnce'
  BY <1>1, <1>2, <1>7, <1>9, ClaimedKept DEF Claimed
<1>15. PICK u : u = UpgradeObject(b, run[p].number, content)
  OBVIOUS
<1>16. objects' = objects \cup {u} /\ u.scope = "merkle" /\ u.owner = b
  BY <1>3, <1>15 DEF UpgradeObject
<1>17. /\ StoreKept(p) /\ ObjectsOwned' /\ strays' \subseteq Sessions /\ begun' \subseteq Sessions
  BY <1>2, <1>16 DEF PutComplement, StoreKept, TypeOK, ObjectsOwned
<1>18. PurgedLeaveNothing'
  <2>1. PurgedLeaveNothing /\ batches[b] # "deleted"
    BY <1>2 DEF PipelineInv, Tables, Records, Exists
  <2> QED
    BY <1>16, <2>1 DEF PutComplement, PurgedLeaveNothing, site, ledger, InScope, Exists
<1>19. RetainedProofsVerify'
  <2>1. RetainedProofsVerify
    BY DEF PipelineInv, Tables, Records
  <2> QED
    BY <1>16, <2>1 DEF PutComplement, RetainedProofsVerify, site, ledger, InScope, UpgradeObject
<1>20. LocksKept(p) /\ \A s \in Sessions : sessionRow'[s] = p => life[s] # "gone"
  BY <1>2, <1>10 DEF LocksKept, rows, LockedSessions
<1> QED
  BY <1>2, <1>9, <1>13, <1>14, <1>17, <1>18, <1>19, <1>20, StoreStep
  DEF PutComplement, TypeOK, rows

-----------------------------------------------------------------------------
(***************************************************************************)
(* The deletions of a purge.                                               *)
(***************************************************************************)
\* What a purge relies on while it deletes.
LEMMA PurgeFacts ==
  ASSUME PipelineInv, NEW c \in Procs, pc[c] \in Deleted
  PROVE  /\ c \in Cleaners /\ c \notin Loops /\ c # None /\ run[c] \in Runs
         /\ Target(c) \in Sessions /\ Target(c) \in run[c].sessions /\ sessionRow[Target(c)] = c
         /\ run[c].batches \subseteq Batches
         /\ run[c].batches = {b \in Batches : Target(c) \in members[b]}
         /\ \A b \in run[c].batches : batchRow[b] = c /\ jobs[b] # "running"
         /\ stamping[Target(c)] \notin Underway
<1>1. c \in Cleaners /\ run[c].sessions # {} /\ run[c] \in Runs
  BY DEF PipelineInv, Own, Placed, TypeOK, Deleted, Purged
<1>2. /\ sessionRow[Target(c)] = c
      /\ run[c].batches = {b \in Batches : Target(c) \in members[b]}
      /\ \A b \in run[c].batches : batchRow[b] = c /\ jobs[b] # "running"
      /\ stamping[Target(c)] \notin Underway
  BY DEF PipelineInv, Own, PurgeReady, Deleted, Shared
<1>3. Target(c) \in Sessions /\ Target(c) \in run[c].sessions
  BY <1>1, TargetType DEF PipelineInv
<1> QED
  BY <1>1, <1>2, <1>3, RolesApart, PipelineConstants, RunFields

\* A purge deletes the proofs of its sessions, ...
LEMMA DeleteProofsKept ==
  ASSUME PipelineInv, NEW c \in Procs, DeleteProofs(c)
  PROVE  Kept(c)
<1>1. PICK t : t = Target(c)
  OBVIOUS
<1>2. pc[c] = "deleting" /\ TypeOK /\ Own(c) /\ role' = role /\ rows' = rows /\ run' = run
  BY DEF DeleteProofs, PipelineInv, site
<1>3. /\ c \in Cleaners /\ c \notin Loops /\ c # None /\ run[c] \in Runs
      /\ t \in Sessions /\ sessionRow[t] = c
      /\ run[c].batches = {b \in Batches : t \in members[b]}
      /\ \A b \in run[c].batches : batchRow[b] = c /\ jobs[b] # "running"
      /\ stamping[t] \notin Underway
  BY <1>1, <1>2, PurgeFacts DEF Deleted
<1>4. Moves(c) /\ pc'[c] = "counting" /\ run'[c] = run[c]
  <2>1. Goto(c, "counting") /\ "counting" \in Labels
    BY DEF DeleteProofs, Labels
  <2> QED
    BY <1>2, <1>3, <2>1, StepMoves
<1>5. /\ objects' = {o \in objects : ~(o.scope = "sessions" /\ o.owner = t)}
      /\ strays' = strays \ {t} /\ begun' = begun \cup {t} /\ UNCHANGED <<site, ledger, jobs>>
      /\ faults' = faults
  BY <1>1 DEF DeleteProofs, InScope
<1>6. Target(c)' = t /\ LockedSessions(c)' = LockedSessions(c) /\ Wanted(c)' = Wanted(c)
  BY <1>1, <1>2, <1>4, RolesKept DEF Target, Wanted, LockedSessions, rows
<1>7. Own(c)'
  <2>1. Placed(c)'
    BY <1>2, <1>3, <1>4, RolesKept DEF Own, Placed, Purged, Claimed
  <2>2. SessionsHeld(c)'
    BY <1>2, <1>4, <1>6 DEF Own, SessionsHeld, Gathered, Purged
  <2>3. InScope("sessions", t)' = {}
    BY <1>5 DEF InScope
  <2>4. PurgeReady(c)'
    <3>1. stamping' = stamping
      BY <1>5 DEF site
    <3> QED
      BY <1>2, <1>3, <1>4, <1>5, <1>6, <2>3, <3>1 DEF PurgeReady, Shared, Deleted, rows, ledger
  <2> QED
    BY <1>4, <2>1, <2>2, <2>4 DEF Own, BatchReady, UpgradeReady, Upgraded, Claimed
<1>8. ClaimedOnce'
  BY <1>3, <1>4, ClaimedKept
<1>9. /\ StoreKept(c) /\ ObjectsOwned' /\ strays' \subseteq Sessions /\ begun' \subseteq Sessions
  BY <1>2, <1>3, <1>5 DEF StoreKept, TypeOK, ObjectsOwned
<1>10. PurgedLeaveNothing'
  <2>1. PurgedLeaveNothing
    BY DEF PipelineInv, Tables, Records
  <2> QED
    BY <1>5, <2>1 DEF PurgedLeaveNothing, site, ledger, InScope, Exists
<1>11. RetainedProofsVerify'
  <2>1. RetainedProofsVerify
    BY DEF PipelineInv, Tables, Records
  <2>2. \A s \in Sessions : s # t => InScope("sessions", s) \subseteq InScope("sessions", s)'
    BY <1>5 DEF InScope
  <2>3. \A b : InScope("merkle", b) \subseteq InScope("merkle", b)'
    BY <1>5 DEF InScope
  <2>4. \A b, n, x : UpgradeObject(b, n, x) \in objects => UpgradeObject(b, n, x) \in objects'
    BY <1>5 DEF UpgradeObject
  <2>5. members' = members /\ complements' = complements /\ cleared' = cleared
    BY <1>5 DEF site, ledger
  <2> QED
    BY <1>5, <2>1, <2>2, <2>3, <2>4, <2>5 DEF RetainedProofsVerify, UpgradeObject
<1>12. LocksKept(c) /\ \A s \in Sessions : sessionRow'[s] = c => life[s] # "gone"
  BY <1>2, <1>3 DEF LocksKept, rows, PipelineInv, Tables, RowsExist
<1> QED
  BY <1>2, <1>4, <1>5, <1>7, <1>8, <1>9, <1>10, <1>11, <1>12, StoreStep DEF TypeOK, rows

\* ... then the objects of the batches they leave empty.
LEMMA DeleteSharedKept ==
  ASSUME PipelineInv, NEW c \in Procs, DeleteShared(c)
  PROVE  Kept(c)
<1>1. PICK t : t = Target(c)
  OBVIOUS
<1>2. pc[c] = "counting" /\ TypeOK /\ Own(c) /\ role' = role /\ rows' = rows
  BY DEF DeleteShared, PipelineInv, site
<1>3. /\ c \in Cleaners /\ c \notin Loops /\ c # None /\ run[c] \in Runs
      /\ t \in Sessions /\ sessionRow[t] = c /\ run[c].batches \subseteq Batches
      /\ run[c].batches = {b \in Batches : t \in members[b]}
      /\ \A b \in run[c].batches : batchRow[b] = c /\ jobs[b] # "running"
      /\ stamping[t] \notin Underway
  BY <1>1, <1>2, PurgeFacts DEF Deleted
<1>4. PICK E \in SUBSET Batches : E = {b \in run[c].batches : members[b] = {t}}
  BY <1>3
<1>5. PICK r : r = [run[c] EXCEPT !.emptied = E]
  OBVIOUS
<1>6. r \in Runs
  BY <1>3, <1>5, RunSet
<1>7. r.emptied = E /\ r.sessions = run[c].sessions /\ r.batches = run[c].batches
  BY <1>3, <1>5 DEF Runs
<1>8. run' = [run EXCEPT ![c] = r]
  BY <1>1, <1>4, <1>5, <1>2 DEF DeleteShared, TypeOK
<1>9. Moves(c) /\ pc'[c] = "erasing" /\ run'[c] = r
  <2>1. Goto(c, "erasing") /\ "erasing" \in Labels
    BY DEF DeleteShared, Labels
  <2> QED
    BY <1>2, <1>6, <1>8, <2>1, StepMoves
<1>10. /\ objects' = {o \in objects : ~(o.scope = "merkle" /\ o.owner \in E)}
       /\ strays' = strays /\ begun' = begun /\ UNCHANGED <<site, ledger, jobs>>
       /\ faults' = faults
  BY <1>1, <1>4 DEF DeleteShared, InScope
<1>11. Target(c)' = t /\ LockedSessions(c)' = LockedSessions(c) /\ Wanted(c)' = Wanted(c)
  BY <1>1, <1>2, <1>7, <1>9, RolesKept DEF Target, Wanted, LockedSessions, rows
<1>12. t \in begun /\ InScope("sessions", t) = {} /\ t \notin strays
  BY <1>1, <1>2 DEF Own, PurgeReady
<1>13. Own(c)'
  <2>1. Placed(c)'
    BY <1>2, <1>3, <1>7, <1>9, RolesKept DEF Own, Placed, Purged, Claimed
  <2>2. SessionsHeld(c)'
    BY <1>2, <1>9, <1>11 DEF Own, SessionsHeld, Gathered, Purged
  <2>3. InScope("sessions", t)' = {} /\ \A b \in E : InScope("merkle", b)' = {}
    BY <1>10, <1>12 DEF InScope
  <2>4. PurgeReady(c)'
    <3>1. stamping' = stamping
      BY <1>10 DEF site
    <3> QED
      BY <1>3, <1>4, <1>7, <1>9, <1>10, <1>11, <1>12, <1>2, <2>3, <3>1
      DEF PurgeReady, Shared, Deleted, rows, ledger
  <2> QED
    BY <1>9, <2>1, <2>2, <2>4 DEF Own, BatchReady, UpgradeReady, Upgraded, Claimed
<1>14. ClaimedOnce'
  BY <1>3, <1>9, ClaimedKept
<1>15. /\ StoreKept(c) /\ ObjectsOwned' /\ strays' \subseteq Sessions /\ begun' \subseteq Sessions
  BY <1>2, <1>3, <1>4, <1>10 DEF StoreKept, TypeOK, ObjectsOwned
<1>16. PurgedLeaveNothing'
  <2>1. PurgedLeaveNothing
    BY DEF PipelineInv, Tables, Records
  <2> QED
    BY <1>10, <2>1 DEF PurgedLeaveNothing, site, ledger, InScope, Exists
<1>17. RetainedProofsVerify'
  <2>1. RetainedProofsVerify
    BY DEF PipelineInv, Tables, Records
  <2>2. \A s \in Sessions : InScope("sessions", s) \subseteq InScope("sessions", s)'
    BY <1>10 DEF InScope
  <2>3. \A b : b \notin E => InScope("merkle", b) \subseteq InScope("merkle", b)'
    BY <1>10 DEF InScope
  <2>4. \A b, n, x : b \notin E /\ UpgradeObject(b, n, x) \in objects
                       => UpgradeObject(b, n, x) \in objects'
    BY <1>10 DEF UpgradeObject
  <2>5. members' = members /\ complements' = complements /\ cleared' = cleared
    BY <1>10 DEF site, ledger
  <2>6. \A b \in E, s \in Sessions : s \notin members[b] \ begun
    BY <1>4, <1>12
  <2> QED
    BY <1>10, <2>1, <2>2, <2>3, <2>4, <2>5, <2>6 DEF RetainedProofsVerify, UpgradeObject
<1>18. LocksKept(c) /\ \A s \in Sessions : sessionRow'[s] = c => life[s] # "gone"
  BY <1>2, <1>3 DEF LocksKept, rows, PipelineInv, Tables, RowsExist
<1> QED
  BY <1>2, <1>9, <1>10, <1>13, <1>14, <1>15, <1>16, <1>17, <1>18, StoreStep DEF TypeOK, rows

\* The end of a target's transaction leaves the cleanup with nothing to rely on.
LEMMA NextTargetOwn ==
  ASSUME TypeOK, role' = role, NEW c \in Cleaners, NextTarget(c)
  PROVE  /\ Moves(c) /\ Own(c)' /\ LocksKept(c) /\ pc'[c] \in {"idle", "purging"}
         /\ \A s \in Sessions : sessionRow'[s] # c
         /\ sessionRow' \in [Sessions -> Procs \cup {None}]
         /\ batchRow' \in [Batches -> Procs \cup {None}]
<1>1. PICK rest : rest = run[c].sessions \ {Target(c)}
  OBVIOUS
<1>2. PICK r : r = [NoRun EXCEPT !.sessions = rest]
  OBVIOUS
<1>3. PICK l \in {"idle", "purging"} : l = IF rest = {} THEN "idle" ELSE "purging"
  OBVIOUS
<1>4. c \in Procs /\ run[c] \in Runs /\ rest \in SUBSET Sessions /\ l \in Labels
  BY <1>1, RolesApart, RunFields DEF TypeOK, Labels
<1>5. r \in Runs /\ r.sessions = rest
  BY <1>2, <1>4, NoRunType, RunSet, RunGet
<1>6. Release(c) /\ Goto(c, l) /\ run' = [run EXCEPT ![c] = r]
  BY <1>1, <1>2, <1>3 DEF NextTarget
<1>7. Moves(c) /\ pc'[c] = l /\ run'[c] = r
  BY <1>4, <1>5, <1>6, StepMoves
<1>8. Placed(c)'
  BY <1>3, <1>5, <1>7, RolesKept DEF Placed, Claimed, Purged
<1>9. LockedSessions(c)' = {}
  BY <1>4, <1>6, ReleaseGives
<1>10. Own(c)'
  BY <1>3, <1>7, <1>8, <1>9
  DEF Own, SessionsHeld, BatchReady, UpgradeReady, PurgeReady, Upgraded, Claimed, Purged, Shared,
      Deleted, Gathered
<1> QED
  BY <1>4, <1>6, <1>7, <1>10, ReleaseGives

\* The rows of the session, its memberships and its emptied batches go at once.
LEMMA CommitPurgeKept ==
  ASSUME PipelineInv, NEW c \in Procs, CommitPurge(c)
  PROVE  Kept(c)
<1>1. PICK t : t = Target(c)
  OBVIOUS
<1>2. PICK E : E = run[c].emptied
  OBVIOUS
<1>3. pc[c] = "erasing" /\ TypeOK /\ Own(c) /\ role' = role /\ NextTarget(c)
  BY DEF CommitPurge, PipelineInv
<1>4. /\ c \in Cleaners /\ c \notin Loops /\ c # None /\ run[c] \in Runs
      /\ t \in Sessions /\ sessionRow[t] = c /\ run[c].batches \subseteq Batches
      /\ run[c].batches = {b \in Batches : t \in members[b]}
      /\ \A b \in run[c].batches : batchRow[b] = c /\ jobs[b] # "running"
      /\ stamping[t] \notin Underway
  BY <1>1, <1>3, PurgeFacts DEF Deleted
<1>5. /\ t \in begun /\ InScope("sessions", t) = {} /\ t \notin strays
      /\ E = {b \in run[c].batches : members[b] = {t}}
      /\ \A b \in E : InScope("merkle", b) = {}
  BY <1>1, <1>2, <1>3 DEF Own, PurgeReady
<1>6. /\ life' = [life EXCEPT ![t] = "gone"]
      /\ members' = [b \in Batches |-> members[b] \ {t}]
      /\ attestations' = [attestations EXCEPT ![t] = <<>>]
      /\ anchoring' = [anchoring EXCEPT ![t] = "not_submitted"]
      /\ batches' = [b \in Batches |-> IF b \in E THEN "deleted" ELSE batches[b]]
      /\ complements' = [b \in Batches |-> IF b \in E THEN <<>> ELSE complements[b]]
      /\ jobs' = [b \in Batches |-> IF b \in E THEN "absent" ELSE jobs[b]]
      /\ \A s \in Sessions : stamping'[s] \in Underway => s # t /\ stamping[s] \in Underway
      /\ stamping' \in [Sessions -> {"none", "queued", "asked", "running", "held"}]
      /\ UNCHANGED <<role, anchors, ended, cleared, expired, withheld, objects, strays, begun, faults>>
  BY <1>1, <1>2, <1>3, <1>4 DEF CommitPurge, store, TypeOK, Underway
<1>7. /\ Moves(c) /\ Own(c)' /\ LocksKept(c) /\ pc'[c] \in {"idle", "purging"}
      /\ \A s \in Sessions : sessionRow'[s] # c
      /\ sessionRow' \in [Sessions -> Procs \cup {None}]
      /\ batchRow' \in [Batches -> Procs \cup {None}]
  BY <1>3, <1>4, NextTargetOwn
<1>8. TypeOK'
  <2>1. life' \in [Sessions -> {"open", "finalized", "gone"}]
    BY <1>3, <1>4, <1>6 DEF TypeOK
  <2>2. attestations' \in [Sessions -> Seq(Told)] /\ anchoring' \in [Sessions -> BatchStatuses]
    BY <1>3, <1>4, <1>6 DEF TypeOK, BatchStatuses
  <2>3. /\ batches' \in [Batches -> BatchStatuses \cup {"unused", "deleted"}]
        /\ members' \in [Batches -> SUBSET Sessions]
        /\ complements' \in [Batches -> Seq(Upgrades)] /\ jobs' \in [Batches -> JobStatuses]
    BY <1>3, <1>4, <1>5, <1>6 DEF TypeOK, JobStatuses
  <2>4. run' \in [Procs -> Runs] /\ pc' \in [Procs -> Labels]
    BY <1>7 DEF Moves
  <2> QED
    BY <1>3, <1>6, <1>7, <2>1, <2>2, <2>3, <2>4 DEF TypeOK
<1>9. RowsKept(c)
  <2>1. \A s \in Sessions : life'[s] = life[s] \/ sessionRow[s] \in {None, c}
    BY <1>3, <1>4, <1>6 DEF TypeOK
  <2>2. \A s \in Sessions, b \in Batches :
          sessionRow[s] # c /\ sessionRow[s] # None => (s \in members'[b] <=> s \in members[b])
    BY <1>4, <1>6
  <2>3. ASSUME NEW b \in Batches, Exists(b), batchRow[b] # c
        PROVE  members'[b] = members[b] /\ complements'[b] = complements[b] /\ Exists(b)'
    <3>1. t \notin members[b] /\ b \notin E
      BY <1>4, <1>5, <2>3
    <3> QED
      BY <1>6, <2>3, <3>1 DEF Exists
  <2> QED
    BY <1>6, <2>1, <2>2, <2>3 DEF RowsKept
<1>10. JobsKept(c) /\ StoreKept(c)
  BY <1>4, <1>5, <1>6 DEF JobsKept, StoreKept
<1>11. ClaimedOnce'
  BY <1>4, <1>7, ClaimedKept
<1>12. RowsExist'
  <2>1. ASSUME NEW s \in Sessions, sessionRow'[s] # None PROVE life'[s] # "gone"
    <3>1. sessionRow[s] = sessionRow'[s] /\ s # t
      BY <1>4, <1>7, <2>1 DEF LocksKept
    <3> QED
      BY <1>3, <1>4, <1>6, <2>1, <3>1 DEF PipelineInv, Tables, RowsExist, TypeOK
  <2>2. ASSUME NEW s \in Sessions, stamping'[s] \in Underway PROVE life'[s] = "finalized"
    BY <1>3, <1>6, <2>2 DEF PipelineInv, Tables, RowsExist, TypeOK
  <2> QED
    BY <2>1, <2>2 DEF RowsExist
<1>13. UnusedBlank'
  <2>1. UnusedBlank
    BY DEF PipelineInv, Tables, Records
  <2>2. ASSUME NEW b \in Unused' PROVE b \in Unused /\ b \notin E /\ b \in Batches
    BY <1>6, <2>2 DEF Unused
  <2>3. \A s \in Sessions : attestations'[s] = attestations[s] \/ attestations'[s] = <<>>
    BY <1>3, <1>4, <1>6 DEF TypeOK
  <2> QED
    BY <1>6, <2>1, <2>2, <2>3 DEF UnusedBlank
<1>14. PurgedLeaveNothing'
  <2>1. PurgedLeaveNothing
    BY DEF PipelineInv, Tables, Records
  <2>2. ASSUME NEW s \in Sessions, life'[s] = "gone"
        PROVE  InScope("sessions", s)' = {} /\ s \notin strays' /\ \A b \in Batches : s \notin members'[b]
    <3>1. InScope("sessions", s)' = InScope("sessions", s)
      BY <1>6 DEF InScope
    <3>2. CASE s = t
      BY <1>5, <1>6, <3>1, <3>2
    <3>3. CASE s # t
      <4>1. life[s] = "gone"
        BY <1>3, <1>4, <1>6, <2>2, <3>3 DEF TypeOK
      <4> QED
        BY <1>6, <2>1, <3>1, <4>1 DEF PurgedLeaveNothing
    <3> QED
      BY <3>2, <3>3
  <2>3. ASSUME NEW b \in Batches
        PROVE  (Exists(b)' <=> members'[b] # {}) /\ (batches'[b] = "deleted" => InScope("merkle", b)' = {})
    <3>1. InScope("merkle", b)' = InScope("merkle", b)
      BY <1>6 DEF InScope
    <3>2. CASE b \in E
      BY <1>5, <1>6, <3>1, <3>2 DEF Exists
    <3>3. CASE b \notin E
      <4>1. Exists(b)' = Exists(b) /\ batches'[b] = batches[b]
        BY <1>6, <3>3 DEF Exists
      <4>2. members[b] # {t}
        BY <1>4, <1>5, <3>3
      <4>3. members'[b] # {} <=> members[b] # {}
        BY <1>6, <4>2
      <4> QED
        BY <2>1, <3>1, <4>1, <4>3 DEF PurgedLeaveNothing
    <3> QED
      BY <3>2, <3>3
  <2> QED
    BY <2>2, <2>3 DEF PurgedLeaveNothing
<1>15. ComplementsAttested'
  <2>1. ComplementsAttested
    BY DEF PipelineInv, Tables, Records
  <2>2. ASSUME NEW b \in Batches, NEW s \in members'[b]
        PROVE  /\ s \in members[b] /\ attestations'[s] = attestations[s]
               /\ complements'[b] = complements[b]
    <3>1. s \in members[b] /\ s # t /\ s \in Sessions /\ b \notin E
      BY <1>3, <1>5, <1>6, <2>2 DEF TypeOK
    <3> QED
      BY <1>3, <1>6, <3>1 DEF TypeOK
  <2>3. \A b \in Batches : complements'[b] = complements[b] \/ complements'[b] = <<>>
    BY <1>6
  <2> QED
    BY <2>1, <2>2, <2>3 DEF ComplementsAttested
<1>16. RetainedProofsVerify'
  <2>1. RetainedProofsVerify
    BY DEF PipelineInv, Tables, Records
  <2>2. ASSUME NEW b \in Batches, NEW s \in members'[b]
        PROVE  s \in members[b] /\ complements'[b] = complements[b]
    BY <1>5, <1>6, <2>2
  <2> QED
    BY <1>6, <2>1, <2>2 DEF RetainedProofsVerify, InScope
<1> QED
  BY <1>7, <1>8, <1>9, <1>10, <1>11, <1>12, <1>13, <1>14, <1>15, <1>16
  DEF Kept, Guarantee, Tables, Records

-----------------------------------------------------------------------------
(***************************************************************************)
(* The environment.                                                        *)
(***************************************************************************)
Undisturbed == TypeOK' /\ Guarantee(None) /\ Tables'

\* A session is finalized, ...
LEMMA FinalizeKept ==
  ASSUME PipelineInv, NEW s \in Sessions, Finalize(s)
  PROVE  Undisturbed
<1>1. /\ TypeOK /\ sessionRow[s] = None /\ life[s] = "open"
      /\ life' = [life EXCEPT ![s] = "finalized"]
      /\ UNCHANGED <<role, anchors, cleared, expired, withheld, stamping, ledger, jobs, store, rows, pc, run,
                     begun, faults>>
  BY DEF Finalize, PipelineInv
<1>2. Cardinality({t \in Sessions : ended[t] # 0}) + 1 \in Nat
  BY PipelineAssumption, FS_Subset, FS_CardinalityType
<1>3. ended' \in [Sessions -> Nat]
  BY <1>1, <1>2 DEF Finalize, TypeOK
<1>4. TypeOK'
  BY <1>1, <1>3 DEF TypeOK, ledger, store, rows
<1>5. Guarantee(None)
  BY <1>1 DEF Guarantee, Moves, LocksKept, RowsKept, JobsKept, StoreKept, TypeOK, ledger, store,
              rows, Exists
<1>6. ClaimedOnce'
  BY <1>1, RolesKept DEF PipelineInv, Tables, ClaimedOnce
<1>7. \A t \in Sessions : /\ life'[t] = "gone" <=> life[t] = "gone"
                          /\ life[t] = "finalized" => life'[t] = "finalized"
  BY <1>1 DEF TypeOK
<1>8. RowsExist'
  BY <1>1, <1>7 DEF PipelineInv, Tables, RowsExist, rows
<1>9. UnusedBlank' /\ ComplementsAttested'
  BY <1>1 DEF PipelineInv, Tables, Records, UnusedBlank, Unused, ComplementsAttested, ledger
<1>10. PurgedLeaveNothing'
  BY <1>1, <1>7 DEF PipelineInv, Tables, Records, PurgedLeaveNothing, InScope, Exists, ledger, store
<1>11. RetainedProofsVerify'
  BY <1>1 DEF PipelineInv, Tables, Records, RetainedProofsVerify, InScope, ledger, store
<1> QED
  BY <1>4, <1>5, <1>6, <1>8, <1>9, <1>10, <1>11 DEF Undisturbed, Tables, Records

\* ... its recorded objects are cleared, ...
LEMMA ClearKept ==
  ASSUME PipelineInv, NEW s \in Sessions, Clear(s)
  PROVE  Undisturbed
<1>1. /\ TypeOK /\ cleared' = cleared \cup {s} /\ strays' = strays \ {s}
      /\ objects' = {o \in objects : ~(o.scope = "sessions" /\ o.owner = s)}
      /\ UNCHANGED <<role, anchors, life, ended, expired, withheld, stamping, ledger, jobs, rows, pc, run,
                     begun, faults>>
  BY DEF Clear, PipelineInv, InScope
<1>2. TypeOK'
  BY <1>1 DEF TypeOK, ledger, rows
<1>3. Guarantee(None)
  BY <1>1 DEF Guarantee, Moves, LocksKept, RowsKept, JobsKept, StoreKept, TypeOK, ledger, rows,
              Exists
<1>4. ClaimedOnce'
  BY <1>1, RolesKept DEF PipelineInv, Tables, ClaimedOnce
<1>5. RowsExist' /\ UnusedBlank' /\ ComplementsAttested'
  BY <1>1 DEF PipelineInv, Tables, Records, RowsExist, UnusedBlank, Unused, ComplementsAttested,
              ledger, rows
<1>6. PurgedLeaveNothing'
  BY <1>1 DEF PipelineInv, Tables, Records, PurgedLeaveNothing, InScope, Exists, ledger
<1>7. RetainedProofsVerify'
  <2>1. RetainedProofsVerify
    BY DEF PipelineInv, Tables, Records
  <2>2. \A t \in Sessions : t # s => InScope("sessions", t) \subseteq InScope("sessions", t)'
    BY <1>1 DEF InScope
  <2>3. \A b : InScope("merkle", b) \subseteq InScope("merkle", b)'
    BY <1>1 DEF InScope
  <2>4. \A b, n, x : UpgradeObject(b, n, x) \in objects => UpgradeObject(b, n, x) \in objects'
    BY <1>1 DEF UpgradeObject
  <2> QED
    BY <1>1, <2>1, <2>2, <2>3, <2>4 DEF RetainedProofsVerify, UpgradeObject, ledger
<1> QED
  BY <1>2, <1>3, <1>4, <1>5, <1>6, <1>7 DEF Undisturbed, Tables, Records

\* ... or its retention ends, or what became of it is written down, ...
LEMMA ExpireKept ==
  ASSUME PipelineInv, NEW s \in Sessions, Expire(s) \/ FailExpiry(s) \/ Restore(s)
  PROVE  Undisturbed
<1>1. /\ TypeOK /\ expired' \subseteq cleared /\ withheld' \subseteq Sessions /\ faults' \in Nat
      /\ UNCHANGED <<role, anchors, life, ended, cleared, stamping, ledger, jobs, store, rows, pc,
                     run, begun>>
  BY DEF Expire, FailExpiry, Restore, PipelineInv, TypeOK
<1>2. TypeOK'
  BY <1>1 DEF TypeOK, ledger, store, rows
<1>3. Guarantee(None)
  BY <1>1 DEF Guarantee, Moves, LocksKept, RowsKept, JobsKept, StoreKept, TypeOK, ledger, store,
              rows, Exists
<1>4. ClaimedOnce'
  BY <1>1, RolesKept DEF PipelineInv, Tables, ClaimedOnce
<1>5. RowsExist'
  BY <1>1 DEF PipelineInv, Tables, RowsExist, rows
<1>6. Records'
  BY <1>1, RecordsKept DEF PipelineInv, Tables
<1> QED
  BY <1>2, <1>3, <1>4, <1>5, <1>6 DEF Undisturbed, Tables

\* ... or its timestamp goes on: it is not begun under a purge, and what it
\* stores goes to a session that stays and that nobody has locked, ...
LEMMA StampStep ==
  ASSUME PipelineInv, NEW s \in Sessions,
         NEW state \in {"none", "queued", "running", "held"}, Stamp(s, state),
         state \in Underway => life[s] = "finalized" /\ ~StampLocked(s),
         strays' = strays \/ (strays' = strays \cup {s} /\ sessionRow[s] = None /\ life[s] # "gone"),
         faults' \in Nat
  PROVE  Undisturbed
<1>1. /\ TypeOK /\ stamping' = [stamping EXCEPT ![s] = state]
      /\ strays \subseteq strays' /\ strays' \subseteq Sessions
      /\ \A t \in strays' \ strays : sessionRow[t] = None /\ life[t] # "gone"
      /\ UNCHANGED <<role, anchors, life, ended, cleared, expired, withheld, ledger, jobs, objects,
                     rows, pc, run, begun>>
  BY DEF Stamp, PipelineInv, TypeOK
<1>2. TypeOK'
  BY <1>1 DEF TypeOK, ledger, rows
<1>3. Guarantee(None)
  <2>1. \A t \in Sessions : stamping'[t] \in Underway => stamping[t] \in Underway \/ ~StampLocked(t)
    BY <1>1 DEF TypeOK
  <2> QED
    BY <1>1, <2>1 DEF Guarantee, Moves, LocksKept, RowsKept, JobsKept, StoreKept, TypeOK, ledger,
                      rows, Exists
<1>4. ClaimedOnce'
  BY <1>1, RolesKept DEF PipelineInv, Tables, ClaimedOnce
<1>5. RowsExist'
  BY <1>1 DEF PipelineInv, Tables, RowsExist, rows, TypeOK
<1>6. UnusedBlank' /\ ComplementsAttested' /\ RetainedProofsVerify'
  BY <1>1 DEF PipelineInv, Tables, Records, UnusedBlank, Unused, ComplementsAttested,
              RetainedProofsVerify, InScope, ledger
<1>7. PurgedLeaveNothing'
  BY <1>1 DEF PipelineInv, Tables, Records, PurgedLeaveNothing, InScope, Exists, ledger
<1> QED
  BY <1>2, <1>3, <1>4, <1>5, <1>6, <1>7 DEF Undisturbed, Tables, Records

\* ... whatever the worker, a request or PostgreSQL does about it.
LEMMA StampKept ==
  ASSUME PipelineInv, NEW s \in Sessions,
         TakeStamp(s) \/ FinishStamp(s) \/ FailStamp(s) \/ CancelStamp(s)
  PROVE  Undisturbed
<1>1. TypeOK /\ faults \in Nat /\ (stamping[s] \in Underway => life[s] # "gone")
  BY DEF PipelineInv, TypeOK, Tables, RowsExist
<1>2. CASE TakeStamp(s)
  BY <1>1, <1>2, StampStep DEF TakeStamp
<1>3. CASE FinishStamp(s)
  BY <1>1, <1>3, StampStep DEF FinishStamp, Underway
<1>4. CASE FailStamp(s)
  <2>1. strays' = strays \/ (strays' = strays \cup {s} /\ sessionRow[s] = None)
    BY <1>4 DEF FailStamp
  <2> QED
    BY <1>1, <1>4, <2>1, StampStep DEF FailStamp, Underway
<1>5. CASE CancelStamp(s)
  BY <1>1, <1>5, StampStep DEF CancelStamp, Underway
<1> QED
  BY <1>2, <1>3, <1>4, <1>5

-----------------------------------------------------------------------------
(***************************************************************************)
(* What the attestations of a member tell.                                 *)
(***************************************************************************)
Of(told, b) == {i \in DOMAIN told : told[i].batch = b}

\* ComplementsAttested of one batch and of one member.
Improving(list) == \A i, j \in DOMAIN list : i < j => list[i].content < list[j].content
Attested(told, list, b) ==
  /\ {told[i].number : i \in Of(told, b)} = 0 .. Len(list)
  /\ \A i, j \in Of(told, b) : i < j => told[i].number < told[j].number
  /\ \A i \in Of(told, b) : told[i].number > 0 => told[i].status = list[told[i].number].status

\* What the members of each batch were told, batch by batch.
LEMMA AttestedPointwise ==
  ComplementsAttested <=>
    \A b \in Batches : /\ Improving(complements[b])
                       /\ \A s \in members[b] : Attested(attestations[s], complements[b], b)
BY DEF ComplementsAttested, Improving, Attested, Of

\* One more entry.
LEMMA OneMore ==
  ASSUME NEW told \in Seq(Told), NEW e \in Told, NEW b
  PROVE  LET q == Append(told, e)
         IN  /\ Len(q) = Len(told) + 1 /\ q[Len(told) + 1] = e /\ Len(told) \in Nat
             /\ Of(told, b) \subseteq 1 .. Len(told)
             /\ \A i \in Of(told, b) : q[i] = told[i]
             /\ Of(q, b) = IF e.batch = b THEN Of(told, b) \cup {Len(told) + 1} ELSE Of(told, b)
<1>1. PICK q : q = Append(told, e)
  OBVIOUS
<1>2. /\ DOMAIN told = 1 .. Len(told) /\ DOMAIN q = 1 .. Len(told) + 1 /\ Len(told) \in Nat
      /\ Len(q) = Len(told) + 1 /\ q[Len(told) + 1] = e
      /\ \A i \in 1 .. Len(told) : q[i] = told[i]
  BY <1>1
<1>3. Of(told, b) \subseteq 1 .. Len(told)
  BY <1>2 DEF Of
<1>4. \A i : i \in 1 .. Len(told) + 1 <=> i \in 1 .. Len(told) \/ i = Len(told) + 1
  BY <1>2
<1>5. ~(Len(told) + 1 \in 1 .. Len(told))
  BY <1>2
<1>6. \A i : i \in Of(q, b) <=> i \in Of(told, b) \/ (i = Len(told) + 1 /\ e.batch = b)
  BY <1>2, <1>4, <1>5 DEF Of
<1>7. Of(q, b) = IF e.batch = b THEN Of(told, b) \cup {Len(told) + 1} ELSE Of(told, b)
  BY <1>6
<1> QED
  BY <1>1, <1>2, <1>3, <1>7

\* An attestation of another batch tells nothing of b.
LEMMA AttestedOther ==
  ASSUME NEW told \in Seq(Told), NEW e \in Told, NEW list, NEW b, e.batch # b,
         Attested(told, list, b)
  PROVE  Attested(Append(told, e), list, b)
<1>1. PICK q : q = Append(told, e)
  OBVIOUS
<1>2. /\ Of(q, b) = Of(told, b) /\ \A i \in Of(told, b) : q[i] = told[i]
  BY <1>1, OneMore
<1>3. {q[i].number : i \in Of(q, b)} = {told[i].number : i \in Of(told, b)}
  BY <1>2
<1>4. Attested(q, list, b)
  BY <1>2, <1>3 DEF Attested
<1> QED
  BY <1>1, <1>4

\* The first attestation of a batch.
LEMMA AttestedFirst ==
  ASSUME NEW told \in Seq(Told), NEW e \in Told, NEW b, Of(told, b) = {}, e.batch = b, e.number = 0
  PROVE  Attested(Append(told, e), <<>>, b)
<1>1. PICK q : q = Append(told, e)
  OBVIOUS
<1>2. Of(q, b) = {Len(told) + 1} /\ q[Len(told) + 1] = e /\ Len(told) \in Nat
  BY <1>1, OneMore
<1>3. {q[i].number : i \in Of(q, b)} = {0}
  BY <1>2
<1>4. 0 .. Len(<<>>) = {0}
  OBVIOUS
<1>5. Attested(q, <<>>, b)
  BY <1>2, <1>3, <1>4 DEF Attested
<1> QED
  BY <1>1, <1>5

\* The attestation of the next complement.
LEMMA AttestedNext ==
  ASSUME NEW told \in Seq(Told), NEW e \in Told, NEW list \in Seq(Upgrades), NEW x \in Upgrades,
         NEW b, e.batch = b, e.number = Len(list) + 1, e.status = x.status, Attested(told, list, b)
  PROVE  Attested(Append(told, e), Append(list, x), b)
<1>1. PICK q : q = Append(told, e)
  OBVIOUS
<1>2. PICK more : more = Append(list, x)
  OBVIOUS
<1>3. PICK n : n = Len(told)
  OBVIOUS
<1>4. /\ Of(q, b) = Of(told, b) \cup {n + 1} /\ q[n + 1] = e /\ n \in Nat
      /\ Of(told, b) \subseteq 1 .. n /\ \A i \in Of(told, b) : q[i] = told[i]
  BY <1>1, <1>3, OneMore
<1>5. /\ Len(more) = Len(list) + 1 /\ Len(list) \in Nat /\ more[Len(list) + 1] = x
      /\ \A i \in 1 .. Len(list) : more[i] = list[i]
  BY <1>2
<1>6. \A i \in Of(told, b) : told[i].number \in 0 .. Len(list)
  BY DEF Attested
<1>7. {q[i].number : i \in Of(q, b)} = {told[i].number : i \in Of(told, b)} \cup {Len(list) + 1}
  BY <1>4
<1>8. 0 .. Len(list) + 1 = (0 .. Len(list)) \cup {Len(list) + 1}
  BY <1>5
<1>9. {q[i].number : i \in Of(q, b)} = 0 .. Len(more)
  BY <1>5, <1>7, <1>8 DEF Attested
<1>10. ASSUME NEW i \in Of(q, b), NEW j \in Of(q, b), i < j
       PROVE  q[i].number < q[j].number
  <2>1. CASE j = n + 1
    <3>1. i \in Of(told, b)
      BY <1>4, <1>10, <2>1
    <3> QED
      BY <1>4, <1>5, <1>6, <2>1, <3>1
  <2>2. CASE j # n + 1
    <3>1. i \in Of(told, b) /\ j \in Of(told, b)
      BY <1>4, <1>10, <2>2
    <3> QED
      BY <1>4, <1>10, <3>1 DEF Attested
  <2> QED
    BY <2>1, <2>2
<1>11. ASSUME NEW i \in Of(q, b), q[i].number > 0
       PROVE  q[i].status = more[q[i].number].status
  <2>1. CASE i = n + 1
    BY <1>4, <1>5, <2>1
  <2>2. CASE i # n + 1
    <3>1. i \in Of(told, b) /\ q[i] = told[i]
      BY <1>4, <1>11, <2>2
    <3>2. told[i].number \in 1 .. Len(list)
      BY <1>5, <1>6, <1>11, <3>1
    <3> QED
      BY <1>5, <1>11, <3>1, <3>2 DEF Attested
  <2> QED
    BY <2>1, <2>2
<1>12. Attested(q, more, b)
  BY <1>9, <1>10, <1>11 DEF Attested
<1> QED
  BY <1>1, <1>2, <1>12

\* A complement that adds to the last improves on all of them.
LEMMA ImprovingNext ==
  ASSUME NEW list \in Seq(Upgrades), NEW x \in Upgrades, Improving(list),
         list = <<>> \/ list[Len(list)].content < x.content
  PROVE  Improving(Append(list, x))
<1>1. PICK more : more = Append(list, x)
  OBVIOUS
<1>2. /\ Len(more) = Len(list) + 1 /\ Len(list) \in Nat /\ more[Len(list) + 1] = x
      /\ DOMAIN more = 1 .. Len(list) + 1 /\ DOMAIN list = 1 .. Len(list)
      /\ \A i \in 1 .. Len(list) : more[i] = list[i]
  BY <1>1
<1>3. \A i \in 1 .. Len(list) : list[i].content \in Nat
  <2>1. \A i \in 1 .. Len(list) : list[i] \in Upgrades
    OBVIOUS
  <2> QED
    BY <2>1, PipelineConstants DEF Upgrades
<1>4. x.content \in Nat
  BY PipelineConstants DEF Upgrades
<1>5. ASSUME NEW i \in DOMAIN more, NEW j \in DOMAIN more, i < j
      PROVE  more[i].content < more[j].content
  <2>1. CASE j = Len(list) + 1
    <3>1. i \in 1 .. Len(list) /\ Len(list) \in 1 .. Len(list) /\ list # <<>>
      BY <1>2, <1>5, <2>1
    <3>2. list[i].content < x.content
      <4>1. CASE i = Len(list)
        BY <3>1, <4>1
      <4>2. CASE i # Len(list)
        BY <1>2, <1>3, <1>4, <3>1, <4>2 DEF Improving
      <4> QED
        BY <4>1, <4>2
    <3> QED
      BY <1>2, <2>1, <3>1, <3>2
  <2>2. CASE j # Len(list) + 1
    <3>1. i \in 1 .. Len(list) /\ j \in 1 .. Len(list)
      BY <1>2, <1>5, <2>2
    <3> QED
      BY <1>2, <1>5, <3>1 DEF Improving
  <2> QED
    BY <2>1, <2>2
<1>6. Improving(more)
  BY <1>5 DEF Improving
<1> QED
  BY <1>1, <1>6

-----------------------------------------------------------------------------
(***************************************************************************)
(* The commits that write records.                                         *)
(***************************************************************************)
Entry(b, n, v) == [batch |-> b, number |-> n, status |-> v]

\* A row of attestations.
LEMMA EntryType ==
  ASSUME NEW b \in Batches, NEW n \in Nat, NEW v \in BatchStatuses
  PROVE  /\ Entry(b, n, v) \in Told /\ Entry(b, n, v).batch = b
         /\ Entry(b, n, v).number = n /\ Entry(b, n, v).status = v
BY DEF Told, Entry

\* The sessions of a batch get one row each.
LEMMA AttestGives ==
  ASSUME NEW S, NEW b, NEW n, NEW v, Attest(S, b, n, v)
  PROVE  \A s \in Sessions :
           /\ s \in S => attestations'[s] = Append(attestations[s], Entry(b, n, v))
           /\ s \notin S => attestations'[s] = attestations[s]
BY DEF Attest, Entry

\* A batch that was never made stays without trace in the attestations of another.
LEMMA UnusedKept ==
  ASSUME PipelineInv, NEW S, NEW b \in Batches, NEW n \in Nat, NEW v \in BatchStatuses,
         Attest(S, b, n, v), Unused' \subseteq Unused \ {b},
         \A c \in Batches \ {b} : complements'[c] = complements[c]
  PROVE  UnusedBlank'
<1>1. PICK e : e = Entry(b, n, v)
  OBVIOUS
<1>2. /\ e \in Told /\ e.batch = b
      /\ \A s \in Sessions :
           /\ s \in S => attestations'[s] = Append(attestations[s], e)
           /\ s \notin S => attestations'[s] = attestations[s]
  <2>1. Entry(b, n, v) \in Told /\ Entry(b, n, v).batch = b
    BY EntryType
  <2>2. \A s \in Sessions :
          /\ s \in S => attestations'[s] = Append(attestations[s], Entry(b, n, v))
          /\ s \notin S => attestations'[s] = attestations[s]
    BY AttestGives, Zenon
  <2> QED
    BY <1>1, <2>1, <2>2
<1>3. \A s \in Sessions : attestations[s] \in Seq(Told)
  BY DEF PipelineInv, TypeOK
<1>4. ASSUME NEW c \in Unused', NEW s \in Sessions, NEW i \in DOMAIN attestations'[s]
      PROVE  attestations'[s][i].batch # c
  <2>1. c \in Unused /\ c # b
    BY <1>4
  <2>2. \A j \in DOMAIN attestations[s] : attestations[s][j].batch # c
    BY <2>1 DEF PipelineInv, Tables, Records, UnusedBlank
  <2>3. CASE s \in S
    <3>1. attestations'[s] = Append(attestations[s], e)
      BY <1>2, <2>3
    <3>2. Of(attestations'[s], c) = Of(attestations[s], c)
      BY <1>2, <1>3, <2>1, <3>1, OneMore
    <3>3. Of(attestations[s], c) = {}
      BY <2>2 DEF Of
    <3> QED
      BY <1>4, <3>2, <3>3 DEF Of
  <2>4. CASE s \notin S
    BY <1>2, <1>4, <2>2, <2>4
  <2> QED
    BY <2>3, <2>4
<1>5. \A c \in Unused' : complements'[c] = <<>>
  <2>1. \A c \in Unused' : c \in Unused /\ c \in Batches \ {b}
    BY DEF Unused
  <2> QED
    BY <2>1 DEF PipelineInv, Tables, Records, UnusedBlank
<1> QED
  BY <1>4, <1>5 DEF UnusedBlank

\* The members of other batches are not told anything of theirs.
LEMMA OtherMembersKept ==
  ASSUME PipelineInv, NEW S, NEW b \in Batches, NEW n \in Nat, NEW v \in BatchStatuses,
         Attest(S, b, n, v), NEW c \in Batches \ {b},
         complements'[c] = complements[c], members'[c] = members[c]
  PROVE  /\ Improving(complements'[c])
         /\ \A s \in members'[c] : Attested(attestations'[s], complements'[c], c)
<1>1. PICK e : e = Entry(b, n, v)
  OBVIOUS
<1>2. /\ e \in Told /\ e.batch = b
      /\ \A s \in Sessions :
           /\ s \in S => attestations'[s] = Append(attestations[s], e)
           /\ s \notin S => attestations'[s] = attestations[s]
  <2>1. Entry(b, n, v) \in Told /\ Entry(b, n, v).batch = b
    BY EntryType
  <2>2. \A s \in Sessions :
          /\ s \in S => attestations'[s] = Append(attestations[s], Entry(b, n, v))
          /\ s \notin S => attestations'[s] = attestations[s]
    BY AttestGives, Zenon
  <2> QED
    BY <1>1, <2>1, <2>2
<1>3. /\ Improving(complements[c]) /\ members[c] \subseteq Sessions
      /\ \A s \in members[c] : Attested(attestations[s], complements[c], c)
  BY AttestedPointwise DEF PipelineInv, Tables, Records, TypeOK
<1>4. ASSUME NEW s \in members[c] PROVE Attested(attestations'[s], complements[c], c)
  <2>1. s \in Sessions /\ attestations[s] \in Seq(Told) /\ Attested(attestations[s], complements[c], c)
    BY <1>3 DEF PipelineInv, TypeOK
  <2>2. CASE s \in S
    <3>1. attestations'[s] = Append(attestations[s], e)
      BY <1>2, <2>1, <2>2
    <3> QED
      BY <1>2, <2>1, <3>1, AttestedOther
  <2>3. CASE s \notin S
    <3>1. attestations'[s] = attestations[s]
      BY <1>2, <2>1, <2>3
    <3> QED
      BY <2>1, <3>1
  <2> QED
    BY <2>2, <2>3
<1> QED
  BY <1>3, <1>4

\* A complement is recorded with its attestations, under all of their locks.
LEMMA RecordComplementKept ==
  ASSUME PipelineInv, NEW p \in Procs, RecordComplement(p)
  PROVE  Kept(p)
<1>1. PICK b : b = run[p].batch
  OBVIOUS
<1>2. /\ pc[p] = "recording" /\ TypeOK /\ Own(p) /\ role' = role /\ run[p] \in Runs
      /\ p \in Loops \cup Operators /\ b \in Batches /\ jobs' = jobs
      /\ run[p].status \in Verdicts /\ (p \in Loops => jobs[b] = "running")
  BY <1>1
  DEF RecordComplement, PipelineInv, TypeOK, Own, Placed, UpgradeReady, Claimed, site
<1>3. /\ batchRow[b] = p /\ Exists(b) /\ run[p].number = Len(complements[b]) + 1
      /\ run[p].sessions = members[b] /\ run[p].content \in SourceContent(b) + 1 .. Calendars
      /\ UpgradeObject(b, run[p].number, run[p].content) \in objects
  BY <1>1, <1>2 DEF Own, UpgradeReady, Upgraded
<1>4. /\ Loops' = Loops /\ Operators' = Operators /\ p \notin Cleaners /\ p # None
      /\ "settling" \in Labels /\ "done" \in Labels /\ "failing" \in Labels
  BY <1>2, RolesKept, RolesApart, PipelineConstants DEF Labels
<1>5. CASE /\ ~GotAll(p) /\ Goto(p, "failing")
           /\ UNCHANGED <<complements, batches, anchoring, attestations, rows, run>>
  <2>1. pc'[p] = "failing" /\ run'[p] = run[p]
    BY <1>2, <1>5 DEF TypeOK, Goto
  <2>2. Own(p)'
    BY <1>1, <1>2, <1>4, <2>1
    DEF Own, Placed, SessionsHeld, BatchReady, UpgradeReady, PurgeReady, Upgraded, Claimed, Purged,
        Shared, Deleted, Gathered
  <2>3. UNCHANGED <<site, ledger, jobs, store, rows, begun, faults>>
    BY <1>5 DEF RecordComplement, ledger
  <2> QED
    BY <1>2, <1>4, <1>5, <2>2, <2>3, SilentStep DEF Claimed
<1>6. CASE GotAll(p)
  <2>1. PICK S : S = members[b]
    OBVIOUS
  <2>2. PICK n : n = run[p].number
    OBVIOUS
  <2>3. PICK v \in Verdicts : v = run[p].status
    BY <1>2
  <2>4. PICK x : x = [content |-> run[p].content, status |-> v]
    OBVIOUS
  <2>5. /\ complements' = [complements EXCEPT ![b] = Append(complements[b], x)]
        /\ batches' = [batches EXCEPT ![b] = v]
        /\ anchoring' = [s \in Sessions |-> IF s \in S THEN v ELSE anchoring[s]]
        /\ Attest(S, b, n, v) /\ Release(p)
        /\ \/ p \in Loops /\ Goto(p, "settling") /\ UNCHANGED run
           \/ p \notin Loops /\ Goto(p, "done") /\ run' = [run EXCEPT ![p] = NoRun]
    BY <1>1, <1>2, <1>3, <1>6, <2>1, <2>2, <2>3, <2>4 DEF RecordComplement, TypeOK
  <2>6. UNCHANGED <<site, members, jobs, store, begun, faults>>
    BY DEF RecordComplement
  <2>7. \A s \in S : s \in Sessions /\ sessionRow[s] = p
    BY <1>2, <1>3, <1>4, <1>6, <2>1 DEF GotAll, Wanted, LockedSessions, TypeOK
  <2>8. /\ complements[b] \in Seq(Upgrades) /\ Len(complements[b]) \in Nat
        /\ n = Len(complements[b]) + 1 /\ n \in Nat /\ v \in BatchStatuses
    <3>1. complements[b] \in Seq(Upgrades)
      BY <1>2 DEF TypeOK
    <3> QED
      BY <1>3, <2>2, <3>1 DEF BatchStatuses
  <2>9. x \in Upgrades /\ x.content = run[p].content /\ x.status = v
    <3>1. run[p].content \in 1 .. Calendars
      BY <1>2, <1>3, SourceContentType, PipelineConstants
    <3> QED
      BY <2>4, <3>1 DEF Upgrades
  <2>10. /\ Moves(p)
         /\ \/ p \in Loops /\ pc'[p] = "settling" /\ run'[p] = run[p]
            \/ p \notin Loops /\ pc'[p] = "done"
    <3>1. CASE p \in Loops /\ Goto(p, "settling") /\ UNCHANGED run
      BY <1>2, <1>4, <3>1, StepMoves
    <3>2. CASE p \notin Loops /\ Goto(p, "done") /\ run' = [run EXCEPT ![p] = NoRun]
      BY <1>2, <1>4, <3>2, StepMoves, NoRunType
    <3> QED
      BY <2>5, <3>1, <3>2
  <2>11. /\ LocksKept(p) /\ LockedSessions(p)' = {} /\ \A s \in Sessions : sessionRow'[s] # p
         /\ sessionRow' \in [Sessions -> Procs \cup {None}]
         /\ batchRow' \in [Batches -> Procs \cup {None}]
    BY <1>2, <2>5, ReleaseGives
  <2>12. Own(p)'
    <3>1. CASE p \in Loops /\ pc'[p] = "settling" /\ run'[p] = run[p]
      BY <1>1, <1>2, <1>4, <2>11, <3>1
      DEF Own, Placed, SessionsHeld, BatchReady, UpgradeReady, PurgeReady, Upgraded, Claimed,
          Purged, Shared, Deleted, Gathered
    <3>2. CASE p \notin Loops /\ pc'[p] = "done"
      BY <2>11, <3>2, OwnAtRest DEF Placed, Claimed, Purged
    <3> QED
      BY <2>10, <3>1, <3>2
  <2>13. TypeOK'
    <3>1. attestations' \in [Sessions -> Seq(Told)]
      BY <1>2, <2>5, <2>8, AttestType
    <3>2. complements' \in [Batches -> Seq(Upgrades)]
      <4>1. Append(complements[b], x) \in Seq(Upgrades)
        BY <2>8, <2>9
      <4> QED
        BY <1>2, <2>5, <4>1 DEF TypeOK
    <3>3. /\ batches' \in [Batches -> BatchStatuses \cup {"unused", "deleted"}]
          /\ anchoring' \in [Sessions -> BatchStatuses]
      BY <1>2, <2>5, <2>8 DEF TypeOK
    <3> QED
      BY <1>2, <2>6, <2>10, <2>11, <3>1, <3>2, <3>3 DEF TypeOK, Moves, site, store
  <2>14. \A c \in Batches \ {b} : complements'[c] = complements[c] /\ batches'[c] = batches[c]
    BY <1>2, <2>5 DEF TypeOK
  <2>15. /\ complements'[b] = Append(complements[b], x) /\ batches'[b] = v
         /\ batches[b] # "unused" /\ v \notin {"unused", "deleted"}
    BY <1>2, <1>3, <2>5, PipelineConstants DEF TypeOK, Exists, Pending
  <2>16. \A c \in Batches : Exists(c)' = Exists(c)
    BY <1>3, <2>14, <2>15 DEF Exists
  <2>17. RowsKept(p) /\ JobsKept(p) /\ StoreKept(p)
    BY <1>3, <2>6, <2>14, <2>16 DEF RowsKept, JobsKept, StoreKept, site, store
  <2>18. ClaimedOnce'
    BY <1>2, <2>10, ClaimedKept DEF Claimed
  <2>19. RowsExist'
    BY <1>4, <2>6, <2>11 DEF PipelineInv, Tables, RowsExist, LocksKept, site
  <2>20. UnusedBlank'
    <3>1. Unused' \subseteq Unused \ {b}
      BY <2>14, <2>15 DEF Unused
    <3> QED
      BY <2>5, <2>8, <2>14, <1>2, <3>1, UnusedKept
  <2>21. PurgedLeaveNothing'
    <3>1. PurgedLeaveNothing
      BY DEF PipelineInv, Tables, Records
    <3>2. \A c \in Batches : batches'[c] = "deleted" => batches[c] = "deleted"
      BY <2>14, <2>15
    <3> QED
      BY <2>6, <2>16, <3>1, <3>2 DEF PurgedLeaveNothing, InScope, site, store
  <2>22. ComplementsAttested'
    <3>1. members' = members
      BY <2>6
    <3>2. \A c \in Batches \ {b} :
            /\ Improving(complements'[c])
            /\ \A s \in members'[c] : Attested(attestations'[s], complements'[c], c)
      BY <1>2, <2>5, <2>8, <2>14, <3>1, OtherMembersKept
    <3>3. /\ Improving(complements[b])
          /\ \A s \in S : Attested(attestations[s], complements[b], b)
      BY <1>2, <2>1, AttestedPointwise DEF PipelineInv, Tables, Records
    <3>4. Improving(complements'[b])
      <4>1. complements[b] = <<>> \/ complements[b][Len(complements[b])].content < x.content
        BY <1>2, <1>3, <2>9, SourceContentType DEF SourceContent
      <4> QED
        BY <2>8, <2>9, <2>15, <3>3, <4>1, ImprovingNext
    <3>5. ASSUME NEW s \in S PROVE Attested(attestations'[s], complements'[b], b)
      <4>1. PICK e : e = Entry(b, n, v)
        OBVIOUS
      <4>2. /\ e \in Told /\ e.batch = b /\ e.number = n /\ e.status = v
            /\ \A t \in Sessions : t \in S => attestations'[t] = Append(attestations[t], e)
        <5>1. Attest(S, b, n, v)
          BY <2>5
        <5>2. /\ Entry(b, n, v) \in Told /\ Entry(b, n, v).batch = b
              /\ Entry(b, n, v).number = n /\ Entry(b, n, v).status = v
          BY <1>2, <2>8, EntryType
        <5>3. \A t \in Sessions :
                /\ t \in S => attestations'[t] = Append(attestations[t], Entry(b, n, v))
                /\ t \notin S => attestations'[t] = attestations[t]
          BY <5>1, AttestGives, Zenon
        <5> QED
          BY <4>1, <5>2, <5>3
      <4>3. s \in Sessions /\ attestations[s] \in Seq(Told) /\ attestations'[s] = Append(attestations[s], e)
        BY <1>2, <2>7, <4>2 DEF TypeOK
      <4>4. Attested(Append(attestations[s], e), Append(complements[b], x), b)
        BY <2>8, <2>9, <3>3, <4>2, <4>3, AttestedNext
      <4> QED
        BY <2>15, <4>3, <4>4
    <3>6. \A c \in Batches :
            /\ Improving(complements'[c])
            /\ \A s \in members'[c] : Attested(attestations'[s], complements'[c], c)
      BY <2>1, <3>1, <3>2, <3>4, <3>5
    <3> QED
      BY <3>6 DEF ComplementsAttested, Improving, Attested, Of
  <2>23. RetainedProofsVerify'
    <3>1. RetainedProofsVerify
      BY DEF PipelineInv, Tables, Records
    <3>2. \A i \in DOMAIN complements'[b] :
            \/ i \in DOMAIN complements[b] /\ complements'[b][i] = complements[b][i]
            \/ i = n /\ complements'[b][i] = x
      BY <2>8, <2>15
    <3>3. \A i \in DOMAIN complements[b] :
            UpgradeObject(b, i, complements[b][i].content) \in objects =>
            UpgradeObject(b, i, complements[b][i].content) \in objects'
      BY <2>6 DEF store
    <3>4. UpgradeObject(b, n, x.content) \in objects'
      BY <1>3, <2>2, <2>6, <2>9 DEF store
    <3> QED
      BY <2>6, <2>14, <3>1, <3>2, <3>3, <3>4
      DEF RetainedProofsVerify, InScope, UpgradeObject, site, store
  <2> QED
    BY <2>10, <2>11, <2>12, <2>13, <2>17, <2>18, <2>19, <2>20, <2>21, <2>22, <2>23
    DEF Kept, Guarantee, Tables, Records
<1> QED
  BY <1>5, <1>6 DEF RecordComplement

-----------------------------------------------------------------------------
(***************************************************************************)
(* The sessions of a batch in order, and the proofs made for them.         *)
(***************************************************************************)
Ascending(q) == \A i, j \in DOMAIN q : i < j => q[i] < q[j]

\* A finite set of numbers has an order.
LEMMA InOrderExists ==
  ASSUME NEW n \in Nat
  PROVE  \A S : S \subseteq Nat /\ IsFiniteSet(S) /\ Cardinality(S) = n
           => \E q \in [1 .. n -> S] : Ascending(q)
<1>1. PICK T : T = {m \in Nat : \E S : /\ S \subseteq Nat /\ IsFiniteSet(S) /\ Cardinality(S) = m
                                       /\ ~ \E q \in [1 .. m -> S] : Ascending(q)}
  OBVIOUS
<1>2. T \subseteq Nat
  BY <1>1
<1>3. SUFFICES ASSUME T # {} PROVE FALSE
  BY <1>1
<1>4. PICK m \in T : \A k \in T : m <= k
  BY <1>2, <1>3, LeastNumber
<1>5. PICK S : /\ S \subseteq Nat /\ IsFiniteSet(S) /\ Cardinality(S) = m
               /\ ~ \E q \in [1 .. m -> S] : Ascending(q)
  BY <1>1, <1>4
<1>6. m \in Nat /\ m # 0
  <2>1. m \in Nat
    BY <1>2, <1>4
  <2>2. ASSUME m = 0 PROVE FALSE
    <3>1. PICK q : q = [i \in 1 .. 0 |-> 0]
      OBVIOUS
    <3>2. q \in [1 .. m -> S] /\ Ascending(q)
      BY <2>2, <3>1 DEF Ascending
    <3> QED
      BY <1>5, <3>2
  <2> QED
    BY <2>1, <2>2
<1>7. S # {}
  BY <1>5, <1>6, FS_EmptySet
<1>8. PICK x \in S : \A y \in S : x <= y
  BY <1>5, <1>7, LeastNumber
<1>9. PICK R : R = S \ {x}
  OBVIOUS
<1>10. R \subseteq Nat /\ IsFiniteSet(R) /\ Cardinality(R) = m - 1
  BY <1>5, <1>8, <1>9, FS_RemoveElement
<1>11. m - 1 \in Nat /\ m - 1 \notin T
  BY <1>4, <1>6, <1>2
<1>12. PICK r \in [1 .. m - 1 -> R] : Ascending(r)
  BY <1>1, <1>10, <1>11
<1>13. PICK q : q = [i \in 1 .. m |-> IF i = 1 THEN x ELSE r[i - 1]]
  OBVIOUS
<1>14. /\ q[1] = x
       /\ \A i \in 1 .. m : i # 1 => i - 1 \in 1 .. m - 1 /\ q[i] = r[i - 1] /\ q[i] \in R
  BY <1>6, <1>12, <1>13
<1>15. q \in [1 .. m -> S]
  BY <1>8, <1>9, <1>13, <1>14
<1>16. ASSUME NEW i \in 1 .. m, NEW j \in 1 .. m, i < j PROVE q[i] < q[j]
  <2>1. j # 1 /\ j - 1 \in 1 .. m - 1 /\ q[j] = r[j - 1] /\ q[j] \in R
    BY <1>14, <1>16, <1>6
  <2>2. CASE i = 1
    <3>1. x \in Nat /\ q[j] \in Nat /\ q[j] # x /\ x <= q[j]
      BY <1>5, <1>8, <1>9, <2>1
    <3> QED
      BY <1>14, <2>2, <3>1
  <2>3. CASE i # 1
    <3>1. i - 1 \in 1 .. m - 1 /\ q[i] = r[i - 1] /\ i - 1 < j - 1
      BY <1>6, <1>14, <1>16, <2>3
    <3> QED
      BY <1>12, <2>1, <3>1 DEF Ascending
  <2> QED
    BY <2>2, <2>3
<1>17. Ascending(q)
  BY <1>15, <1>16 DEF Ascending
<1> QED
  BY <1>5, <1>15, <1>17

\* The sessions of a batch, in order, are those sessions.
LEMMA InOrderIs ==
  ASSUME NEW S, S \subseteq Nat, IsFiniteSet(S), S # {}
  PROVE  /\ InOrder(S) \in Seq(S) /\ InOrder(S) # <<>>
         /\ \A s \in S : \E i \in 1 .. Len(InOrder(S)) : InOrder(S)[i] = s
<1>1. PICK n \in Nat \ {0} : n = Cardinality(S)
  BY FS_CardinalityType, FS_EmptySet
<1>2. \E q \in [1 .. n -> S] : Ascending(q)
  BY <1>1, InOrderExists
<1>3. PICK q : q = InOrder(S)
  OBVIOUS
<1>4. q \in [1 .. n -> S] /\ Ascending(q)
  <2>1. InOrder(S) = CHOOSE r \in [1 .. n -> S] : Ascending(r)
    BY <1>1 DEF InOrder, Ascending
  <2> QED
    BY <1>2, <1>3, <2>1
<1>5. q \in Seq(S) /\ Len(q) = n
  BY <1>1, <1>4
<1>6. ASSUME NEW i \in 1 .. n, NEW j \in 1 .. n, q[i] = q[j] PROVE i = j
  <2>1. \A k \in 1 .. n : q[k] \in Nat
    BY <1>4
  <2>2. ~ (q[i] < q[j]) /\ ~ (q[j] < q[i])
    BY <1>6, <2>1
  <2>3. ~ (i < j) /\ ~ (j < i)
    BY <1>4, <2>2 DEF Ascending
  <2> QED
    BY <1>1, <2>3
<1>7. q \in Injection(1 .. n, S)
  BY <1>4, <1>6 DEF Injection, IsInjective
<1>8. Cardinality(1 .. n) = n
  BY <1>1, FS_Interval
<1>9. q \in Surjection(1 .. n, S)
  BY <1>1, <1>7, <1>8, FS_Injection
<1>10. \A s \in S : \E i \in 1 .. n : q[i] = s
  BY <1>9 DEF Surjection
<1> QED
  BY <1>1, <1>3, <1>5, <1>10

\* Every session of a batch gets a proof that verifies against its root.
LEMMA BatchProofs ==
  ASSUME NEW S \in SUBSET Sessions, S # {}
  PROVE  LET proofs == BuildProofs(InOrder(S))
         IN  /\ \A i \in DOMAIN proofs : proofs[i].leaf \in S
             /\ \A s \in S : \E i \in DOMAIN proofs :
                  /\ proofs[i].leaf = s /\ VerifyProof(proofs[i])
                  /\ proofs[i].root = RootHash(InOrder(S))
<1>1. PICK q, proofs : q = InOrder(S) /\ proofs = BuildProofs(q)
  OBVIOUS
<1>2. S \subseteq Nat /\ IsFiniteSet(S)
  BY PipelineAssumption, FS_Subset
<1>3. q \in Seq(S) /\ q # <<>> /\ \A s \in S : \E i \in 1 .. Len(q) : q[i] = s
  BY <1>1, <1>2, InOrderIs
<1>4. /\ DOMAIN proofs = 1 .. Len(q)
      /\ \A i \in 1 .. Len(q) : /\ proofs[i].leaf = q[i] /\ proofs[i].root = RootHash(q)
                                /\ VerifyProof(proofs[i])
  BY <1>1, <1>3, ProofsVerify
<1>5. \A i \in 1 .. Len(q) : q[i] \in S
  BY <1>3
<1> QED
  BY <1>1, <1>3, <1>4, <1>5

-----------------------------------------------------------------------------
\* A batch is made of the sessions that p holds, with a proof for each.
LEMMA CreateBatchKept ==
  ASSUME PipelineInv, NEW p \in Procs, NEW submitted \in BOOLEAN, CreateBatch(p, submitted)
  PROVE  Kept(p)
<1>1. PICK S : S = run[p].sessions
  OBVIOUS
<1>2. PICK b : b = Least(Unused)
  OBVIOUS
<1>3. PICK v \in {Pending, "not_submitted"} : v = IF submitted THEN Pending ELSE "not_submitted"
  OBVIOUS
<1>4. PICK leaves : leaves = InOrder(S)
  OBVIOUS
<1>5. PICK proofs : proofs = BuildProofs(leaves)
  OBVIOUS
<1>6. PICK r : r = [NoRun EXCEPT !.batch = b]
  OBVIOUS
<1>7. /\ pc[p] = "batching" /\ TypeOK /\ Own(p) /\ role' = role /\ p \in Loops \cup Operators
      /\ S \in SUBSET Sessions /\ S # {} /\ p # None
      /\ \A s \in S : sessionRow[s] = p /\ life[s] = "finalized"
  BY <1>1, RunFields, PipelineConstants
  DEF CreateBatch, PipelineInv, TypeOK, Own, Placed, BatchReady, Purged, site
<1>8. b \in Unused /\ b \in Batches /\ batches[b] = "unused"
  <2>1. Unused \subseteq Nat /\ Unused # {}
    BY PipelineConstants DEF CreateBatch, Unused
  <2> QED
    BY <1>2, <2>1, LeastIsLeast DEF Unused
<1>9. v \in BatchStatuses /\ v \notin {"unused", "deleted"} /\ 0 \in Nat
  BY DEF BatchStatuses, Pending
<1>10. /\ batches' = [batches EXCEPT ![b] = v]
       /\ members' = [members EXCEPT ![b] = S]
       /\ anchoring' = [s \in Sessions |-> IF s \in S THEN v ELSE anchoring[s]]
       /\ Attest(S, b, 0, v) /\ Release(p)
       /\ objects' = objects \cup {RootObject(b, leaves)}
                     \cup {ProofObject(b, proofs[i]) : i \in DOMAIN proofs}
       /\ run' = [run EXCEPT ![p] = r]
  BY <1>1, <1>2, <1>3, <1>4, <1>5, <1>6 DEF CreateBatch, Leaves
<1>11. UNCHANGED <<site, complements, jobs, strays, begun, faults>>
  BY DEF CreateBatch
<1>12. r \in Runs /\ r.batch = b
  BY <1>6, <1>8, NoRunType DEF Runs
<1>13. PICK l \in {"created", "done"} : l = IF p \in Loops THEN "created" ELSE "done"
  OBVIOUS
<1>14. Moves(p) /\ pc'[p] = l /\ run'[p] = r
  <2>1. Goto(p, l) /\ l \in Labels
    BY <1>13 DEF CreateBatch, Labels
  <2> QED
    BY <1>7, <1>10, <1>12, <2>1, StepMoves
<1>15. /\ LocksKept(p) /\ LockedSessions(p)' = {} /\ \A s \in Sessions : sessionRow'[s] # p
       /\ sessionRow' \in [Sessions -> Procs \cup {None}]
       /\ batchRow' \in [Batches -> Procs \cup {None}]
  BY <1>7, <1>10, ReleaseGives
<1>16. Own(p)'
  <2>1. Placed(p)'
    BY <1>7, <1>8, <1>12, <1>13, <1>14, RolesKept DEF Placed, Claimed, Purged
  <2> QED
    BY <1>13, <1>14, <1>15, <2>1, OwnAtRest
<1>17. PICK New : New = {ProofObject(b, proofs[i]) : i \in DOMAIN proofs}
  OBVIOUS
<1>18. PICK root : root = RootObject(b, leaves)
  OBVIOUS
<1>19. /\ root.scope = "merkle" /\ root.owner = b /\ root.name = 0
       /\ root.content[2] = RootHash(leaves)
  BY <1>18 DEF RootObject
<1>20. \A o \in New : o.scope = "sessions" /\ o.owner \in S
  <2>1. \A i \in DOMAIN proofs : proofs[i].leaf \in S
    BY <1>4, <1>5, <1>7, BatchProofs
  <2> QED
    BY <1>17, <2>1 DEF ProofObject
<1>21. objects' = objects \cup {root} \cup New
  BY <1>10, <1>17, <1>18
<1>22. TypeOK'
  <2>1. attestations' \in [Sessions -> Seq(Told)]
    BY <1>7, <1>8, <1>9, <1>10, AttestType
  <2>2. /\ batches' \in [Batches -> BatchStatuses \cup {"unused", "deleted"}]
        /\ members' \in [Batches -> SUBSET Sessions]
        /\ anchoring' \in [Sessions -> BatchStatuses]
    BY <1>7, <1>8, <1>9, <1>10 DEF TypeOK
  <2>3. ObjectsOwned'
    BY <1>7, <1>8, <1>19, <1>20, <1>21 DEF TypeOK, ObjectsOwned
  <2> QED
    BY <1>7, <1>11, <1>14, <1>15, <2>1, <2>2, <2>3 DEF TypeOK, Moves, site, ObjectsOwned
<1>23. /\ \A c \in Batches \ {b} : batches'[c] = batches[c] /\ members'[c] = members[c]
       /\ batches'[b] = v /\ members'[b] = S /\ complements' = complements /\ complements[b] = <<>>
  BY <1>7, <1>8, <1>10, <1>11 DEF TypeOK, PipelineInv, Tables, Records, UnusedBlank
<1>24. ~Exists(b) /\ Exists(b)' /\ \A c \in Batches \ {b} : Exists(c)' = Exists(c)
  BY <1>8, <1>9, <1>23 DEF Exists
<1>25. RowsKept(p) /\ JobsKept(p) /\ StoreKept(p)
  <2>1. RowsKept(p)
    <3>1. \A s \in Sessions, c \in Batches :
            sessionRow[s] # p /\ sessionRow[s] # None => (s \in members'[c] <=> s \in members[c])
      <4>1. members[b] = {}
        BY <1>8, <1>24 DEF PipelineInv, Tables, Records, PurgedLeaveNothing
      <4> QED
        BY <1>7, <1>23, <4>1
    <3> QED
      BY <1>11, <1>23, <1>24, <3>1 DEF RowsKept, site
  <2>2. StoreKept(p)
    BY <1>7, <1>8, <1>11, <1>19, <1>20, <1>21, <1>24 DEF StoreKept
  <2> QED
    BY <1>11, <2>1, <2>2, JobsUntouched
<1>26. ClaimedOnce'
  BY <1>13, <1>14, ClaimedKept DEF Claimed
<1>27. RowsExist'
  BY <1>7, <1>11, <1>15 DEF PipelineInv, Tables, RowsExist, LocksKept, site
<1>28. UnusedBlank'
  <2>1. Unused' \subseteq Unused \ {b}
    BY <1>9, <1>23 DEF Unused
  <2> QED
    BY <1>8, <1>9, <1>10, <1>23, <2>1, UnusedKept
<1>29. PurgedLeaveNothing'
  <2>1. PurgedLeaveNothing
    BY DEF PipelineInv, Tables, Records
  <2>2. \A s \in Sessions : life'[s] = "gone" => life[s] = "gone" /\ s \notin S
    BY <1>7, <1>11 DEF site
  <2>3. \A s : s \notin S => InScope("sessions", s)' = InScope("sessions", s)
    BY <1>19, <1>20, <1>21 DEF InScope
  <2>4. \A c : c # b => InScope("merkle", c)' = InScope("merkle", c)
    BY <1>19, <1>20, <1>21 DEF InScope
  <2> QED
    BY <1>7, <1>9, <1>11, <1>23, <1>24, <2>1, <2>2, <2>3, <2>4 DEF PurgedLeaveNothing
<1>30. ComplementsAttested'
  <2>1. \A c \in Batches \ {b} :
          /\ Improving(complements'[c])
          /\ \A s \in members'[c] : Attested(attestations'[s], complements'[c], c)
    BY <1>8, <1>9, <1>10, <1>23, OtherMembersKept
  <2>2. Improving(complements'[b])
    BY <1>23 DEF Improving
  <2>3. ASSUME NEW s \in S PROVE Attested(attestations'[s], complements'[b], b)
    <3>1. PICK e : e = Entry(b, 0, v)
      OBVIOUS
    <3>2. e \in Told /\ e.batch = b /\ e.number = 0
      BY <1>8, <1>9, <3>1, EntryType
    <3>3. s \in Sessions /\ attestations[s] \in Seq(Told) /\ Of(attestations[s], b) = {}
      BY <1>7, <1>8 DEF TypeOK, PipelineInv, Tables, Records, UnusedBlank, Of
    <3>4. \A t \in Sessions :
            /\ t \in S => attestations'[t] = Append(attestations[t], Entry(b, 0, v))
            /\ t \notin S => attestations'[t] = attestations[t]
      BY <1>10, AttestGives, Zenon
    <3>5. attestations'[s] = Append(attestations[s], e)
      BY <3>1, <3>3, <3>4
    <3> QED
      BY <1>23, <3>2, <3>3, <3>5, AttestedFirst
  <2>4. \A c \in Batches :
          /\ Improving(complements'[c])
          /\ \A s \in members'[c] : Attested(attestations'[s], complements'[c], c)
    BY <1>23, <2>1, <2>2, <2>3
  <2> QED
    BY <2>4 DEF ComplementsAttested, Improving, Attested, Of
<1>31. RetainedProofsVerify'
  <2>1. RetainedProofsVerify
    BY DEF PipelineInv, Tables, Records
  <2>2. objects \subseteq objects' /\ root \in objects' /\ New \subseteq objects'
    BY <1>21
  <2>3. begun' = begun /\ cleared' = cleared
    BY <1>11 DEF site
  <2>4. ASSUME NEW c \in Batches \ {b}, NEW s \in Sessions, s \in members'[c] \ (begun' \cup cleared')
        PROVE  /\ \E o \in InScope("sessions", s)' :
                    /\ o.name = c /\ o.content[2].leaf = s /\ VerifyProof(o.content[2])
                    /\ \E q \in InScope("merkle", c)' : q.name = 0 /\ q.content[2] = o.content[2].root
               /\ \A i \in DOMAIN complements'[c] :
                    UpgradeObject(c, i, complements'[c][i].content) \in objects'
    BY <1>23, <2>1, <2>2, <2>3, <2>4 DEF RetainedProofsVerify, InScope
  <2>5. ASSUME NEW s \in S
        PROVE  /\ \E o \in InScope("sessions", s)' :
                    /\ o.name = b /\ o.content[2].leaf = s /\ VerifyProof(o.content[2])
                    /\ \E q \in InScope("merkle", b)' : q.name = 0 /\ q.content[2] = o.content[2].root
               /\ \A i \in DOMAIN complements'[b] :
                    UpgradeObject(b, i, complements'[b][i].content) \in objects'
    <3>1. PICK i \in DOMAIN proofs :
            proofs[i].leaf = s /\ VerifyProof(proofs[i]) /\ proofs[i].root = RootHash(leaves)
      BY <1>4, <1>5, <1>7, BatchProofs
    <3>2. PICK o : o = ProofObject(b, proofs[i])
      OBVIOUS
    <3>3. /\ o \in InScope("sessions", s)' /\ o.name = b /\ o.content[2] = proofs[i]
      BY <1>17, <2>2, <3>1, <3>2 DEF ProofObject, InScope
    <3>4. root \in InScope("merkle", b)'
      BY <1>19, <2>2 DEF InScope
    <3>5. DOMAIN complements'[b] = {}
      BY <1>23
    <3> QED
      BY <1>19, <3>1, <3>3, <3>4, <3>5
  <2> QED
    BY <1>23, <2>4, <2>5 DEF RetainedProofsVerify, InScope, UpgradeObject
<1> QED
  BY <1>14, <1>15, <1>16, <1>22, <1>25, <1>26, <1>27, <1>28, <1>29, <1>30, <1>31
  DEF Kept, Guarantee, Tables, Records

-----------------------------------------------------------------------------
(***************************************************************************)
(* The invariant.                                                          *)
(***************************************************************************)
LEMMA PipelineInit == Init => PipelineInv
<1> SUFFICES ASSUME Init PROVE PipelineInv
  OBVIOUS
<1>1. PICK scene \in Scenarios :
        /\ life = [s \in Sessions |-> IF s \in scene.sessions THEN "open" ELSE "gone"]
        /\ stamping = scene.stamping
        /\ role = scene.role /\ anchors = scene.anchors /\ faults = scene.faults
        /\ pc = [p \in Procs |-> CASE scene.role[p] = "operator" -> "unsent"
                                  [] scene.role[p] = "absent"   -> "done"
                                  [] OTHER                      -> "idle"]
  BY DEF Init
<1>2. /\ role \in [Procs -> Roles] /\ anchors \in 0 .. Calendars /\ faults \in Nat
      /\ stamping \in [Sessions -> {"none", "queued", "asked"}]
  BY <1>1, PipelineAssumption
<1>3. \A p \in Procs : /\ pc[p] \in {"idle", "unsent", "done"}
                       /\ pc[p] = "unsent" => role[p] = "operator"
  BY <1>1
<1>4. pc \in [Procs -> Labels]
  BY <1>1, <1>3 DEF Labels
<1>5. run \in [Procs -> Runs]
  BY NoRunType DEF Init
<1>6. TypeOK
  <2>1. /\ life \in [Sessions -> {"open", "finalized", "gone"}] /\ ended \in [Sessions -> Nat]
        /\ cleared \subseteq Sessions /\ expired \subseteq cleared /\ withheld \subseteq Sessions
        /\ stamping \in [Sessions -> {"none", "queued", "asked", "running", "held"}]
        /\ anchoring \in [Sessions -> BatchStatuses]
        /\ strays \subseteq Sessions /\ begun \subseteq Sessions
    BY <1>1, <1>2 DEF Init, BatchStatuses
  <2>2. /\ attestations \in [Sessions -> Seq(Told)] /\ complements \in [Batches -> Seq(Upgrades)]
    BY DEF Init
  <2>3. /\ batches \in [Batches -> BatchStatuses \cup {"unused", "deleted"}]
        /\ members \in [Batches -> SUBSET Sessions] /\ jobs \in [Batches -> JobStatuses]
        /\ objects = {}
    BY DEF Init, JobStatuses
  <2>4. /\ sessionRow \in [Sessions -> Procs \cup {None}]
        /\ batchRow \in [Batches -> Procs \cup {None}]
    BY DEF Init
  <2> QED
    BY <1>2, <1>4, <1>5, <2>1, <2>2, <2>3, <2>4 DEF TypeOK
<1>7. ASSUME NEW p \in Procs PROVE Own(p)
  <2>1. p # None /\ LockedSessions(p) = {}
    BY PipelineConstants DEF Init, LockedSessions
  <2>2. pc[p] = "unsent" => p \in Operators
    BY <1>3 DEF Operators, With
  <2> QED
    BY <1>3, <2>1, <2>2
    DEF Own, Placed, SessionsHeld, BatchReady, UpgradeReady, PurgeReady, Upgraded, Claimed, Purged,
        Shared, Deleted, Gathered
<1>8. ClaimedOnce
  BY <1>3, RolesApart DEF ClaimedOnce, Claimed
<1>9. RowsExist
  BY <1>2 DEF Init, RowsExist, Underway
<1>10. Records
  <2>1. UnusedBlank /\ PurgedLeaveNothing
    BY <1>1 DEF Init, UnusedBlank, Unused, PurgedLeaveNothing, InScope, Exists
  <2>2. ComplementsAttested /\ RetainedProofsVerify
    BY DEF Init, ComplementsAttested, RetainedProofsVerify
  <2> QED
    BY <2>1, <2>2 DEF Records
<1> QED
  BY <1>6, <1>7, <1>8, <1>9, <1>10 DEF PipelineInv, Tables

\* A step of p keeps the invariant if it keeps p's part.
LEMMA KeptSuffices ==
  ASSUME PipelineInv, NEW p \in Procs, Kept(p)
  PROVE  PipelineInv'
<1>1. TypeOK' /\ Guarantee(p) /\ Own(p)' /\ Tables'
  BY DEF Kept
<1>2. ASSUME NEW q \in Procs PROVE Own(q)'
  BY <1>1, OthersKept
<1> QED
  BY <1>1, <1>2 DEF PipelineInv

\* A step of the environment keeps the invariant.
LEMMA UndisturbedSuffices ==
  ASSUME PipelineInv, Undisturbed
  PROVE  PipelineInv'
<1>1. TypeOK' /\ Guarantee(None) /\ Tables'
  BY DEF Undisturbed
<1>2. ASSUME NEW q \in Procs PROVE Own(q)'
  BY <1>1, OthersKept, PipelineConstants
<1> QED
  BY <1>1, <1>2 DEF PipelineInv

\* Each action of a process keeps its part.
LEMMA ProcessKept ==
  ASSUME PipelineInv, NEW p \in Procs,
         \/ Batching(p) \/ Upgrading(p) \/ Purging(p) \/ Locking(p)
         \/ FailBatch(p) \/ Outage(p) \/ BreakDeadlock(p) \/ Die(p)
         \/ RequestBatch(p) \/ RequestUpgrade(p)
  PROVE  Kept(p)
<1>1. CASE Batching(p)
  <2>1. CASE Batch(p)
    BY <2>1, CreateBatchKept DEF Batch
  <2> QED
    BY <1>1, <2>1, ReadPendingKept, EnsureJobKept, SelectSessionsKept, GatherSessionsKept,
       CreateUpgradeJobKept DEF Batching
<1>2. CASE Upgrading(p)
  BY <1>2, ClaimUpgradeKept, FinishTurnKept, StillPendingKept, PutComplementKept,
     RefusedUpgradeKept, RecordComplementKept, SettleJobKept, FailUpgradeKept DEF Upgrading
<1>3. CASE Purging(p)
  BY <1>3, StartCleanupKept, ReadMembershipKept, CheckJobsKept, DeleteProofsKept,
     DeleteSharedKept, CommitPurgeKept DEF Purging
<1>4. CASE Locking(p)
  BY <1>4, LockNextSessionKept, LockBatchKept, LockSharedKept DEF Locking
<1> QED
  BY <1>1, <1>2, <1>3, <1>4, FailBatchKept, OutageKept, BreakDeadlockKept, DieKept,
     RequestBatchKept, RequestUpgradeKept

\* Every step keeps the invariant.
LEMMA PipelineStep == PipelineInv /\ [Next]_vars => PipelineInv'
<1> SUFFICES ASSUME PipelineInv, [Next]_vars PROVE PipelineInv'
  OBVIOUS
<1>1. CASE \E s \in Sessions : Elsewhere(s)
  BY <1>1, FinalizeKept, ClearKept, ExpireKept, StampKept, UndisturbedSuffices DEF Elsewhere
<1>2. CASE \E p \in Operators : RequestBatch(p) \/ RequestUpgrade(p)
  BY <1>2, RolesApart, ProcessKept, KeptSuffices
<1>3. CASE \E p \in Procs :
             \/ Batching(p) \/ Upgrading(p) \/ Purging(p) \/ Locking(p)
             \/ FailBatch(p) \/ Outage(p) \/ BreakDeadlock(p) \/ Die(p)
  BY <1>3, ProcessKept, KeptSuffices
<1>4. CASE UNCHANGED vars
  <2>1. TypeOK'
    BY <1>4 DEF PipelineInv, TypeOK, vars, site, ledger, store, rows
  <2>2. Guarantee(None)
    BY <1>4 DEF PipelineInv, TypeOK, Guarantee, Moves, LocksKept, RowsKept, JobsKept, StoreKept,
                vars, site, ledger, store, rows, Exists
  <2>3. ClaimedOnce' /\ RowsExist'
    BY <1>4, RolesKept DEF PipelineInv, Tables, ClaimedOnce, RowsExist, vars, site, rows
  <2>4. Records'
    BY <1>4, RecordsKept DEF PipelineInv, Tables, vars, site
  <2> QED
    BY <2>1, <2>2, <2>3, <2>4, UndisturbedSuffices DEF Undisturbed, Tables
<1> QED
  BY <1>1, <1>2, <1>3, <1>4 DEF Next

\* What the processes rely on and what the tables and the store say (the row
\* locks of proof_service.py and of purge_session in privacy_cleanup.py).
THEOREM PipelineInvariant == Spec => []PipelineInv
<1> QED
  BY PipelineInit, PipelineStep, PTL DEF Spec

\* The rows and objects are those of models.py and proof_storage.py, and each
\* process is somewhere in its script.
THEOREM PipelineTypeCorrect == Spec => []TypeOK
<1>1. PipelineInv => TypeOK
  BY DEF PipelineInv
<1> QED
  BY <1>1, PipelineInvariant, PTL

\* Nothing of a purged session is left, however its purge overlapped
\* batching, an upgrade or another purge (purge_session).
THEOREM PurgesComplete == Spec => []PurgedLeaveNothing
<1>1. PipelineInv => PurgedLeaveNothing
  BY DEF PipelineInv, Tables, Records
<1> QED
  BY <1>1, PipelineInvariant, PTL

\* The complements improve, and their members are told of each once and in
\* order (upgrade_merkle_batch).
THEOREM UpgradesAttested == Spec => []ComplementsAttested
<1>1. PipelineInv => ComplementsAttested
  BY DEF PipelineInv, Tables, Records
<1> QED
  BY <1>1, PipelineInvariant, PTL

\* A session that stays keeps a proof that leads to the stored root of its
\* batch, and the upgrades of that root (create_merkle_batch, purge_session).
THEOREM RetainedVerify == Spec => []RetainedProofsVerify
<1>1. PipelineInv => RetainedProofsVerify
  BY DEF PipelineInv, Tables, Records
<1> QED
  BY <1>1, PipelineInvariant, PTL

\* What an upgrade read of its batch stays so until it commits, and the job of
\* a loop stays running (upgrade_merkle_batch, purge_session).
THEOREM UpgradesUndisturbed == Spec => []UpgradesKeepTheirBatch
<1>1. ASSUME PipelineInv PROVE UpgradesKeepTheirBatch
  <2>1. ASSUME NEW p \in Procs, pc[p] \in {"fetching", "recording"}
        PROVE  Exists(run[p].batch) /\ run[p].number = Len(complements[run[p].batch]) + 1
    BY <1>1, <2>1 DEF PipelineInv, Own, UpgradeReady, Upgraded
  <2>2. ASSUME NEW p \in Procs, pc[p] = "recording"
        PROVE  run[p].sessions = members[run[p].batch] /\ ~GotLess(p)
    <3>1. PICK b : b = run[p].batch
      OBVIOUS
    <3>2. b \in Batches /\ run[p].sessions = members[b] /\ p \notin Cleaners
      BY <1>1, <2>2, <3>1, RolesApart DEF PipelineInv, Own, Placed, UpgradeReady, Claimed
    <3>3. \A s \in members[b] : s \in Sessions /\ life[s] # "gone"
      BY <1>1, <3>2 DEF PipelineInv, TypeOK, Tables, Records, PurgedLeaveNothing
    <3>4. Wanted(p) = members[b] /\ LockedSessions(p) \subseteq Wanted(p)
      BY <1>1, <2>2, <3>2 DEF PipelineInv, Own, SessionsHeld, Wanted, Gathered
    <3> QED
      BY <3>1, <3>2, <3>3, <3>4 DEF GotLess, GotAll, SessionsToLock
  <2>3. ASSUME NEW p \in Loops, pc[p] \in {"fetching", "recording", "settling"}
        PROVE  jobs[run[p].batch] = "running"
    BY <1>1, <2>3, RolesApart DEF PipelineInv, Own, UpgradeReady, Claimed
  <2> QED
    BY <2>1, <2>2, <2>3 DEF UpgradesKeepTheirBatch
<1> QED
  BY <1>1, PipelineInvariant, PTL

\* A timestamp that is under way finds its session, however many purges are
\* about (purge_session, which locks the jobs of the session too).
THEOREM TimestampsUndisturbed == Spec => []TimestampsKeepTheirSession
<1>1. PipelineInv => TimestampsKeepTheirSession
  BY DEF PipelineInv, Tables, RowsExist, TimestampsKeepTheirSession
<1> QED
  BY <1>1, PipelineInvariant, PTL

\* Who leaves "batching" with a batch has made it of its own sessions.
LEMMA MakerBatches ==
  ASSUME PipelineInv, [Next]_vars, NEW p \in Loops, NEW b \in Batches,
         pc[p] = "batching", pc'[p] # "batching", batches[b] = "unused", batches'[b] # "unused"
  PROVE  members'[b] = run[p].sessions
<1>1. p \in Procs /\ p \notin Operators
  BY RolesApart
<1>2. ASSUME NEW q \in Procs, Kept(q) PROVE p = q
  BY <1>1, <1>2 DEF Kept, Guarantee, Moves
<1>3. CASE \E s \in Sessions : Elsewhere(s)
  BY <1>3 DEF Elsewhere, Finalize, Clear, Expire, FailExpiry, Restore, TakeStamp, FinishStamp,
              FailStamp, CancelStamp, Stamp
<1>4. CASE \E q \in Operators : RequestBatch(q) \/ RequestUpgrade(q)
  BY <1>1, <1>2, <1>4, RolesApart, ProcessKept
<1>5. ASSUME NEW q \in Procs,
             \/ Batching(q) \/ Upgrading(q) \/ Purging(q) \/ Locking(q)
             \/ FailBatch(q) \/ Outage(q) \/ BreakDeadlock(q) \/ Die(q)
      PROVE  members'[b] = run[p].sessions
  <2>1. p = q
    BY <1>2, <1>5, ProcessKept
  <2>2. ~Upgrading(p)
    BY DEF Upgrading, ClaimUpgrade, FinishTurn, StillPending, PutComplement, RefusedUpgrade,
           RecordComplement, SettleJob, FailUpgrade
  <2>3. ~Purging(p)
    BY DEF Purging, StartCleanup, ReadMembership, CheckJobs, DeleteProofs, DeleteShared, CommitPurge
  <2>4. ~Locking(p) /\ ~FailBatch(p) /\ ~Outage(p) /\ ~BreakDeadlock(p) /\ ~Die(p)
    BY DEF Locking, LockNextSession, LockBatch, LockShared, FailBatch, Outage, BreakDeadlock, Die,
           ledger
  <2>5. Batch(p)
    BY <1>5, <2>1, <2>2, <2>3, <2>4
    DEF Batching, ReadPending, EnsureJob, SelectSessions, GatherSessions, CreateUpgradeJob
  <2>6. PICK submitted \in BOOLEAN : CreateBatch(p, submitted)
    BY <2>5 DEF Batch
  <2>7. PICK x : x = Least(Unused)
    OBVIOUS
  <2>8. PICK v : v = IF submitted THEN Pending ELSE "not_submitted"
    OBVIOUS
  <2>9. /\ batches' = [batches EXCEPT ![x] = v]
        /\ members' = [members EXCEPT ![x] = run[p].sessions]
    BY <2>6, <2>7, <2>8 DEF CreateBatch
  <2>10. batches \in [Batches -> BatchStatuses \cup {"unused", "deleted"}]
         /\ members \in [Batches -> SUBSET Sessions]
    BY DEF PipelineInv, TypeOK
  <2> QED
    BY <2>9, <2>10
<1>6. CASE UNCHANGED vars
  BY <1>6 DEF vars
<1> QED
  BY <1>3, <1>4, <1>5, <1>6 DEF Next

\* The loops never put a session into a batch twice, though both select
\* sessions while the other's batch is not committed (create_pending_batch).
THEOREM SessionsBatchedOnce == Spec => LoopsBatchOnce
<1>1. ASSUME PipelineInv, [Next]_vars, NEW b \in Batches, NEW p \in Loops,
             batches[b] = "unused", batches'[b] # "unused", pc[p] = "batching",
             pc'[p] # "batching", NEW s \in members'[b], NEW c \in Batches \ {b}
      PROVE  s \notin members[c]
  <2>1. s \in run[p].sessions
    BY <1>1, MakerBatches
  <2> QED
    BY <1>1, <2>1, RolesApart DEF PipelineInv, Own, BatchReady
<1>2. PipelineInv /\ [Next]_vars =>
        [\A b \in Batches, p \in Loops :
           batches[b] = "unused" /\ batches'[b] # "unused" /\ pc[p] = "batching"
           /\ pc'[p] # "batching" =>
             \A s \in members'[b] : \A c \in Batches \ {b} : s \notin members[c]]_vars
  BY <1>1
<1> QED
  BY <1>2, PipelineInvariant, PTL DEF Spec, LoopsBatchOnce

=============================================================================
