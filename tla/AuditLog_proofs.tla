---------------------------- MODULE AuditLog_proofs ----------------------------
(***************************************************************************)
(* Proofs about AuditLog, for every value of its constants.                *)
(***************************************************************************)
EXTENDS AuditLog, TLAPS

TablesType == [events : SUBSET Events, checkpoint : Checkpoints \cup {None}]

-----------------------------------------------------------------------------
(***************************************************************************)
(* What a step does to the trail it sees.                                  *)
(***************************************************************************)
\* Checkpoints are no null values, and the hash and sequence an append starts
\* from are well typed.
LEMMA FirstType ==
  ASSUME NEW t \in TablesType
  PROVE  FirstSeq(t) \in Nat /\ FirstPrevious(t) \in Seq(Facts)
BY DEF FirstSeq, FirstPrevious, TablesType, Checkpoints

\* An appended event is well typed and its hash extends the one before it.
LEMMA NewEventType ==
  ASSUME clock \in Nat, NEW seq \in Nat, NEW previous \in Seq(Facts), NEW kind \in Kinds
  PROVE  /\ NewEvent(seq, previous, kind) \in Events
         /\ NewEvent(seq, previous, kind).seq = seq
         /\ NewEvent(seq, previous, kind).previous = previous
         /\ Fact(NewEvent(seq, previous, kind)) \in Facts
         /\ NewEvent(seq, previous, kind).hash
              = Append(previous, Fact(NewEvent(seq, previous, kind)))
<1>1. [seq |-> seq, kind |-> kind, time |-> clock] \in Facts
  BY DEF Facts
<1>2. Append(previous, [seq |-> seq, kind |-> kind, time |-> clock]) \in Seq(Facts)
  BY <1>1
<1>3. QED
  BY <1>1, <1>2 DEF NewEvent, Events, Fact

\* The event after the last one is well typed, new and later than all others.
LEMMA NextEventType ==
  ASSUME clock \in Nat, NEW t \in TablesType, NEW kind \in Kinds,
         NEW e \in NextEvents(t, kind)
  PROVE  /\ e \in Events
         /\ Fact(e) \in Facts
         /\ e.hash = Append(e.previous, Fact(e))
         /\ t.events = {} => e.seq = FirstSeq(t) /\ e.previous = FirstPrevious(t)
         /\ t.events # {} => \E l \in LastOf(t.events) :
                               e.seq = l.seq + 1 /\ e.previous = l.hash
         /\ \A f \in t.events : f.seq < e.seq
<1>1. CASE t.events = {}
  BY <1>1, FirstType, NewEventType DEF NextEvents
<1>2. CASE t.events # {}
  <2>1. PICK l \in LastOf(t.events) : e = NewEvent(l.seq + 1, l.hash, kind)
    BY <1>2 DEF NextEvents
  <2>2. /\ l \in Events /\ l.seq \in Nat /\ l.hash \in Seq(Facts)
        /\ \A f \in t.events : f.seq \in Nat /\ f.seq <= l.seq
    BY DEF LastOf, TablesType, Events
  <2>3. PICK n \in Nat : n = l.seq + 1
    BY <2>2
  <2>4. /\ e \in Events /\ Fact(e) \in Facts /\ e.hash = Append(e.previous, Fact(e))
        /\ e.seq = n /\ e.previous = l.hash
    BY <2>1, <2>2, <2>3, NewEventType
  <2>5. \A f \in t.events : f.seq < e.seq
    BY <2>2, <2>3, <2>4
  <2>6. QED
    BY <1>2, <2>3, <2>4, <2>5
<1>3. QED
  BY <1>1, <1>2

\* Appending to a trail that verifies leaves one that verifies.
LEMMA AppendVerifies ==
  ASSUME clock \in Nat, NEW t \in TablesType, NEW kind \in Kinds, Verified(t),
         NEW e \in NextEvents(t, kind)
  PROVE  /\ Tables(t.events \cup {e}, t.checkpoint) \in TablesType
         /\ Verified(Tables(t.events \cup {e}, t.checkpoint))
<1> DEFINE u == Tables(t.events \cup {e}, t.checkpoint)
<1>1. u.events = t.events \cup {e} /\ u.checkpoint = t.checkpoint
  BY DEF Tables
<1>2. FirstSeq(u) = FirstSeq(t) /\ FirstPrevious(u) = FirstPrevious(t)
  BY <1>1 DEF FirstSeq, FirstPrevious
<1>3. u \in TablesType
  BY NextEventType DEF Tables, TablesType
<1>4. \A f, g \in u.events : f.seq = g.seq => f = g
  <2>1. \A f \in t.events : f.seq \in Nat /\ e.seq \in Nat /\ f.seq < e.seq
    BY NextEventType DEF TablesType, Events
  <2>2. QED
    BY <1>1, <2>1 DEF Verified
<1>5. ASSUME NEW f \in t.events
      PROVE  /\ f.hash = Append(f.previous, Fact(f))
             /\ f.seq >= FirstSeq(u)
             /\ IF f.seq = FirstSeq(u)
                THEN f.previous = FirstPrevious(u)
                ELSE \E p \in u.events : p.seq + 1 = f.seq /\ f.previous = p.hash
  BY <1>1, <1>2 DEF Verified
<1>6. /\ e.hash = Append(e.previous, Fact(e))
      /\ e.seq >= FirstSeq(u)
      /\ IF e.seq = FirstSeq(u)
         THEN e.previous = FirstPrevious(u)
         ELSE \E p \in u.events : p.seq + 1 = e.seq /\ e.previous = p.hash
  <2>1. CASE t.events = {}
    BY <1>2, <2>1, NextEventType, FirstType
  <2>2. CASE t.events # {}
    <3>1. PICK l \in LastOf(t.events) : e.seq = l.seq + 1 /\ e.previous = l.hash
      BY <2>2, NextEventType
    <3>2. l \in t.events /\ l.seq \in Nat /\ l.seq >= FirstSeq(t)
      BY DEF LastOf, TablesType, Events, Verified
    <3>3. FirstSeq(u) \in Nat
      BY <1>3, FirstType
    <3>4. e.seq > FirstSeq(u)
      BY <1>2, <3>1, <3>2, <3>3
    <3>5. l \in u.events
      BY <1>1, <3>2
    <3>6. e.hash = Append(e.previous, Fact(e))
      BY NextEventType
    <3>7. e.seq >= FirstSeq(u) /\ e.seq # FirstSeq(u) /\ l.seq + 1 = e.seq
      BY <3>1, <3>2, <3>3, <3>4
    <3>8. \E p \in u.events : p.seq + 1 = e.seq /\ e.previous = p.hash
      BY <3>1, <3>5
    <3>9. QED
      BY <3>6, <3>7, <3>8
  <2>3. QED
    BY <2>1, <2>2
<1>7. \A f \in u.events :
        /\ f.hash = Append(f.previous, Fact(f))
        /\ f.seq >= FirstSeq(u)
        /\ IF f.seq = FirstSeq(u)
           THEN f.previous = FirstPrevious(u)
           ELSE \E p \in u.events : p.seq + 1 = f.seq /\ f.previous = p.hash
  BY <1>1, <1>5, <1>6
<1>8. QED
  BY <1>3, <1>4, <1>7 DEF Verified

-----------------------------------------------------------------------------
(***************************************************************************)
(* History, which retirement keeps and an append extends by one fact.      *)
(***************************************************************************)
\* The hash of the trail after an append is the hash before it and the fact.
LEMMA AppendExtends ==
  ASSUME clock \in Nat, NEW t \in TablesType, NEW kind \in Kinds, Verified(t),
         NEW e \in NextEvents(t, kind)
  PROVE  \E fact \in Facts :
           HistoryOf(Tables(t.events \cup {e}, t.checkpoint)) = Append(HistoryOf(t), fact)
<1> DEFINE u == Tables(t.events \cup {e}, t.checkpoint)
<1>1. u.events = t.events \cup {e}
  BY DEF Tables
<1> HIDE DEF u
<1>2. LastOf(u.events) = {e}
  <2>1. e.seq \in Nat /\ \A f \in t.events : f.seq \in Nat /\ f.seq < e.seq
    BY NextEventType DEF TablesType, Events
  <2>2. e \in LastOf(u.events)
    BY <1>1, <2>1 DEF LastOf
  <2>3. \A f \in LastOf(u.events) : f = e
    BY <1>1, <2>1 DEF LastOf
  <2>4. QED
    BY <2>2, <2>3
<1>3. HistoryOf(u) = e.hash
  BY <1>1, <1>2 DEF HistoryOf
<1>4. e.previous = HistoryOf(t)
  <2>1. CASE t.events = {}
    BY <2>1, NextEventType DEF HistoryOf
  <2>2. CASE t.events # {}
    <3>1. PICK l \in LastOf(t.events) : e.previous = l.hash
      BY <2>2, NextEventType
    <3>2. \A m \in LastOf(t.events) : m = l
      BY DEF LastOf, Verified, TablesType, Events
    <3>3. (CHOOSE m \in LastOf(t.events) : TRUE) = l
      BY <3>2
    <3>4. QED
      BY <2>2, <3>1, <3>3 DEF HistoryOf
  <2>3. QED
    BY <2>1, <2>2
<1>5. QED
  BY <1>3, <1>4, NextEventType DEF u

\* Retirement forgets events and keeps their hash.
LEMMA RetirementKeeps ==
  ASSUME Committed \in TablesType, Verified(Committed), NEW t \in AfterRetirement
  PROVE  /\ t \in TablesType
         /\ HistoryOf(t) = HistoryOf(Committed)
         /\ \A e \in events \ t.events :
              /\ Expired(e)
              /\ t.checkpoint # None /\ e.seq <= t.checkpoint.seq
              /\ \A f \in t.events : e.seq < f.seq
         /\ t.events \subseteq events
<1>1. CASE t = Committed
  BY <1>1 DEF Committed, Tables
<1>2. CASE t # Committed
  <2>1. PICK b \in LastOf(Retirable) : t = Tables(events \ Retired(b), CheckpointOf(b))
    BY <1>2 DEF AfterRetirement
  <2>2. /\ b \in events /\ b \in Events /\ b.seq \in Nat
        /\ \A f \in events : ~Expired(f) => b.seq < f.seq
        /\ events \in SUBSET Events /\ \A f \in events : f.seq \in Nat
    BY DEF LastOf, Retirable, Committed, Tables, TablesType, Events
  <2>3. t.events = {e \in events : e.seq > b.seq} /\ t.checkpoint = CheckpointOf(b)
    BY <2>1, <2>2 DEF Tables, Retired
  <2>4. t \in TablesType
    BY <2>1, <2>2 DEF Tables, TablesType, CheckpointOf, Checkpoints, Events
  <2>5. HistoryOf(t) = HistoryOf(Committed)
    <3>1. CASE t.events = {}
      <4>1. FirstPrevious(t) = b.hash
        BY <2>2, <2>3, AuditBounds DEF FirstPrevious, CheckpointOf, Facts, Events
      <4>2. \A m \in LastOf(events) : m = b
        BY <2>2, <2>3, <3>1 DEF LastOf, Verified, Committed, Tables
      <4>3. b \in LastOf(events)
        BY <2>2, <2>3, <3>1 DEF LastOf
      <4>4. (CHOOSE m \in LastOf(events) : TRUE) = b
        BY <4>2, <4>3
      <4>5. QED
        BY <2>2, <3>1, <4>1, <4>4 DEF HistoryOf, Committed, Tables
    <3>2. CASE t.events # {}
      <4>1. LastOf(t.events) = LastOf(events)
        BY <2>2, <2>3, <3>2 DEF LastOf
      <4>2. events # {}
        BY <2>2
      <4>3. QED
        BY <3>2, <4>1, <4>2 DEF HistoryOf, Committed, Tables
    <3>3. QED
      BY <3>1, <3>2
  <2>6. \A e \in events \ t.events :
          /\ Expired(e)
          /\ t.checkpoint # None /\ e.seq <= t.checkpoint.seq
          /\ \A f \in t.events : e.seq < f.seq
    <3>1. t.checkpoint # None /\ t.checkpoint.seq = b.seq
      BY <2>2, <2>3, AuditBounds DEF CheckpointOf, Facts, Events
    <3>2. \A e \in events \ t.events : e.seq <= b.seq
      BY <2>2, <2>3
    <3>3. QED
      BY <2>2, <2>3, <3>1, <3>2
  <2>7. QED
    BY <2>3, <2>4, <2>5, <2>6
<1>3. QED
  BY <1>1, <1>2

-----------------------------------------------------------------------------
(***************************************************************************)
(* The inductive invariant: both what is committed and what the holder of  *)
(* the lock is about to commit verify; the latter continues the history of *)
(* the former by one fact, and lacks only old events before all it has.    *)
(***************************************************************************)
WorkExtends ==
  \E fact \in Facts : HistoryOf(work) = Append(HistoryOf(Committed), fact)

WorkLacksOnlyOld ==
  \A e \in events \ work.events :
    /\ lock = Cleaner /\ today # None
    /\ Expired(e)
    /\ \A f \in work.events : e.seq < f.seq

AuditInv ==
  /\ TypeOK
  /\ AuditVerifies
  /\ HistoryOf(Committed) \in Seq(Facts)
  /\ lock # None => Verified(work) /\ WorkExtends /\ WorkLacksOnlyOld

\* What is committed is well typed.
LEMMA CommittedType == ASSUME TypeOK PROVE Committed \in TablesType
BY DEF TypeOK, Committed, Tables, TablesType

\* Appending to the committed trail or to what retirement leaves of it
\* establishes the invariant for the new holder of the lock.
LEMMA AppendKeeps ==
  ASSUME AuditInv, NEW t \in TablesType, NEW p \in Procs, NEW kind \in Kinds,
         Verified(t), HistoryOf(t) = HistoryOf(Committed), AppendTo(t, p, kind),
         \A e \in events \ t.events :
           /\ p = Cleaner /\ today # None
           /\ Expired(e)
           /\ t.checkpoint # None /\ e.seq <= t.checkpoint.seq
           /\ \A f \in t.events : e.seq < f.seq
  PROVE  AuditInv'
<1>1. PICK e \in NextEvents(t, kind) :
        /\ work' = Tables(t.events \cup {e}, t.checkpoint)
        /\ lock' = p
        /\ UNCHANGED <<events, checkpoint, today, clock>>
  BY DEF AppendTo
<1>2. clock \in Nat /\ TypeOK
  BY DEF AuditInv, TypeOK
<1>3. TypeOK'
  BY <1>1, <1>2, AppendVerifies DEF TypeOK, TablesType
<1>4. AuditVerifies' /\ Committed' = Committed
  BY <1>1 DEF AuditInv, AuditVerifies, Committed
<1>5. Verified(work')
  BY <1>1, <1>2, AppendVerifies
<1>6. \E fact \in Facts : HistoryOf(work') = Append(HistoryOf(Committed), fact)
  BY <1>1, <1>2, AppendExtends
<1>7. WorkLacksOnlyOld'
  <2>1. work'.events = t.events \cup {e}
    BY <1>1 DEF Tables
  <2>2. SUFFICES ASSUME NEW o \in events, o \notin t.events
                 PROVE  /\ p = Cleaner /\ today # None
                        /\ Expired(o)
                        /\ \A f \in t.events \cup {e} : o.seq < f.seq
    BY <1>1, <2>1 DEF WorkLacksOnlyOld, Expired
  <2>3. o.seq \in Nat /\ e.seq \in Nat
    BY <1>1, <1>2, <2>2, NextEventType DEF TypeOK, Events
  <2>4. o.seq < e.seq
    <3>1. CASE t.events = {}
      <4>1. e.seq = FirstSeq(t)
        BY <1>2, <3>1, NextEventType
      <4>2. FirstSeq(t) = t.checkpoint.seq + 1 /\ o.seq <= t.checkpoint.seq
        BY <2>2 DEF FirstSeq
      <4>3. t.checkpoint.seq \in Nat
        BY <2>2 DEF TablesType, Checkpoints
      <4>4. QED
        BY <2>3, <4>1, <4>2, <4>3
    <3>2. CASE t.events # {}
      <4>1. PICK f \in t.events : TRUE
        BY <3>2
      <4>2. o.seq < f.seq
        BY <2>2
      <4>3. f.seq < e.seq
        BY <1>2, NextEventType
      <4>4. f.seq \in Nat
        BY DEF TablesType, Events
      <4>5. QED
        BY <2>3, <4>2, <4>3, <4>4
    <3>3. QED
      BY <3>1, <3>2
  <2>5. QED
    BY <2>2, <2>3, <2>4
<1>8. QED
  BY <1>3, <1>4, <1>5, <1>6, <1>7 DEF AuditInv, WorkExtends

\* Every step keeps the invariant.
LEMMA AuditStep ==
  ASSUME AuditInv, [Next]_vars
  PROVE  AuditInv'
<1>0. TypeOK /\ Committed \in TablesType /\ Verified(Committed)
  BY CommittedType DEF AuditInv, AuditVerifies
<1>1. ASSUME NEW w \in Writers, NEW kind \in Kinds, Write(w, kind)
      PROVE  AuditInv'
  <2>1. Committed.events = events
    BY DEF Committed, Tables
  <2>2. QED
    BY <1>0, <1>1, <2>1, AppendKeeps DEF Write, Procs
<1>2. ASSUME NEW kind \in Kinds, Retire(kind)
      PROVE  AuditInv'
  <2>1. PICK t \in AfterRetirement : Verified(t) /\ AppendTo(t, Cleaner, kind) /\ today # None
    BY <1>2 DEF Retire
  <2>2. QED
    BY <1>0, <2>1, RetirementKeeps, AppendKeeps DEF Procs
<1>3. CASE StartCleanup
  BY <1>3 DEF StartCleanup, AuditInv, TypeOK, AuditVerifies, Committed, WorkExtends,
              WorkLacksOnlyOld
<1>4. CASE Commit
  <2>1. TypeOK'
    BY <1>0, <1>4 DEF Commit, TypeOK, Tables
  <2>2. Committed' = work
    BY <1>0, <1>4 DEF Commit, TypeOK, Committed, Tables
  <2>3. PICK fact \in Facts : HistoryOf(work) = Append(HistoryOf(Committed), fact)
    BY <1>4 DEF Commit, AuditInv, WorkExtends
  <2>4. HistoryOf(work) \in Seq(Facts)
    BY <2>3 DEF AuditInv
  <2>5. HistoryOf(Committed)' \in Seq(Facts)
    BY <2>2, <2>4
  <2>6. AuditVerifies'
    BY <1>4, <2>2 DEF Commit, AuditInv, AuditVerifies
  <2>7. QED
    BY <1>4, <2>1, <2>5, <2>6 DEF Commit, AuditInv
<1>5. CASE Rollback
  <2>1. TypeOK'
    BY <1>0, <1>5 DEF Rollback, TypeOK, Tables
  <2>2. QED
    BY <1>5, <2>1 DEF Rollback, AuditInv, AuditVerifies, Committed
<1>6. CASE AbandonCleanup
  BY <1>6 DEF AbandonCleanup, AuditInv, TypeOK, AuditVerifies, Committed, WorkExtends,
              WorkLacksOnlyOld
<1>7. ASSUME NEW t \in 0 .. MaxClock, SetClock(t)
      PROVE  AuditInv'
  BY <1>7 DEF SetClock, AuditInv, TypeOK, AuditVerifies, Committed, WorkExtends,
              WorkLacksOnlyOld, Expired
<1>8. CASE UNCHANGED vars
  BY <1>8 DEF vars, AuditInv, TypeOK, AuditVerifies, Committed, WorkExtends,
              WorkLacksOnlyOld, Expired
<1>9. QED
  BY <1>1, <1>2, <1>3, <1>4, <1>5, <1>6, <1>7, <1>8 DEF Next

\* The empty trail verifies.
LEMMA AuditStart == ASSUME Init PROVE AuditInv
<1>1. TypeOK
  BY DEF Init, TypeOK, Tables
<1>2. AuditVerifies
  BY DEF Init, AuditVerifies, Verified, Committed, Tables
<1>3. HistoryOf(Committed) \in Seq(Facts)
  BY DEF Init, HistoryOf, FirstPrevious, Committed, Tables
<1>4. lock = None
  BY DEF Init
<1>5. QED
  BY <1>1, <1>2, <1>3, <1>4 DEF AuditInv

\* The inductive invariant holds in every reachable state.
LEMMA AuditInvariant == Spec => []AuditInv
<1>1. AuditInv /\ [Next]_vars => AuditInv'
  BY AuditStep
<1>2. Init => AuditInv
  BY AuditStart
<1>3. QED
  BY <1>1, <1>2, PTL DEF Spec

\* The tables always hold what models.py declares.
THEOREM AuditTypeCorrect == Spec => []TypeOK
<1>1. AuditInv => TypeOK
  BY DEF AuditInv
<1>2. QED
  BY <1>1, AuditInvariant, PTL

\* The audit trail verifies from its checkpoint on, whatever was appended,
\* retired, rolled back or interrupted and however the clock was set.
THEOREM AuditAlwaysVerifies == Spec => []AuditVerifies
<1>1. AuditInv => AuditVerifies
  BY DEF AuditInv
<1>2. QED
  BY <1>1, AuditInvariant, PTL

\* A cleanup deletes only a prefix of events that were old enough when it
\* started, though it works on the trail in several steps.
THEOREM OldPrefixOnly == Spec => OnlyOldPrefixRetired
<1>1. AuditInv /\ [Next]_vars =>
        [\A e \in events \ events' :
           /\ e.time + RetainFor <= today
           /\ \A f \in events' : e.seq < f.seq]_vars
  <2> SUFFICES ASSUME AuditInv, [Next]_vars, NEW e \in events, e \notin events'
               PROVE  /\ e.time + RetainFor <= today
                      /\ \A f \in events' : e.seq < f.seq
    OBVIOUS
  <2>1. lock # None /\ events' = work.events
    BY DEF Next, Write, AppendTo, StartCleanup, Retire, Commit, Rollback, AbandonCleanup,
           SetClock, vars
  <2>2. QED
    BY <2>1 DEF AuditInv, WorkLacksOnlyOld, Expired
<1>2. QED
  BY <1>1, AuditInvariant, PTL DEF OnlyOldPrefixRetired, Spec

\* What the cleanup chooses to delete, the trigger of the database lets go,
\* unless the clock was set back meanwhile.
THEOREM RetirementNeverBlocked == Spec => []RetirementAccepted
<1>1. AuditInv => RetirementAccepted
  <2> SUFFICES ASSUME AuditInv, today # None, today <= clock,
                      NEW t \in AfterRetirement, NEW e \in events \ t.events
               PROVE  TriggerAllows(e, t.checkpoint)
    BY DEF RetirementAccepted
  <2>1. Expired(e) /\ e.seq <= t.checkpoint.seq
    BY CommittedType, RetirementKeeps DEF AuditInv, AuditVerifies
  <2>2. e.time \in Nat /\ today \in Nat /\ clock \in Nat
    BY DEF AuditInv, TypeOK, Events
  <2>3. QED
    BY <2>1, <2>2, AuditBounds DEF Expired, TriggerAllows
<1>2. QED
  BY <1>1, AuditInvariant, PTL

\* Seen through its last hash, the trail implements the append-only log.
THEOREM TrailImplementsLog == Spec => HistoryOnlyGrows
<1>1. Init => Log!Init
  BY DEF Init, HistoryOf, Committed, Tables, FirstPrevious, Log!Init
<1>2. AuditInv /\ AuditInv' /\ [Next]_vars =>
        [Log!Extend \/ Log!Seal]_<<HistoryOf(Committed), FALSE>>
  <2> SUFFICES ASSUME AuditInv, AuditInv', [Next]_vars
               PROVE  [Log!Extend \/ Log!Seal]_<<HistoryOf(Committed), FALSE>>
    OBVIOUS
  <2>1. CASE UNCHANGED <<events, checkpoint>>
    BY <2>1 DEF Committed, HistoryOf, FirstPrevious, LastOf
  <2>2. CASE Commit
    <3>1. Committed' = work /\ WorkExtends
      BY <2>2 DEF Commit, Committed, AuditInv, TypeOK, Tables
    <3>2. PICK fact \in Facts : HistoryOf(Committed)' = Append(HistoryOf(Committed), fact)
      BY <3>1 DEF WorkExtends
    <3>3. HistoryOf(Committed) \in Seq(Facts)
      BY DEF AuditInv
    <3>4. QED
      BY <3>2, <3>3 DEF Log!Extend
  <2>3. QED
    BY <2>1, <2>2 DEF Next, Write, AppendTo, StartCleanup, Retire, Rollback, AbandonCleanup,
                      SetClock, vars
<1>3. QED
  BY <1>1, <1>2, AuditInvariant, PTL DEF HistoryOnlyGrows, Spec, Log!Spec

=============================================================================
