------------------------------- MODULE AuditLog -------------------------------
(***************************************************************************)
(* The audit trail (audit.py, privacy_cleanup.retire_audit_prefix and the  *)
(* triggers of migration 0008): every transaction of the service appends   *)
(* one event to a hash chain that all sessions share, and once a day the   *)
(* cleanup retires the events older than 30 days, leaving a checkpoint of  *)
(* the last one.                                                           *)
(*                                                                         *)
(* Whoever appends or retires holds the advisory lock until its            *)
(* transaction ends (variable `lock'); what it wrote is visible to itself  *)
(* only (variable `work') and is lost if it is rolled back or its process  *)
(* dies.  Events are stamped with the wall clock of the machine, which may *)
(* be set back.                                                            *)
(*                                                                         *)
(* Abstractions: the hash of an event is the sequence of all events up to  *)
(* it; subject and details are part of its kind; the clock of the database *)
(* is the clock of the service.                                            *)
(***************************************************************************)
EXTENDS Naturals, Sequences, FiniteSets

CONSTANTS
  Writers,     \* transactions that append one event
  Cleaner,     \* the cleanup process
  Kinds,       \* event types, with their subject and details
  RetainFor,   \* the 30 days
  MaxClock,    \* bound: the clock is in 0..MaxClock
  MaxEvents,   \* bound: events ever appended
  None

Procs == Writers \cup {Cleaner}

ASSUME AuditBounds ==
  /\ RetainFor \in Nat /\ MaxClock \in Nat /\ MaxEvents \in Nat
  /\ None \notin Procs
  /\ None \notin [seq : Nat, hash : Seq([seq : Nat, kind : Kinds, time : Nat])]

VARIABLES
  events,      \* audit_events, as committed
  checkpoint,  \* audit_checkpoint, or None
  lock,        \* the process that holds the advisory lock, or None
  work,        \* the two tables as the lock's holder sees them
  today,       \* the time the running cleanup started at, or None
  clock        \* the wall clock

vars == <<events, checkpoint, lock, work, today, clock>>

Tables(es, c) == [events |-> es, checkpoint |-> c]
Committed == Tables(events, checkpoint)

Fact(e) == [seq |-> e.seq, kind |-> e.kind, time |-> e.time]

Facts  == [seq : Nat, kind : Kinds, time : Nat]
Events == [seq : Nat, kind : Kinds, time : Nat, previous : Seq(Facts), hash : Seq(Facts)]
Checkpoints == [seq : Nat, hash : Seq(Facts)]

-----------------------------------------------------------------------------
(***************************************************************************)
(* verify_audit_chain: the events follow the checkpoint, or the beginning, *)
(* without a gap, each with the hash of the one before it.                 *)
(***************************************************************************)
FirstSeq(t)     == IF t.checkpoint = None THEN 0 ELSE t.checkpoint.seq + 1
FirstPrevious(t) == IF t.checkpoint = None THEN <<>> ELSE t.checkpoint.hash

Verified(t) ==
  /\ \A e, f \in t.events : e.seq = f.seq => e = f
  /\ \A e \in t.events :
       /\ e.hash = Append(e.previous, Fact(e))
       /\ e.seq >= FirstSeq(t)
       /\ IF e.seq = FirstSeq(t)
          THEN e.previous = FirstPrevious(t)
          ELSE \E p \in t.events : p.seq + 1 = e.seq /\ e.previous = p.hash

(***************************************************************************)
(* append_audit_event.                                                     *)
(***************************************************************************)
LastOf(es) == {e \in es : \A f \in es : f.seq <= e.seq}

NewEvent(seq, previous, kind) ==
  [seq |-> seq, kind |-> kind, time |-> clock, previous |-> previous,
   hash |-> Append(previous, [seq |-> seq, kind |-> kind, time |-> clock])]

MutantNextEvents(t, kind) ==
  IF t.events = {}
  THEN {NewEvent(0, <<>>, kind)}
  ELSE {NewEvent(e.seq + 1, e.hash, kind) : e \in LastOf(t.events)}

\* The event after the last one, or after the checkpoint if none is left.
NextEvents(t, kind) ==
  IF t.events = {}
  THEN {NewEvent(FirstSeq(t), FirstPrevious(t), kind)}
  ELSE {NewEvent(e.seq + 1, e.hash, kind) : e \in LastOf(t.events)}

\* p appends an event to the tables it sees and keeps the lock.
AppendTo(t, p, kind) ==
  \E e \in NextEvents(t, kind) :
    /\ e.seq < MaxEvents
    /\ work' = Tables(t.events \cup {e}, t.checkpoint)
    /\ lock' = p
    /\ UNCHANGED <<events, checkpoint, today, clock>>

Write(w, kind) ==
  /\ lock = None
  /\ AppendTo(Committed, w, kind)

-----------------------------------------------------------------------------
(***************************************************************************)
(* The cleanup: it reads the clock, works on the sessions for a while, and *)
(* then retires and appends in one transaction.                            *)
(***************************************************************************)
StartCleanup ==
  /\ today = None
  /\ today' = clock
  /\ UNCHANGED <<events, checkpoint, lock, work, clock>>

MutantExpired(e) == e.time + RetainFor <= today + 1
Expired(e) == e.time + RetainFor <= today

MutantRetirable == {e \in events : Expired(e)}

\* Old events that no recent event precedes.
Retirable ==
  {e \in events : Expired(e) /\ \A f \in events : ~Expired(f) => e.seq < f.seq}

Retired(b) == {e \in events : e.seq <= b.seq}

\* The delete trigger of the database.
TriggerAllows(e, c) == e.time + RetainFor <= clock /\ e.seq <= c.seq

MutantCheckpointOf(b) == [seq |-> b.seq, hash |-> b.previous]
CheckpointOf(b) == [seq |-> b.seq, hash |-> b.hash]

\* The tables after retiring up to the last retirable event, if any.
AfterRetirement ==
  IF Retirable = {}
  THEN {Committed}
  ELSE {Tables(events \ Retired(b), CheckpointOf(b)) : b \in LastOf(Retirable)}

\* Retirement: verify, move the checkpoint, delete (the trigger permitting),
\* verify again, then record the cleanup in the same transaction.
Retire(kind) ==
  /\ today # None
  /\ lock = None
  /\ Verified(Committed)
  /\ \E t \in AfterRetirement :
       /\ \A e \in events \ t.events : TriggerAllows(e, t.checkpoint)
       /\ Verified(t)
       /\ AppendTo(t, Cleaner, kind)

-----------------------------------------------------------------------------
Commit ==
  /\ lock # None
  /\ events' = work.events
  /\ checkpoint' = work.checkpoint
  /\ lock' = None
  /\ today' = IF lock = Cleaner THEN None ELSE today
  /\ work' = Tables({}, None)
  /\ UNCHANGED clock

\* A rollback, or the death of the process.
Rollback ==
  /\ lock # None
  /\ lock' = None
  /\ today' = IF lock = Cleaner THEN None ELSE today
  /\ work' = Tables({}, None)
  /\ UNCHANGED <<events, checkpoint, clock>>

\* The cleanup ends without retiring: dry run, refused deletion, failure.
AbandonCleanup ==
  /\ today # None /\ lock # Cleaner
  /\ today' = None
  /\ UNCHANGED <<events, checkpoint, lock, work, clock>>

\* The wall clock advances or is set back.
SetClock(t) ==
  /\ t # clock
  /\ clock' = t
  /\ UNCHANGED <<events, checkpoint, lock, work, today>>

Init ==
  /\ events = {} /\ checkpoint = None
  /\ lock = None /\ work = Tables({}, None)
  /\ today = None
  /\ clock = 0

Next ==
  \/ \E w \in Writers, kind \in Kinds : Write(w, kind)
  \/ StartCleanup
  \/ \E kind \in Kinds : Retire(kind)
  \/ Commit \/ Rollback \/ AbandonCleanup
  \/ \E t \in 0 .. MaxClock : SetClock(t)

Spec == Init /\ [][Next]_vars

-----------------------------------------------------------------------------
\* The tables hold what models.py declares.
TypeOK ==
  /\ events \subseteq Events
  /\ checkpoint \in Checkpoints \cup {None}
  /\ lock \in Procs \cup {None}
  /\ work \in [events : SUBSET Events, checkpoint : Checkpoints \cup {None}]
  /\ today \in Nat \cup {None}
  /\ clock \in Nat

\* Whatever was appended, retired, rolled back or interrupted, the stored
\* trail verifies from its checkpoint on: no retirement ever cuts it in the
\* middle and no append after one restarts or forks it.
AuditVerifies == Verified(Committed)

\* The history that a trail still commits to.
HistoryOf(t) ==
  IF t.events = {} THEN FirstPrevious(t) ELSE (CHOOSE e \in LastOf(t.events) : TRUE).hash

Log == INSTANCE SealedLog WITH log <- HistoryOf(Committed), sealed <- FALSE

\* Seen through its last hash the trail is an append-only log: retirement
\* forgets the old events but not that they were there.
HistoryOnlyGrows == Log!Spec

\* A cleanup only takes away events that were old enough when it started,
\* and only a prefix, even when the clock was set back while they were
\* written (events out of order of time) or moved while the cleanup ran.
OnlyOldPrefixRetired ==
  [][\A e \in events \ events' :
       /\ e.time + RetainFor <= today
       /\ \A f \in events' : e.seq < f.seq]_vars

\* The rows that the cleanup chooses to delete are rows the trigger lets go,
\* unless the clock was set back since the cleanup started: otherwise a
\* single event written with a clock ahead would make every cleanup fail.
RetirementAccepted ==
  today # None /\ lock = None =>
    (today <= clock =>
       \A t \in AfterRetirement : \A e \in events \ t.events : TriggerAllows(e, t.checkpoint))

=============================================================================
