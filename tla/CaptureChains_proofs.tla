------------------------ MODULE CaptureChains_proofs ------------------------
(***************************************************************************)
(* Proofs about the extension and the server it talks to (CaptureClient):  *)
(* parts keep their numbers, the chains of the two sides never part, and a *)
(* capture that is complete is signed and stored as the extension has it.  *)
(* The types and the invariant of the server under the extension are in    *)
(* CaptureClient_proofs.                                                   *)
(***************************************************************************)
EXTENDS CaptureClient_proofs

-----------------------------------------------------------------------------
(***************************************************************************)
(* Before the capture starts nothing is under way.                         *)
(***************************************************************************)
Early == {"absent", "created"}

QuietInv ==
  status \in Early =>
    /\ local = None /\ op = None /\ mail = <<>> /\ stopper.pc = "idle" /\ ~recorder.on
    /\ wire = {} /\ serving = None /\ objects = {} /\ parts = {}

\* The parts in IndexedDB go with the session.
NoOrphans == local = None => store = {}

\* Until the session has a key, only its creation and the start are possible.
LEMMA OnlyStarts ==
  ASSUME ClientInv, QuietInv, status \in Early, ClientNext
  PROVE  OpenSession \/ \E source \in {"tab", "desktop"} : StartCapture(source)
<1>1. /\ local = None /\ op = None /\ mail = <<>> /\ stopper.pc = "idle" /\ ~recorder.on
      /\ wire = {} /\ serving = None
  BY DEF QuietInv
<1>2. upload = None
  BY <1>1, Types DEF ClientTypeOK
<1>3. ~Take
  BY <1>1 DEF Take
<1>4. ~QueueStep
  BY <1>1, <1>3 DEF QueueStep, ReadSession, QueuePart, RetryParts, StartRecorder, SaveRecording,
     SaveFinished, BeginStop, BeginFinalizing, Interrupt, AskRecorder, AwaitRecorder,
     DeleteSession, ThrowError, CallServer, ReceiveEntry, Acknowledge, ReceiveResult,
     ReceiveError, Finish, Catch, Running, Answered
<1>5. ~StopperStep
  BY <1>1 DEF StopperStep, RecorderHasStopped, ReadForError, SaveError
<1>6. ~GiveUp /\ ~PressStop /\ ~GetState /\ ~EmitChunk /\ ~SharingEnds
  BY <1>1 DEF GiveUp, PressStop, GetState, EmitChunk, SharingEnds, Active
<1>7. /\ \A name \in {"marker", "shot", "resume", "discard"} : ~Press(name)
      /\ \A withBrowser \in BOOLEAN : ~Die(withBrowser)
  BY <1>1 DEF Press, Active, Die
<1>8. ~CommitUpload /\ ~ServerDies
  BY <1>2 DEF CommitUpload, CommitPart, ServerDies, Crash
<1>9. ~(\E c \in wire : Serve(c))
  BY <1>1
<1>10. QED
  BY <1>4, <1>5, <1>6, <1>7, <1>8, <1>9 DEF ClientNext

\* A handler never takes the session back to where it had no key.
LEMMA NeverEarlyAgain ==
  ASSUME BaseInv, status \notin Early, ClientNext
  PROVE  status' \notin Early
<1>1. CASE UNCHANGED vars
  BY <1>1 DEF vars, session
<1>2. CASE OpenSession \/ \E source \in {"tab", "desktop"} : StartCapture(source)
  BY <1>2 DEF OpenSession, StartCapture, CreateSession, RegisterKey, Early
<1>3. CASE CommitUpload \/ ServerDies
  BY <1>3 DEF CommitUpload, ServerDies, CommitPart, Crash, session, Early
<1>4. ASSUME NEW c \in wire, Serve(c)
      PROVE  status' \notin Early
  <2>1. CASE ServeAccepted(c)
    <3>1. Accept(c.request)
      BY <2>1 DEF ServeAccepted
    <3>2. QED
      BY <3>1 DEF Accept, CreateEvent, CompleteArtifact, DeclareUnavailable, FinalizeSession,
         FinalStatus, RecordIncident, session, Early
  <2>2. CASE ServePart(c)
    BY <2>2 DEF ServePart, PutPart, RecordIncident, session, Early
  <2>3. CASE ServeRepeated(c) \/ ServeRefused(c)
    BY <2>3 DEF ServeRepeated, ServeRefused, vars, session
  <2>4. QED
    BY <1>4, <2>1, <2>2, <2>3 DEF Serve
<1>5. CASE QueueStep
  BY <1>1, <1>5, QueueStepKeeps DEF BaseInv
<1>6. CASE \/ \E name \in {"marker", "shot", "resume", "discard"} : Press(name)
           \/ PressStop \/ GetState \/ EmitChunk \/ SharingEnds \/ StopperStep \/ GiveUp
           \/ \E withBrowser \in BOOLEAN : Die(withBrowser)
  BY <1>1, <1>6, AsideStepKeeps DEF BaseInv
<1>7. QED
  BY <1>2, <1>3, <1>4, <1>5, <1>6 DEF ClientNext

\* Once the session has a key it never loses it; before, only its creation runs.
LEMMA QuietStep ==
  ASSUME BaseInv, QuietInv, [ClientNext]_allVars
  PROVE  QuietInv'
<1>1. CASE UNCHANGED allVars
  BY <1>1 DEF allVars, vars, clientVars, indexedDB, background, network, session, tables, QuietInv
<1>2. CASE ClientNext /\ status \notin Early
  BY <1>2, NeverEarlyAgain DEF QuietInv
<1>3. CASE ClientNext /\ status \in Early
  <2>1. OpenSession \/ \E source \in {"tab", "desktop"} : StartCapture(source)
    BY <1>3, OnlyStarts DEF BaseInv
  <2>2. CASE OpenSession
    BY <1>3, <2>2 DEF OpenSession, CreateSession, clientVars, indexedDB, background, network,
                     tables, QuietInv
  <2>3. CASE \E source \in {"tab", "desktop"} : StartCapture(source)
    BY <2>3 DEF StartCapture, RegisterKey, QuietInv, Early
  <2>4. QED
    BY <2>1, <2>2, <2>3
<1>4. QED
  BY <1>1, <1>2, <1>3

-----------------------------------------------------------------------------
(***************************************************************************)
(* What a step of the extension alone does to IndexedDB and the network.   *)
(***************************************************************************)
AsideStep ==
  \/ \E name \in {"marker", "shot", "resume", "discard"} : Press(name)
  \/ PressStop \/ GetState \/ EmitChunk \/ SharingEnds \/ StopperStep \/ GiveUp
  \/ \E withBrowser \in BOOLEAN : Die(withBrowser)

\* The session keeps its chain.
SameLocal ==
  \/ local' = local
  \/ /\ local # None /\ local' # None
     /\ local'.prev = local.prev /\ local'.seq = local.seq
     /\ local'.artifacts = local.artifacts
     /\ local'.status = "complete" <=> local.status = "complete"

\* Tasks that save the session the operation has in memory.
Saves == SaveRecording \/ SaveFinished \/ (ReceiveResult /\ Task.do = "package")

\* What the tasks that save write: the chain and the results in memory.
LEMMA SessionSaved ==
  ASSUME ClientInv, Saves
  PROVE  /\ op # None /\ op.s # None /\ op.s \in LocalSessions /\ op.s.status # "complete"
         /\ local # None /\ local' # None /\ local' \in LocalSessions
         /\ local'.prev = op.s.prev /\ local'.seq = op.s.seq
         /\ local'.artifacts = op.s.artifacts
         /\ local'.status = "complete" => ReceiveResult
<1>1. CASE SaveRecording
  <2>1. op.s \in LocalSessions /\ Task.recording \in BOOLEAN /\ op # None /\ local # None /\ op.s # None
        /\ op.s.status # "complete"
    <3>1. /\ Task.do = "save" /\ Task \in Tasks /\ op.s \in LocalSessions /\ op # None /\ local # None
          /\ op.s # None /\ op.s.status # "complete"
      BY <1>1, RunningFacts DEF SaveRecording
    <3>2. QED
      BY <3>1, TaskFields
  <2>2. PICK t : t = [op.s EXCEPT !.status = "recording", !.recording = Task.recording]
    OBVIOUS
  <2>3. t \in LocalSessions
    BY <2>1, <2>2, SavedSession
  <2>4. /\ t.prev = op.s.prev /\ t.seq = op.s.seq /\ t.artifacts = op.s.artifacts
        /\ t.status = "recording"
    BY <2>1, <2>2 DEF LocalSessions
  <2>5. local' = t
    BY <1>1, <2>2 DEF SaveRecording
  <2>6. QED
    BY <2>1, <2>3, <2>4, <2>5, ClientNoneAssumption
<1>2. CASE SaveFinished
  <2>1. /\ op.s \in LocalSessions /\ op # None /\ local # None /\ op.s # None
        /\ op.s.status # "complete"
    BY <1>2, RunningFacts DEF SaveFinished
  <2>2. local' = [op.s EXCEPT !.finished = TRUE]
    BY <1>2 DEF SaveFinished
  <2>3. local' \in LocalSessions
    BY <2>1, <2>2 DEF LocalSessions
  <2>4. /\ local'.prev = op.s.prev /\ local'.seq = op.s.seq /\ local'.artifacts = op.s.artifacts
        /\ local'.status = op.s.status
    BY <2>1, <2>2 DEF LocalSessions
  <2>5. QED
    BY <2>1, <2>3, <2>4, ClientNoneAssumption
<1>3. CASE ReceiveResult /\ Task.do = "package"
  <2>1. /\ op.s \in LocalSessions /\ op # None /\ local # None /\ op.s # None
        /\ op.s.status # "complete"
    BY <1>3, WaitingFacts DEF ReceiveResult, Answered
  <2>2. local' = [op.s EXCEPT !.status = "complete"]
    BY <1>3 DEF ReceiveResult
  <2>3. local' \in LocalSessions
    BY <2>1, <2>2 DEF LocalSessions
  <2>4. local'.prev = op.s.prev /\ local'.seq = op.s.seq /\ local'.artifacts = op.s.artifacts
    BY <2>1, <2>2 DEF LocalSessions
  <2>5. QED
    BY <1>3, <2>1, <2>3, <2>4, ClientNoneAssumption
<1>4. QED
  BY <1>1, <1>2, <1>3 DEF Saves

\* The session of IndexedDB keeps its chain but for seven steps.
LEMMA LocalFrame ==
  ASSUME ClientInv, QueueStep \/ AsideStep
  PROVE  SameLocal \/ (QueuePart /\ Active) \/ ReceiveEntry \/ Saves \/ DeleteSession \/ SaveError
<1>1. ASSUME NEW s \in LocalSessions
      PROVE  /\ s # None
             /\ \A on \in BOOLEAN : LET t == [s EXCEPT !.recording = on]
                                    IN  /\ t \in LocalSessions /\ t.prev = s.prev /\ t.seq = s.seq
                                        /\ t.artifacts = s.artifacts /\ t.status = s.status
             /\ \A st \in {"finalizing", "interrupted"} :
                  LET t == [s EXCEPT !.status = st]
                  IN  /\ t \in LocalSessions /\ t.prev = s.prev /\ t.seq = s.seq
                      /\ t.artifacts = s.artifacts /\ t.status = st
  BY ClientNoneAssumption DEF LocalSessions
<1>2. local \in LocalSessions \cup {None}
  BY Types
<1>3. CASE \/ Take \/ ReadSession \/ RetryParts \/ StartRecorder \/ AskRecorder \/ AwaitRecorder
           \/ ThrowError \/ CallServer \/ Acknowledge \/ ReceiveError \/ Finish \/ GiveUp
           \/ (\E name \in {"marker", "shot", "resume", "discard"} : Press(name))
           \/ PressStop \/ EmitChunk \/ SharingEnds \/ RecorderHasStopped \/ ReadForError
           \/ (\E withBrowser \in BOOLEAN : Die(withBrowser))
  <2>1. local' = local
    BY <1>3 DEF Take, ReadSession, RetryParts, StartRecorder, AskRecorder, AwaitRecorder,
       ThrowError, CallServer, Acknowledge, ReceiveError, Finish, GiveUp, Press, PressStop,
       EmitChunk, SharingEnds, RecorderHasStopped, ReadForError, Die, indexedDB
  <2>2. QED
    BY <2>1 DEF SameLocal
<1>4. CASE QueuePart
  BY <1>4 DEF QueuePart, indexedDB, SameLocal
<1>5. CASE BeginStop
  <2>1. local \in LocalSessions /\ local' = [local EXCEPT !.recording = FALSE]
    BY <1>5, RunningFacts DEF BeginStop
  <2>2. QED
    BY <1>1, <2>1 DEF SameLocal
<1>6. CASE BeginFinalizing
  <2>1. local \in LocalSessions
    BY <1>6, RunningFacts DEF BeginFinalizing
  <2>2. CASE local' = local
    BY <2>2 DEF SameLocal
  <2>3. CASE local.status # "complete" /\ local' = [local EXCEPT !.status = "finalizing"]
    BY <1>1, <2>1, <2>3 DEF SameLocal
  <2>4. QED
    BY <1>6, <2>2, <2>3 DEF BeginFinalizing, Active
<1>7. CASE Interrupt \/ GetState
  <2>1. CASE local' = local
    BY <2>1 DEF SameLocal
  <2>2. CASE local # None /\ local.status = "recording" /\ local' = [local EXCEPT !.status = "interrupted"]
    BY <1>1, <1>2, <2>2 DEF SameLocal
  <2>3. QED
    BY <1>7, <2>1, <2>2 DEF Interrupt, GetState
<1>8. CASE Catch
  <2>1. local' = local \/ local' = WithError(local)
    BY <1>8 DEF Catch
  <2>2. local = None => WithError(local) = local
    BY DEF WithError
  <2>3. QED
    BY <1>2, <2>1, <2>2, WithErrorType DEF SameLocal
<1>9. CASE ReceiveResult
  BY <1>9 DEF ReceiveResult, SameLocal, Saves
<1>10. QED
  BY <1>3, <1>4, <1>5, <1>6, <1>7, <1>8, <1>9 DEF QueueStep, AsideStep, StopperStep, Saves

\* The parts of IndexedDB change in three steps.
LEMMA StoreFrame ==
  ASSUME ClientInv, QueueStep \/ AsideStep
  PROVE  store' = store \/ (QueuePart /\ Active) \/ (Acknowledge /\ Active) \/ DeleteSession
<1>1. CASE QueuePart \/ Acknowledge \/ DeleteSession
  BY <1>1 DEF QueuePart, Acknowledge, indexedDB
<1>2. CASE \/ Take \/ ReadSession \/ RetryParts \/ StartRecorder \/ AskRecorder \/ AwaitRecorder
           \/ ThrowError \/ CallServer \/ ReceiveError \/ Finish \/ GiveUp
           \/ (\E name \in {"marker", "shot", "resume", "discard"} : Press(name))
           \/ PressStop \/ EmitChunk \/ SharingEnds \/ RecorderHasStopped \/ ReadForError
           \/ (\E withBrowser \in BOOLEAN : Die(withBrowser))
  BY <1>2 DEF Take, ReadSession, RetryParts, StartRecorder, AskRecorder, AwaitRecorder,
       ThrowError, CallServer, ReceiveError, Finish, GiveUp, Press, PressStop,
       EmitChunk, SharingEnds, RecorderHasStopped, ReadForError, Die, indexedDB
<1>3. CASE \/ SaveRecording \/ SaveFinished \/ BeginStop \/ BeginFinalizing \/ Interrupt
           \/ ReceiveEntry \/ ReceiveResult \/ Catch \/ SaveError \/ GetState
  BY <1>3 DEF SaveRecording, SaveFinished, BeginStop, BeginFinalizing, Interrupt,
       ReceiveEntry, ReceiveResult, Catch, SaveError, GetState
<1>4. QED
  BY <1>1, <1>2, <1>3 DEF QueueStep, AsideStep, StopperStep

\* Only a call sends, and only SaveError may overwrite.
LEMMA NetworkFrame ==
  ASSUME QueueStep \/ AsideStep
  PROVE  /\ serving' = serving /\ (wire' = wire \/ CallServer)
         /\ overwrote' = overwrote \/ SaveError
<1>1. CASE QueueStep
  <2>1. CASE CallServer
    BY <2>1 DEF CallServer
  <2>2. CASE ~CallServer
    <3>1. UNCHANGED <<network, overwrote>>
      BY <1>1, <2>2, Zenon
         DEF QueueStep, Take, ReadSession, QueuePart, RetryParts, StartRecorder, SaveRecording,
             SaveFinished, BeginStop, BeginFinalizing, Interrupt, AskRecorder, AwaitRecorder,
             DeleteSession, ThrowError, ReceiveEntry, Acknowledge, ReceiveResult,
             ReceiveError, Finish, Catch
    <3>2. QED
      BY <3>1 DEF network
  <2>3. QED
    BY <2>1, <2>2
<1>2. CASE AsideStep
  BY <1>2 DEF AsideStep, Press, PressStop, GetState, EmitChunk, SharingEnds, StopperStep,
         RecorderHasStopped, ReadForError, SaveError, GiveUp, Die, network
<1>3. QED
  BY <1>1, <1>2

\* The steps of the system, sorted by who takes them.
LEMMA Steps ==
  ASSUME [ClientNext]_allVars
  PROVE  \/ QueueStep \/ AsideStep \/ OpenSession
         \/ (\E source \in {"tab", "desktop"} : StartCapture(source))
         \/ (\E c \in wire : Serve(c)) \/ CommitUpload \/ ServerDies
         \/ UNCHANGED allVars
BY DEF ClientNext, AsideStep

\* The server never touches IndexedDB.
LEMMA ServerFrame ==
  ASSUME OpenSession \/ (\E c \in wire : Serve(c)) \/ CommitUpload \/ ServerDies
         \/ UNCHANGED allVars
  PROVE  /\ local' = local /\ store' = store /\ stopper' = stopper /\ overwrote' = overwrote
         /\ wire' \subseteq wire
         /\ \/ op' = op
            \/ op # None /\ op' = [op EXCEPT !.answer = "ok"]
            \/ op # None /\ op' = [op EXCEPT !.answer = "refused"]
<1>1. CASE OpenSession
  BY <1>1 DEF OpenSession, clientVars, indexedDB, background, network
<1>2. CASE \E c \in wire : Serve(c)
  <2>1. PICK c \in wire : Serve(c)
    BY <1>2
  <2>2. /\ local' = local /\ store' = store /\ stopper' = stopper /\ overwrote' = overwrote
        /\ wire' = wire \ {c}
    BY <2>1 DEF Serve, indexedDB
  <2>3. op' = op \/ Answer(c, "ok") \/ Answer(c, "refused")
    BY <2>1 DEF Serve, ServeAccepted, ServePart, ServeRepeated, ServeRefused
  <2>4. QED
    BY <2>2, <2>3 DEF Answer
<1>3. CASE CommitUpload \/ ServerDies
  <2>1. /\ local' = local /\ store' = store /\ stopper' = stopper /\ overwrote' = overwrote
        /\ wire' = wire
    BY <1>3 DEF CommitUpload, ServerDies, indexedDB
  <2>2. Answer(serving, "ok") \/ Answer(serving, "refused")
    BY <1>3 DEF CommitUpload, ServerDies
  <2>3. QED
    BY <2>1, <2>2 DEF Answer
<1>4. CASE UNCHANGED allVars
  BY <1>4 DEF allVars, clientVars, indexedDB, background, network
<1>5. QED
  BY <1>1, <1>2, <1>3, <1>4

\* Parts are queued for a session only, and deleted with it.
LEMMA NoOrphansStep ==
  ASSUME BaseInv, NoOrphans, [ClientNext]_allVars
  PROVE  NoOrphans'
<1>1. ClientInv
  BY DEF BaseInv
<1>2. CASE QueueStep \/ AsideStep
  <2>1. CASE QueuePart /\ Active
    BY <1>1, <2>1, QueueWrites DEF NoOrphans
  <2>2. CASE DeleteSession
    BY <2>2 DEF DeleteSession, NoOrphans
  <2>3. CASE Acknowledge /\ Active
    BY <2>3 DEF Acknowledge, Active, NoOrphans
  <2>4. CASE store' = store /\ ~(QueuePart /\ Active) /\ ~DeleteSession
    <3>1. SameLocal \/ ReceiveEntry \/ Saves \/ SaveError
      BY <1>1, <1>2, <2>4, LocalFrame
    <3>2. CASE SameLocal
      BY <2>4, <3>2 DEF SameLocal, NoOrphans
    <3>3. CASE ReceiveEntry
      <4>1. op # None /\ op.call # None /\ Task.do \in Linking /\ local' = AfterAnswer
        BY <3>3 DEF ReceiveEntry, Answered, Linking
      <4>2. QED
        BY <1>1, <4>1, AfterAnswerType DEF NoOrphans
    <3>4. CASE Saves
      BY <1>1, <3>4, SessionSaved DEF NoOrphans
    <3>5. CASE SaveError
      <4>1. stopper.copy # None /\ stopper.copy \in LocalSessions /\ local' = WithError(stopper.copy)
        BY <1>1, <3>5, Types DEF SaveError, StopperInv, Stoppers
      <4>2. WithError(stopper.copy) # None
        BY <4>1, WithErrorType
      <4>3. local' # None
        BY <4>1, <4>2
      <4>4. QED
        BY <4>3 DEF NoOrphans
    <3>6. QED
      BY <3>1, <3>2, <3>3, <3>4, <3>5
  <2>5. QED
    BY <1>1, <1>2, <2>1, <2>2, <2>3, <2>4, StoreFrame
<1>3. CASE \E source \in {"tab", "desktop"} : StartCapture(source)
  BY <1>1, <1>3, Types, SessionTypes DEF StartCapture, NoOrphans
<1>4. CASE OpenSession \/ (\E c \in wire : Serve(c)) \/ CommitUpload \/ ServerDies
           \/ UNCHANGED allVars
  BY <1>4, ServerFrame DEF NoOrphans
<1>5. QED
  BY <1>2, <1>3, <1>4, Steps

-----------------------------------------------------------------------------
(***************************************************************************)
(* Every upload that was ever sent claims one number for one part: the     *)
(* claims are what the requests under way, the store and the tables agree  *)
(* on, also after the session is deleted.                                  *)
(***************************************************************************)
Claims == [artifact : Names, part : Nat, bytes : Contents, entry : Drafts]

ClaimOf(r) ==
  [artifact |-> r.artifact, part |-> r.part, bytes |-> r.bytes, entry |-> r.entry]

SamePart(x, y) == x.artifact = y.artifact /\ x.part = y.part

\* A row of the parts was stored for a claim, with its entry and its receipt.
StoredFor(q, t) ==
  /\ SamePart(q, t) /\ q.hash = t.bytes /\ q.key = PartKey(q.artifact, q.part)
  /\ NewRow(EntryKey(q.key), t.entry, TheKey) \in entries
  /\ \E x \in receipts : x.seq = t.entry.facts.seq

Ledger(T) ==
  /\ T \in SUBSET Claims
  /\ \A t, u \in T : SamePart(t, u) => t = u
  /\ \A c \in wire : c.request.kind = "part" => ClaimOf(c.request) \in T
  /\ serving # None => ClaimOf(serving.request) \in T
  /\ \A o \in objects : \E t \in T : SamePart(o, t) /\ o.bytes = t.bytes
  /\ \A q \in parts : \E t \in T : StoredFor(q, t)
  /\ local # None => \A t \in T : \E p \in store : Matches(t, p)

LedgerInv == ~overwrote => \E T : Ledger(T)

\* The extension alone: it sends one more claim at most.
LEMMA ExtensionLedger ==
  ASSUME BaseInv, NoOrphans, LedgerInv, QueueStep \/ AsideStep
  PROVE  LedgerInv'
<1>1. ClientInv /\ UNCHANGED vars
  BY QueueStepKeeps, AsideStepKeeps DEF BaseInv, AsideStep
<1>2. UNCHANGED <<objects, parts, entries, receipts, upload>>
  BY <1>1 DEF vars, tables
<1>3. SUFFICES ASSUME ~overwrote'
               PROVE  \E T : Ledger(T)'
  BY DEF LedgerInv
<1>4. ~overwrote /\ (SaveError => local # None)
  <2>1. CASE SaveError
    <3>1. overwrote' = (overwrote \/ local = None \/ local.seq # stopper.copy.seq)
      BY <2>1 DEF SaveError
    <3>2. ~(overwrote \/ local = None \/ local.seq # stopper.copy.seq)
      BY <1>3, <3>1, Zenon
    <3>3. QED
      BY <3>2, Zenon
  <2>2. CASE overwrote' = overwrote /\ ~SaveError
    BY <1>3, <2>2, Zenon
  <2>3. QED
    BY <2>1, <2>2, NetworkFrame, Zenon
<1>5. PICK T : Ledger(T)
  BY <1>4 DEF LedgerInv
<1>6. local' # None => local # None
  <2>1. CASE SameLocal
    BY <2>1 DEF SameLocal
  <2>2. CASE QueuePart /\ Active
    BY <2>2 DEF Active
  <2>3. CASE ReceiveEntry
    <3>1. op # None /\ op.call # None /\ Task.do # "upload"
      BY <2>3 DEF ReceiveEntry, Answered
    <3>2. QED
      BY <1>1, <3>1, WaitingFacts
  <2>4. CASE Saves
    BY <1>1, <2>4, SessionSaved
  <2>5. CASE DeleteSession
    BY <2>5 DEF DeleteSession
  <2>6. QED
    BY <1>1, <1>4, <2>1, <2>2, <2>3, <2>4, <2>5, LocalFrame
<1>7. ASSUME local' # None, NEW p \in store
      PROVE  \E q \in store' : SamePart(q, p) /\ q.bytes = p.bytes /\ q.entry = p.entry
  <2>1. CASE store' = store
    BY <2>1 DEF SamePart
  <2>2. CASE QueuePart /\ Active
    BY <1>1, <2>2, QueueWrites DEF SamePart
  <2>3. CASE Acknowledge /\ Active
    <3>1. PICK x \in store, y \in StoredParts :
            /\ y.artifact = x.artifact /\ y.part = x.part /\ y.bytes = x.bytes
            /\ y.entry = x.entry
            /\ store' = (store \ {x}) \cup {y}
      BY <1>1, <2>3, AcknowledgeWrites
    <3>2. QED
      BY <3>1 DEF SamePart
  <2>4. CASE DeleteSession
    BY <1>7, <2>4 DEF DeleteSession
  <2>5. QED
    BY <1>1, <2>1, <2>2, <2>3, <2>4, StoreFrame
<1>8. ASSUME local' # None, NEW t, \E p \in store : Matches(t, p)
      PROVE  \E q \in store' : Matches(t, q)
  BY <1>7, <1>8 DEF Matches, SamePart
<1>9. CASE wire' = wire
  <2>1. Ledger(T)'
    BY <1>2, <1>5, <1>6, <1>8, <1>9, NetworkFrame DEF Ledger, StoredFor
  <2>2. QED
    BY <2>1
<1>10. CASE CallServer
  <2>1. PICK do \in {"event", "upload", "complete", "missing", "finalize", "package"} : Running(do)
    BY <1>10 DEF CallServer
  <2>2. /\ op # None /\ op.todo # <<>> /\ Task.do = do
    BY <1>1, <2>1, RunningFacts
  <2>3. CASE Task.do \in {"complete", "missing"} /\ (~Active \/ PartsMissing(Task))
    BY <1>9, <1>10, <2>3 DEF CallServer
  <2>4. CASE ~(Task.do \in {"complete", "missing"} /\ (~Active \/ PartsMissing(Task)))
    <3>1. PICK r : r = MakeRequest(Task)
      OBVIOUS
    <3>2. wire' = wire \cup {Sent(r)} /\ Sent(r).request = r
      BY <1>10, <2>4, <3>1 DEF CallServer, Sent
    <3>3. r \in Requests /\ r.kind = KindOf(Task.do)
      BY <1>1, <2>2, <2>4, <3>1, MakeRequestType
    <3>4. CASE Task.do # "upload"
      <4>1. r.kind # "part"
        BY <2>2, <3>3, <3>4 DEF KindOf
      <4>2. Ledger(T)'
        BY <1>2, <1>5, <1>6, <1>8, <3>2, <4>1, NetworkFrame DEF Ledger, StoredFor
      <4>3. QED
        BY <4>2
    <3>5. CASE Task.do = "upload"
      <4>1. PICK p \in store : Matches(r, p)
        BY <1>1, <2>2, <3>1, <3>5, MakeRequestType
      <4>2. local # None
        BY <4>1 DEF NoOrphans
      <4>3. ClaimOf(r) \in Claims /\ SamePart(ClaimOf(r), p) /\ Matches(ClaimOf(r), p)
        BY <3>3, <3>5, <4>1, RequestFields DEF Claims, ClaimOf, SamePart, Matches, KindOf
      <4>4. ASSUME NEW t \in T, SamePart(t, ClaimOf(r))
            PROVE  t = ClaimOf(r)
        <5>1. PICK q \in store : Matches(t, q)
          BY <1>5, <4>2 DEF Ledger
        <5>2. q = p
          BY <1>1, <4>1, <4>3, <4>4, <5>1, Types DEF Matches, SamePart, StoreInv, OnePart
        <5>3. t \in Claims /\ ClaimOf(r) \in Claims
          BY <1>5, <4>3 DEF Ledger
        <5>4. t.artifact = r.artifact /\ t.part = r.part /\ t.bytes = r.bytes /\ t.entry = r.entry
          BY <4>1, <5>1, <5>2 DEF Matches
        <5>5. QED
          BY <5>3, <5>4 DEF Claims, ClaimOf
      <4>5. PICK U : U = T \cup {ClaimOf(r)}
        OBVIOUS
      <4>6. U \in SUBSET Claims /\ T \subseteq U /\ \A t, u \in U : SamePart(t, u) => t = u
        BY <1>5, <4>3, <4>4, <4>5 DEF Ledger, SamePart
      <4>7. \A t \in U : \E q \in store : Matches(t, q)
        BY <1>5, <4>2, <4>3, <4>5 DEF Ledger
      <4>8. Ledger(U)'
        BY <1>2, <1>5, <1>8, <3>2, <4>5, <4>6, <4>7, NetworkFrame DEF Ledger, StoredFor
      <4>9. QED
        BY <4>8
    <3>6. QED
      BY <3>4, <3>5
  <2>5. QED
    BY <2>3, <2>4
<1>11. QED
  BY <1>9, <1>10, NetworkFrame

\* What an accepted request leaves alone.
LEMMA AcceptFrame ==
  ASSUME NEW r, Accept(r)
  PROVE  /\ parts' = parts /\ receipts' = receipts /\ objects' = objects
         /\ entries \subseteq entries'
BY DEF Accept, CreateEvent, CompleteArtifact, DeclareUnavailable, FinalizeSession,
       RecordIncident, AddEntry, tables

\* The server: a claim becomes an object, an upload, rows.
LEMMA ServerLedger ==
  ASSUME BaseInv, LedgerInv,
         OpenSession \/ (\E c \in wire : Serve(c)) \/ CommitUpload \/ ServerDies
         \/ UNCHANGED allVars
  PROVE  LedgerInv'
<1>1. SUFFICES ASSUME ~overwrote'
               PROVE  \E T : Ledger(T)'
  BY DEF LedgerInv
<1>2. PICK T : Ledger(T)
  BY <1>1, ServerFrame DEF LedgerInv
<1>3. local' = local /\ store' = store /\ wire' \subseteq wire
  BY ServerFrame
<1>4. \A q, t : StoredFor(q, t) /\ entries \subseteq entries' /\ receipts \subseteq receipts'
                  => StoredFor(q, t)'
  BY DEF StoredFor
<1>5. CASE OpenSession \/ ServerDies \/ UNCHANGED allVars
  <2>1. UNCHANGED <<objects, parts, entries, receipts>> /\ (serving' = serving \/ serving' = None)
    BY <1>5 DEF OpenSession, CreateSession, tables, clientVars, network, allVars, vars, ServerDies,
       Crash
  <2>2. Ledger(T)'
    BY <1>2, <1>3, <1>4, <2>1 DEF Ledger
  <2>3. QED
    BY <2>2
<1>6. ASSUME NEW c \in wire, Serve(c)
      PROVE  Ledger(T)'
  <2>1. CASE ServeAccepted(c)
    <3>1. Accept(c.request) /\ serving' = serving
      BY <2>1 DEF ServeAccepted
    <3>2. /\ parts' = parts /\ receipts' = receipts /\ objects' = objects
          /\ entries \subseteq entries'
      BY <3>1, AcceptFrame
    <3>3. QED
      BY <1>2, <1>3, <1>4, <3>1, <3>2 DEF Ledger
  <2>2. CASE ServePart(c)
    <3>1. PICK r : r = c.request
      OBVIOUS
    <3>2. /\ r.kind = "part" /\ Outcome(r) = "stored" /\ serving' = c
          /\ PutPart(PartKey(r.artifact, r.part), r.artifact, r.part, r.bytes, r.entry, TheKey)
      BY <2>2, <3>1 DEF ServePart
    <3>3. /\ UNCHANGED <<entries, parts, receipts>>
          /\ \/ objects' = objects
             \/ objects' = objects \cup
                  {[artifact |-> r.artifact, part |-> r.part, bytes |-> r.bytes]}
      BY <3>2 DEF Outcome, PutPart, tables, RecordIncident
    <3>4. ClaimOf(r) \in T
      BY <1>2, <3>1, <3>2 DEF Ledger
    <3>5. ASSUME NEW o \in objects'
          PROVE  \E t \in T : SamePart(o, t) /\ o.bytes = t.bytes
      BY <1>2, <3>3, <3>4 DEF Ledger, SamePart, ClaimOf
    <3>6. QED
      BY <1>2, <1>3, <1>4, <3>1, <3>2, <3>3, <3>4, <3>5 DEF Ledger
  <2>3. CASE ServeRepeated(c) \/ ServeRefused(c)
    <3>1. UNCHANGED <<objects, parts, entries, receipts, serving>>
      BY <2>3 DEF ServeRepeated, ServeRefused, vars, tables
    <3>2. QED
      BY <1>2, <1>3, <1>4, <3>1 DEF Ledger
  <2>4. QED
    BY <1>6, <2>1, <2>2, <2>3 DEF Serve
<1>7. CASE CommitUpload
  <2>1. CommitPart /\ serving' = None /\ upload # None
    BY <1>7 DEF CommitUpload, CommitPart
  <2>2. CASE UNCHANGED <<entries, parts, receipts, objects>>
    <3>1. Ledger(T)'
      BY <1>2, <1>3, <1>4, <2>1, <2>2 DEF Ledger
    <3>2. QED
      BY <3>1
  <2>3. CASE /\ AddEntry(EntryKey(upload.key), upload.entry, upload.signer)
             /\ parts' = parts \cup {[artifact |-> upload.artifact, part |-> upload.part,
                                      hash |-> upload.hash, key |-> upload.key]}
             /\ receipts' = receipts \cup {NewReceipt(upload)}
             /\ objects' = objects
    <3>1. serving # None /\ upload = Served(serving.request)
      BY <2>1, Types DEF BaseInv, ClientTypeOK, WireInv
    <3>2. PICK r : r = serving.request
      OBVIOUS
    <3>3. /\ upload.artifact = r.artifact /\ upload.part = r.part /\ upload.hash = r.bytes
          /\ upload.entry = r.entry /\ upload.key = PartKey(r.artifact, r.part)
          /\ upload.signer = TheKey
      BY <3>1, <3>2 DEF Served
    <3>4. PICK t \in T : t = ClaimOf(r)
      BY <1>2, <3>1, <3>2 DEF Ledger
    <3>5. upload.entry.facts.seq = nextSeq
      BY <2>1 DEF BaseInv, ServerInv, ChainInv, UploadStillValid, ValidEntry
    <3>6. PICK q : q = [artifact |-> upload.artifact, part |-> upload.part,
                        hash |-> upload.hash, key |-> upload.key]
      OBVIOUS
    <3>7. PICK x : x = NewReceipt(upload)
      OBVIOUS
    <3>8. x.seq = nextSeq
      BY <3>7 DEF NewReceipt
    <3>9. SamePart(q, t) /\ q.hash = t.bytes /\ q.key = PartKey(q.artifact, q.part)
      BY <3>3, <3>4, <3>6 DEF SamePart, ClaimOf
    <3>10. NewRow(EntryKey(q.key), t.entry, TheKey) \in entries' /\ x \in receipts'
           /\ x.seq = t.entry.facts.seq
      BY <2>3, <3>3, <3>4, <3>5, <3>6, <3>7, <3>8 DEF AddEntry, ClaimOf
    <3>11. StoredFor(q, t)'
      BY <3>9, <3>10 DEF StoredFor
    <3>12. entries \subseteq entries' /\ receipts \subseteq receipts' /\ parts' = parts \cup {q}
      BY <2>3, <3>6 DEF AddEntry
    <3>13. \A p \in parts' : \E u \in T : StoredFor(p, u)'
      BY <1>2, <1>4, <3>11, <3>12 DEF Ledger
    <3>14. Ledger(T)'
      BY <1>2, <1>3, <2>1, <2>3, <3>13 DEF Ledger
    <3>15. QED
      BY <3>14
  <2>4. QED
    BY <2>1, <2>2, <2>3 DEF CommitPart, tables
<1>8. QED
  BY <1>5, <1>6, <1>7

\* The claims stay consistent: only QueuePart makes a new one.
LEMMA LedgerStep ==
  ASSUME BaseInv, QuietInv, NoOrphans, LedgerInv, [ClientNext]_allVars
  PROVE  LedgerInv'
<1>1. CASE QueueStep \/ AsideStep
  BY <1>1, ExtensionLedger
<1>2. CASE \E source \in {"tab", "desktop"} : StartCapture(source)
  <2>1. PICK source \in {"tab", "desktop"} : StartCapture(source)
    BY <1>2
  <2>2. /\ wire = {} /\ serving = None /\ objects = {} /\ parts = {}
    BY <2>1 DEF StartCapture, RegisterKey, QuietInv, Early
  <2>3. /\ wire' = {} /\ serving' = None /\ objects' = {} /\ parts' = {}
    BY <2>1, <2>2 DEF StartCapture, RegisterKey, network, tables
  <2>4. Ledger({})'
    BY <2>3 DEF Ledger
  <2>5. QED
    BY <2>4 DEF LedgerInv
<1>3. CASE OpenSession \/ (\E c \in wire : Serve(c)) \/ CommitUpload \/ ServerDies
           \/ UNCHANGED allVars
  BY <1>3, ServerLedger
<1>4. QED
  BY <1>1, <1>2, <1>3, Steps

\* The numbers of the parts, kept from the start of the capture.
PartsInv == BaseInv /\ QuietInv /\ NoOrphans /\ LedgerInv

\* The numbers agree at the start,
LEMMA PartsInit == ClientInit => PartsInv
<1>1. SUFFICES ASSUME ClientInit PROVE PartsInv
  OBVIOUS
<1>2. /\ local = None /\ store = {} /\ op = None /\ mail = <<>> /\ stopper = IdleStopper
      /\ recorder = NoRecorder(0) /\ wire = {} /\ serving = None /\ objects = {} /\ parts = {}
  BY <1>1 DEF ClientInit, Init
<1>3. QuietInv /\ NoOrphans
  BY <1>2 DEF QuietInv, NoOrphans, IdleStopper, NoRecorder
<1>4. Ledger({})
  BY <1>2 DEF Ledger
<1>5. QED
  BY <1>1, <1>3, <1>4, BaseInit DEF PartsInv, LedgerInv

\* after every step,
LEMMA PartsStep ==
  ASSUME PartsInv, [ClientNext]_allVars
  PROVE  PartsInv'
BY BaseStep, QuietStep, NoOrphansStep, LedgerStep DEF PartsInv

\* and so always.
LEMMA PartsInvariant == ClientSpec => []PartsInv
<1>1. PartsInv /\ [ClientNext]_allVars => PartsInv'
  BY PartsStep
<1>2. QED
  BY <1>1, PartsInit, PTL DEF ClientSpec

\* An upload whose claim is consistent meets no conflict at the server.
LEMMA ClaimsAnswered ==
  ASSUME BaseInv, NEW T, Ledger(T), NEW c \in wire, c.request.kind = "part"
  PROVE  Outcome(c.request) \notin {"part_idempotency_conflict", "part_storage_conflict"}
<1>1. PICK r \in Requests : r = c.request /\ r.kind = "part"
  BY Types DEF BaseInv, Calls
<1>2. PICK u \in T : u = ClaimOf(r)
  BY <1>1 DEF Ledger
<1>3. u.artifact = r.artifact /\ u.part = r.part /\ u.bytes = r.bytes /\ u.entry = r.entry
  BY <1>2 DEF ClaimOf
<1>4. PICK k : k = PartKey(r.artifact, r.part)
  OBVIOUS
<1>5. Outcome(r) = UploadOutcome(k, r.artifact, r.part, r.bytes, r.entry, TheKey)
  BY <1>1, <1>4 DEF Outcome
<1>6. ASSUME NEW q \in parts, q.key = k
      PROVE  RepeatsPart(k, r.artifact, r.part, r.bytes, r.entry, TheKey)
  <2>1. PICK t \in T : StoredFor(q, t)
    BY DEF Ledger
  <2>2. q.artifact = r.artifact /\ q.part = r.part
    BY <1>4, <1>6, <2>1 DEF StoredFor, PartKey
  <2>3. t = u
    <3>1. q.artifact = t.artifact /\ q.part = t.part
      BY <2>1 DEF StoredFor, SamePart
    <3>2. SamePart(t, u)
      BY <1>3, <2>2, <3>1 DEF SamePart
    <3>3. \A x, y \in T : SamePart(x, y) => x = y
      BY DEF Ledger
    <3>4. QED
      BY <3>2, <3>3
  <2>4. q = [artifact |-> r.artifact, part |-> r.part, hash |-> r.bytes, key |-> k]
    <3>1. q \in PartRows
      BY DEF BaseInv, ServerInv, ChainInv, TypeOK
    <3>2. q.hash = r.bytes
      BY <1>3, <2>1, <2>3 DEF StoredFor
    <3>3. QED
      BY <1>6, <2>2, <3>1, <3>2 DEF PartRows
  <2>5. QED
    BY <1>3, <1>6, <2>1, <2>3, <2>4 DEF RepeatsPart, StoredFor
<1>7. ~StoreRefuses(r.artifact, r.part, r.bytes)
  <2>1. SUFFICES ASSUME NEW o \in objects, o.artifact = r.artifact, o.part = r.part,
                        o.bytes # r.bytes
                 PROVE  FALSE
    BY DEF StoreRefuses, Stored
  <2>2. PICK t \in T : SamePart(o, t) /\ o.bytes = t.bytes
    BY DEF Ledger
  <2>3. t = u
    BY <1>3, <2>1, <2>2 DEF Ledger, SamePart
  <2>4. QED
    BY <1>3, <2>1, <2>2, <2>3
<1>8. QED
  BY <1>1, <1>5, <1>6, <1>7 DEF UploadOutcome

\* A part that is sent, sent again or late is stored or recognized, and never
\* meets other bytes or another entry under its number: whatever the network,
\* the background script and the server lose, and whether the session of the
\* extension still exists or was discarded.
THEOREM PartsAgree == ClientSpec => []PartsNeverConflict
<1>1. PartsInv => PartsNeverConflict
  BY ClaimsAnswered DEF PartsInv, LedgerInv, PartsNeverConflict
<1>2. QED
  BY <1>1, PartsInvariant, PTL

-----------------------------------------------------------------------------
(***************************************************************************)
(* Scripts that read the session before they use it.                       *)
(***************************************************************************)
\* What is left after a task that does not read the session.
LEMMA TolerantTail ==
  ASSUME NEW s \in Seq(Tasks), s # <<>>, Tolerant(s), ~Refreshes(Head(s))
  PROVE  ~UsesCopy(Head(s)) /\ Tolerant(Tail(s))
<1>1. /\ Len(s) \in Nat \ {0} /\ Head(s) = s[1] /\ Len(Tail(s)) = Len(s) - 1
      /\ \A k \in 1 .. Len(s) - 1 : Tail(s)[k] = s[k + 1]
  OBVIOUS
<1>2. PICK t : t = Tail(s)
  OBVIOUS
<1>3. ~UsesCopy(s[1])
  <2>1. UsesCopy(s[1]) => \E j \in 1 .. 1 - 1 : Refreshes(s[j])
    BY <1>1 DEF Tolerant
  <2>2. QED
    BY <2>1
<1>4. ASSUME NEW k \in 1 .. Len(t), UsesCopy(t[k])
      PROVE  \E j \in 1 .. k - 1 : Refreshes(t[j])
  <2>1. k + 1 \in 1 .. Len(s) /\ UsesCopy(s[k + 1])
    BY <1>1, <1>2, <1>4
  <2>2. PICK j \in 1 .. (k + 1) - 1 : Refreshes(s[j])
    BY <2>1 DEF Tolerant
  <2>3. j # 1
    BY <1>1, <2>2
  <2>4. j - 1 \in 1 .. k - 1 /\ j - 1 \in 1 .. Len(s) - 1 /\ j = (j - 1) + 1
    BY <1>1, <1>2, <2>2, <2>3
  <2>5. t[j - 1] = s[j]
    BY <1>1, <1>2, <2>4
  <2>6. QED
    BY <2>2, <2>4, <2>5
<1>5. QED
  BY <1>1, <1>2, <1>3, <1>4 DEF Tolerant

\* An upload before what is left.
LEMMA TolerantUpload ==
  ASSUME NEW s \in Seq(Tasks), NEW u \in Tasks, Tolerant(s), u.do = "upload"
  PROVE  Tolerant(<<u>> \o s)
<1>1. PICK t : t = <<u>> \o s
  OBVIOUS
<1>2. /\ Len(t) = Len(s) + 1 /\ t[1] = u /\ Len(s) \in Nat
      /\ \A k \in 2 .. Len(s) + 1 : t[k] = s[k - 1]
  BY <1>1
<1>3. ASSUME NEW k \in 1 .. Len(t), UsesCopy(t[k])
      PROVE  \E j \in 1 .. k - 1 : Refreshes(t[j])
  <2>1. k # 1
    BY <1>2, <1>3 DEF UsesCopy
  <2>2. k - 1 \in 1 .. Len(s) /\ t[k] = s[k - 1]
    BY <1>2, <2>1
  <2>3. PICK j \in 1 .. (k - 1) - 1 : Refreshes(s[j])
    BY <1>3, <2>2 DEF Tolerant
  <2>4. j + 1 \in 2 .. Len(s) + 1 /\ j + 1 \in 1 .. k - 1 /\ (j + 1) - 1 = j
    BY <1>2, <2>2, <2>3
  <2>5. t[j + 1] = s[j]
    BY <1>2, <2>4
  <2>6. QED
    BY <2>3, <2>4, <2>5
<1>4. QED
  BY <1>1, <1>3 DEF Tolerant

\* A script and what it goes on with.
LEMMA ScriptsJoined ==
  ASSUME NEW s \in Seq(Tasks), NEW t \in Seq(Tasks), NEW r, r = s \o t
  PROVE  /\ r \in Seq(Tasks) /\ Len(r) = Len(s) + Len(t) /\ Len(s) \in Nat /\ Len(t) \in Nat
         /\ \A k \in 1 .. Len(s) : r[k] = s[k]
         /\ \A k \in Len(s) + 1 .. Len(s) + Len(t) : r[k] = t[k - Len(s)]
OBVIOUS

\* A script that reads the session goes on as it likes.
LEMMA TolerantGrows ==
  ASSUME NEW s \in Seq(Tasks), NEW t \in Seq(Tasks), Tolerant(s),
         (\E i \in 1 .. Len(s) : Refreshes(s[i]))
         \/ (\A k \in 1 .. Len(t) : ~UsesCopy(t[k]))
  PROVE  Tolerant(s \o t)
<1>1. PICK r : r = s \o t
  OBVIOUS
<1>2. /\ Len(r) = Len(s) + Len(t) /\ Len(s) \in Nat /\ Len(t) \in Nat
      /\ \A k \in 1 .. Len(s) : r[k] = s[k]
      /\ \A k \in Len(s) + 1 .. Len(s) + Len(t) : r[k] = t[k - Len(s)]
  BY <1>1, ScriptsJoined
<1>3. ASSUME NEW k \in 1 .. Len(r), UsesCopy(r[k])
      PROVE  \E j \in 1 .. k - 1 : Refreshes(r[j])
  <2>1. CASE k \in 1 .. Len(s)
    <3>1. PICK j \in 1 .. k - 1 : Refreshes(s[j])
      BY <1>2, <1>3, <2>1 DEF Tolerant
    <3>2. j \in 1 .. Len(s)
      BY <1>2, <2>1, <3>1
    <3>3. QED
      BY <1>2, <3>1, <3>2
  <2>2. CASE k \notin 1 .. Len(s)
    <3>1. k \in Len(s) + 1 .. Len(s) + Len(t) /\ k - Len(s) \in 1 .. Len(t)
      BY <1>2, <2>2
    <3>2. UsesCopy(t[k - Len(s)])
      BY <1>2, <1>3, <3>1
    <3>3. PICK i \in 1 .. Len(s) : Refreshes(s[i])
      BY <3>1, <3>2
    <3>4. i \in 1 .. k - 1
      BY <1>2, <3>1, <3>3
    <3>5. QED
      BY <1>2, <3>3, <3>4
  <2>3. QED
    BY <2>1, <2>2
<1>4. QED
  BY <1>1, <1>3 DEF Tolerant

\* The catch block declares the artifact missing first.
LEMMA TolerantRead ==
  ASSUME NEW s \in Seq(Tasks), s # <<>>, Refreshes(Head(s))
  PROVE  Tolerant(s)
<1>1. Len(s) \in Nat \ {0} /\ Head(s) = s[1]
  OBVIOUS
<1>2. ~UsesCopy(s[1])
  BY <1>1 DEF UsesCopy, Refreshes
<1>3. ASSUME NEW k \in 1 .. Len(s), UsesCopy(s[k])
      PROVE  \E j \in 1 .. k - 1 : Refreshes(s[j])
  <2>1. 1 \in 1 .. k - 1
    BY <1>1, <1>2, <1>3
  <2>2. QED
    BY <1>1, <2>1
<1>4. QED
  BY <1>3 DEF Tolerant

\* stopCapture reads the session before it makes the last event.
LEMMA StopScriptTolerant ==
  ASSUME NEW was \in BOOLEAN
  PROVE  Tolerant(StopScript(was))
<1> DEFINE NoUse(s) == s \in Seq(Tasks) /\ \A k \in 1 .. Len(s) : ~UsesCopy(s[k])
<1>1. NoUse(<<>>)
  OBVIOUS
<1>2. \A t \in Tasks : ~UsesCopy(t) => NoUse(<<t>>)
  OBVIOUS
<1>3. \A a \in Names : NoUse(<<Complete(a, None)>>) /\ NoUse(<<Missing(a)>>)
  <2>1. \A a \in Names : /\ Complete(a, None) \in Tasks /\ ~UsesCopy(Complete(a, None))
                         /\ Missing(a) \in Tasks /\ ~UsesCopy(Missing(a))
    BY TaskTypes, NamesKnown DEF UsesCopy, Complete, Missing
  <2>2. QED
    BY <1>2, <2>1
<1>4. NoUse(Whole(Context, 0, None))
  <2>1. PICK t, u : t = Queue(Context, 0, None) /\ u = Complete(Context, None)
    OBVIOUS
  <2>2. t \in Tasks /\ u \in Tasks /\ t.do = "queue" /\ u.do = "complete"
    BY <2>1, TaskTypes, NamesKnown DEF Queue, Complete
  <2>3. ~UsesCopy(t) /\ ~UsesCopy(u)
    BY <2>2 DEF UsesCopy
  <2>4. NoUse(<<t, u>>)
    BY <2>2, <2>3
  <2>5. QED
    BY <2>1, <2>4 DEF Whole
<1>5. PICK a : a = IF Has(local, Recording) \/ ~(was \/ LocalOf(Recording) # {}) THEN <<>>
                   ELSE IF LocalOf(Recording) # {} THEN <<Complete(Recording, None)>>
                   ELSE <<Missing(Recording)>>
  OBVIOUS
<1>6. PICK b : b = IF mode = "hash_only" /\ ~local.finished /\ ~Has(local, Context)
                   THEN Whole(Context, 0, None) ELSE <<>>
  OBVIOUS
<1>7. NoUse(a) /\ NoUse(b)
  BY <1>1, <1>3, <1>4, <1>5, <1>6, NamesKnown
<1>8. PICK r : r = <<Simple("read")>>
  OBVIOUS
<1>9. r \in Seq(Tasks) /\ Len(r) = 1 /\ Refreshes(r[1]) /\ ~UsesCopy(r[1])
  <2>1. Simple("read") \in Tasks /\ Simple("read").do = "read"
    BY SimplePlain
  <2>2. QED
    BY <1>8, <2>1 DEF Refreshes, UsesCopy
<1>10. PICK ab \in Seq(Tasks) : ab = a \o b /\ Tolerant(ab)
  <2>1. Tolerant(a)
    BY <1>7 DEF Tolerant
  <2>2. Tolerant(a \o b)
    BY <1>7, <2>1, TolerantGrows
  <2>3. a \o b \in Seq(Tasks)
    BY <1>7
  <2>4. QED
    BY <2>2, <2>3
<1>11. PICK x : x = ab \o r
  OBVIOUS
<1>12. x \in Seq(Tasks) /\ Tolerant(x) /\ \E i \in 1 .. Len(x) : Refreshes(x[i])
  <2>1. \A k \in 1 .. Len(r) : ~UsesCopy(r[k])
    BY <1>9
  <2>2. Tolerant(x)
    BY <1>9, <1>10, <1>11, <2>1, TolerantGrows
  <2>3. /\ x \in Seq(Tasks) /\ Len(x) = Len(ab) + Len(r) /\ Len(ab) \in Nat
        /\ \A k \in Len(ab) + 1 .. Len(ab) + Len(r) : x[k] = r[k - Len(ab)]
    <3>1. r \in Seq(Tasks)
      BY <1>9
    <3>2. QED
      BY <1>10, <1>11, <3>1, ScriptsJoined
  <2>4. PICK n \in Nat : n = Len(ab)
    BY <2>3
  <2>5. n + 1 \in n + 1 .. n + 1 /\ (n + 1) - n = 1 /\ Len(x) = n + 1 /\ n + 1 \in 1 .. Len(x)
    BY <1>9, <2>3, <2>4
  <2>6. x[n + 1] = r[1]
    BY <1>9, <2>3, <2>4, <2>5
  <2>7. QED
    BY <1>9, <2>2, <2>3, <2>5, <2>6
<1>13. PICK c : c = IF local.finished THEN <<>> ELSE <<Event("capture_finished"), Simple("finished")>>
  OBVIOUS
<1>14. PICK d : d = <<Simple("finalize"), Simple("package")>>
  OBVIOUS
<1>15. c \in Seq(Tasks) /\ d \in Seq(Tasks)
  <2>1. /\ Event("capture_finished") \in Tasks /\ Simple("finished") \in Tasks
        /\ Simple("finalize") \in Tasks /\ Simple("package") \in Tasks
    BY SimplePlain, TaskTypes DEF EventNames
  <2>2. /\ <<>> \in Seq(Tasks)
        /\ <<Event("capture_finished"), Simple("finished")>> \in Seq(Tasks)
        /\ <<Simple("finalize"), Simple("package")>> \in Seq(Tasks)
    BY <2>1
  <2>3. QED
    BY <1>13, <1>14, <2>2
<1>16. PICK y : y = x \o c
  OBVIOUS
<1>17. y \in Seq(Tasks) /\ Tolerant(y) /\ \E i \in 1 .. Len(y) : Refreshes(y[i])
  <2>1. y \in Seq(Tasks) /\ Len(y) >= Len(x) /\ \A i \in 1 .. Len(x) : y[i] = x[i]
    BY <1>12, <1>15, <1>16
  <2>2. Tolerant(y)
    BY <1>12, <1>15, <1>16, TolerantGrows
  <2>3. QED
    BY <1>12, <2>1, <2>2
<1>18. Tolerant(y \o d)
  BY <1>15, <1>17, TolerantGrows
<1>19. StopScript(was) = y \o d
  BY <1>5, <1>6, <1>8, <1>10, <1>11, <1>13, <1>14, <1>16, Zenon DEF StopScript
<1>20. QED
  BY <1>18, <1>19

-----------------------------------------------------------------------------
(***************************************************************************)
(* What a step of the extension does to the operation that runs.           *)
(***************************************************************************)
AnswerGone == op'.answer = None \/ (op.call = None /\ op'.answer = op.answer)

\* The task failed.
Fails ==
  /\ op # None /\ op.todo # <<>> /\ op'.todo = op.todo /\ op'.s = op.s
  /\ op'.call = None /\ op'.answer = None

\* The task is done, and did not read the session.
Proceeds ==
  /\ op # None /\ op.todo # <<>> /\ op'.todo = Tail(op.todo) /\ op'.s = op.s
  /\ op'.call = None /\ AnswerGone /\ ~Refreshes(Task)
  /\ Task.do = "finalize" => Answered("ok")

\* The task is done, and memory holds the chain of IndexedDB.
Rereads ==
  /\ op # None /\ op.todo # <<>> /\ op'.todo = Tail(op.todo)
  /\ op'.s # None /\ local' # None
  /\ op'.s.prev = local'.prev /\ op'.s.seq = local'.seq
  /\ op'.call = None /\ AnswerGone /\ Task.do # "finalize"

\* The operation goes on with a script that reads before it uses.
Turns ==
  /\ op # None /\ op'.s = op.s /\ op'.call = None /\ AnswerGone
  /\ Tolerant(op'.todo) /\ (op'.todo # <<>> => Head(op'.todo).do # "package")

\* An operation begins with the session of IndexedDB.
Starts ==
  /\ op = None /\ op'.s = local /\ local' = local /\ op'.call = None /\ op'.answer = None
  /\ op'.todo # <<>> => Head(op'.todo).do # "package"

\* A pending part is sent first.
SendsFirst ==
  /\ op # None /\ op.call = None /\ op'.s = op.s /\ op'.call = None /\ op'.answer = op.answer
  /\ Tolerant(op.todo) => Tolerant(op'.todo)
  /\ op'.todo # <<>> /\ Head(op'.todo).do = "upload"

\* A request is made of the session.
Asks ==
  /\ op # None /\ op.call = None /\ op.todo # <<>> /\ op'.todo = op.todo /\ op'.call # None
  /\ op'.answer = op.answer /\ op'.s = SessionOf(Task) /\ local' = local
  /\ Task.do \in {"event", "upload", "complete", "missing", "finalize", "package"}
  /\ Task.do \in {"complete", "missing"} => local # None

\* A task that fails leaves the script.
LEMMA FailingFrame ==
  ASSUME op \in Operations, op.todo # <<>>, op # None, op' = Failing(op)
  PROVE  Fails
BY OperationTypes DEF Fails

\* A task that is done leaves the rest of the script.
LEMMA DoneFrame ==
  ASSUME op \in Operations, op.todo # <<>>, op # None, op' = Done(op), op.call = None,
         ~Refreshes(Task), Task.do # "finalize"
  PROVE  Proceeds
BY OperationTypes DEF Proceeds, AnswerGone

\* ReadSession loads the chain of IndexedDB.
LEMMA ReadFrame ==
  ASSUME ClientInv, ReadSession
  PROVE  Fails \/ Rereads
<1>1. /\ op \in Operations /\ op # None /\ op.todo # <<>> /\ op.call = None
      /\ Task.do \in {"read", "restart"} /\ Task \in Tasks
  BY RunningFacts DEF ReadSession
<1>2. local' = local
  BY DEF ReadSession, indexedDB
<1>3. CASE ~Active
  BY <1>1, <1>3, FailingFrame DEF ReadSession
<1>4. CASE Active
  <2>1. local \in LocalSessions /\ local # None
    BY <1>4, Types DEF Active
  <2>2. PICK d \in Operations : d = Done(op) /\ d.todo = Tail(op.todo) /\ d.call = None
                                /\ d.answer = op.answer
    BY <1>1, OperationTypes
  <2>3. PICK x \in LocalSessions : /\ x = IF Task.do = "read" THEN local
                                          ELSE [local EXCEPT !.clock = Task.clock]
                                   /\ x.prev = local.prev /\ x.seq = local.seq
    <3>1. Task.do = "restart" => Task.clock \in Clocks
      BY <1>1, TaskFields
    <3>2. Task.do = "restart" => /\ [local EXCEPT !.clock = Task.clock] \in LocalSessions
                                 /\ [local EXCEPT !.clock = Task.clock].prev = local.prev
                                 /\ [local EXCEPT !.clock = Task.clock].seq = local.seq
      BY <2>1, <3>1 DEF LocalSessions
    <3>3. QED
      BY <1>1, <2>1, <3>2
  <2>4. PICK w : w = [d EXCEPT !.s = x]
    OBVIOUS
  <2>5. w.todo = d.todo /\ w.call = d.call /\ w.s = x /\ w.answer = d.answer
    BY <2>4 DEF Operations
  <2>6. op' = w
    BY <1>1, <1>4, <2>2, <2>3, <2>4 DEF ReadSession
  <2>7. QED
    BY <1>1, <1>2, <2>1, <2>2, <2>3, <2>5, <2>6, ClientNoneAssumption DEF Rereads, AnswerGone
<1>5. QED
  BY <1>3, <1>4

\* QueuePart leaves a script that reads before it uses.
LEMMA QueueFrame ==
  ASSUME ClientInv, QueuePart
  PROVE  (Fails /\ ~Active) \/ Turns
<1>1. /\ op \in Operations /\ op # None /\ op.todo # <<>> /\ op.call = None
      /\ Task.do = "queue" /\ Task \in Tasks
  BY RunningFacts DEF QueuePart
<1>2. CASE ~Active
  BY <1>1, <1>2, FailingFrame DEF QueuePart
<1>3. CASE Active
  <2>1. PICK u : u = Upload(QueuedPart, Task.try)
    OBVIOUS
  <2>2. u \in Tasks /\ u.do = "upload"
    <3>1. QueuedPart \in StoredParts /\ Task.try \in Tries
      BY <1>1, <1>3, QueueWrites, TaskFields
    <3>2. QED
      BY <2>1, <3>1, TaskTypes DEF Upload
  <2>3. PICK s \in Seq(Tasks) : s = op.todo /\ s # <<>> /\ Formed(s) /\ Head(s).do = "queue"
    BY <1>1, Types DEF Operations, OpInv, FormInv, Task
  <2>4. Tolerant(<<u>> \o Tail(s)) /\ Tolerant(Tail(s))
    BY <2>2, <2>3, FormedUpload
  <2>5. Tail(s) # <<>> => Head(Tail(s)).do # "package"
    <3>1. /\ Tail(s) \in Seq(Tasks) /\ Len(Tail(s)) = Len(s) - 1
          /\ \A k \in 1 .. Len(Tail(s)) : Tail(s)[k] = s[k + 1]
      BY <2>3, FormedTail
    <3>2. SUFFICES ASSUME Tail(s) # <<>> PROVE Head(Tail(s)).do # "package"
      OBVIOUS
    <3>3. 1 \in 1 .. Len(Tail(s)) /\ Head(Tail(s)) = Tail(s)[1] /\ 2 \in 1 .. Len(s)
      BY <2>3, <3>1, <3>2
    <3>4. Head(Tail(s)) = s[2] /\ s[1].do = "queue"
      BY <2>3, <3>1, <3>3
    <3>5. QED
      BY <2>3, <3>3, <3>4 DEF Formed
  <2>6. PICK t : t = (IF Pending = {} THEN <<u>> ELSE <<>>) \o Tail(s)
    OBVIOUS
  <2>7. t = <<u>> \o Tail(s) \/ t = Tail(s)
    <3>1. Tail(s) \in Seq(Tasks)
      BY <2>3
    <3>2. <<>> \o Tail(s) = Tail(s)
      BY <3>1
    <3>3. QED
      BY <2>6, <3>2
  <2>8. /\ Tolerant(t) /\ (t # <<>> => Head(t).do # "package")
    <3>1. Tail(s) \in Seq(Tasks)
      BY <2>3
    <3>2. Head(<<u>> \o Tail(s)) = u
      BY <2>2, <3>1
    <3>3. QED
      BY <2>2, <2>4, <2>5, <2>7, <3>2
  <2>9. PICK o : o = [op EXCEPT !.todo = t]
    OBVIOUS
  <2>10. o.todo = t /\ o.s = op.s /\ o.call = op.call /\ o.answer = op.answer
    BY <1>1, <2>9 DEF Operations
  <2>11. op' = o
    BY <1>3, <2>1, <2>3, <2>6, <2>9 DEF QueuePart, QueuedPart, Upload
  <2>12. QED
    BY <1>1, <2>8, <2>10, <2>11 DEF Turns, AnswerGone
<1>4. QED
  BY <1>2, <1>3

\* RetryParts sends a pending part first, or is done.
LEMMA RetryFrame ==
  ASSUME ClientInv, RetryParts
  PROVE  Proceeds \/ SendsFirst
<1>1. /\ op \in Operations /\ op # None /\ op.todo # <<>> /\ op.call = None
      /\ Task.do = "retry" /\ Task \in Tasks
  BY RunningFacts DEF RetryParts
<1>2. CASE op' = Done(op)
  BY <1>1, <1>2, DoneFrame DEF Refreshes
<1>3. CASE \E p \in FirstPending : op' = [op EXCEPT !.todo = <<Upload(p, None)>> \o @]
  <2>1. PICK p \in store : op' = [op EXCEPT !.todo = <<Upload(p, None)>> \o @]
    BY <1>3 DEF FirstPending, Pending
  <2>2. PICK u : u = Upload(p, None)
    OBVIOUS
  <2>3. u \in Tasks /\ u.do = "upload"
    BY <2>1, <2>2, Types, TaskTypes, NamesKnown DEF Upload
  <2>4. PICK s \in Seq(Tasks) : s = op.todo
    BY <1>1 DEF Operations
  <2>5. PICK t : t = <<u>> \o s
    OBVIOUS
  <2>6. t # <<>> /\ Head(t) = u /\ (Tolerant(s) => Tolerant(t))
    BY <2>3, <2>5, TolerantUpload
  <2>7. PICK o : o = [op EXCEPT !.todo = t]
    OBVIOUS
  <2>8. o.todo = t /\ o.s = op.s /\ o.call = op.call /\ o.answer = op.answer
    BY <1>1, <2>7 DEF Operations
  <2>9. op' = o
    BY <2>1, <2>2, <2>4, <2>5, <2>7
  <2>10. QED
    BY <1>1, <2>3, <2>4, <2>6, <2>8, <2>9 DEF SendsFirst
<1>4. QED
  BY <1>2, <1>3 DEF RetryParts

\* Take starts with the session of IndexedDB.
LEMMA TakeFrame ==
  ASSUME ClientInv, Take
  PROVE  Starts
<1>1. PICK m \in Messages : m = Head(mail)
  BY Types DEF Take
<1>2. PICK script \in Scripts(m) : op' = Operation(m.name, script, local)
  BY <1>1 DEF Take
<1>3. script # <<>> /\ Head(script).do # "package"
  BY Types, ScriptsFormed
<1>4. op'.todo = script /\ op'.s = local /\ op'.call = None /\ op'.answer = None
  BY <1>2 DEF Operation
<1>5. op = None /\ local' = local
  BY DEF Take, indexedDB
<1>6. QED
  BY <1>3, <1>4, <1>5 DEF Starts

\* SaveFinished saves the session it has in memory.
LEMMA FinishedFrame ==
  ASSUME ClientInv, SaveFinished
  PROVE  Rereads
<1>1. /\ op \in Operations /\ op # None /\ op.todo # <<>> /\ op.call = None
      /\ Task.do = "finished"
  BY RunningFacts DEF SaveFinished
<1>2. local' = [op.s EXCEPT !.finished = TRUE] /\ local' # None /\ local' \in LocalSessions
  BY SessionSaved DEF SaveFinished, Saves
<1>3. PICK d \in Operations : d = Done(op) /\ d.todo = Tail(op.todo) /\ d.call = None
                              /\ d.answer = op.answer
  BY <1>1, OperationTypes
<1>4. PICK x \in LocalSessions : x = [op.s EXCEPT !.finished = TRUE] /\ x = local'
  BY <1>2
<1>5. PICK w : w = [d EXCEPT !.s = x]
  OBVIOUS
<1>6. w.todo = d.todo /\ w.call = d.call /\ w.s = x /\ w.answer = d.answer
  BY <1>5 DEF Operations
<1>7. op' = w
  BY <1>3, <1>4, <1>5 DEF SaveFinished
<1>8. QED
  BY <1>1, <1>2, <1>3, <1>4, <1>6, <1>7 DEF Rereads, AnswerGone

\* An operation that goes on with a script that reads before it uses.
LEMMA ScriptFrame ==
  ASSUME op \in Operations, op # None, op.call = None, NEW script \in Seq(Tasks), Tolerant(script),
         script # <<>> => Head(script).do # "package",
         \/ op' = [op EXCEPT !.todo = script]
         \/ op' = [op EXCEPT !.failed = FALSE, !.todo = script]
  PROVE  Turns
<1>1. CASE op' = [op EXCEPT !.todo = script]
  <2>1. PICK o : o = [op EXCEPT !.todo = script]
    OBVIOUS
  <2>2. o.todo = script /\ o.s = op.s /\ o.call = op.call /\ o.answer = op.answer
    BY <2>1 DEF Operations
  <2>3. QED
    BY <1>1, <2>1, <2>2 DEF Turns, AnswerGone
<1>2. CASE op' = [op EXCEPT !.failed = FALSE, !.todo = script]
  <2>1. PICK o : o = [op EXCEPT !.failed = FALSE, !.todo = script]
    OBVIOUS
  <2>2. o.todo = script /\ o.s = op.s /\ o.call = op.call /\ o.answer = op.answer
    BY <2>1 DEF Operations
  <2>3. QED
    BY <1>2, <2>1, <2>2 DEF Turns, AnswerGone
<1>3. QED
  BY <1>1, <1>2

\* So does stopCapture,
LEMMA StopFrame ==
  ASSUME ClientInv, BeginStop \/ BeginFinalizing
  PROVE  Fails \/ Turns
<1>1. /\ op \in Operations /\ op # None /\ op.todo # <<>> /\ op.call = None
      /\ Task.do \in {"begin", "finalizing"} /\ Task \in Tasks
  BY RunningFacts DEF BeginStop, BeginFinalizing
<1>2. Task.wasActive \in BOOLEAN
  BY <1>1, TaskFields
<1>3. CASE BeginStop
  <2>1. PICK t : t = Begin("finalizing", Task.wasActive)
    OBVIOUS
  <2>2. t \in Tasks /\ t.do = "finalizing"
    BY <1>2, <2>1, TaskTypes DEF Begin
  <2>3. <<t>> \in Seq(Tasks) /\ Tolerant(<<t>>) /\ Head(<<t>>).do # "package"
    BY <2>2 DEF Tolerant, UsesCopy
  <2>4. op' = [op EXCEPT !.todo = <<t>>]
    BY <1>3, <2>1 DEF BeginStop
  <2>5. QED
    BY <1>1, <2>3, <2>4, ScriptFrame
<1>4. CASE BeginFinalizing /\ ~Active
  BY <1>1, <1>4, FailingFrame DEF BeginFinalizing
<1>5. CASE BeginFinalizing /\ Active
  <2>1. PICK s : s = StopScript(Task.wasActive)
    OBVIOUS
  <2>2. Plain(s) /\ Tolerant(s)
    BY <1>2, <2>1, StopScriptPlain, StopScriptTolerant
  <2>3. s \in Seq(Tasks)
    BY <2>2 DEF Plain
  <2>4. s # <<>> => Head(s).do # "package"
    BY <2>2, <2>3 DEF Plain
  <2>5. op' = [op EXCEPT !.todo = s]
    BY <1>5, <2>1 DEF BeginFinalizing
  <2>6. QED
    BY <1>1, <2>2, <2>3, <2>4, <2>5, ScriptFrame
<1>6. QED
  BY <1>3, <1>4, <1>5

\* and so does a catch block.
LEMMA CatchFrame ==
  ASSUME ClientInv, Catch
  PROVE  op' = None \/ Turns
<1>1. /\ op \in Operations /\ op # None /\ op.failed /\ op.todo # <<>> /\ op.call = None
  BY Types DEF Catch, OpInv, CallInv
<1>2. CASE Caught
  <2>1. op' = [op EXCEPT !.failed = FALSE, !.todo = Handler(Task.try)]
    BY <1>2 DEF Catch
  <2>2. Task.try # None /\ Formed(op.todo)
    BY <1>1, <1>2, Types DEF Caught, OpInv, FormInv
  <2>3. PICK h \in Seq(Tasks) : h = Handler(Task.try) /\ h # <<>> /\ Head(h) = Missing(Task.try)
    BY <1>1, <2>2, AfterTryForms
  <2>4. Head(h).do = "missing"
    BY <2>3 DEF Missing
  <2>5. Tolerant(h)
    BY <2>3, <2>4, TolerantRead DEF Refreshes
  <2>6. QED
    BY <1>1, <2>1, <2>3, <2>4, <2>5, ScriptFrame
<1>3. CASE ~Caught
  BY <1>3 DEF Catch
<1>4. QED
  BY <1>2, <1>3

\* CallServer asks, or fails.
LEMMA CallFrame ==
  ASSUME ClientInv, CallServer
  PROVE  Fails \/ Asks
<1>1. PICK do \in {"event", "upload", "complete", "missing", "finalize", "package"} : Running(do)
  BY DEF CallServer
<1>2. /\ op \in Operations /\ op # None /\ op.todo # <<>> /\ op.call = None /\ Task.do = do
  BY <1>1, RunningFacts
<1>3. CASE Task.do \in {"complete", "missing"} /\ (~Active \/ PartsMissing(Task))
  BY <1>2, <1>3, FailingFrame DEF CallServer
<1>4. CASE ~(Task.do \in {"complete", "missing"} /\ (~Active \/ PartsMissing(Task)))
  <2>1. PICK c : c = Sent(MakeRequest(Task))
    OBVIOUS
  <2>2. op' = [op EXCEPT !.call = c, !.s = SessionOf(Task)]
    BY <1>4, <2>1 DEF CallServer
  <2>3. PICK x : x = SessionOf(Task)
    OBVIOUS
  <2>4. PICK o : o = [op EXCEPT !.call = c, !.s = x]
    OBVIOUS
  <2>5. o.todo = op.todo /\ o.s = x /\ o.call = c /\ o.answer = op.answer
    BY <1>2, <2>4 DEF Operations
  <2>6. op' = o
    BY <2>2, <2>3, <2>4
  <2>7. c # None
    <3>1. MakeRequest(Task) \in Requests
      BY <1>2, <1>4, MakeRequestType
    <3>2. c \in Calls
      BY <2>1, <3>1, Types DEF Sent, Calls
    <3>3. QED
      BY <3>2, ClientNoneAssumption
  <2>8. local' = local /\ (Task.do \in {"complete", "missing"} => local # None)
    BY <1>4 DEF CallServer, indexedDB, Active
  <2>9. QED
    BY <1>2, <2>3, <2>5, <2>6, <2>7, <2>8 DEF Asks
<1>5. QED
  BY <1>3, <1>4

\* ReceiveEntry has the chain of IndexedDB in memory after it.
LEMMA EntryFrame ==
  ASSUME ClientInv, ReceiveEntry
  PROVE  Rereads
<1>1. /\ op # None /\ op.call # None /\ Task.do \in Linking /\ local' = AfterAnswer
      /\ op' = [Received EXCEPT !.s = AfterAnswer]
  BY DEF ReceiveEntry, Answered, Linking
<1>2. op \in Operations /\ op.todo # <<>>
  BY <1>1, WaitingFacts
<1>3. PICK x \in LocalSessions : x = AfterAnswer /\ x # None
  BY <1>1, AfterAnswerType
<1>4. PICK d \in Operations : d = Received /\ d.todo = Tail(op.todo) /\ d.call = None
                              /\ d.answer = None
  BY <1>2, ReceivedType
<1>5. PICK w : w = [d EXCEPT !.s = x]
  OBVIOUS
<1>6. w.todo = d.todo /\ w.call = d.call /\ w.s = x /\ w.answer = d.answer
  BY <1>5 DEF Operations
<1>7. op' = w /\ local' = x
  BY <1>1, <1>3, <1>4, <1>5
<1>8. QED
  BY <1>1, <1>2, <1>3, <1>4, <1>6, <1>7 DEF Rereads, AnswerGone, Linking

\* The other answers end the task or fail.
LEMMA AnswerFrame ==
  ASSUME ClientInv, Acknowledge \/ ReceiveResult \/ ReceiveError
  PROVE  Fails \/ Proceeds
<1>1. op # None /\ op.call # None
  BY DEF Acknowledge, ReceiveResult, ReceiveError, Answered
<1>2. op \in Operations /\ op.todo # <<>>
  BY <1>1, WaitingFacts
<1>3. CASE op' = Failing(op)
  BY <1>1, <1>2, <1>3, FailingFrame
<1>4. CASE op' = Received /\ (Acknowledge \/ ReceiveResult)
  <2>1. ~Refreshes(Task) /\ Answered("ok")
    BY <1>4 DEF Acknowledge, ReceiveResult, Refreshes
  <2>2. QED
    BY <1>1, <1>2, <1>4, <2>1, ReceivedType DEF Proceeds, AnswerGone
<1>5. QED
  BY <1>3, <1>4 DEF Acknowledge, ReceiveResult, ReceiveError

\* The ways an operation goes on.
LEMMA OpFrame ==
  ASSUME ClientInv, QueueStep \/ AsideStep
  PROVE  \/ op' = None \/ op' = op
         \/ Fails \/ Proceeds \/ Rereads \/ Turns \/ Starts \/ SendsFirst \/ Asks
<1>1. CASE StartRecorder
  <2>1. /\ op \in Operations /\ op # None /\ op.todo # <<>> /\ op.call = None /\ Task.do = "record"
    BY <1>1, RunningFacts DEF StartRecorder
  <2>2. op' = Done(op) \/ op' = Failing(op)
    BY <1>1 DEF StartRecorder
  <2>3. QED
    BY <2>1, <2>2, DoneFrame, FailingFrame DEF Refreshes
<1>2. CASE SaveRecording \/ Interrupt \/ AskRecorder \/ AwaitRecorder \/ DeleteSession
  <2>1. /\ op \in Operations /\ op # None /\ op.todo # <<>> /\ op.call = None
        /\ Task.do \in {"save", "interrupt", "ask", "await", "delete"}
    BY <1>2, RunningFacts DEF SaveRecording, Interrupt, AskRecorder, AwaitRecorder, DeleteSession
  <2>2. op' = Done(op)
    BY <1>2 DEF SaveRecording, Interrupt, AskRecorder, AwaitRecorder, DeleteSession
  <2>3. QED
    BY <2>1, <2>2, DoneFrame DEF Refreshes
<1>3. CASE ThrowError
  <2>1. op \in Operations /\ op # None /\ op.todo # <<>>
    BY <1>3, RunningFacts DEF ThrowError
  <2>2. QED
    BY <1>3, <2>1, FailingFrame DEF ThrowError
<1>4. CASE GiveUp
  <2>1. op # None /\ op.call # None /\ op' = Failing(op)
    BY <1>4 DEF GiveUp
  <2>2. QED
    BY <2>1, WaitingFacts, FailingFrame
<1>5. CASE Finish
  BY <1>5 DEF Finish
<1>6. CASE AsideStep /\ ~GiveUp
  BY <1>6 DEF AsideStep, Press, PressStop, GetState, EmitChunk, SharingEnds, StopperStep,
     RecorderHasStopped, ReadForError, SaveError, Die, background
<1>7. QED
  BY <1>1, <1>2, <1>3, <1>4, <1>5, <1>6, TakeFrame, ReadFrame, QueueFrame, RetryFrame, FinishedFrame,
     StopFrame, CallFrame, EntryFrame, AnswerFrame, CatchFrame
     DEF QueueStep

-----------------------------------------------------------------------------
(***************************************************************************)
(* Hashes of entries as sequences.                                         *)
(***************************************************************************)
\* What the chains of the two sides are made of.
AnyFacts == DraftFacts \cup Facts

\* The chains of both sides are chains of these facts.
LEMMA ChainTypes ==
  /\ \A s \in Seq(DraftFacts) : s \in Seq(AnyFacts)
  /\ \A s \in Seq(Facts) : s \in Seq(AnyFacts)
BY DEF AnyFacts

\* What is a prefix of a shorter chain is one of the longer.
LEMMA BehindGrows ==
  ASSUME NEW s \in Seq(AnyFacts), NEW t \in Seq(AnyFacts), NEW u \in Seq(AnyFacts),
         IsPrefix(s, t), IsPrefix(t, u)
  PROVE  IsPrefix(s, u)
BY PrefixTransitive

\* The hash of an entry extends what the entry is linked to, and tells both.
LEMMA HashGrows ==
  ASSUME NEW e, e.previous \in Seq(AnyFacts), e.facts \in AnyFacts
  PROVE  /\ EntryHash(e) \in Seq(AnyFacts) /\ IsPrefix(e.previous, EntryHash(e))
         /\ Len(EntryHash(e)) = Len(e.previous) + 1 /\ Len(e.previous) \in Nat
         /\ EntryHash(e)[Len(EntryHash(e))] = e.facts
         /\ SubSeq(EntryHash(e), 1, Len(EntryHash(e))) = EntryHash(e)
         /\ \A i \in 1 .. Len(e.previous) :
              SubSeq(EntryHash(e), 1, i) = SubSeq(e.previous, 1, i)
<1>1. PICK s \in Seq(AnyFacts), f \in AnyFacts : s = e.previous /\ f = e.facts
  OBVIOUS
<1>2. PICK t : t = Append(s, f)
  OBVIOUS
<1>3. t \in Seq(AnyFacts) /\ Len(t) = Len(s) + 1 /\ Len(s) \in Nat /\ t[Len(t)] = f
  BY <1>2
<1>4. IsPrefix(s, t)
  BY <1>2 DEF IsPrefix
<1>5. SubSeq(t, 1, Len(t)) = t
  BY <1>3
<1>6. \A i \in 1 .. Len(s) : SubSeq(t, 1, i) = SubSeq(s, 1, i)
  BY <1>2
<1>7. t = EntryHash(e)
  BY <1>1, <1>2 DEF EntryHash
<1>8. QED
  BY <1>1, <1>3, <1>4, <1>5, <1>6, <1>7

\* Two entries with one hash are one entry.
LEMMA HashTells ==
  ASSUME NEW d \in Drafts \cup Entry, NEW e \in Drafts \cup Entry, EntryHash(d) = EntryHash(e)
  PROVE  d = e
<1>1. /\ d.previous \in Seq(AnyFacts) /\ e.previous \in Seq(AnyFacts)
      /\ d.facts \in AnyFacts /\ e.facts \in AnyFacts
  BY ChainTypes DEF Drafts, Entry, AnyFacts
<1>2. PICK s \in Seq(AnyFacts), t \in Seq(AnyFacts), f \in AnyFacts, g \in AnyFacts :
        s = d.previous /\ t = e.previous /\ f = d.facts /\ g = e.facts
  BY <1>1
<1>3. Append(s, f) = Append(t, g)
  BY <1>2 DEF EntryHash
<1>4. Len(s) = Len(t) /\ f = g
  <2>1. /\ Len(Append(s, f)) = Len(s) + 1 /\ Len(Append(t, g)) = Len(t) + 1
        /\ Append(s, f)[Len(s) + 1] = f /\ Append(t, g)[Len(t) + 1] = g
        /\ Len(s) \in Nat /\ Len(t) \in Nat
    OBVIOUS
  <2>2. QED
    BY <1>3, <2>1
<1>5. s = t
  <2>1. \A i \in 1 .. Len(s) : Append(s, f)[i] = s[i] /\ Append(t, g)[i] = t[i]
    BY <1>4
  <2>2. \A i \in 1 .. Len(s) : s[i] = t[i]
    BY <1>3, <2>1
  <2>3. QED
    BY <1>4, <2>2
<1>6. d = [facts |-> d.facts, previous |-> d.previous]
      /\ e = [facts |-> e.facts, previous |-> e.previous]
  BY DEF Drafts, Entry
<1>7. QED
  BY <1>2, <1>4, <1>5, <1>6

\* What is known of an entry and its hash.
LEMMA EntryFacts ==
  ASSUME NEW e \in Drafts \cup Entry
  PROVE  /\ e.previous \in Seq(AnyFacts) /\ e.facts \in AnyFacts /\ EntryHash(e) \in Seq(AnyFacts)
         /\ IsPrefix(e.previous, EntryHash(e))
<1>1. e.previous \in Seq(AnyFacts) /\ e.facts \in AnyFacts
  BY ChainTypes DEF Drafts, Entry, AnyFacts
<1>2. QED
  BY <1>1, HashGrows

-----------------------------------------------------------------------------
(***************************************************************************)
(* The chain of the session in IndexedDB, of the copy an operation has in  *)
(* memory and of the copy a stop has read to record its error.             *)
(***************************************************************************)
\* The sequence of a session counts its chain.
Counted(s) == s # None => Len(s.prev) = s.seq

SessionsInv == Counted(local) /\ (op # None => Counted(op.s)) /\ Counted(stopper.copy)

\* The capture exists, and no stop's error has set its chain back.
Live == local # None /\ ~overwrote

\* The operation has the chain of IndexedDB in memory, or reads it before it
\* uses it; only an upload is under way before that.
CopyInv ==
  Live /\ op # None =>
    \/ op.s # None /\ op.s.prev = local.prev /\ op.s.seq = local.seq
    \/ Tolerant(op.todo) /\ (op.call # None => Task.do = "upload")

\* The session a stop's error will be recorded in was that of IndexedDB.
ReadInv == Live /\ stopper.pc = "saving" => IsPrefix(stopper.copy.prev, local.prev)

\* Only ReadForError gives the stop a session.
LEMMA StopperFrame ==
  ASSUME ClientInv, QueueStep \/ AsideStep
  PROVE  \/ stopper'.copy = None /\ stopper'.pc # "saving"
         \/ /\ stopper'.copy = stopper.copy
            /\ stopper'.pc = "saving" => stopper.pc = "saving"
         \/ stopper'.copy = local /\ local' = local
<1>1. stopper \in Stoppers
  BY Types
<1>2. IdleStopper.copy = None /\ IdleStopper.pc # "saving"
  BY DEF IdleStopper
<1>3. \A n : /\ [stopper EXCEPT !.left = n].copy = stopper.copy
             /\ [stopper EXCEPT !.left = n].pc = stopper.pc
  BY <1>1 DEF Stoppers
<1>4. Failed(stopper).copy = stopper.copy /\ Failed(stopper).pc = "failed"
  BY <1>1 DEF Failed, Stoppers
<1>5. /\ [stopper EXCEPT !.pc = "queued"].copy = stopper.copy
      /\ [stopper EXCEPT !.pc = "queued"].pc = "queued"
      /\ \A n : /\ [stopper EXCEPT !.pc = "stopping", !.left = n].copy = stopper.copy
                /\ [stopper EXCEPT !.pc = "stopping", !.left = n].pc = "stopping"
  BY <1>1 DEF Stoppers
<1>6. CASE stopper' = stopper \/ stopper' = IdleStopper \/ stopper' = Failed(stopper)
  BY <1>2, <1>4, <1>6
<1>7. CASE Finish
  <2>1. \/ stopper' = IdleStopper \/ stopper' = stopper
        \/ \E n : stopper' = [stopper EXCEPT !.left = n]
    BY <1>7 DEF Finish
  <2>2. QED
    BY <1>2, <1>3, <2>1
<1>8. CASE PressStop
  <2>1. CASE stopper' = [stopper EXCEPT !.pc = "queued"]
    BY <1>5, <2>1
  <2>2. CASE stopper' = Failed(stopper)
    BY <1>4, <2>2
  <2>3. ASSUME NEW n, stopper' = [stopper EXCEPT !.pc = "stopping", !.left = n]
        PROVE  stopper'.copy = stopper.copy /\ stopper'.pc = "stopping"
    BY <1>5, <2>3
  <2>4. QED
    BY <1>8, <2>1, <2>2, <2>3 DEF PressStop
<1>9. CASE RecorderHasStopped
  BY <1>4, <1>5, <1>9 DEF RecorderHasStopped
<1>10. CASE ReadForError
  <2>1. CASE stopper' = IdleStopper
    BY <1>2, <2>1
  <2>2. CASE stopper' = [IdleStopper EXCEPT !.pc = "saving", !.copy = local]
    BY <1>10, <2>2 DEF ReadForError, IdleStopper, indexedDB
  <2>3. QED
    BY <1>10, <2>1, <2>2 DEF ReadForError
<1>11. CASE Catch \/ DeleteSession \/ SaveError \/ (\E withBrowser \in BOOLEAN : Die(withBrowser))
  BY <1>6, <1>11 DEF Catch, DeleteSession, SaveError, Die
<1>12. CASE \/ Take \/ ReadSession \/ QueuePart \/ RetryParts \/ StartRecorder \/ SaveRecording
            \/ SaveFinished \/ BeginStop \/ BeginFinalizing \/ Interrupt
            \/ AskRecorder \/ AwaitRecorder \/ ThrowError
            \/ CallServer \/ ReceiveEntry \/ Acknowledge \/ ReceiveResult \/ ReceiveError
            \/ (\E name \in {"marker", "shot", "resume", "discard"} : Press(name))
            \/ GetState \/ EmitChunk \/ SharingEnds \/ GiveUp
  BY <1>6, <1>12 DEF Take, ReadSession, QueuePart, RetryParts, StartRecorder, SaveRecording,
         SaveFinished, BeginStop, BeginFinalizing, Interrupt, AskRecorder, AwaitRecorder,
         ThrowError, CallServer, ReceiveEntry, Acknowledge, ReceiveResult,
         ReceiveError, Press, GetState, EmitChunk, SharingEnds, GiveUp, background
<1>13. QED
  BY <1>7, <1>8, <1>9, <1>10, <1>11, <1>12 DEF QueueStep, AsideStep, StopperStep

\* The types of the next state.
LEMMA TypesAfter ==
  ASSUME ClientInv'
  PROVE  /\ local' \in LocalSessions \cup {None} /\ store' \in SUBSET StoredParts
         /\ op' \in Operations \cup {None} /\ wire' \in SUBSET Calls
         /\ serving' \in Calls \cup {None} /\ overwrote' \in BOOLEAN
         /\ OpInv' /\ StoreInv' /\ WireInv'
BY DEF ClientInv, ClientTypeOK, OpInv

\* The session a stop's error is recorded in keeps the chain it was read with.
LEMMA ErrorKeepsChain ==
  ASSUME ClientInv, SaveError
  PROVE  /\ stopper.copy # None /\ stopper.copy \in LocalSessions
         /\ local' # None /\ local' \in LocalSessions
         /\ local'.prev = stopper.copy.prev /\ local'.seq = stopper.copy.seq
         /\ local'.artifacts = stopper.copy.artifacts /\ local'.status = "error"
<1>1. stopper.copy # None /\ stopper.copy \in LocalSessions /\ stopper.copy.status # "complete"
  BY Types DEF SaveError, StopperInv, Stoppers
<1>2. local' = [stopper.copy EXCEPT !.status = "error"]
  BY <1>1 DEF SaveError, WithError
<1>3. PICK s \in LocalSessions : s = stopper.copy
  BY <1>1
<1>4. /\ [s EXCEPT !.status = "error"] \in LocalSessions
      /\ [s EXCEPT !.status = "error"].prev = s.prev /\ [s EXCEPT !.status = "error"].seq = s.seq
      /\ [s EXCEPT !.status = "error"].artifacts = s.artifacts
      /\ [s EXCEPT !.status = "error"].status = "error"
  BY DEF LocalSessions
<1>5. QED
  BY <1>1, <1>2, <1>3, <1>4, ClientNoneAssumption

\* The chain after a part is queued and after the answer to an entry.
LEMMA QueueLinks ==
  ASSUME ClientInv, QueuePart, Active
  PROVE  /\ local # None /\ local' # None /\ QueuedPart.entry \in Drafts
         /\ QueuedPart.entry.previous = local.prev
         /\ local'.prev = EntryHash(QueuedPart.entry) /\ local'.seq = local.seq + 1
         /\ local'.status = local.status /\ local.status # "complete"
<1>1. PICK s \in LocalSessions, e \in Drafts : s = local /\ e = QueuedPart.entry
  BY QueueWrites
<1>2. /\ Advance(s, e).prev = EntryHash(e) /\ Advance(s, e).seq = s.seq + 1
      /\ Advance(s, e).status = s.status
  BY DEF Advance, LocalSessions
<1>3. QED
  BY <1>1, <1>2, QueueWrites

\* After the answer to an entry the chain ends with it.
LEMMA AnswerLinks ==
  ASSUME ClientInv, ReceiveEntry
  PROVE  /\ op # None /\ op.call # None /\ op.answer = "ok" /\ Task.do \in Linking
         /\ local # None /\ local' # None /\ op.s # None
         /\ local' \in LocalSessions /\ local'.status # "complete"
         /\ Request.entry \in Drafts /\ Request.entry.previous = op.s.prev
         /\ Request.kind \in Linking
         /\ local'.prev = EntryHash(Request.entry) /\ local'.seq = op.s.seq + 1
<1>1. /\ op # None /\ op.call # None /\ op.answer = "ok" /\ Task.do \in Linking
      /\ local' = AfterAnswer
  BY DEF ReceiveEntry, Answered, Linking
<1>2. /\ Request \in Requests /\ CallOK(Request) /\ local # None /\ op.s # None
      /\ op.s.status # "complete"
  BY <1>1, WaitingFacts DEF Request, Linking
<1>3. Request.kind \in Linking
  BY <1>1, <1>2 DEF CallOK, KindOf, Linking
<1>4. Request.entry \in Drafts /\ Request.entry.previous = op.s.prev
  BY <1>2, <1>3, RequestFields DEF CallOK
<1>5. QED
  BY <1>1, <1>2, <1>3, <1>4, AfterAnswerType

\* A step of the server at most answers the call of the operation.
LEMMA ServerOp ==
  ASSUME ClientInv,
         OpenSession \/ (\E c \in wire : Serve(c)) \/ CommitUpload \/ ServerDies
         \/ UNCHANGED allVars
  PROVE  \/ op' = op
         \/ /\ op # None /\ op'.todo = op.todo /\ op'.s = op.s /\ op'.call = op.call
<1>1. CASE op' = op
  BY <1>1
<1>2. ASSUME NEW a, op # None, op' = [op EXCEPT !.answer = a]
      PROVE  op'.todo = op.todo /\ op'.s = op.s /\ op'.call = op.call
  <2>1. op \in Operations
    BY <1>2, Types
  <2>2. PICK o : o = [op EXCEPT !.answer = a]
    OBVIOUS
  <2>3. o.todo = op.todo /\ o.s = op.s /\ o.call = op.call
    BY <2>1, <2>2 DEF Operations
  <2>4. QED
    BY <1>2, <2>2, <2>3
<1>3. QED
  BY <1>1, <1>2, ServerFrame

\* No session loses count of its chain.
LEMMA SessionsStep ==
  ASSUME BaseInv, SessionsInv, [ClientNext]_allVars
  PROVE  SessionsInv'
<1>1. ClientInv
  BY DEF BaseInv
<1>2. \A e \in Drafts : Len(EntryHash(e)) = Len(e.previous) + 1
  BY ChainTypes, EntryFacts, HashGrows
<1>3. CASE QueueStep \/ AsideStep
  <2>1. Counted(local')
    <3>1. CASE SameLocal
      BY <3>1 DEF SameLocal, SessionsInv, Counted
    <3>2. CASE QueuePart /\ Active
      BY <1>1, <1>2, <3>2, QueueLinks DEF SessionsInv, Counted
    <3>3. CASE ReceiveEntry
      BY <1>1, <1>2, <3>3, AnswerLinks DEF SessionsInv, Counted
    <3>4. CASE Saves
      BY <1>1, <3>4, SessionSaved DEF SessionsInv, Counted
    <3>5. CASE DeleteSession
      BY <3>5 DEF DeleteSession, Counted
    <3>6. CASE SaveError
      BY <1>1, <3>6, ErrorKeepsChain DEF SessionsInv, Counted
    <3>7. QED
      BY <1>1, <1>3, <3>1, <3>2, <3>3, <3>4, <3>5, <3>6, LocalFrame
  <2>2. op' # None => Counted(op'.s)
    <3>1. CASE op' = op \/ Fails \/ Proceeds \/ Turns \/ SendsFirst
      BY <3>1 DEF Fails, Proceeds, Turns, SendsFirst, SessionsInv
    <3>2. CASE Rereads \/ Starts
      BY <2>1, <3>2 DEF Rereads, Starts, Counted
    <3>3. CASE Asks
      BY <3>3 DEF Asks, SessionOf, SessionsInv
    <3>4. QED
      BY <1>1, <1>3, <3>1, <3>2, <3>3, OpFrame
  <2>3. Counted(stopper'.copy)
    <3>1. stopper'.copy = None \/ stopper'.copy = stopper.copy \/ stopper'.copy = local
      BY <1>1, <1>3, StopperFrame
    <3>2. QED
      BY <3>1 DEF SessionsInv, Counted
  <2>4. QED
    BY <2>1, <2>2, <2>3 DEF SessionsInv, Counted
<1>4. ASSUME NEW source \in {"tab", "desktop"}, StartCapture(source)
      PROVE  SessionsInv'
  <2>1. PICK s : s = NewSession(source) /\ s.seq = 0 /\ s.prev = <<>>
    <3>1. NewSession(source).seq = 0 /\ NewSession(source).prev = <<>>
      BY DEF NewSession
    <3>2. QED
      BY <3>1
  <2>2. local' = s /\ stopper' = stopper /\ \E script : op' = Operation("start", script, s)
    BY <1>4, <2>1 DEF StartCapture
  <2>3. op'.s = s
    BY <2>2 DEF Operation
  <2>4. Len(<<>>) = 0
    OBVIOUS
  <2>5. QED
    BY <2>1, <2>2, <2>3, <2>4 DEF SessionsInv, Counted
<1>5. CASE OpenSession \/ (\E c \in wire : Serve(c)) \/ CommitUpload \/ ServerDies
           \/ UNCHANGED allVars
  <2>1. local' = local /\ stopper' = stopper
    BY <1>5, ServerFrame
  <2>2. op' # None => op # None /\ op'.s = op.s
    BY <1>1, <1>5, ServerOp
  <2>3. QED
    BY <2>1, <2>2 DEF SessionsInv, Counted
<1>6. QED
  BY <1>3, <1>4, <1>5, Steps

\* A task that uses the session in memory finds the chain of IndexedDB there,
\* and so does the answer to any request but an upload.
LEMMA CopyUsed ==
  ASSUME ClientInv, CopyInv, Live, op # None, op.todo # <<>>,
         UsesCopy(Task) \/ (op.call # None /\ Task.do # "upload")
  PROVE  op.s # None /\ op.s.prev = local.prev /\ op.s.seq = local.seq
<1>1. CASE Tolerant(op.todo) /\ (op.call # None => Task.do = "upload")
  <2>1. UsesCopy(Task)
    BY <1>1
  <2>2. ~Refreshes(Task)
    BY <2>1 DEF UsesCopy, Refreshes
  <2>3. PICK s \in Seq(Tasks) : s = op.todo
    BY Types DEF Operations
  <2>4. ~UsesCopy(Head(s))
    BY <1>1, <2>2, <2>3, TolerantTail DEF Task
  <2>5. QED
    BY <2>1, <2>3, <2>4 DEF Task
<1>2. QED
  BY <1>1 DEF CopyInv

\* How the chain of IndexedDB grows: by a part that is queued or by an entry
\* the server has answered, each made of that chain.
ChainSame == local'.prev = local.prev /\ local'.seq = local.seq
ChainQueued == QueuePart /\ Active
ChainAnswered == ReceiveEntry /\ Request.entry.previous = local.prev

\* A capture whose chain is not set back was not set back before.
LEMMA LiveBefore ==
  ASSUME ClientInv, QueueStep \/ AsideStep, Live'
  PROVE  /\ Live /\ overwrote' = overwrote
         /\ SaveError => local.seq = stopper.copy.seq
<1>1. CASE SaveError
  <2>1. overwrote' = (overwrote \/ local = None \/ local.seq # stopper.copy.seq) /\ ~overwrote'
    BY <1>1 DEF SaveError, Live
  <2>2. ~(overwrote \/ local = None \/ local.seq # stopper.copy.seq)
    BY <2>1, Zenon
  <2>3. ~overwrote /\ local # None /\ local.seq = stopper.copy.seq
    BY <2>2, Zenon
  <2>4. overwrote \in BOOLEAN /\ overwrote' \in BOOLEAN
    BY <1>1, Types, SaveErrorKeeps, TypesAfter
  <2>5. QED
    BY <2>1, <2>3, <2>4, Zenon DEF Live
<1>2. CASE ~SaveError
  <2>1. ~overwrote /\ overwrote' = overwrote
    BY <1>2, NetworkFrame DEF Live
  <2>2. local # None
    <3>1. CASE SameLocal
      BY <3>1 DEF SameLocal, Live
    <3>2. CASE QueuePart /\ Active
      BY <3>2 DEF Active
    <3>3. CASE ReceiveEntry
      BY <3>3, AnswerLinks
    <3>4. CASE Saves
      BY <3>4, SessionSaved
    <3>5. CASE DeleteSession
      BY <3>5 DEF DeleteSession, Live
    <3>6. QED
      BY <1>2, <3>1, <3>2, <3>3, <3>4, <3>5, LocalFrame
  <2>3. QED
    BY <1>2, <2>1, <2>2 DEF Live
<1>3. QED
  BY <1>1, <1>2

\* The chain grows in no other way.
LEMMA ChainFrame ==
  ASSUME ClientInv, SessionsInv, CopyInv, ReadInv, QueueStep \/ AsideStep, Live'
  PROVE  ChainSame \/ ChainQueued \/ ChainAnswered
<1>1. Live /\ (SaveError => local.seq = stopper.copy.seq) /\ local \in LocalSessions
  BY LiveBefore, Types DEF Live
<1>2. CASE SameLocal
  BY <1>1, <1>2 DEF SameLocal, ChainSame
<1>3. CASE QueuePart /\ Active
  BY <1>3 DEF ChainQueued
<1>4. CASE ReceiveEntry
  <2>1. op # None /\ op.call # None /\ Task.do # "upload" /\ Request.entry.previous = op.s.prev
    BY <1>4, AnswerLinks DEF Linking
  <2>2. op.todo # <<>>
    BY <2>1, WaitingFacts
  <2>3. QED
    BY <1>1, <1>4, <2>1, <2>2, CopyUsed DEF ChainAnswered
<1>5. CASE Saves
  <2>1. op # None /\ op.todo # <<>> /\ UsesCopy(Task)
    <3>1. CASE SaveRecording
      BY <3>1, RunningFacts DEF SaveRecording, UsesCopy
    <3>2. CASE SaveFinished
      BY <3>2, RunningFacts DEF SaveFinished, UsesCopy
    <3>3. CASE ReceiveResult /\ Task.do = "package"
      <4>1. op # None /\ op.call # None
        BY <3>3 DEF ReceiveResult, Answered
      <4>2. QED
        BY <3>3, <4>1, WaitingFacts DEF UsesCopy
    <3>4. QED
      BY <1>5, <3>1, <3>2, <3>3 DEF Saves
  <2>2. local'.prev = op.s.prev /\ local'.seq = op.s.seq
    BY <1>5, SessionSaved
  <2>3. QED
    BY <1>1, <2>1, <2>2, CopyUsed DEF ChainSame
<1>6. CASE DeleteSession
  BY <1>6 DEF DeleteSession, Live
<1>7. CASE SaveError
  <2>1. /\ stopper.copy # None /\ stopper.copy \in LocalSessions
        /\ local'.prev = stopper.copy.prev /\ local'.seq = stopper.copy.seq
    BY <1>7, ErrorKeepsChain
  <2>2. PICK s \in Seq(DraftFacts), t \in Seq(DraftFacts) : s = stopper.copy.prev /\ t = local.prev
    BY <1>1, <2>1 DEF LocalSessions
  <2>3. IsPrefix(s, t)
    BY <1>1, <1>7, <2>2 DEF ReadInv, SaveError
  <2>4. Len(s) = Len(t)
    BY <1>1, <1>7, <2>1, <2>2 DEF SessionsInv, Counted, Live
  <2>5. s = t
    BY <2>2, <2>3, <2>4, PrefixWhole
  <2>6. QED
    BY <1>1, <1>7, <2>1, <2>2, <2>5 DEF ChainSame
<1>8. QED
  BY <1>2, <1>3, <1>4, <1>5, <1>6, <1>7, LocalFrame

\* So what was a prefix of the chain still is one.
LEMMA ChainLonger ==
  ASSUME ClientInv, ClientInv', SessionsInv, CopyInv, ReadInv, QueueStep \/ AsideStep, Live'
  PROVE  /\ Live /\ local.prev \in Seq(AnyFacts) /\ local'.prev \in Seq(AnyFacts)
         /\ \A s \in Seq(AnyFacts) : IsPrefix(s, local.prev) => IsPrefix(s, local'.prev)
<1>1. Live /\ local \in LocalSessions /\ local' \in LocalSessions
  BY LiveBefore, Types, TypesAfter DEF Live
<1>2. local.prev \in Seq(AnyFacts) /\ local'.prev \in Seq(AnyFacts)
  BY <1>1, ChainTypes DEF LocalSessions
<1>3. IsPrefix(local.prev, local'.prev)
  <2>1. CASE ChainSame
    BY <1>2, <2>1 DEF ChainSame, IsPrefix
  <2>2. CASE ChainQueued
    <3>1. /\ QueuedPart.entry \in Drafts /\ QueuedPart.entry.previous = local.prev
          /\ local'.prev = EntryHash(QueuedPart.entry)
      BY <2>2, QueueLinks DEF ChainQueued
    <3>2. QED
      BY <3>1, EntryFacts
  <2>3. CASE ChainAnswered
    <3>1. Request.entry \in Drafts /\ local'.prev = EntryHash(Request.entry)
      BY <2>3, AnswerLinks DEF ChainAnswered
    <3>2. QED
      BY <2>3, <3>1, EntryFacts DEF ChainAnswered
  <2>4. QED
    BY <2>1, <2>2, <2>3, ChainFrame
<1>4. QED
  BY <1>1, <1>2, <1>3, BehindGrows

\* The copy in memory is never used stale.
LEMMA CopyStep ==
  ASSUME BaseInv, SessionsInv, CopyInv, ReadInv, [ClientNext]_allVars
  PROVE  CopyInv'
<1>1. ClientInv
  BY DEF BaseInv
<1>2. SUFFICES ASSUME Live', op' # None
               PROVE  \/ op'.s # None /\ op'.s.prev = local'.prev /\ op'.s.seq = local'.seq
                      \/ Tolerant(op'.todo) /\ (op'.call # None => Task'.do = "upload")
  BY DEF CopyInv
<1>3. CASE QueueStep \/ AsideStep
  <2>1. Live
    BY <1>1, <1>2, <1>3, LiveBefore
  <2>2. CASE Rereads
    BY <2>2 DEF Rereads
  <2>3. CASE Turns
    BY <2>3 DEF Turns
  <2>4. CASE ChainQueued
    <3>1. Turns
      BY <1>1, <2>4, QueueFrame DEF ChainQueued
    <3>2. QED
      BY <2>3, <3>1
  <2>5. CASE ChainAnswered
    BY <1>1, <2>2, <2>5, EntryFrame DEF ChainAnswered
  <2>6. CASE ChainSame
    <3>1. CASE op = None
      <4>1. Starts
        BY <1>1, <1>2, <1>3, <2>2, <2>3, <3>1, OpFrame DEF Fails, Proceeds, SendsFirst, Asks,
           Rereads, Turns
      <4>2. QED
        BY <1>2, <4>1 DEF Starts, Live
    <3>2. CASE op # None /\ op.s # None /\ op.s.prev = local.prev /\ op.s.seq = local.seq
      <4>1. CASE op' = op \/ Fails \/ Proceeds \/ SendsFirst
        BY <2>6, <3>2, <4>1 DEF ChainSame, Fails, Proceeds, SendsFirst
      <4>2. CASE Asks
        BY <2>6, <3>2, <4>2 DEF ChainSame, Asks, SessionOf
      <4>3. QED
        BY <1>1, <1>2, <1>3, <2>2, <2>3, <3>2, <4>1, <4>2, OpFrame DEF Starts
    <3>3. CASE op # None /\ Tolerant(op.todo) /\ (op.call # None => Task.do = "upload")
      <4>1. PICK s \in Seq(Tasks) : s = op.todo
        BY <1>1, <3>3, Types DEF Operations
      <4>2. CASE op' = op
        BY <3>3, <4>2 DEF Task
      <4>3. CASE Fails
        BY <3>3, <4>3 DEF Fails
      <4>4. CASE Proceeds
        <5>1. Tolerant(Tail(s))
          BY <3>3, <4>1, <4>4, TolerantTail DEF Proceeds, Task
        <5>2. QED
          BY <4>1, <4>4, <5>1 DEF Proceeds
      <4>5. CASE SendsFirst
        BY <3>3, <4>5 DEF SendsFirst
      <4>6. CASE Asks
        <5>1. CASE Task.do \in {"complete", "missing"}
          BY <2>6, <4>6, <5>1 DEF ChainSame, Asks, SessionOf
        <5>2. CASE Task.do \notin {"complete", "missing"}
          <6>1. ~Refreshes(Task)
            BY <4>6, <5>2 DEF Asks, Refreshes
          <6>2. ~UsesCopy(Task)
            BY <3>3, <4>1, <4>6, <6>1, TolerantTail DEF Asks, Task
          <6>3. Task.do = "upload"
            BY <4>6, <5>2, <6>2 DEF Asks, UsesCopy
          <6>4. op'.todo = op.todo /\ Task' = Task
            BY <4>6 DEF Asks, Task
          <6>5. QED
            BY <3>3, <6>3, <6>4
        <5>3. QED
          BY <5>1, <5>2
      <4>7. QED
        BY <1>1, <1>2, <1>3, <2>2, <2>3, <3>3, <4>2, <4>3, <4>4, <4>5, <4>6, OpFrame DEF Starts
    <3>4. QED
      BY <2>1, <3>1, <3>2, <3>3 DEF CopyInv
  <2>7. QED
    BY <1>1, <1>2, <1>3, <2>4, <2>5, <2>6, ChainFrame
<1>4. ASSUME NEW source \in {"tab", "desktop"}, StartCapture(source)
      PROVE  op'.s # None /\ op'.s.prev = local'.prev /\ op'.s.seq = local'.seq
  <2>1. local' = NewSession(source) /\ op'.s = NewSession(source)
    BY <1>4 DEF StartCapture, Operation
  <2>2. QED
    BY <1>1, <2>1, Types, SessionTypes
<1>5. CASE OpenSession \/ (\E c \in wire : Serve(c)) \/ CommitUpload \/ ServerDies
           \/ UNCHANGED allVars
  <2>1. Live /\ local' = local
    BY <1>2, <1>5, ServerFrame DEF Live
  <2>2. op # None /\ op'.todo = op.todo /\ op'.s = op.s /\ op'.call = op.call /\ Task' = Task
    BY <1>1, <1>2, <1>5, ServerOp DEF Task
  <2>3. QED
    BY <2>1, <2>2 DEF CopyInv
<1>6. QED
  BY <1>3, <1>4, <1>5, Steps

\* The queue only lengthens the chain a stop has read.
LEMMA ReadStep ==
  ASSUME BaseInv, QuietInv, SessionsInv, CopyInv, ReadInv, [ClientNext]_allVars
  PROVE  ReadInv'
<1>1. ClientInv /\ ClientInv'
  BY BaseStep DEF BaseInv
<1>2. SUFFICES ASSUME Live', stopper'.pc = "saving"
               PROVE  IsPrefix(stopper'.copy.prev, local'.prev)
  BY DEF ReadInv
<1>3. CASE QueueStep \/ AsideStep
  <2>1. Live /\ local \in LocalSessions /\ local' \in LocalSessions
    BY <1>1, <1>2, <1>3, LiveBefore, Types, TypesAfter DEF Live
  <2>2. CASE stopper'.copy = local /\ local' = local
    <3>1. local.prev \in Seq(DraftFacts)
      BY <2>1 DEF LocalSessions
    <3>2. IsPrefix(local.prev, local.prev)
      BY <3>1 DEF IsPrefix
    <3>3. QED
      BY <2>2, <3>2
  <2>3. CASE stopper'.copy = stopper.copy /\ stopper.pc = "saving"
    <3>1. IsPrefix(stopper.copy.prev, local.prev)
      BY <2>1, <2>3 DEF ReadInv
    <3>2. stopper.copy \in LocalSessions
      BY <1>1, <2>3, Types DEF StopperInv, Stoppers
    <3>3. stopper.copy.prev \in Seq(AnyFacts)
      BY <3>2, ChainTypes DEF LocalSessions
    <3>4. QED
      BY <1>1, <1>2, <1>3, <2>3, <3>1, <3>3, ChainLonger
  <2>4. QED
    BY <1>1, <1>2, <1>3, <2>2, <2>3, StopperFrame
<1>4. ASSUME NEW source \in {"tab", "desktop"}, StartCapture(source)
      PROVE  FALSE
  BY <1>2, <1>4 DEF StartCapture, RegisterKey, QuietInv, Early
<1>5. CASE OpenSession \/ (\E c \in wire : Serve(c)) \/ CommitUpload \/ ServerDies
           \/ UNCHANGED allVars
  BY <1>2, <1>5, ServerFrame DEF Live, ReadInv
<1>6. QED
  BY <1>3, <1>4, <1>5, Steps

-----------------------------------------------------------------------------
(***************************************************************************)
(* What the server writes for the extension.                               *)
(***************************************************************************)
\* The server adds an entry to the end of its chain.
Appends(e) == e \in Entry /\ ValidEntry(e, TheKey) /\ \E k : AddEntry(k, e, TheKey)

\* A request that is accepted adds its entry or signs its close.
LEMMA ServeWrites ==
  ASSUME BaseInv, NEW c \in wire, Serve(c)
  PROVE  /\ parts' = parts
         /\ \/ UNCHANGED <<entries, manifest>> /\ ~ServeAccepted(c)
            \/ c.request.kind \in Linking /\ Appends(c.request.entry) /\ manifest' = manifest
            \/ /\ c.request.kind = "finalize" /\ entries' = entries /\ manifest = None
               /\ ValidClose(c.request.close, TheKey)
               /\ manifest' # None /\ manifest'.close = c.request.close
<1>1. PICK r \in Requests : r = c.request /\ Fits(r)
  BY Types DEF BaseInv, Calls, WireInv
<1>2. TypeOK
  BY Types DEF BaseInv
<1>3. CASE ServeAccepted(c)
  <2>1. Accept(r) /\ Outcome(r) \in {"recorded", "completed", "declared", "finalized"}
    BY <1>1, <1>3 DEF ServeAccepted
  <2>2. CASE r.kind = "event"
    <3>1. EventOutcome(EventKey(r.entry.facts.seq), r.entry, TheKey) = "recorded"
      BY <2>1, <2>2 DEF Outcome, EventOutcome
    <3>2. ValidEntry(r.entry, TheKey)
      BY <3>1 DEF EventOutcome
    <3>3. r.entry \in Entry
      BY <1>1, <1>2, <2>2, <3>2, RequestFields, AcceptedEntry DEF Linking
    <3>4. AddEntry(EventKey(r.entry.facts.seq), r.entry, TheKey) /\ UNCHANGED <<parts, manifest>>
      BY <2>1, <2>2, <3>1 DEF Accept, CreateEvent
    <3>5. QED
      BY <1>1, <2>2, <3>2, <3>3, <3>4 DEF Appends, Linking
  <2>3. CASE r.kind = "complete"
    <3>1. CompleteOutcome(ArtifactOf(r), r.count, r.entry.facts.data.hash, r.entry, TheKey)
            = "completed"
      BY <2>1, <2>3 DEF Outcome, CompleteOutcome
    <3>2. ValidEntry(r.entry, TheKey)
      BY <3>1 DEF CompleteOutcome
    <3>3. r.entry \in Entry
      BY <1>1, <1>2, <2>3, <3>2, RequestFields, AcceptedEntry DEF Linking
    <3>4. AddEntry(CompleteKey(ArtifactOf(r)), r.entry, TheKey) /\ UNCHANGED <<parts, manifest>>
      BY <2>1, <2>3, <3>1 DEF Accept, CompleteArtifact
    <3>5. QED
      BY <1>1, <2>3, <3>2, <3>3, <3>4 DEF Appends, Linking
  <2>4. CASE r.kind = "missing"
    <3>1. ValidEntry(r.entry, TheKey)
      BY <2>1, <2>4 DEF Accept, DeclareUnavailable, UnavailableOutcome
    <3>2. r.entry \in Entry
      BY <1>1, <1>2, <2>4, <3>1, RequestFields, AcceptedEntry DEF Linking
    <3>3. AddEntry(UnavailableKey(ArtifactOf(r)), r.entry, TheKey) /\ UNCHANGED <<parts, manifest>>
      BY <2>1, <2>4 DEF Accept, DeclareUnavailable
    <3>4. QED
      BY <1>1, <2>4, <3>1, <3>2, <3>3 DEF Appends, Linking
  <2>5. CASE r.kind = "finalize"
    <3>1. FinalizeOutcome(r.close, TheKey) = "finalized" /\ manifest = None
      BY <2>1, <2>5 DEF Outcome, FinalizeOutcome
    <3>2. manifest' = NewManifest(r.close, TheKey) /\ UNCHANGED <<entries, parts>>
      BY <2>1, <2>5, <3>1 DEF Accept, FinalizeSession, tables
    <3>3. ValidClose(r.close, TheKey)
      BY <3>1 DEF FinalizeOutcome
    <3>4. r.close \in Closes
      BY <2>5, <3>3, RequestFields, AcceptedClose DEF BaseInv, ServerInv
    <3>5. NewManifest(r.close, TheKey) # None
      BY <1>2, <3>1, <3>4, TheKeyType, ManifestType
    <3>6. NewManifest(r.close, TheKey).close = r.close
      BY DEF NewManifest
    <3>7. QED
      BY <1>1, <2>5, <3>1, <3>2, <3>3, <3>5, <3>6
  <2>6. QED
    BY <2>1, <2>2, <2>3, <2>4, <2>5 DEF Accept
<1>4. CASE ServePart(c)
  BY <1>4 DEF ServePart, ServeAccepted, PutPart, RecordIncident, tables, session
<1>5. CASE ServeRepeated(c) \/ ServeRefused(c)
  BY <1>5 DEF ServeRepeated, ServeRefused, ServeAccepted, Repeated, vars, tables, session
<1>6. QED
  BY <1>3, <1>4, <1>5 DEF Serve

\* An upload that commits adds its entry, and its part beside it.
LEMMA CommitWrites ==
  ASSUME BaseInv, CommitUpload
  PROVE  /\ serving # None /\ upload = Served(serving.request) /\ serving.request.kind = "part"
         /\ upload.entry = serving.request.entry /\ manifest' = manifest
         /\ \/ UNCHANGED <<entries, parts, nextSeq>>
            \/ /\ Appends(upload.entry)
               /\ parts' = parts \cup
                    {[artifact |-> upload.artifact, part |-> upload.part,
                      hash |-> upload.hash, key |-> upload.key]}
<1>1. CommitPart /\ upload # None
  BY DEF CommitUpload, CommitPart
<1>2. /\ serving # None /\ upload = Served(serving.request) /\ serving.request.kind = "part"
  BY <1>1, Types DEF BaseInv, ClientTypeOK, WireInv
<1>3. upload.entry = serving.request.entry /\ upload.signer = TheKey
  BY <1>2 DEF Served
<1>4. upload.entry \in Entry /\ ValidEntry(upload.entry, TheKey)
  BY <1>1, <1>3, Types DEF BaseInv, ServerInv, ChainInv, UploadStillValid, TypeOK, Uploads
<1>5. QED
  BY <1>1, <1>2, <1>3, <1>4 DEF CommitPart, Appends, tables, session

\* Any other step leaves the tables alone.
LEMMA OtherWrites ==
  ASSUME BaseInv, [ClientNext]_allVars, ~(\E c \in wire : Serve(c)), ~CommitUpload
  PROVE  UNCHANGED <<entries, parts, manifest>>
<1>1. CASE QueueStep \/ AsideStep
  <2>1. UNCHANGED vars
    BY <1>1, QueueStepKeeps, AsideStepKeeps DEF BaseInv, AsideStep
  <2>2. QED
    BY <2>1 DEF vars, tables, session
<1>2. CASE OpenSession \/ (\E source \in {"tab", "desktop"} : StartCapture(source))
  BY <1>2 DEF OpenSession, StartCapture, CreateSession, RegisterKey, tables
<1>3. CASE ServerDies \/ UNCHANGED allVars
  BY <1>3 DEF ServerDies, Crash, allVars, vars, tables, session
<1>4. QED
  BY <1>1, <1>2, <1>3, Steps

\* So the rows only grow, by one at the end, and a manifest stays.
LEMMA RowsGrow ==
  ASSUME BaseInv, [ClientNext]_allVars
  PROVE  /\ entries' = entries \/ \E e : Appends(e)
         /\ entries \subseteq entries' /\ parts \subseteq parts'
         /\ manifest # None => manifest' = manifest
<1>1. \A e : Appends(e) => entries \subseteq entries'
  BY DEF Appends, AddEntry
<1>2. CASE \E c \in wire : Serve(c)
  BY <1>1, <1>2, ServeWrites
<1>3. CASE CommitUpload
  BY <1>1, <1>3, CommitWrites
<1>4. QED
  BY <1>2, <1>3, OtherWrites

\* What an added row is: the row before it is the last one.
LEMMA AppendedRow ==
  ASSUME BaseInv, NEW e, Appends(e)
  PROVE  /\ e \in Entry /\ \E r \in entries' : r.entry = e
         /\ \A r \in entries' : r \in entries \/ r.entry = e
         /\ entries \subseteq entries' /\ e.facts.seq = nextSeq /\ nextSeq \in Nat
         /\ \A r \in entries : r.entry.facts.seq \in 0 .. nextSeq - 1 /\ r.entry \in Entry
         /\ \/ entries = {} /\ e.previous = <<>>
            \/ \E q \in entries : e.previous = EntryHash(q.entry) /\ q.entry.facts.seq = nextSeq - 1
<1>1. PICK k : AddEntry(k, e, TheKey)
  BY DEF Appends
<1>2. entries' = entries \cup {NewRow(k, e, TheKey)} /\ NewRow(k, e, TheKey).entry = e
  BY <1>1 DEF AddEntry, NewRow
<1>3. TypeOK /\ ChainIntact /\ nextSeq \in Nat
  BY DEF BaseInv, ServerInv, ChainInv, TypeOK
<1>4. \A r \in entries : r.entry.facts.seq \in 0 .. nextSeq - 1 /\ r.entry \in Entry
  BY <1>3, RowsBelow, RowType
<1>5. ValidEntry(e, TheKey) /\ e \in Entry
  BY DEF Appends
<1>6. CASE nextSeq = 0
  <2>1. e.previous = <<>>
    BY <1>5, <1>6 DEF ValidEntry
  <2>2. \A n \in 0 .. 0 - 1 : FALSE
    OBVIOUS
  <2>3. entries = {}
    BY <1>4, <1>6, <2>2
  <2>4. QED
    BY <1>2, <1>3, <1>4, <1>5, <2>1, <2>3 DEF ValidEntry
<1>7. CASE nextSeq # 0
  <2>1. \E q \in entries : e.previous = EntryHash(q.entry) /\ q.entry.facts.seq = nextSeq - 1
    BY <1>5, <1>7 DEF ValidEntry, RowAt, LinkedTo
  <2>2. QED
    BY <1>2, <1>3, <1>4, <1>5, <2>1 DEF ValidEntry
<1>8. QED
  BY <1>6, <1>7

\* The chains of any two rows are prefixes of one another, and every prefix of
\* a row's chain is the chain of a row.
RowsNested ==
  \A q, r \in entries :
    q.entry.facts.seq < r.entry.facts.seq => IsPrefix(EntryHash(q.entry), r.entry.previous)

RowPrefixes ==
  \A r \in entries : \A i \in 1 .. Len(EntryHash(r.entry)) :
    \E q \in entries : EntryHash(q.entry) = SubSeq(EntryHash(r.entry), 1, i)

RowsInv == RowsNested /\ RowPrefixes

\* An entry that is accepted extends the last row.
LEMMA RowsStep ==
  ASSUME BaseInv, RowsInv, [ClientNext]_allVars
  PROVE  RowsInv'
<1>1. CASE entries' = entries
  BY <1>1 DEF RowsInv, RowsNested, RowPrefixes
<1>2. ASSUME NEW e, Appends(e)
      PROVE  RowsInv'
  <2>1. /\ e \in Entry /\ \E r \in entries' : r.entry = e
        /\ \A r \in entries' : r \in entries \/ r.entry = e
        /\ entries \subseteq entries' /\ e.facts.seq = nextSeq /\ nextSeq \in Nat
        /\ \A r \in entries : r.entry.facts.seq \in 0 .. nextSeq - 1 /\ r.entry \in Entry
        /\ \/ entries = {} /\ e.previous = <<>>
           \/ \E q \in entries : e.previous = EntryHash(q.entry)
                                 /\ q.entry.facts.seq = nextSeq - 1
    BY <1>2, AppendedRow
  <2>2. ASSUME NEW q \in entries
        PROVE  IsPrefix(EntryHash(q.entry), e.previous)
    <3>1. PICK r \in entries : e.previous = EntryHash(r.entry) /\ r.entry.facts.seq = nextSeq - 1
      BY <2>1
    <3>2. EntryHash(q.entry) \in Seq(AnyFacts) /\ EntryHash(r.entry) \in Seq(AnyFacts)
          /\ r.entry.previous \in Seq(AnyFacts) /\ IsPrefix(r.entry.previous, EntryHash(r.entry))
      BY <2>1, EntryFacts
    <3>3. CASE q.entry.facts.seq = nextSeq - 1
      <4>1. q = r
        BY <3>1, <3>3 DEF BaseInv, ServerInv, ChainInv, ChainIntact
      <4>2. QED
        BY <3>1, <3>2, <4>1 DEF IsPrefix
    <3>4. CASE q.entry.facts.seq # nextSeq - 1
      <4>1. q.entry.facts.seq < r.entry.facts.seq
        BY <2>1, <3>1, <3>4
      <4>2. IsPrefix(EntryHash(q.entry), r.entry.previous)
        BY <4>1 DEF RowsInv, RowsNested
      <4>3. QED
        BY <3>1, <3>2, <4>2, BehindGrows
    <3>5. QED
      BY <3>3, <3>4
  <2>3. RowsNested'
    <3>1. SUFFICES ASSUME NEW q \in entries', NEW r \in entries',
                          q.entry.facts.seq < r.entry.facts.seq
                   PROVE  IsPrefix(EntryHash(q.entry), r.entry.previous)
      BY DEF RowsNested, EntryHash
    <3>2. q \in entries
      BY <2>1, <3>1
    <3>3. CASE r \in entries
      BY <3>1, <3>2, <3>3 DEF RowsInv, RowsNested
    <3>4. CASE r.entry = e
      BY <2>2, <3>2, <3>4
    <3>5. QED
      BY <2>1, <3>3, <3>4
  <2>4. RowPrefixes'
    <3>1. SUFFICES ASSUME NEW r \in entries', NEW i \in 1 .. Len(EntryHash(r.entry))
                   PROVE  \E q \in entries' : EntryHash(q.entry) = SubSeq(EntryHash(r.entry), 1, i)
      BY DEF RowPrefixes, EntryHash
    <3>2. CASE r \in entries
      BY <2>1, <3>2 DEF RowsInv, RowPrefixes
    <3>3. CASE r.entry = e
      <4>1. /\ Len(EntryHash(e)) = Len(e.previous) + 1 /\ Len(e.previous) \in Nat
            /\ SubSeq(EntryHash(e), 1, Len(EntryHash(e))) = EntryHash(e)
            /\ \A j \in 1 .. Len(e.previous) :
                 SubSeq(EntryHash(e), 1, j) = SubSeq(e.previous, 1, j)
        BY <2>1, EntryFacts, HashGrows
      <4>2. CASE i = Len(EntryHash(e))
        BY <2>1, <3>3, <4>1, <4>2
      <4>3. CASE i # Len(EntryHash(e))
        <5>1. i \in 1 .. Len(e.previous)
          BY <3>1, <3>3, <4>1, <4>3
        <5>2. e.previous # <<>>
          BY <5>1
        <5>3. PICK q \in entries : e.previous = EntryHash(q.entry)
          BY <2>1, <5>2
        <5>4. PICK p \in entries : EntryHash(p.entry) = SubSeq(EntryHash(q.entry), 1, i)
          BY <5>1, <5>3 DEF RowsInv, RowPrefixes
        <5>5. QED
          BY <2>1, <3>3, <4>1, <5>1, <5>3, <5>4
      <4>4. QED
        BY <4>2, <4>3
    <3>4. QED
      BY <2>1, <3>2, <3>3
  <2>5. QED
    BY <2>3, <2>4 DEF RowsInv
<1>3. QED
  BY <1>1, <1>2, RowsGrow

-----------------------------------------------------------------------------
(***************************************************************************)
(* What the extension was told is done is done.                            *)
(***************************************************************************)
Carried(r) ==
  /\ r.kind \in Linking \cup {"part"} => \E q \in entries : q.entry = r.entry
  /\ r.kind = "finalize" => manifest # None /\ manifest.close = r.close

AnswerInv ==
  op # None =>
    /\ op.call = None => op.answer = None
    /\ op.call # None /\ op.answer = "ok" => Carried(op.call.request)

\* What was carried out stays so.
LEMMA CarriedStays ==
  ASSUME BaseInv, [ClientNext]_allVars, NEW r, Carried(r)
  PROVE  Carried(r)'
BY RowsGrow DEF Carried

\* A request that is answered with success was carried out, now or before.
LEMMA ServeCarries ==
  ASSUME BaseInv, NEW c \in wire, Serve(c), ServeAccepted(c) \/ ServeRepeated(c)
  PROVE  Carried(c.request)'
<1>1. PICK r \in Requests : r = c.request
  BY Types DEF BaseInv, Calls
<1>2. CASE ServeAccepted(c)
  <2>1. CASE r.kind \in Linking /\ Appends(r.entry)
    <3>1. \E q \in entries' : q.entry = r.entry
      BY <2>1, AppendedRow
    <3>2. QED
      BY <1>1, <2>1, <3>1 DEF Carried, Linking
  <2>2. CASE r.kind = "finalize" /\ manifest' # None /\ manifest'.close = r.close
    BY <1>1, <2>2 DEF Carried, Linking
  <2>3. QED
    BY <1>1, <1>2, <2>1, <2>2, ServeWrites
<1>3. CASE ServeRepeated(c)
  <2>1. Outcome(r) \in Repeated /\ UNCHANGED <<entries, manifest>>
    BY <1>1, <1>3 DEF ServeRepeated, vars, tables, session
  <2>2. CASE r.kind = "event"
    <3>1. EventOutcome(EventKey(r.entry.facts.seq), r.entry, TheKey) = "already_recorded"
      BY <2>1, <2>2 DEF Outcome, EventOutcome, Repeated
    <3>2. NewRow(EventKey(r.entry.facts.seq), r.entry, TheKey) \in entries
      BY <3>1 DEF EventOutcome
    <3>3. NewRow(EventKey(r.entry.facts.seq), r.entry, TheKey).entry = r.entry
      BY DEF NewRow
    <3>4. QED
      BY <1>1, <2>1, <2>2, <3>2, <3>3 DEF Carried
  <2>3. CASE r.kind = "part"
    <3>1. PICK k : k = PartKey(r.artifact, r.part)
      OBVIOUS
    <3>2. UploadOutcome(k, r.artifact, r.part, r.bytes, r.entry, TheKey) = "already_recorded"
      BY <2>1, <2>3, <3>1 DEF Outcome, UploadOutcome, Repeated
    <3>3. NewRow(EntryKey(k), r.entry, TheKey) \in entries
      BY <3>2 DEF UploadOutcome, RepeatsPart
    <3>4. NewRow(EntryKey(k), r.entry, TheKey).entry = r.entry
      BY DEF NewRow
    <3>5. QED
      BY <1>1, <2>1, <2>3, <3>3, <3>4 DEF Carried
  <2>4. CASE r.kind = "complete"
    <3>1. CompleteOutcome(ArtifactOf(r), r.count, r.entry.facts.data.hash, r.entry, TheKey)
            = "already_completed"
      BY <2>1, <2>4 DEF Outcome, CompleteOutcome, Repeated
    <3>2. PICK x \in artifacts :
            x = CapturedRow(ArtifactOf(r), r.count, r.entry.facts.data.hash, r.entry)
      BY <3>1 DEF CompleteOutcome
    <3>3. x.status = "captured" /\ x.entry = EntryHash(r.entry)
      BY <3>2 DEF CapturedRow
    <3>4. PICK q \in entries : EntryHash(q.entry) = EntryHash(r.entry)
      BY <3>3 DEF BaseInv, ServerInv, Evidence, ResultsRecorded
    <3>5. q.entry \in Entry /\ r.entry \in Drafts
      BY <2>4, RowType, RequestFields DEF BaseInv, ServerInv, ChainInv, Linking
    <3>6. q.entry = r.entry
      BY <3>4, <3>5, HashTells
    <3>7. QED
      BY <1>1, <2>1, <2>4, <3>6 DEF Carried
  <2>5. CASE r.kind = "missing"
    BY <2>1, <2>5 DEF Outcome, UnavailableOutcome, Repeated
  <2>6. CASE r.kind = "finalize"
    BY <1>1, <2>1, <2>6 DEF Outcome, FinalizeOutcome, Repeated, Carried, Linking
  <2>7. CASE r.kind = "package"
    BY <1>1, <2>7 DEF Carried, Linking
  <2>8. QED
    BY <2>2, <2>3, <2>4, <2>5, <2>6, <2>7, RequestFields DEF Linking
<1>4. QED
  BY <1>2, <1>3

\* The server only answers the call of the operation, with a success only what
\* it carried out.
LEMMA ServerAnswers ==
  ASSUME BaseInv,
         OpenSession \/ (\E c \in wire : Serve(c)) \/ CommitUpload \/ ServerDies
         \/ UNCHANGED allVars,
         op' # op
  PROVE  \E c : /\ op # None /\ c # None /\ op.call = c /\ op'.call = c
                /\ op'.answer = "ok" => Carried(c.request)'
<1>1. op \in Operations \cup {None}
  BY Types DEF BaseInv
<1>2. ASSUME NEW a, NEW c, Answer(c, a)
      PROVE  /\ op # None /\ op.call = c /\ op'.call = c /\ op'.answer = a
  <2>1. op # None /\ op.call = c /\ op' = [op EXCEPT !.answer = a]
    BY <1>2 DEF Answer
  <2>2. PICK o : o = [op EXCEPT !.answer = a]
    OBVIOUS
  <2>3. o.call = op.call /\ o.answer = a
    BY <1>1, <2>1, <2>2 DEF Operations
  <2>4. QED
    BY <2>1, <2>2, <2>3
<1>3. CASE OpenSession \/ UNCHANGED allVars
  BY <1>3 DEF OpenSession, clientVars, background, allVars
<1>4. ASSUME NEW c \in wire, Serve(c)
      PROVE  /\ op # None /\ c # None /\ op.call = c /\ op'.call = c
             /\ op'.answer = "ok" => Carried(c.request)'
  <2>1. c # None
    BY Types, ClientNoneAssumption DEF BaseInv
  <2>2. CASE ServePart(c)
    BY <2>2 DEF ServePart
  <2>3. CASE ServeRefused(c)
    <3>1. Answer(c, "refused")
      BY <2>3 DEF ServeRefused
    <3>2. QED
      BY <1>2, <2>1, <3>1
  <2>4. CASE ServeAccepted(c) \/ ServeRepeated(c)
    <3>1. Answer(c, "ok") /\ Carried(c.request)'
      BY <1>4, <2>4, ServeCarries DEF ServeAccepted, ServeRepeated
    <3>2. op # None /\ op.call = c /\ op'.call = c
      BY <1>2, <3>1
    <3>3. QED
      BY <2>1, <3>1, <3>2
  <2>5. QED
    BY <1>4, <2>2, <2>3, <2>4 DEF Serve
<1>5. ASSUME NEW c, c = serving, CommitUpload
      PROVE  /\ op # None /\ c # None /\ op.call = c /\ op'.call = c
             /\ op'.answer = "ok" => Carried(c.request)'
  <2>1. Answer(c, IF nextSeq' > nextSeq THEN "ok" ELSE "refused")
    BY <1>5 DEF CommitUpload
  <2>2. /\ op # None /\ op.call = c /\ op'.call = c
        /\ op'.answer = IF nextSeq' > nextSeq THEN "ok" ELSE "refused"
    BY <1>2, <2>1
  <2>3. c # None /\ c.request.kind = "part"
    BY <1>5, CommitWrites
  <2>4. ASSUME op'.answer = "ok"
        PROVE  Carried(c.request)'
    <3>1. nextSeq' # nextSeq
      <4>1. nextSeq \in Nat
        BY DEF BaseInv, ServerInv, ChainInv, TypeOK
      <4>2. QED
        BY <2>2, <2>4, <4>1
    <3>2. Appends(c.request.entry)
      BY <1>5, <3>1, CommitWrites
    <3>3. \E q \in entries' : q.entry = c.request.entry
      BY <3>2, AppendedRow
    <3>4. QED
      BY <2>3, <3>3 DEF Carried, Linking
  <2>5. QED
    BY <2>2, <2>3, <2>4
<1>6. ASSUME NEW c, c = serving, ServerDies
      PROVE  op # None /\ c # None /\ op.call = c /\ op'.call = c /\ op'.answer = "refused"
  <2>1. upload # None /\ Answer(c, "refused")
    BY <1>6 DEF ServerDies, Crash
  <2>2. c # None
    BY <1>6, <2>1, Types DEF BaseInv, ClientTypeOK
  <2>3. QED
    BY <1>2, <2>1, <2>2
<1>7. QED
  BY <1>3, <1>4, <1>5, <1>6

\* An answer is a success only for what was carried out.
LEMMA AnswerStep ==
  ASSUME BaseInv, AnswerInv, [ClientNext]_allVars
  PROVE  AnswerInv'
<1>1. ClientInv
  BY DEF BaseInv
<1>2. \A r : Carried(r) => Carried(r)'
  BY RowsGrow DEF Carried
<1>3. CASE op' = op
  BY <1>2, <1>3 DEF AnswerInv
<1>4. CASE QueueStep \/ AsideStep
  <2>1. None # "ok"
    BY Types, SessionTypes DEF BaseInv
  <2>2. CASE Fails \/ Proceeds \/ Rereads \/ Turns \/ Starts \/ SendsFirst
    <3>1. op'.call = None /\ op'.answer = None
      BY <2>2 DEF AnswerInv, AnswerGone, Fails, Proceeds, Rereads, Turns, Starts, SendsFirst
    <3>2. QED
      BY <3>1 DEF AnswerInv
  <2>3. CASE Asks
    BY <2>1, <2>3 DEF AnswerInv, Asks
  <2>4. CASE op' = None
    BY <2>4 DEF AnswerInv
  <2>5. QED
    BY <1>1, <1>3, <1>4, <2>2, <2>3, <2>4, OpFrame
<1>5. CASE \E source \in {"tab", "desktop"} : StartCapture(source)
  <2>1. op'.call = None /\ op'.answer = None
    BY <1>5 DEF StartCapture, Operation
  <2>2. QED
    BY <2>1 DEF AnswerInv
<1>6. CASE OpenSession \/ (\E c \in wire : Serve(c)) \/ CommitUpload \/ ServerDies
           \/ UNCHANGED allVars
  <2>1. CASE op' # op
    <3>1. PICK c : /\ c # None /\ op'.call = c
                   /\ op'.answer = "ok" => Carried(c.request)'
      BY <1>6, <2>1, ServerAnswers
    <3>2. QED
      BY <3>1 DEF AnswerInv, Carried
  <2>2. QED
    BY <1>3, <2>1
<1>7. QED
  BY <1>4, <1>5, <1>6, Steps

-----------------------------------------------------------------------------
(***************************************************************************)
(* The chains of the two sides.                                            *)
(***************************************************************************)
\* Every part, request, upload and row links to a prefix of the chain of the
\* extension, and a part is in that chain.
ChainRel ==
  Live =>
    /\ \A p \in store : IsPrefix(EntryHash(p.entry), local.prev)
    /\ \A c \in wire : c.request.kind \in Linking \cup {"part"} =>
                         IsPrefix(c.request.entry.previous, local.prev)
    /\ serving # None => IsPrefix(serving.request.entry.previous, local.prev)
    /\ \A r \in entries : IsPrefix(r.entry.previous, local.prev)

\* A request that is sent links to the chain of the extension, or to the part
\* it sends.
LEMMA SentLinks ==
  ASSUME ClientInv, CopyInv, ChainRel, Live, CallServer
  PROVE  /\ local' = local
         /\ \A c \in wire' : c \in wire \/ (c.request.kind \in Linking \cup {"part"} =>
                                              IsPrefix(c.request.entry.previous, local.prev))
<1>1. PICK do \in {"event", "upload", "complete", "missing", "finalize", "package"} : Running(do)
  BY DEF CallServer
<1>2. op \in Operations /\ op # None /\ op.todo # <<>> /\ op.call = None /\ Task.do = do
  BY <1>1, RunningFacts
<1>3. local' = local
  BY DEF CallServer, indexedDB
<1>4. local \in LocalSessions /\ local.prev \in Seq(AnyFacts)
  BY Types, ChainTypes DEF Live, LocalSessions
<1>5. CASE Task.do \in {"complete", "missing"} /\ (~Active \/ PartsMissing(Task))
  BY <1>3, <1>5 DEF CallServer
<1>6. CASE ~(Task.do \in {"complete", "missing"} /\ (~Active \/ PartsMissing(Task)))
  <2>1. PICK r \in Requests :
          /\ r = MakeRequest(Task) /\ r.kind = KindOf(Task.do)
          /\ Task.do \in Linking => r.entry.previous = SessionOf(Task).prev
          /\ Task.do = "upload" => \E p \in store : Matches(r, p)
    BY <1>1, <1>2, <1>6, MakeRequestType
  <2>2. wire' = wire \cup {Sent(r)} /\ Sent(r).request = r
    BY <1>6, <2>1 DEF CallServer, Sent
  <2>3. CASE Task.do \in Linking
    <3>1. SessionOf(Task).prev = local.prev
      <4>1. CASE Task.do = "event"
        <5>1. op.s.prev = local.prev
          BY <1>2, <4>1, CopyUsed DEF UsesCopy
        <5>2. QED
          BY <4>1, <5>1 DEF SessionOf
      <4>2. CASE Task.do \in {"complete", "missing"}
        BY <4>2 DEF SessionOf
      <4>3. QED
        BY <2>3, <4>1, <4>2 DEF Linking
    <3>2. IsPrefix(r.entry.previous, local.prev)
      BY <1>4, <2>1, <2>3, <3>1 DEF IsPrefix
    <3>3. QED
      BY <1>3, <2>2, <3>2
  <2>4. CASE Task.do = "upload"
    <3>1. PICK p \in store : r.entry = p.entry /\ p.entry \in Drafts
      BY <2>1, <2>4, Types DEF Matches, StoredParts
    <3>2. /\ p.entry.previous \in Seq(AnyFacts) /\ EntryHash(p.entry) \in Seq(AnyFacts)
          /\ IsPrefix(p.entry.previous, EntryHash(p.entry))
      BY <3>1, EntryFacts
    <3>3. IsPrefix(EntryHash(p.entry), local.prev)
      BY <3>1 DEF ChainRel
    <3>4. IsPrefix(r.entry.previous, local.prev)
      BY <1>4, <3>1, <3>2, <3>3, BehindGrows
    <3>5. QED
      BY <1>3, <2>2, <3>4
  <2>5. CASE Task.do \in {"finalize", "package"}
    <3>1. r.kind \notin Linking \cup {"part"}
      BY <2>1, <2>5 DEF KindOf, Linking
    <3>2. QED
      BY <1>3, <2>2, <3>1
  <2>6. QED
    BY <1>2, <2>3, <2>4, <2>5 DEF Linking
<1>7. QED
  BY <1>5, <1>6

\* The extension only sends what links to its chain.
LEMMA ExtensionRel ==
  ASSUME BaseInv, SessionsInv, CopyInv, ReadInv, ChainRel, QueueStep \/ AsideStep
  PROVE  ChainRel'
<1>1. ClientInv /\ ClientInv' /\ UNCHANGED vars
  BY QueueStepKeeps, AsideStepKeeps DEF BaseInv, AsideStep
<1>2. SUFFICES ASSUME Live' PROVE ChainRel'
  BY DEF ChainRel
<1>3. /\ Live /\ local.prev \in Seq(AnyFacts) /\ local'.prev \in Seq(AnyFacts)
      /\ \A s \in Seq(AnyFacts) : IsPrefix(s, local.prev) => IsPrefix(s, local'.prev)
  BY <1>1, <1>2, ChainLonger
<1>4. \A e \in Drafts \cup Entry :
        /\ IsPrefix(e.previous, local.prev) => IsPrefix(e.previous, local'.prev)
        /\ IsPrefix(EntryHash(e), local.prev) => IsPrefix(EntryHash(e), local'.prev)
  BY <1>3, EntryFacts
<1>5. entries' = entries /\ serving' = serving
  BY <1>1, NetworkFrame DEF vars, tables
<1>6. ASSUME NEW r \in entries'
      PROVE  IsPrefix(r.entry.previous, local'.prev)
  <2>1. r \in entries /\ r.entry \in Entry
    BY <1>5, <1>6, RowType DEF BaseInv, ServerInv, ChainInv
  <2>2. QED
    BY <1>3, <1>4, <2>1 DEF ChainRel
<1>7. ASSUME serving' # None
      PROVE  IsPrefix(serving'.request.entry.previous, local'.prev)
  <2>1. serving \in Calls /\ serving.request.kind = "part"
    BY <1>1, <1>5, <1>7, Types DEF WireInv
  <2>2. serving.request.entry \in Drafts
    BY <2>1, RequestFields DEF Calls
  <2>3. QED
    BY <1>3, <1>4, <1>5, <1>7, <2>2 DEF ChainRel
<1>8. ASSUME NEW c \in wire', c.request.kind \in Linking \cup {"part"}
      PROVE  IsPrefix(c.request.entry.previous, local'.prev)
  <2>1. CASE c \in wire
    <3>1. c.request.entry \in Drafts
      BY <1>1, <1>8, <2>1, Types, RequestFields DEF Calls
    <3>2. QED
      BY <1>3, <1>4, <1>8, <2>1, <3>1 DEF ChainRel
  <2>2. CASE c \notin wire
    <3>1. CallServer
      BY <1>8, <2>2, NetworkFrame
    <3>2. QED
      BY <1>1, <1>3, <1>8, <2>2, <3>1, SentLinks
  <2>3. QED
    BY <2>1, <2>2
<1>9. ASSUME NEW p \in store
      PROVE  IsPrefix(EntryHash(p.entry), local'.prev)
  <2>1. p.entry \in Drafts
    BY <1>1, <1>9, Types DEF StoredParts
  <2>2. QED
    BY <1>3, <1>4, <1>9, <2>1 DEF ChainRel
<1>10. ASSUME NEW p \in store'
       PROVE  IsPrefix(EntryHash(p.entry), local'.prev)
  <2>1. CASE store' = store
    BY <1>9, <1>10, <2>1
  <2>2. CASE QueuePart /\ Active
    <3>1. store' = store \cup {QueuedPart}
      BY <1>1, <2>2, QueueWrites
    <3>2. local'.prev = EntryHash(QueuedPart.entry)
      BY <1>1, <2>2, QueueLinks
    <3>3. IsPrefix(local'.prev, local'.prev)
      BY <1>3 DEF IsPrefix
    <3>4. QED
      BY <1>9, <1>10, <3>1, <3>2, <3>3
  <2>3. CASE Acknowledge /\ Active
    <3>1. PICK x \in store, y \in StoredParts :
            y.entry = x.entry /\ store' = (store \ {x}) \cup {y}
      BY <1>1, <2>3, AcknowledgeWrites
    <3>2. QED
      BY <1>9, <1>10, <3>1
  <2>4. CASE DeleteSession
    BY <1>2, <2>4 DEF DeleteSession, Live
  <2>5. QED
    BY <1>1, <2>1, <2>2, <2>3, <2>4, StoreFrame
<1>11. QED
  BY <1>6, <1>7, <1>8, <1>10 DEF ChainRel, EntryHash

\* The server only accepts what was sent.
LEMMA ServerRel ==
  ASSUME BaseInv, ChainRel,
         OpenSession \/ (\E c \in wire : Serve(c)) \/ CommitUpload \/ ServerDies
         \/ UNCHANGED allVars
  PROVE  ChainRel'
<1>1. local' = local /\ store' = store /\ wire' \subseteq wire /\ overwrote' = overwrote
  BY ServerFrame
<1>2. SUFFICES ASSUME Live
               PROVE  /\ serving' # None => IsPrefix(serving'.request.entry.previous, local.prev)
                      /\ \A r \in entries' : IsPrefix(r.entry.previous, local.prev)
  BY <1>1 DEF ChainRel, Live, EntryHash
<1>3. CASE OpenSession \/ ServerDies \/ UNCHANGED allVars
  <2>1. entries' = entries /\ (serving' = serving \/ serving' = None)
    BY <1>3 DEF OpenSession, CreateSession, tables, clientVars, network, allVars, vars, ServerDies,
       Crash
  <2>2. QED
    BY <1>2, <2>1 DEF ChainRel
<1>4. ASSUME NEW e, Appends(e), IsPrefix(e.previous, local.prev), NEW r \in entries'
      PROVE  IsPrefix(r.entry.previous, local.prev)
  BY <1>2, <1>4, AppendedRow DEF ChainRel
<1>5. ASSUME NEW c \in wire, Serve(c)
      PROVE  /\ serving' # None => IsPrefix(serving'.request.entry.previous, local.prev)
             /\ \A r \in entries' : IsPrefix(r.entry.previous, local.prev)
  <2>1. serving' = serving \/ (serving' = c /\ c.request.kind = "part")
    BY <1>5 DEF Serve, ServeAccepted, ServePart, ServeRepeated, ServeRefused
  <2>2. entries' = entries \/ (c.request.kind \in Linking /\ Appends(c.request.entry))
    BY <1>5, ServeWrites
  <2>3. c.request.kind \in Linking \cup {"part"} => IsPrefix(c.request.entry.previous, local.prev)
    BY <1>2 DEF ChainRel
  <2>4. QED
    BY <1>2, <1>4, <2>1, <2>2, <2>3 DEF ChainRel
<1>6. CASE CommitUpload
  <2>1. serving' = None
    BY <1>6 DEF CommitUpload
  <2>2. /\ serving # None /\ upload.entry = serving.request.entry
        /\ entries' = entries \/ Appends(upload.entry)
    BY <1>6, CommitWrites
  <2>3. QED
    BY <1>2, <1>4, <2>1, <2>2 DEF ChainRel
<1>7. QED
  BY <1>3, <1>5, <1>6

\* So what is under way or accepted links to a prefix of the chain of the
\* extension.
LEMMA RelStep ==
  ASSUME BaseInv, QuietInv, NoOrphans, SessionsInv, CopyInv, ReadInv, ChainRel,
         [ClientNext]_allVars
  PROVE  ChainRel'
<1>1. CASE QueueStep \/ AsideStep
  BY <1>1, ExtensionRel
<1>2. CASE \E source \in {"tab", "desktop"} : StartCapture(source)
  <2>1. status = "created" /\ UNCHANGED <<store, wire, serving, entries>>
    BY <1>2 DEF StartCapture, RegisterKey, network, tables
  <2>2. store = {} /\ wire = {} /\ serving = None
    BY <2>1 DEF QuietInv, NoOrphans, Early
  <2>3. entries = {}
    BY <2>1 DEF BaseInv, ServerInv, ChainInv, KeyBeforeEntries
  <2>4. QED
    BY <2>1, <2>2, <2>3 DEF ChainRel
<1>3. CASE OpenSession \/ (\E c \in wire : Serve(c)) \/ CommitUpload \/ ServerDies
           \/ UNCHANGED allVars
  BY <1>3, ServerRel
<1>4. QED
  BY <1>1, <1>2, <1>3, Steps

\* Every prefix of the chain of the extension is a row of the server, or the
\* entry of a part that is kept to be sent.
Known(h) ==
  \/ \E r \in entries : EntryHash(r.entry) = h
  \/ \E p \in Pending : EntryHash(p.entry) = h

Coverage == Live => \A i \in 1 .. Len(local.prev) : Known(SubSeq(local.prev, 1, i))

\* A part that is acknowledged is a row.
LEMMA KnownStays ==
  ASSUME BaseInv, AnswerInv, QueueStep \/ AsideStep, local' # None, NEW h, Known(h)
  PROVE  Known(h)'
<1>1. ClientInv /\ UNCHANGED vars
  BY QueueStepKeeps, AsideStepKeeps DEF BaseInv, AsideStep
<1>2. entries' = entries
  BY <1>1 DEF vars, tables
<1>3. SUFFICES ASSUME NEW p \in store, ~p.uploaded, EntryHash(p.entry) = h
               PROVE  \/ \E r \in entries : EntryHash(r.entry) = h
                      \/ \E q \in store' : ~q.uploaded /\ EntryHash(q.entry) = h
  BY <1>2 DEF Known, Pending, EntryHash
<1>4. CASE store' = store
  BY <1>3, <1>4
<1>5. CASE QueuePart /\ Active
  BY <1>1, <1>3, <1>5, QueueWrites
<1>6. CASE Acknowledge /\ Active
  <2>1. PICK x \in store, y \in StoredParts :
          /\ Matches(Request, x) /\ Request.kind = "part"
          /\ store' = (store \ {x}) \cup {y}
    BY <1>1, <1>6, AcknowledgeWrites
  <2>2. CASE p # x
    BY <1>3, <2>1, <2>2
  <2>3. CASE p = x
    <3>1. Carried(Request)
      BY <1>6 DEF AnswerInv, Acknowledge, Answered, Request
    <3>2. \E r \in entries : r.entry = Request.entry
      BY <2>1, <3>1 DEF Carried
    <3>3. QED
      BY <1>3, <2>1, <2>3, <3>2 DEF Matches
  <2>4. QED
    BY <2>2, <2>3
<1>7. CASE DeleteSession
  BY <1>7 DEF DeleteSession
<1>8. QED
  BY <1>1, <1>4, <1>5, <1>6, <1>7, StoreFrame

\* The chain grows by one entry that is known.
LEMMA CoverageGrows ==
  ASSUME BaseInv, SessionsInv, CopyInv, ReadInv, AnswerInv, Coverage, QueueStep \/ AsideStep
  PROVE  Coverage'
<1>1. ClientInv /\ ClientInv' /\ UNCHANGED vars
  BY QueueStepKeeps, AsideStepKeeps DEF BaseInv, AsideStep
<1>2. SUFFICES ASSUME Live', NEW i \in 1 .. Len(local'.prev), NEW h,
                      h = SubSeq(local'.prev, 1, i)
               PROVE  Known(h)'
  BY DEF Coverage, Known, Pending, EntryHash
<1>3. Live /\ local' # None
  BY <1>1, <1>2, LiveBefore DEF Live
<1>4. ASSUME NEW j \in 1 .. Len(local.prev), h = SubSeq(local.prev, 1, j)
      PROVE  Known(h)'
  BY <1>3, <1>4, KnownStays DEF Coverage
<1>5. ASSUME NEW e \in Drafts, e.previous = local.prev, local'.prev = EntryHash(e),
             Known(EntryHash(e))'
      PROVE  Known(h)'
  <2>1. /\ Len(EntryHash(e)) = Len(e.previous) + 1 /\ Len(e.previous) \in Nat
        /\ SubSeq(EntryHash(e), 1, Len(EntryHash(e))) = EntryHash(e)
        /\ \A j \in 1 .. Len(e.previous) :
             SubSeq(EntryHash(e), 1, j) = SubSeq(e.previous, 1, j)
    BY EntryFacts, HashGrows
  <2>2. CASE i = Len(EntryHash(e))
    <3>1. h = EntryHash(e)
      BY <1>2, <1>5, <2>1, <2>2
    <3>2. QED
      BY <1>5, <3>1
  <2>3. CASE i # Len(EntryHash(e))
    <3>1. i \in 1 .. Len(local.prev)
      BY <1>2, <1>5, <2>1, <2>3
    <3>2. h = SubSeq(local.prev, 1, i)
      BY <1>2, <1>5, <2>1, <3>1
    <3>3. QED
      BY <1>4, <3>1, <3>2
  <2>4. QED
    BY <2>2, <2>3
<1>6. CASE ChainSame
  <2>1. i \in 1 .. Len(local.prev) /\ h = SubSeq(local.prev, 1, i)
    BY <1>2, <1>6 DEF ChainSame
  <2>2. QED
    BY <1>4, <2>1
<1>7. CASE ChainQueued
  <2>1. PICK e \in Drafts : /\ e = QueuedPart.entry /\ e.previous = local.prev
                            /\ local'.prev = EntryHash(e)
    BY <1>1, <1>7, QueueLinks DEF ChainQueued
  <2>2. PICK q \in store' : ~q.uploaded /\ EntryHash(q.entry) = EntryHash(e)
    BY <1>1, <1>7, <2>1, QueueWrites DEF ChainQueued
  <2>3. Known(EntryHash(e))'
    BY <2>2 DEF Known, Pending, EntryHash
  <2>4. QED
    BY <1>5, <2>1, <2>3
<1>8. CASE ChainAnswered
  <2>1. PICK e \in Drafts : /\ e = Request.entry /\ e.previous = local.prev
                            /\ local'.prev = EntryHash(e)
    BY <1>1, <1>8, AnswerLinks DEF ChainAnswered
  <2>2. Request.kind \in Linking /\ op # None /\ op.call # None /\ op.answer = "ok"
    BY <1>1, <1>8, AnswerLinks DEF ChainAnswered
  <2>3. PICK q \in entries : q.entry = e
    BY <2>1, <2>2 DEF AnswerInv, Carried, Request
  <2>4. entries' = entries
    BY <1>1 DEF vars, tables
  <2>5. Known(EntryHash(e))'
    BY <2>3, <2>4 DEF Known, EntryHash
  <2>6. QED
    BY <1>5, <2>1, <2>5
<1>9. QED
  BY <1>1, <1>2, <1>6, <1>7, <1>8, ChainFrame

\* No step makes the server miss an entry that is not kept to be sent.
LEMMA CoverageStep ==
  ASSUME BaseInv, SessionsInv, CopyInv, ReadInv, AnswerInv, Coverage, [ClientNext]_allVars
  PROVE  Coverage'
<1>1. CASE QueueStep \/ AsideStep
  BY <1>1, CoverageGrows
<1>2. ASSUME NEW source \in {"tab", "desktop"}, StartCapture(source)
      PROVE  Coverage'
  <2>1. local'.prev = <<>>
    BY <1>2 DEF StartCapture, NewSession
  <2>2. Len(<<>>) = 0 /\ 1 .. 0 = {}
    OBVIOUS
  <2>3. 1 .. Len(local'.prev) = {}
    BY <2>1, <2>2
  <2>4. QED
    BY <2>3 DEF Coverage
<1>3. CASE OpenSession \/ (\E c \in wire : Serve(c)) \/ CommitUpload \/ ServerDies
           \/ UNCHANGED allVars
  <2>1. local' = local /\ store' = store /\ overwrote' = overwrote
    BY <1>3, ServerFrame
  <2>2. entries \subseteq entries'
    BY RowsGrow
  <2>3. \A h : Known(h) => Known(h)'
    BY <2>1, <2>2 DEF Known, Pending, EntryHash
  <2>4. QED
    BY <2>1, <2>3 DEF Coverage, Live
<1>4. QED
  BY <1>1, <1>2, <1>3, Steps

\* Of two rows one links to the other, so that at most one is ahead.
LEMMA OneAhead ==
  ASSUME BaseInv, RowsInv, ChainRel, Live
  PROVE  Cardinality({r \in entries : ~IsPrefix(EntryHash(r.entry), local.prev)}) <= 1
<1>1. PICK S : S = {r \in entries : ~IsPrefix(EntryHash(r.entry), local.prev)}
  OBVIOUS
<1>2. ASSUME NEW q \in S, NEW r \in S, q.entry.facts.seq < r.entry.facts.seq
      PROVE  FALSE
  <2>1. q \in entries /\ r \in entries /\ ~IsPrefix(EntryHash(q.entry), local.prev)
    BY <1>1
  <2>2. q.entry \in Entry /\ r.entry \in Entry
    BY <2>1, RowType DEF BaseInv, ServerInv, ChainInv
  <2>3. IsPrefix(EntryHash(q.entry), r.entry.previous)
    BY <1>2, <2>1 DEF RowsInv, RowsNested
  <2>4. IsPrefix(r.entry.previous, local.prev)
    BY <2>1 DEF ChainRel
  <2>5. EntryHash(q.entry) \in Seq(AnyFacts) /\ r.entry.previous \in Seq(AnyFacts)
    BY <2>2, EntryFacts
  <2>6. local.prev \in Seq(AnyFacts)
    BY Types, ChainTypes DEF BaseInv, Live, LocalSessions
  <2>7. QED
    BY <2>1, <2>3, <2>4, <2>5, <2>6, BehindGrows
<1>3. ASSUME NEW q \in S, NEW r \in S
      PROVE  q = r
  <2>1. q \in entries /\ r \in entries
    BY <1>1
  <2>2. q.entry.facts.seq \in Nat /\ r.entry.facts.seq \in Nat
    BY <2>1, RowType DEF BaseInv, ServerInv, ChainInv, Entry, Facts
  <2>3. q.entry.facts.seq = r.entry.facts.seq
    BY <1>2, <2>2
  <2>4. QED
    BY <2>1, <2>3 DEF BaseInv, ServerInv, ChainInv, ChainIntact
<1>4. CASE S = {}
  BY <1>1, <1>4, FS_EmptySet
<1>5. ASSUME NEW x \in S
      PROVE  Cardinality(S) = 1
  <2>1. S = {x}
    BY <1>3, <1>5
  <2>2. QED
    BY <2>1, FS_Singleton
<1>6. QED
  BY <1>1, <1>4, <1>5

-----------------------------------------------------------------------------
(***************************************************************************)
(* The end of a capture.                                                   *)
(***************************************************************************)
\* Every entry of a part has its part, and the manifest ends at a row.
PartsBacked ==
  \A r \in entries : r.entry.facts.type = "artifact_part" =>
    \E q \in parts : PartData(q.artifact, q.part, q.hash) = r.entry.facts.data

RootKept == manifest # None => \E r \in entries : EntryHash(r.entry) = manifest.close.root

\* The server has signed what the session says.
Sealed(s) == manifest # None /\ manifest.close = CloseOf(s)

SealInv ==
  /\ local # None /\ local.status = "complete" => Sealed(local)
  /\ op # None /\ op.todo # <<>> /\ Task.do = "package" => Sealed(op.s)

\* A close that is accepted ends at the last row.
LEMMA CloseRoot ==
  ASSUME ServerInv, NEW close \in ClientCloses, ValidClose(close, TheKey)
  PROVE  \E r \in entries : EntryHash(r.entry) = close.root
<1>1. TypeOK /\ close.count \in Nat
  BY DEF ServerInv, ChainInv, ClientCloses
<1>2. PICK n \in Nat : n = Cardinality(entries) /\ n = close.count
  BY <1>1 DEF ValidClose
<1>3. PICK q \in entries : TRUE
  BY DEF ValidClose
<1>4. q.entry.facts.seq \in Seqs /\ Seqs = 0 .. n - 1
  BY <1>2, <1>3 DEF Seqs, ValidClose
<1>5. n - 1 \in Seqs
  BY <1>2, <1>4
<1>6. PICK r \in entries : r.entry.facts.seq = n - 1
  BY <1>5 DEF Seqs
<1>7. QED
  BY <1>2, <1>6 DEF ValidClose, RowAt

\* The entry of a part and its part are committed together.
LEMMA BackedStep ==
  ASSUME BaseInv, PartsBacked, [ClientNext]_allVars
  PROVE  PartsBacked'
<1>1. parts \subseteq parts'
  BY RowsGrow
<1>2. CASE entries' = entries
  BY <1>1, <1>2 DEF PartsBacked, PartData
<1>3. ASSUME NEW e, Appends(e),
             e.facts.type = "artifact_part" =>
               \E q \in parts' : PartData(q.artifact, q.part, q.hash) = e.facts.data
      PROVE  PartsBacked'
  <2>1. \A r \in entries' : r \in entries \/ r.entry = e
    BY <1>3, AppendedRow
  <2>2. QED
    BY <1>1, <1>3, <2>1 DEF PartsBacked, PartData
<1>4. ASSUME NEW c \in wire, Serve(c)
      PROVE  PartsBacked'
  <2>1. PICK r \in Requests : r = c.request /\ Fits(r)
    BY Types DEF BaseInv, Calls, WireInv
  <2>2. r.kind \in Linking => r.entry.facts.type # "artifact_part"
    BY <2>1 DEF Fits, Linking, EventNames
  <2>3. entries' = entries \/ (r.kind \in Linking /\ Appends(r.entry))
    BY <1>4, <2>1, ServeWrites
  <2>4. QED
    BY <1>2, <1>3, <2>2, <2>3
<1>5. CASE CommitUpload
  <2>1. /\ serving # None /\ upload = Served(serving.request) /\ serving.request.kind = "part"
        /\ \/ entries' = entries
           \/ /\ Appends(upload.entry)
              /\ parts' = parts \cup
                   {[artifact |-> upload.artifact, part |-> upload.part,
                     hash |-> upload.hash, key |-> upload.key]}
    BY <1>5, CommitWrites
  <2>2. PICK r : r = serving.request
    OBVIOUS
  <2>3. /\ upload.artifact = r.artifact /\ upload.part = r.part /\ upload.hash = r.bytes
        /\ upload.entry = r.entry
    BY <2>1, <2>2 DEF Served
  <2>4. r.entry.facts.data = PartData(r.artifact, r.part, r.bytes)
    BY <2>1, <2>2, Types DEF BaseInv, WireInv, Fits
  <2>5. CASE entries' = entries
    BY <1>2, <2>5
  <2>6. CASE /\ Appends(upload.entry)
             /\ parts' = parts \cup
                  {[artifact |-> upload.artifact, part |-> upload.part,
                    hash |-> upload.hash, key |-> upload.key]}
    <3>1. PICK x : x = [artifact |-> upload.artifact, part |-> upload.part,
                        hash |-> upload.hash, key |-> upload.key]
      OBVIOUS
    <3>2. /\ x \in parts'
          /\ x.artifact = upload.artifact /\ x.part = upload.part /\ x.hash = upload.hash
      BY <2>6, <3>1
    <3>3. PartData(x.artifact, x.part, x.hash) = r.entry.facts.data
      BY <2>3, <2>4, <3>2
    <3>4. PICK e : e = upload.entry
      OBVIOUS
    <3>5. \E q \in parts' : PartData(q.artifact, q.part, q.hash) = e.facts.data
      BY <2>3, <3>2, <3>3, <3>4
    <3>6. QED
      BY <1>3, <2>6, <3>4, <3>5
  <2>7. QED
    BY <2>1, <2>5, <2>6
<1>6. QED
  BY <1>2, <1>4, <1>5, OtherWrites

\* The manifest ends at the last row it was signed over.
LEMMA RootStep ==
  ASSUME BaseInv, RootKept, [ClientNext]_allVars
  PROVE  RootKept'
<1>1. entries \subseteq entries' /\ (manifest # None => manifest' = manifest)
  BY RowsGrow
<1>2. CASE manifest' = manifest
  BY <1>1, <1>2 DEF RootKept, EntryHash
<1>3. ASSUME NEW c \in wire, Serve(c), manifest' # manifest
      PROVE  RootKept'
  <2>1. /\ c.request.kind = "finalize" /\ ValidClose(c.request.close, TheKey)
        /\ manifest'.close = c.request.close
    BY <1>3, ServeWrites
  <2>2. c.request.close \in ClientCloses
    BY <2>1, Types, RequestFields DEF BaseInv, Calls
  <2>3. PICK r \in entries : EntryHash(r.entry) = c.request.close.root
    BY <2>1, <2>2, CloseRoot DEF BaseInv
  <2>4. QED
    BY <1>1, <2>1, <2>3 DEF RootKept, EntryHash
<1>4. CASE CommitUpload
  BY <1>2, <1>4, CommitWrites
<1>5. QED
  BY <1>2, <1>3, <1>4, OtherWrites

\* What is signed stays signed, of any session with the same chain and results.
LEMMA SealedStays ==
  ASSUME BaseInv, [ClientNext]_allVars, NEW s, NEW t, Sealed(s),
         t.prev = s.prev, t.seq = s.seq, t.artifacts = s.artifacts
  PROVE  Sealed(t)'
<1>1. CloseOf(t) = CloseOf(s)
  BY DEF CloseOf
<1>2. manifest # None /\ manifest' = manifest
  BY RowsGrow DEF Sealed
<1>3. CloseOf(t)' = CloseOf(t)
  BY DEF CloseOf
<1>4. QED
  BY <1>1, <1>2, <1>3 DEF Sealed

\* A session that is complete was saved so after the package was answered.
LEMMA LocalSealed ==
  ASSUME BaseInv, SealInv, QueueStep \/ AsideStep, [ClientNext]_allVars,
         NEW t, t = local', t # None, t.status = "complete"
  PROVE  Sealed(t)'
<1>1. ClientInv
  BY DEF BaseInv
<1>2. PICK s : s = local
  OBVIOUS
<1>3. CASE SameLocal
  <2>1. /\ s # None /\ s.status = "complete"
        /\ t.prev = s.prev /\ t.seq = s.seq /\ t.artifacts = s.artifacts
    BY <1>2, <1>3 DEF SameLocal
  <2>2. Sealed(s)
    BY <1>2, <2>1 DEF SealInv
  <2>3. QED
    BY <2>1, <2>2, SealedStays
<1>4. CASE QueuePart /\ Active
  BY <1>1, <1>4, QueueLinks
<1>5. CASE ReceiveEntry
  BY <1>1, <1>5, AnswerLinks
<1>6. CASE Saves
  <2>1. /\ op # None /\ ReceiveResult
        /\ t.prev = op.s.prev /\ t.seq = op.s.seq /\ t.artifacts = op.s.artifacts
    BY <1>1, <1>6, SessionSaved
  <2>2. op.call # None
    BY <2>1 DEF ReceiveResult, Answered
  <2>3. ~SaveRecording /\ ~SaveFinished
    BY <2>2 DEF SaveRecording, SaveFinished, Running
  <2>4. Task.do = "package" /\ op.todo # <<>>
    BY <1>1, <1>6, <2>1, <2>2, <2>3, WaitingFacts DEF Saves
  <2>5. PICK u : u = op.s
    OBVIOUS
  <2>6. Sealed(u)
    BY <2>1, <2>4, <2>5 DEF SealInv
  <2>7. QED
    BY <2>1, <2>5, <2>6, SealedStays
<1>7. CASE DeleteSession
  BY <1>7 DEF DeleteSession
<1>8. CASE SaveError
  BY <1>1, <1>8, ErrorKeepsChain
<1>9. QED
  BY <1>1, <1>3, <1>4, <1>5, <1>6, <1>7, <1>8, LocalFrame

\* Whoever is about to ask for the package had the finalization answered.
LEMMA PackageSealed ==
  ASSUME BaseInv, AnswerInv, SealInv, QueueStep \/ AsideStep, [ClientNext]_allVars,
         op' # None, op'.todo # <<>>, Head(op'.todo).do = "package", NEW t, t = op'.s
  PROVE  Sealed(t)'
<1>1. ClientInv
  BY DEF BaseInv
<1>2. PICK s : s = op.s
  OBVIOUS
<1>3. ASSUME op # None, op'.todo = op.todo, t = s
      PROVE  Sealed(t)'
  <2>1. Sealed(s)
    BY <1>2, <1>3 DEF SealInv, Task
  <2>2. QED
    BY <1>3, <2>1, SealedStays
<1>4. CASE op' = op \/ Fails
  BY <1>2, <1>3, <1>4 DEF Fails
<1>5. CASE Asks
  <2>1. op # None /\ op'.todo = op.todo /\ Task.do = "package"
    BY <1>5 DEF Asks, Task
  <2>2. t = s
    BY <1>2, <1>5, <2>1 DEF Asks, SessionOf
  <2>3. QED
    BY <1>3, <2>1, <2>2
<1>6. ASSUME op # None, op.todo # <<>>, op'.todo = Tail(op.todo)
      PROVE  Task.do = "finalize"
  <2>1. PICK todo \in Seq(Tasks) : todo = op.todo /\ Formed(todo)
    BY <1>1, <1>6, Types DEF Operations, OpInv, FormInv
  <2>2. Tail(todo) # <<>> /\ Head(Tail(todo)).do = "package"
    BY <1>6, <2>1
  <2>3. 2 \in 1 .. Len(todo) /\ todo[2] = Head(Tail(todo)) /\ todo[1] = Head(todo)
    BY <1>6, <2>1, <2>2
  <2>4. todo[2 - 1].do = "finalize"
    BY <2>1, <2>2, <2>3 DEF Formed
  <2>5. QED
    BY <2>1, <2>3, <2>4 DEF Task
<1>7. CASE Proceeds
  <2>1. Task.do = "finalize" /\ op # None /\ op.call # None /\ op.answer = "ok" /\ t = s
    BY <1>2, <1>6, <1>7 DEF Proceeds, Answered
  <2>2. PICK r \in Requests : r = op.call.request /\ CallOK(r) /\ Carried(r)
    BY <1>1, <2>1, WaitingFacts DEF AnswerInv
  <2>3. r.kind = "finalize" /\ r.close = CloseOf(op.s)
    BY <2>1, <2>2 DEF CallOK, KindOf
  <2>4. CloseOf(op.s) = CloseOf(s)
    BY <1>2 DEF CloseOf
  <2>5. Sealed(s)
    BY <2>2, <2>3, <2>4 DEF Carried, Sealed
  <2>6. QED
    BY <2>1, <2>5, SealedStays
<1>8. CASE Rereads
  BY <1>6, <1>8 DEF Rereads
<1>9. ~Turns /\ ~Starts /\ ~SendsFirst
  BY DEF Turns, Starts, SendsFirst
<1>10. QED
  BY <1>1, <1>4, <1>5, <1>7, <1>8, <1>9, OpFrame

\* Neither a death, a late answer nor a step of the server undoes that.
LEMMA SealStep ==
  ASSUME BaseInv, AnswerInv, SealInv, [ClientNext]_allVars
  PROVE  SealInv'
<1>1. ClientInv /\ ClientInv'
  BY BaseStep DEF BaseInv
<1>2. PICK t, u : t = local' /\ u = op'.s
  OBVIOUS
<1>3. SUFFICES /\ t # None /\ t.status = "complete" => Sealed(t)'
               /\ op' # None /\ op'.todo # <<>> /\ Head(op'.todo).do = "package" => Sealed(u)'
  BY <1>2 DEF SealInv, Sealed, CloseOf, Task
<1>4. CASE QueueStep \/ AsideStep
  BY <1>2, <1>4, LocalSealed, PackageSealed
<1>5. ASSUME NEW source \in {"tab", "desktop"}, StartCapture(source)
      PROVE  /\ t.status # "complete"
             /\ op'.todo # <<>> => Head(op'.todo).do # "package"
  <2>1. t.status = "starting"
    BY <1>2, <1>5 DEF StartCapture, NewSession
  <2>2. PICK script \in StartScripts(source) :
          op' = Operation("start", script, NewSession(source))
    BY <1>5 DEF StartCapture
  <2>3. op'.todo = script
    BY <2>2 DEF Operation
  <2>4. script \in Seq(Tasks) /\ Plain(script)
    BY <2>2, StartScriptsPlain DEF Plain
  <2>5. script # <<>> => script[1].do # "package" /\ Head(script) = script[1]
    BY <2>4 DEF Plain
  <2>6. QED
    BY <2>1, <2>3, <2>5
<1>6. CASE OpenSession \/ (\E c \in wire : Serve(c)) \/ CommitUpload \/ ServerDies
           \/ UNCHANGED allVars
  <2>1. local' = local /\ (op' # None => op # None /\ op'.todo = op.todo /\ op'.s = op.s)
    BY <1>1, <1>6, ServerFrame, ServerOp
  <2>2. t # None /\ t.status = "complete" => Sealed(t)
    BY <1>2, <2>1 DEF SealInv, Sealed, CloseOf
  <2>3. op' # None /\ op'.todo # <<>> /\ Head(op'.todo).do = "package" => Sealed(u)
    BY <1>2, <2>1 DEF SealInv, Sealed, CloseOf, Task
  <2>4. \A s : Sealed(s) => Sealed(s)'
    BY SealedStays
  <2>5. QED
    BY <2>2, <2>3, <2>4
<1>7. QED
  BY <1>4, <1>5, <1>6, Steps

\* Every part in IndexedDB of a capture that is complete is stored.
LEMMA PartSealed ==
  ASSUME BaseInv, RowsInv, ChainRel, PartsBacked, RootKept, Live, Sealed(local), NEW p \in store
  PROVE  \E q \in parts : q.artifact = p.artifact /\ q.part = p.part /\ q.hash = p.bytes
<1>1. ClientInv /\ StoreInv /\ p.entry \in Drafts
  BY Types DEF BaseInv, StoredParts
<1>2. PICK r \in entries : EntryHash(r.entry) = local.prev
  BY DEF Sealed, CloseOf, RootKept
<1>3. PICK s \in Seq(AnyFacts), t \in Seq(AnyFacts) :
        s = EntryHash(p.entry) /\ t = EntryHash(r.entry)
  <2>1. r.entry \in Entry
    BY <1>2, RowType DEF BaseInv, ServerInv, ChainInv
  <2>2. QED
    BY <1>1, <2>1, EntryFacts
<1>4. IsPrefix(s, t)
  BY <1>2, <1>3 DEF ChainRel
<1>5. Len(s) \in 1 .. Len(t) /\ SubSeq(t, 1, Len(s)) = s
  <2>1. Len(s) >= 1 /\ SubSeq(s, 1, Len(s)) = s
    BY <1>1, <1>3, EntryFacts, HashGrows
  <2>2. QED
    BY <1>4, <2>1 DEF IsPrefix
<1>6. PICK q \in entries : EntryHash(q.entry) = s
  BY <1>3, <1>5 DEF RowsInv, RowPrefixes
<1>7. q.entry = p.entry
  <2>1. q.entry \in Entry
    BY RowType DEF BaseInv, ServerInv, ChainInv
  <2>2. QED
    BY <1>1, <1>3, <1>6, <2>1, HashTells
<1>8. /\ p.entry.facts.type = "artifact_part"
      /\ p.entry.facts.data = PartData(p.artifact, p.part, p.bytes)
  BY <1>1 DEF StoreInv, PartEntries
<1>9. PICK x \in parts : PartData(x.artifact, x.part, x.hash) = p.entry.facts.data
  BY <1>7, <1>8 DEF PartsBacked
<1>10. x.artifact = p.artifact /\ x.part = p.part /\ x.hash = p.bytes
  BY <1>8, <1>9 DEF PartData
<1>11. QED
  BY <1>10

-----------------------------------------------------------------------------
(***************************************************************************)
(* The chains of the two sides in every reachable state.                   *)
(***************************************************************************)
MeetInv ==
  /\ PartsInv
  /\ SessionsInv /\ CopyInv /\ ReadInv
  /\ RowsInv /\ AnswerInv
  /\ ChainRel /\ Coverage
  /\ PartsBacked /\ RootKept /\ SealInv

\* The chains meet at the start,
LEMMA MeetInit == ClientInit => MeetInv
<1> SUFFICES ASSUME ClientInit, PartsInv PROVE MeetInv
  BY PartsInit
<1>1. /\ local = None /\ op = None /\ stopper = IdleStopper /\ entries = {} /\ manifest = None
  BY DEF ClientInit, Init
<1>2. stopper.copy = None
  BY <1>1 DEF IdleStopper
<1>3. SessionsInv /\ CopyInv /\ ReadInv
  BY <1>1, <1>2 DEF SessionsInv, Counted, CopyInv, ReadInv, Live
<1>4. RowsInv /\ AnswerInv
  BY <1>1 DEF RowsInv, RowsNested, RowPrefixes, AnswerInv
<1>5. ChainRel /\ Coverage
  BY <1>1 DEF ChainRel, Coverage, Live
<1>6. PartsBacked /\ RootKept /\ SealInv
  BY <1>1 DEF PartsBacked, RootKept, SealInv
<1>7. QED
  BY <1>3, <1>4, <1>5, <1>6 DEF MeetInv

\* after every step,
LEMMA MeetStep ==
  ASSUME MeetInv, [ClientNext]_allVars
  PROVE  MeetInv'
<1>1. /\ PartsInv /\ BaseInv /\ QuietInv /\ NoOrphans
      /\ SessionsInv /\ CopyInv /\ ReadInv /\ RowsInv /\ AnswerInv
      /\ ChainRel /\ Coverage /\ PartsBacked /\ RootKept /\ SealInv
  BY DEF MeetInv, PartsInv
<1>2. PartsInv'
  BY <1>1, PartsStep
<1>3. SessionsInv' /\ CopyInv' /\ ReadInv'
  BY <1>1, SessionsStep, CopyStep, ReadStep
<1>4. RowsInv' /\ AnswerInv'
  BY <1>1, RowsStep, AnswerStep
<1>5. ChainRel' /\ Coverage'
  BY <1>1, RelStep, CoverageStep
<1>6. PartsBacked' /\ RootKept' /\ SealInv'
  BY <1>1, BackedStep, RootStep, SealStep
<1>7. QED
  BY <1>2, <1>3, <1>4, <1>5, <1>6 DEF MeetInv

\* and so always.
LEMMA MeetInvariant == ClientSpec => []MeetInv
<1>1. MeetInv /\ [ClientNext]_allVars => MeetInv'
  BY MeetStep
<1>2. QED
  BY <1>1, MeetInit, PTL DEF ClientSpec

\* Whatever is lost, late, sent again or forgotten, the chains of the extension
\* and of the server part by a bounded difference: parts that are kept to be sent
\* on one side, one entry whose answer was lost on the other (appendEvent).
THEOREM DivergenceAlwaysBounded == ClientSpec => []DivergenceBounded
<1>1. MeetInv => DivergenceBounded
  <2>1. SUFFICES ASSUME MeetInv, Live PROVE DivergenceBounded
    BY DEF DivergenceBounded, Live
  <2>2. BaseInv /\ RowsInv /\ ChainRel /\ Coverage
    BY <2>1 DEF MeetInv, PartsInv
  <2>3. Cardinality({r \in entries : ~IsPrefix(EntryHash(r.entry), local.prev)}) <= 1
    BY <2>1, <2>2, OneAhead
  <2>4. \A i \in 1 .. Len(local.prev) : Known(SubSeq(local.prev, 1, i))
    BY <2>1, <2>2 DEF Coverage
  <2>5. QED
    BY <2>3, <2>4 DEF DivergenceBounded, Known
<1>2. QED
  BY <1>1, MeetInvariant, PTL

\* When the extension says that the capture is complete, the server has signed
\* its chain and its artifacts, and has stored every part of them.
THEOREM CompleteAlwaysSealed == ClientSpec => []CompleteMeansSealed
<1>1. MeetInv => CompleteMeansSealed
  <2>1. SUFFICES ASSUME MeetInv, Live, local.status = "complete" PROVE CompleteMeansSealed
    BY DEF CompleteMeansSealed, Live
  <2>2. BaseInv /\ RowsInv /\ ChainRel /\ PartsBacked /\ RootKept
    BY <2>1 DEF MeetInv, PartsInv
  <2>3. Sealed(local)
    BY <2>1 DEF MeetInv, SealInv, Live
  <2>4. \A p \in store : \E q \in parts :
          q.artifact = p.artifact /\ q.part = p.part /\ q.hash = p.bytes
    BY <2>1, <2>2, <2>3, PartSealed
  <2>5. QED
    BY <2>3, <2>4 DEF CompleteMeansSealed, Sealed
<1>2. QED
  BY <1>1, MeetInvariant, PTL

=============================================================================
