---------------------------- MODULE CaptureClient ----------------------------
(***************************************************************************)
(* The browser extension as the client of CaptureServer: its background    *)
(* script (background.ts, part-upload.ts, chain.ts) with the operation     *)
(* queue, its IndexedDB (db.ts), the recorder of the offscreen document    *)
(* (offscreen.ts), the buttons of the popup, and the network between it    *)
(* and the API of one session.                                             *)
(*                                                                         *)
(* The messages of the extension wait in `mail' and are handled one after  *)
(* the other; `op' is the one being handled, a script of tasks: each talks *)
(* to the server once or touches IndexedDB once.  STOP_CAPTURE alone is    *)
(* handled outside the queue, by `stopper', until the recorder has         *)
(* stopped; so is the record of its failure.                               *)
(*                                                                         *)
(* A request waits on `wire' until the server handles it, and may outlive  *)
(* the call that sent it: the call fails when the request, the answer or   *)
(* the patience of the browser is lost.  The background script dies alone  *)
(* or with the browser and its recorder.                                   *)
(*                                                                         *)
(* Abstractions: the requests that create the session and register the key *)
(* are not lost (START_CAPTURE would start over with another session); the *)
(* n-th chunk has content n and a screenshot content 0; the microsecond an *)
(* entry is made at is the number of faults so far, since only an entry    *)
(* made again after a fault must differ from the first; the page source    *)
(* and the metadata of a tab are taken like its first screenshot and are   *)
(* left out; a marker stands for a navigation and a scroll.                *)
(***************************************************************************)
EXTENDS CaptureServer, SequencesExt

CONSTANTS
  Captures,    \* what the user may capture, and where: pairs of a source and an
               \* evidence mode of the server
  MaxInputs,   \* bound: what the user does after the start of the capture
  MaxChunks,   \* bound: chunks the recorder emits
  MaxFaults    \* bound: failed calls and deaths of the background script

Recording == <<"recording">>
Page      == <<"screenshot-initial">>
Context   == <<"context">>
Shot(n)   == <<"screenshot", n>>

ASSUME ClientAssumption ==
  /\ Captures \subseteq {"tab", "desktop"} \X Modes
  /\ MaxInputs \in Nat /\ MaxChunks \in Nat /\ MaxFaults \in Nat
  /\ {Recording, Page, Context} \subseteq Artifacts
  /\ 0 .. MaxChunks \subseteq Contents
  /\ 0 .. MaxInputs \subseteq Clocks
  /\ MaxFaults <= MaxTime

VARIABLES
  local,     \* IndexedDB: the session record, or None
  store,     \* IndexedDB: the parts
  op,        \* the operation of the queue that runs, or None
  mail,      \* the messages the queue has not yet handled
  stopper,   \* STOP_CAPTURE, outside the queue
  recorder,  \* the offscreen document
  wire,      \* requests the server has not yet handled
  serving,   \* the request whose part upload holds the session row, or None
  inputs,    \* what the user did so far
  faults,    \* what failed so far
  overwrote  \* history: the record of a stop's error replaced a session that
             \* the queue had advanced or deleted since it was read

background == <<op, mail, stopper>>
indexedDB  == <<local, store>>
network    == <<wire, serving>>
clientVars == <<indexedDB, background, recorder, network, inputs, faults, overwrote>>
allVars    == <<vars, clientVars>>

-----------------------------------------------------------------------------
(***************************************************************************)
(* The session record and the parts in IndexedDB.                          *)
(***************************************************************************)
TheKey == CHOOSE k \in Keys : TRUE

\* START_CAPTURE generates a key before it creates the session.
ASSUME KeysAssumption == Keys # {}

NewSession(source) ==
  [status |-> "starting", source |-> source, seq |-> 0, prev |-> <<>>, clock |-> 0,
   recording |-> FALSE, finished |-> FALSE, artifacts |-> {}]

\* requireActive
MutantActive == local # None
Active == local # None /\ local.status # "complete"

Has(s, a)  == \E x \in s.artifacts : x.artifact = a
LocalOf(a) == {p \in store : p.artifact = a}
Pending    == {p \in store : ~p.uploaded}

\* The number of a new part.
MutantNextNumber(a) == Cardinality({p \in LocalOf(a) : p.uploaded})
NextNumber(a) == Cardinality(LocalOf(a))

\* nextEntry, advanceSession
MakeEntry(s, type, data) ==
  [facts |-> [seq |-> s.seq, type |-> type, data |-> data, clock |-> s.clock,
              time |-> faults],
   previous |-> s.prev]

Advance(s, e) == [s EXCEPT !.seq = @ + 1, !.prev = EntryHash(e)]

LocalHash(a) ==
  [i \in 1 .. Cardinality(LocalOf(a)) |->
     (CHOOSE p \in LocalOf(a) : p.part = i - 1).bytes]

Result(a, st, h) == [artifact |-> a, status |-> st, hash |-> h]

CloseOf(s) ==
  [root |-> s.prev, count |-> s.seq, artifacts |-> s.artifacts,
   gaps |-> \E x \in s.artifacts : x.status # "captured", key |-> TheKey]

-----------------------------------------------------------------------------
(***************************************************************************)
(* The scripts.  A task inside a try block names in `try' the artifact that *)
(* is declared unavailable when it fails.                                  *)
(***************************************************************************)
Event(type)       == [do |-> "event", type |-> type, try |-> None]
Queue(a, c, try)  == [do |-> "queue", artifact |-> a, bytes |-> c, try |-> try]
Upload(p, try)    == [do |-> "upload", artifact |-> p.artifact, part |-> p.part, try |-> try]
Complete(a, try)  == [do |-> "complete", artifact |-> a, try |-> try]
Missing(a)        == [do |-> "missing", artifact |-> a, try |-> None]
Save(on)          == [do |-> "save", recording |-> on, try |-> None]
Restart(clock)    == [do |-> "restart", clock |-> clock, try |-> None]
Begin(do, was)    == [do |-> do, wasActive |-> was, try |-> None]
Simple(do)        == [do |-> do, try |-> None]

Whole(a, c, try)  == <<Queue(a, c, try), Complete(a, try)>>
RecordingStarts(try) ==
  <<[do |-> "record", try |-> try], [Event("marker") EXCEPT !.try = try]>>

\* A screenshot that cannot be taken is declared unavailable at once.
Screenshots(a) == {Whole(a, 0, a), <<Missing(a)>>}

StartScripts(source) ==
  {<<Event("capture_started")>> \o first \o <<Simple("read")>> \o RecordingStarts(Recording)
     \o <<Save(TRUE)>> : first \in IF source = "tab" THEN Screenshots(Page) ELSE {<<>>}}

ResumeScript(clock) ==
  <<Simple("retry"), Restart(clock), Event("clock_restarted")>>
  \o RecordingStarts(None) \o <<Save(TRUE)>>

\* The part of stopCapture after the session is marked as finalizing.
StopScript(wasActive) ==
  (IF Has(local, Recording) \/ ~(wasActive \/ LocalOf(Recording) # {}) THEN <<>>
   ELSE IF LocalOf(Recording) # {} THEN <<Complete(Recording, None)>>
   ELSE <<Missing(Recording)>>)
  \o (IF mode = "hash_only" /\ ~local.finished /\ ~Has(local, Context)
      THEN Whole(Context, 0, None) ELSE <<>>)
  \o <<Simple("read")>>
  \o (IF local.finished THEN <<>> ELSE <<Event("capture_finished"), Simple("finished")>>)
  \o <<Simple("finalize"), Simple("package")>>

Throw == <<Simple("throw")>>

\* handleMessage: the scripts a message may start.
Scripts(m) ==
  IF m.name = "chunk" THEN {<<Queue(Recording, m.bytes, None)>>}
  ELSE IF ~Active THEN {Throw}
  ELSE CASE m.name = "marker" -> {<<Event("marker")>>}
         [] m.name = "shot" ->
              IF local.source = "desktop" THEN {Throw}
              ELSE Screenshots(Shot(local.seq))
         [] m.name = "resume" ->
              IF local.status \in {"interrupted", "error"} THEN {ResumeScript(m.clock)}
              ELSE {Throw}
         [] m.name = "stop" -> {<<Begin("begin", m.wasActive)>>}
         [] m.name = "discard" ->
              IF local.status \notin {"interrupted", "error"} \/ local.finished THEN {Throw}
              ELSE IF local.recording \/ recorder.doc
                   THEN {<<Simple("ask"), Simple("await"), Simple("delete")>>}
                   ELSE {<<Simple("delete")>>}
         [] m.name = "sharing_ended" -> {<<Simple("interrupt")>>}

Operation(name, script, s) ==
  [name |-> name, todo |-> script, s |-> s, call |-> None, answer |-> None,
   failed |-> FALSE]

Take ==
  /\ op = None
  /\ mail # <<>>
  /\ mail' = Tail(mail)
  /\ \E script \in Scripts(Head(mail)) : op' = Operation(Head(mail).name, script, local)
  /\ UNCHANGED <<vars, indexedDB, stopper, recorder, network, inputs, faults, overwrote>>

Running(do) == op # None /\ op.call = None /\ ~op.failed /\ op.todo # <<>>
               /\ Head(op.todo).do = do
Task == Head(op.todo)
Done(o) == [o EXCEPT !.todo = Tail(@)]
Failing(o) == [o EXCEPT !.failed = TRUE, !.call = None, !.answer = None]

-----------------------------------------------------------------------------
(***************************************************************************)
(* The recorder.  When it stops, it may have a last chunk to emit; chunks  *)
(* are `pending' until their message is answered.                          *)
(***************************************************************************)
ChunkMessage(n) == [name |-> "chunk", bytes |-> n]

LastChunks ==
  {<<>>} \cup IF recorder.on /\ recorder.emitted < MaxChunks
              THEN {<<ChunkMessage(recorder.emitted + 1)>>} ELSE {}

\* recorder.stop()
Stopped(r, last) ==
  [r EXCEPT !.on = FALSE, !.pending = @ + Len(last), !.emitted = @ + Len(last)]

\* STOP_CAPTURE waits for the `left' chunks that were pending when it asked.
Failed(st) == [st EXCEPT !.pc = "failed", !.left = 0]

IdleStopper == [pc |-> "idle", left |-> 0, copy |-> None]

EmitChunk ==
  /\ recorder.on
  /\ recorder.emitted < MaxChunks
  /\ recorder' = [recorder EXCEPT !.pending = @ + 1, !.emitted = @ + 1]
  /\ mail' = Append(mail, ChunkMessage(recorder.emitted + 1))
  /\ UNCHANGED <<vars, indexedDB, op, stopper, network, inputs, faults, overwrote>>

\* The user ends the sharing outside the extension: RECORDER_STOPPED.
SharingEnds ==
  /\ recorder.on
  /\ inputs < MaxInputs
  /\ inputs' = inputs + 1
  /\ \E last \in LastChunks :
       /\ recorder' = Stopped(recorder, last)
       /\ mail' = mail \o <<[name |-> "sharing_ended"]>> \o last
  /\ UNCHANGED <<vars, indexedDB, op, stopper, network, faults, overwrote>>

-----------------------------------------------------------------------------
(***************************************************************************)
(* Tasks that do not call the server.                                      *)
(***************************************************************************)
\* getSession between two parts of a script, with the new clock of a resumption.
ReadSession ==
  /\ \/ Running("read") \/ Running("restart")
  /\ op' = IF ~Active THEN Failing(op)
           ELSE IF Task.do = "read" THEN [Done(op) EXCEPT !.s = local]
           ELSE [Done(op) EXCEPT !.s = [local EXCEPT !.clock = Task.clock]]
  /\ UNCHANGED <<vars, indexedDB, mail, stopper, recorder, network, inputs, faults, overwrote>>

\* persistAndUploadPart, up to the upload: the session advances and the part
\* is queued in one transaction; behind a pending part it is not sent now.
QueuePart ==
  /\ Running("queue")
  /\ IF ~Active THEN op' = Failing(op) /\ UNCHANGED indexedDB
     ELSE LET n == NextNumber(Task.artifact)
              e == MakeEntry(local, "artifact_part", PartData(Task.artifact, n, Task.bytes))
              p == [artifact |-> Task.artifact, part |-> n, bytes |-> Task.bytes,
                    entry |-> e, uploaded |-> FALSE]
          IN  /\ local' = Advance(local, e)
              /\ store' = {q \in store : ~(q.artifact = p.artifact /\ q.part = n)} \cup {p}
              /\ op' = [op EXCEPT !.todo =
                          (IF Pending = {} THEN <<Upload(p, Task.try)>> ELSE <<>>) \o Tail(@)]
  /\ UNCHANGED <<vars, mail, stopper, recorder, network, inputs, faults, overwrote>>

\* retryPendingParts: the pending parts in the order of their entries.
FirstPending == {p \in Pending : \A q \in Pending : p.entry.facts.seq <= q.entry.facts.seq}

RetryParts ==
  /\ Running("retry")
  /\ \/ /\ Pending = {}
        /\ op' = Done(op)
     \/ \E p \in FirstPending : op' = [op EXCEPT !.todo = <<Upload(p, None)>> \o @]
  /\ UNCHANGED <<vars, indexedDB, mail, stopper, recorder, network, inputs, faults, overwrote>>

\* RECORDER_START: the user may refuse before the recorder hears of it, or the
\* recorder may fail, which has forgotten an earlier failure by then; one that
\* records is not started again.
StartRecorder ==
  /\ Running("record")
  /\ \/ /\ ~recorder.on
        /\ recorder' = [recorder EXCEPT !.doc = TRUE, !.on = TRUE, !.failed = FALSE]
        /\ op' = Done(op)
     \/ /\ \E failed \in {recorder.failed, recorder.failed /\ recorder.on} :
             recorder' = [recorder EXCEPT !.doc = TRUE, !.failed = failed]
        /\ op' = Failing(op)
  /\ UNCHANGED <<vars, indexedDB, mail, stopper, network, inputs, faults, overwrote>>

SaveRecording ==
  /\ Running("save")
  /\ local' = [op.s EXCEPT !.status = "recording", !.recording = Task.recording]
  /\ op' = Done(op)
  /\ UNCHANGED <<vars, store, mail, stopper, recorder, network, inputs, faults, overwrote>>

\* captureFinished is saved after the event was.
SaveFinished ==
  /\ Running("finished")
  /\ local' = [op.s EXCEPT !.finished = TRUE]
  /\ op' = [Done(op) EXCEPT !.s = [op.s EXCEPT !.finished = TRUE]]
  /\ UNCHANGED <<vars, store, mail, stopper, recorder, network, inputs, faults, overwrote>>

\* The finalization saves that the recording is over, and stopCapture saves
\* its status and decides what is left to do.
BeginStop ==
  /\ Running("begin")
  /\ local' = [local EXCEPT !.recording = FALSE]
  /\ op' = [op EXCEPT !.todo = <<Begin("finalizing", Task.wasActive)>>]
  /\ UNCHANGED <<vars, store, mail, stopper, recorder, network, inputs, faults, overwrote>>

BeginFinalizing ==
  /\ Running("finalizing")
  /\ IF ~Active THEN op' = Failing(op) /\ UNCHANGED local
     ELSE /\ local' = [local EXCEPT !.status = "finalizing"]
          /\ op' = [op EXCEPT !.todo = StopScript(Task.wasActive)]
  /\ UNCHANGED <<vars, store, mail, stopper, recorder, network, inputs, faults, overwrote>>

\* RECORDER_STOPPED
Interrupt ==
  /\ Running("interrupt")
  /\ op' = Done(op)
  /\ local' = IF local # None /\ local.status = "recording"
              THEN [local EXCEPT !.status = "interrupted"] ELSE local
  /\ UNCHANGED <<vars, store, mail, stopper, recorder, network, inputs, faults, overwrote>>

\* DISCARD_FAILED_CAPTURE asks the recorder to stop, waits for its answer
\* inside the queue, and deletes the session and the parts.
AskRecorder ==
  /\ Running("ask")
  /\ op' = Done(op)
  /\ \E last \in LastChunks :
       /\ recorder' = Stopped(recorder, last)
       /\ mail' = mail \o last
  /\ UNCHANGED <<vars, indexedDB, stopper, network, inputs, faults, overwrote>>

AwaitRecorder ==
  /\ Running("await")
  /\ recorder.doc => recorder.pending = 0
  /\ op' = Done(op)
  /\ UNCHANGED <<vars, indexedDB, mail, stopper, recorder, network, inputs, faults, overwrote>>

NoRecorder(n) == [doc |-> FALSE, on |-> FALSE, pending |-> 0, emitted |-> n, failed |-> FALSE]

DeleteSession ==
  /\ Running("delete")
  /\ op' = Done(op)
  /\ local' = None
  /\ store' = {}
  /\ recorder' = NoRecorder(recorder.emitted)
  /\ stopper' = IF stopper.pc = "stopping" THEN Failed(stopper) ELSE stopper
  /\ UNCHANGED <<vars, mail, network, inputs, faults, overwrote>>

ThrowError ==
  /\ Running("throw")
  /\ op' = Failing(op)
  /\ UNCHANGED <<vars, indexedDB, mail, stopper, recorder, network, inputs, faults, overwrote>>

-----------------------------------------------------------------------------
(***************************************************************************)
(* Tasks that call the server: the request is made and sent, and its       *)
(* answer is acted upon.                                                   *)
(***************************************************************************)
\* The session the request is made of: appendEvent has it in memory.
SessionOf(t) == IF t.do \in {"complete", "missing"} THEN local ELSE op.s

MakeRequest(t) ==
  CASE t.do = "event" -> [kind |-> "event", entry |-> MakeEntry(op.s, t.type, NoData)]
    [] t.do = "upload" ->
         LET p == CHOOSE q \in store : q.artifact = t.artifact /\ q.part = t.part
         IN  [kind |-> "part", artifact |-> p.artifact, part |-> p.part, bytes |-> p.bytes,
              entry |-> p.entry]
    [] t.do = "complete" ->
         [kind |-> "complete", count |-> Cardinality(LocalOf(t.artifact)),
          entry |-> MakeEntry(local, "artifact_completed",
                              DoneData(t.artifact, LocalHash(t.artifact)))]
    [] t.do = "missing" ->
         [kind |-> "missing",
          entry |-> MakeEntry(local, "artifact_unavailable",
                              GoneData(t.artifact, "unavailable"))]
    [] t.do = "finalize" -> [kind |-> "finalize", close |-> CloseOf(op.s)]
    [] t.do = "package"  -> [kind |-> "package"]

\* A request and the time it was sent: sent again, it is another one.
Sent(r) == [request |-> r, at |-> faults]

\* completeStoredArtifact: "artifact has pending parts"
PartsMissing(t) ==
  t.do = "complete" /\ (LocalOf(t.artifact) = {} \/ LocalOf(t.artifact) \cap Pending # {})

CallServer ==
  /\ \E do \in {"event", "upload", "complete", "missing", "finalize", "package"} : Running(do)
  /\ IF Task.do \in {"complete", "missing"} /\ (~Active \/ PartsMissing(Task))
     THEN op' = Failing(op) /\ UNCHANGED wire
     ELSE LET c == Sent(MakeRequest(Task))
          IN  /\ wire' = wire \cup {c}
              /\ op' = [op EXCEPT !.call = c, !.s = SessionOf(Task)]
  /\ UNCHANGED <<vars, indexedDB, mail, stopper, recorder, serving, inputs, faults, overwrote>>

Request == op.call.request
Answered(how) == op # None /\ op.call # None /\ op.answer = how
Received == [Done(op) EXCEPT !.call = None, !.answer = None]

\* The session after the answer to an event, a completion or a declaration.
AfterAnswer ==
  LET s == Advance(op.s, Request.entry)
  IN  CASE Task.do = "event" -> s
        [] Task.do = "complete" ->
             [s EXCEPT !.artifacts = @ \cup
                {Result(Task.artifact, "captured", Request.entry.facts.data.hash)}]
        [] Task.do = "missing" ->
             [s EXCEPT !.artifacts = @ \cup {Result(Task.artifact, "unavailable", <<>>)}]

ReceiveEntry ==
  /\ Answered("ok")
  /\ Task.do \in {"event", "complete", "missing"}
  /\ local' = AfterAnswer
  /\ op' = [Received EXCEPT !.s = AfterAnswer]
  /\ UNCHANGED <<vars, store, mail, stopper, recorder, network, inputs, faults, overwrote>>

\* uploadPendingPart: the receipt is kept and the part acknowledged.
MutantAcknowledged(p) ==
  IF p.artifact = Task.artifact THEN [p EXCEPT !.uploaded = TRUE] ELSE p
Acknowledged(p) ==
  IF p.artifact = Task.artifact /\ p.part = Task.part THEN [p EXCEPT !.uploaded = TRUE] ELSE p

Acknowledge ==
  /\ Answered("ok")
  /\ Task.do = "upload"
  /\ IF ~Active THEN op' = Failing(op) /\ UNCHANGED store
     ELSE /\ op' = Received
          /\ store' = {Acknowledged(p) : p \in store}
  /\ UNCHANGED <<vars, local, mail, stopper, recorder, network, inputs, faults, overwrote>>

\* The answer to the finalization; then to the package, which ends the capture.
ReceiveResult ==
  /\ Answered("ok")
  /\ Task.do \in {"finalize", "package"}
  /\ op' = Received
  /\ local' = IF Task.do = "package" THEN [op.s EXCEPT !.status = "complete"] ELSE local
  /\ UNCHANGED <<vars, store, mail, stopper, recorder, network, inputs, faults, overwrote>>

\* checked(): any other answer is an error.
ReceiveError ==
  /\ Answered("refused")
  /\ op' = Failing(op)
  /\ UNCHANGED <<vars, indexedDB, mail, stopper, recorder, network, inputs, faults, overwrote>>

\* fetch fails; the request, or its answer, may be anywhere.
GiveUp ==
  /\ op # None /\ op.call # None
  /\ faults < MaxFaults
  /\ faults' = faults + 1
  /\ op' = Failing(op)
  /\ UNCHANGED <<vars, indexedDB, mail, stopper, recorder, network, inputs, overwrote>>

-----------------------------------------------------------------------------
(***************************************************************************)
(* The end of an operation.  A chunk that failed stops the recorder; the   *)
(* error of a stop is recorded outside the queue, by `stopper'.            *)
(***************************************************************************)
Finish ==
  /\ op # None /\ op.call = None /\ ~op.failed /\ op.todo = <<>>
  /\ op' = None
  /\ recorder' = IF op.name = "chunk" /\ recorder.pending > 0
                 THEN [recorder EXCEPT !.pending = @ - 1] ELSE recorder
  /\ stopper' = IF op.name = "stop" THEN IdleStopper
                ELSE IF op.name = "chunk" /\ stopper.left > 0
                     THEN [stopper EXCEPT !.left = @ - 1] ELSE stopper
  /\ UNCHANGED <<vars, indexedDB, mail, network, inputs, faults, overwrote>>

\* A catch block: what its try block still had to do is dropped.
InTry(a)    == {i \in DOMAIN op.todo : \A j \in 1 .. i : op.todo[j].try = a}
AfterTry(a) == SubSeq(op.todo, Cardinality(InTry(a)) + 1, Len(op.todo))

MutantHandler(a) ==
  IF a = Recording
  THEN <<Simple("await"), Missing(a), Simple("read"), Save(FALSE)>>
  ELSE <<Missing(a)>> \o AfterTry(a)

Handler(a) ==
  IF a = Recording THEN <<Missing(a), Simple("read"), Save(FALSE)>>
  ELSE <<Missing(a)>> \o AfterTry(a)

Caught == Task.try # None /\ ~(Task.try = Recording /\ local.source = "desktop")

\* recordOperationError of the queue
WithError(s) == IF s = None \/ s.status = "complete" THEN s ELSE [s EXCEPT !.status = "error"]

Catch ==
  /\ op # None /\ op.failed
  /\ \E last \in LastChunks :
       LET stops == Task.try = Recording \/ op.name = "chunk"
           r == IF stops THEN Stopped(recorder, last) ELSE recorder
       IN  /\ stops \/ last = <<>>
           /\ mail' = mail \o last
           /\ recorder' = IF op.name = "chunk" /\ recorder.pending > 0
                          THEN [r EXCEPT !.pending = @ - 1, !.failed = TRUE] ELSE r
  /\ IF Caught
     THEN /\ op' = [op EXCEPT !.failed = FALSE, !.todo = Handler(Task.try)]
          /\ UNCHANGED <<local, stopper>>
     ELSE /\ op' = None
          /\ local' = IF op.name = "stop" THEN local ELSE WithError(local)
          /\ stopper' = IF op.name = "stop" \/ (op.name = "chunk" /\ stopper.left > 0)
                        THEN Failed(stopper) ELSE stopper
  /\ UNCHANGED <<vars, store, network, inputs, faults, overwrote>>

-----------------------------------------------------------------------------
(***************************************************************************)
(* STOP_CAPTURE outside the queue (stopRecorderAndFinalize): it waits for  *)
(* the recorder and only then queues the finalization.                     *)
(***************************************************************************)
Stop(wasActive) == [name |-> "stop", wasActive |-> wasActive]

\* The popup offers it while recording, when the capture was interrupted, and
\* again when only the finalization failed.
StopOffered ==
  \/ local.status = "recording"
  \/ local.status = "interrupted" /\ ~local.finished
  \/ local.status = "error" /\ local.finished

\* Bound: one stop at a time.  The popup waits for the answer with its buttons
\* disabled, but one that is opened again could send another STOP_CAPTURE.
PressStop ==
  /\ Active /\ StopOffered
  /\ stopper.pc = "idle"
  /\ inputs < MaxInputs
  /\ inputs' = inputs + 1
  /\ IF ~local.recording
     THEN /\ stopper' = [stopper EXCEPT !.pc = "queued"]
          /\ mail' = Append(mail, Stop(FALSE))
          /\ UNCHANGED recorder
     ELSE IF ~recorder.doc
     THEN /\ stopper' = Failed(stopper)
          /\ UNCHANGED <<mail, recorder>>
     ELSE \E last \in LastChunks :
            /\ recorder' = Stopped(recorder, last)
            /\ stopper' = [stopper EXCEPT !.pc = "stopping", !.left = recorder'.pending]
            /\ mail' = mail \o last
  /\ UNCHANGED <<vars, indexedDB, op, network, faults, overwrote>>

RecorderHasStopped ==
  /\ stopper.pc = "stopping"
  /\ stopper.left = 0
  /\ IF recorder.failed
     THEN stopper' = Failed(stopper) /\ UNCHANGED mail
     ELSE /\ stopper' = [stopper EXCEPT !.pc = "queued"]
          /\ mail' = Append(mail, Stop(TRUE))
  /\ UNCHANGED <<vars, indexedDB, op, recorder, network, inputs, faults, overwrote>>

\* recordOperationError of the stop reads the session and then saves it, while
\* the queue goes on.
ReadForError ==
  /\ stopper.pc = "failed"
  /\ stopper' = IF Active THEN [IdleStopper EXCEPT !.pc = "saving", !.copy = local] ELSE IdleStopper
  /\ UNCHANGED <<vars, indexedDB, op, mail, recorder, network, inputs, faults, overwrote>>

SaveError ==
  /\ stopper.pc = "saving"
  /\ local' = WithError(stopper.copy)
  /\ overwrote' = (overwrote \/ local = None \/ local.seq # stopper.copy.seq)
  /\ stopper' = IdleStopper
  /\ UNCHANGED <<vars, store, op, mail, recorder, network, inputs, faults>>

-----------------------------------------------------------------------------
(***************************************************************************)
(* The user, through the popup and the page, and GET_STATE, which the      *)
(* popup sends all the time.                                               *)
(***************************************************************************)
OpenSession ==
  /\ CreateSession
  /\ UNCHANGED clientVars

StartCapture(source) ==
  /\ <<source, mode>> \in Captures
  /\ RegisterKey(TheKey)
  /\ local' = NewSession(source)
  /\ \E script \in StartScripts(source) :
       op' = Operation("start", script, NewSession(source))
  /\ UNCHANGED <<store, mail, stopper, recorder, network, inputs, faults, overwrote>>

Message(name) ==
  IF name = "resume" THEN [name |-> name, clock |-> inputs + 1] ELSE [name |-> name]

Offered(name) ==
  CASE name = "marker" -> local.status = "recording" \/ local.source = "tab"
    [] name = "shot"   -> local.status = "recording" /\ local.source = "tab"
    [] name \in {"resume", "discard"} ->
         local.status \in {"interrupted", "error"} /\ ~local.finished

Press(name) ==
  /\ Active /\ Offered(name)
  /\ inputs < MaxInputs
  /\ inputs' = inputs + 1
  /\ mail' = Append(mail, Message(name))
  /\ UNCHANGED <<vars, indexedDB, op, stopper, recorder, network, faults, overwrote>>

GetState ==
  /\ op = None
  /\ local # None /\ local.status = "recording" /\ local.recording /\ ~recorder.doc
  /\ local' = [local EXCEPT !.status = "interrupted"]
  /\ UNCHANGED <<vars, store, background, recorder, network, inputs, faults, overwrote>>

-----------------------------------------------------------------------------
(***************************************************************************)
(* The server handles a request, whether its sender still waits or not.    *)
(***************************************************************************)
ArtifactOf(r) == r.entry.facts.data.artifact

Outcome(r) ==
  CASE r.kind = "event" -> EventOutcome(EventKey(r.entry.facts.seq), r.entry, TheKey)
    [] r.kind = "part" ->
         UploadOutcome(PartKey(r.artifact, r.part), r.artifact, r.part, r.bytes, r.entry, TheKey)
    [] r.kind = "complete" ->
         CompleteOutcome(ArtifactOf(r), r.count, r.entry.facts.data.hash, r.entry, TheKey)
    [] r.kind = "missing" -> UnavailableOutcome(ArtifactOf(r), "unavailable", r.entry, TheKey)
    [] r.kind = "finalize" -> FinalizeOutcome(r.close, TheKey)
    [] r.kind = "package" -> IF manifest # None THEN "packaged" ELSE "refused"

Repeated == {"already_recorded", "already_completed", "already_finalized", "packaged"}

Accept(r) ==
  \/ r.kind = "event" /\ CreateEvent(EventKey(r.entry.facts.seq), r.entry, TheKey)
  \/ r.kind = "complete" /\
       CompleteArtifact(ArtifactOf(r), r.count, r.entry.facts.data.hash, r.entry, TheKey)
  \/ r.kind = "missing" /\ DeclareUnavailable(ArtifactOf(r), "unavailable", r.entry, TheKey)
  \/ r.kind = "finalize" /\ FinalizeSession(r.close, TheKey)

Answer(c, how) ==
  op' = IF op # None /\ op.call = c THEN [op EXCEPT !.answer = how] ELSE op

ServeAccepted(c) ==
  /\ Outcome(c.request) \in {"recorded", "completed", "declared", "finalized"}
  /\ Accept(c.request)
  /\ Answer(c, "ok")
  /\ UNCHANGED serving

ServePart(c) ==
  /\ c.request.kind = "part"
  /\ Outcome(c.request) = "stored"
  /\ PutPart(PartKey(c.request.artifact, c.request.part), c.request.artifact,
             c.request.part, c.request.bytes, c.request.entry, TheKey)
  /\ serving' = c
  /\ UNCHANGED op

ServeRepeated(c) ==
  /\ Outcome(c.request) \in Repeated
  /\ Answer(c, "ok")
  /\ UNCHANGED <<vars, serving>>

ServeRefused(c) ==
  /\ Outcome(c.request) \notin
       {"recorded", "completed", "declared", "finalized", "stored"} \cup Repeated
  /\ Answer(c, "refused")
  /\ UNCHANGED <<vars, serving>>

Serve(c) ==
  /\ Unlocked
  /\ wire' = wire \ {c}
  /\ ServeAccepted(c) \/ ServePart(c) \/ ServeRepeated(c) \/ ServeRefused(c)
  /\ UNCHANGED <<indexedDB, mail, stopper, recorder, inputs, faults, overwrote>>

CommitUpload ==
  /\ CommitPart
  /\ serving' = None
  /\ Answer(serving, IF nextSeq' > nextSeq THEN "ok" ELSE "refused")
  /\ UNCHANGED <<indexedDB, mail, stopper, recorder, wire, inputs, faults, overwrote>>

\* The server dies with an upload: its connection breaks.
ServerDies ==
  /\ Crash
  /\ faults < MaxFaults
  /\ faults' = faults + 1
  /\ serving' = None
  /\ Answer(serving, "refused")
  /\ UNCHANGED <<indexedDB, mail, stopper, recorder, wire, inputs, overwrote>>

\* The background script dies: the queue is lost, and a chunk that waits for
\* its answer fails, but the recorder goes on.  With the browser it dies too.
Die(withBrowser) ==
  /\ local # None
  /\ faults < MaxFaults
  /\ faults' = faults + 1
  /\ op' = None
  /\ stopper' = IdleStopper
  /\ mail' = <<>>
  /\ recorder' = IF withBrowser THEN NoRecorder(recorder.emitted)
                 ELSE [recorder EXCEPT !.pending = 0, !.failed = @ \/ recorder.pending > 0]
  /\ UNCHANGED <<vars, indexedDB, network, inputs, overwrote>>

-----------------------------------------------------------------------------
ClientInit ==
  /\ Init
  /\ local = None /\ store = {}
  /\ op = None /\ mail = <<>> /\ stopper = IdleStopper
  /\ recorder = NoRecorder(0)
  /\ wire = {} /\ serving = None
  /\ inputs = 0 /\ faults = 0 /\ overwrote = FALSE

\* The queue: everything but waiting for the server.
QueueStep ==
  \/ Take \/ ReadSession \/ QueuePart \/ RetryParts \/ StartRecorder \/ SaveRecording
  \/ SaveFinished \/ BeginStop \/ BeginFinalizing \/ Interrupt
  \/ AskRecorder \/ AwaitRecorder \/ DeleteSession \/ ThrowError
  \/ CallServer \/ ReceiveEntry \/ Acknowledge \/ ReceiveResult \/ ReceiveError
  \/ Finish \/ Catch

StopperStep == RecorderHasStopped \/ ReadForError \/ SaveError

ClientNext ==
  \/ OpenSession
  \/ \E source \in {"tab", "desktop"} : StartCapture(source)
  \/ \E name \in {"marker", "shot", "resume", "discard"} : Press(name)
  \/ PressStop
  \/ GetState
  \/ EmitChunk
  \/ SharingEnds
  \/ QueueStep
  \/ StopperStep
  \/ GiveUp
  \/ \E c \in wire : Serve(c)
  \/ CommitUpload
  \/ ServerDies
  \/ \E withBrowser \in BOOLEAN : Die(withBrowser)

ClientSpec == ClientInit /\ [][ClientNext]_allVars

\* The scripts of the extension run on, the server handles a request whose
\* sender waits, and commits an upload.  Faults, inputs and chunks need not
\* happen, and a request nobody waits for need never arrive.
ClientFairness ==
  /\ WF_allVars(QueueStep)
  /\ WF_allVars(StopperStep)
  /\ WF_allVars(\E c \in wire : op # None /\ op.call = c /\ Serve(c))
  /\ WF_allVars(CommitUpload)

FairClientSpec == ClientSpec /\ ClientFairness

-----------------------------------------------------------------------------
(***************************************************************************)
(* What IndexedDB, the messages, the scripts and the requests hold.  The   *)
(* client does not know the limits of the server: an entry it makes (a     *)
(* draft) may exceed them, and is refused then.                            *)
(***************************************************************************)
Names == Artifacts \cup ({"screenshot"} \X Nat)

DraftData ==
  {NoData} \cup [artifact : Names, part : Nat, hash : Contents]
           \cup [artifact : Names, hash : Seq(Contents)]
           \cup [artifact : Names, status : {"unavailable"}]

DraftFacts == [seq : Nat, type : EntryTypes, data : DraftData, clock : Clocks,
               time : 0 .. MaxFaults]

Drafts == [facts : DraftFacts, previous : Seq(DraftFacts)]

Results == [artifact : Names, status : {"captured", "unavailable"}, hash : Seq(Contents)]

LocalSessions ==
  [status : {"starting", "recording", "interrupted", "error", "finalizing", "complete"},
   source : {"tab", "desktop"}, seq : Nat, prev : Seq(DraftFacts), clock : Clocks,
   recording : BOOLEAN, finished : BOOLEAN, artifacts : SUBSET Results]

StoredParts == [artifact : Names, part : Nat, bytes : Contents, entry : Drafts,
                uploaded : BOOLEAN]

Tries == Names \cup {None}

EventNames == {"capture_started", "marker", "clock_restarted", "capture_finished"}

Tasks ==
  [do : {"event"}, type : EventNames, try : Tries]
  \cup [do : {"queue"}, artifact : Names, bytes : Contents, try : Tries]
  \cup [do : {"upload"}, artifact : Names, part : Nat, try : Tries]
  \cup [do : {"complete", "missing"}, artifact : Names, try : Tries]
  \cup [do : {"save"}, recording : BOOLEAN, try : {None}]
  \cup [do : {"restart"}, clock : Clocks, try : {None}]
  \cup [do : {"begin", "finalizing"}, wasActive : BOOLEAN, try : {None}]
  \cup [do : {"record"}, try : Tries]
  \cup [do : {"read", "retry", "finished", "finalize", "package", "interrupt", "ask", "await",
              "delete", "throw"}, try : {None}]

Messages ==
  [name : {"marker", "shot", "discard", "sharing_ended"}]
  \cup [name : {"chunk"}, bytes : Contents]
  \cup [name : {"resume"}, clock : Clocks]
  \cup [name : {"stop"}, wasActive : BOOLEAN]

ClientCloses == [root : Seq(DraftFacts), count : Nat, artifacts : SUBSET Results,
                 gaps : BOOLEAN, key : {TheKey}]

Requests ==
  [kind : {"event", "missing"}, entry : Drafts]
  \cup [kind : {"part"}, artifact : Names, part : Nat, bytes : Contents, entry : Drafts]
  \cup [kind : {"complete"}, count : Nat, entry : Drafts]
  \cup [kind : {"finalize"}, close : ClientCloses]
  \cup [kind : {"package"}]

Calls == [request : Requests, at : 0 .. MaxFaults]

Operations ==
  [name : {"start", "chunk", "marker", "shot", "resume", "stop", "discard", "sharing_ended"},
   todo : Seq(Tasks), s : LocalSessions \cup {None}, call : Calls \cup {None},
   answer : {"ok", "refused", None}, failed : BOOLEAN]

\* None is what is not in IndexedDB, not sent and not answered.
ASSUME ClientNoneAssumption == None \notin LocalSessions \cup Calls \cup {"ok", "refused"}

\* The two sides of the composed system and what is between them hold what
\* types.ts, models.py and the recorder declare; whoever uploads is served.
ClientTypeOK ==
  /\ TypeOK
  /\ local \in LocalSessions \cup {None}
  /\ store \in SUBSET StoredParts
  /\ op \in Operations \cup {None}
  /\ mail \in Seq(Messages)
  /\ stopper \in [pc : {"idle", "stopping", "queued", "failed", "saving"}, left : Nat,
                  copy : LocalSessions \cup {None}]
  /\ recorder \in [doc : BOOLEAN, on : BOOLEAN, pending : Nat, emitted : 0 .. MaxChunks,
                   failed : BOOLEAN]
  /\ wire \in SUBSET Calls
  /\ serving \in Calls \cup {None}
  /\ serving # None <=> upload # None
  /\ inputs \in 0 .. MaxInputs /\ faults \in 0 .. MaxFaults /\ overwrote \in BOOLEAN

\* How far the chains of the two sides may part: what the chain in IndexedDB
\* has and the server has not are entries of parts that are kept to be sent, and
\* what the server has and the chain in IndexedDB has not is one entry at most,
\* whose answer was lost.  That one may part them for good: the next entry takes
\* its sequence and is refused, and the capture cannot go on.  Unless the record
\* of a stop's error, outside the queue, set the chain in IndexedDB back.
DivergenceBounded ==
  local # None /\ ~overwrote =>
    /\ \A i \in 1 .. Len(local.prev) :
         LET hash == SubSeq(local.prev, 1, i)
         IN  \/ \E r \in entries : EntryHash(r.entry) = hash
             \/ \E p \in Pending : EntryHash(p.entry) = hash
    /\ Cardinality({r \in entries : ~IsPrefix(EntryHash(r.entry), local.prev)}) <= 1

\* A part that is sent, sent again or late is stored or recognized; it never
\* meets other bytes or another entry under its number (ACEITE.md:185: no
\* duplicated parts or receipts).  Again unless the record of a stop's error
\* set the chain back: numbers are then given twice.
PartsNeverConflict ==
  \A c \in wire : c.request.kind = "part" /\ ~overwrote =>
    Outcome(c.request) \notin {"part_idempotency_conflict", "part_storage_conflict"}

\* When the extension says that the capture is complete, the server has signed
\* what the extension has: its chain, its artifacts, and every part of them.
\* (Unless the record of a stop's error set the chain back, and so lost a part.)
CompleteMeansSealed ==
  local # None /\ local.status = "complete" /\ ~overwrote =>
    /\ manifest # None /\ manifest.close = CloseOf(local)
    /\ \A p \in store : \E q \in parts :
         q.artifact = p.artifact /\ q.part = p.part /\ q.hash = p.bytes

\* A discard waits inside the queue for a recorder that waits for a chunk
\* behind it in the queue.
DiscardBlocks ==
  op # None /\ op.name = "discard" /\ Running("await") /\ recorder.pending > 0

\* Every message is handled in the end, stops included, although the recorder
\* a stop waits for waits for chunks in the queue, and whatever fails; only a
\* discard of a capture that still records blocks the queue.
QueueDrains ==
  []<>((op = None /\ mail = <<>> /\ stopper.pc = "idle") \/ DiscardBlocks)

=============================================================================
