---------------------------- MODULE CaptureServer ----------------------------
(***************************************************************************)
(* One capture session as the API server keeps it: the rows of the         *)
(* session, its hash chain of entries, the uploaded parts, the receipts,   *)
(* the artifact results and the final manifest (main.py and models.py),    *)
(* and the part objects of the durable store (storage.py).                 *)
(*                                                                         *)
(* Every handler that writes takes the session row FOR UPDATE, so on       *)
(* PostgreSQL the handlers of one session run one after the other and a    *)
(* handler is one step.  The exception is the part upload: its bytes reach *)
(* the store before its transaction commits, so it takes two steps with    *)
(* the row lock held in between (variable `upload'), and the process may   *)
(* die between them.                                                       *)
(*                                                                         *)
(* What each handler answers is a function of the stored state and the     *)
(* request: one `...Outcome' operator per handler.  Requests that are      *)
(* refused and requests answered again from the stored rows change nothing *)
(* and are no actions of the module.                                       *)
(*                                                                         *)
(* Abstractions: a SHA-256 hash is the value it commits to (no             *)
(* collisions), so the hash of an entry is the sequence of all entries up  *)
(* to it; a signature is the key that made it; each part has one unit of   *)
(* size; wall-clock fields, challenge and session id are left out.         *)
(***************************************************************************)
EXTENDS Naturals, Sequences, FiniteSets

CONSTANTS
  Keys,             \* Ed25519 keys a client may hold
  Clocks,           \* client_clock_id values
  MaxTime,          \* bound: client_monotonic_time is in 0..MaxTime
  Artifacts,        \* artifact ids
  MaxParts,         \* settings.max_artifact_parts
  MaxArtifactSize,  \* settings.max_artifact_size, in parts
  MaxSessionSize,   \* settings.max_session_size, in parts
  Contents,         \* bytes of a part, one value per hash
  EventTypes,       \* entry types the clients post to /events
  Modes,            \* evidence modes the service is deployed in
  MaxEntries,       \* bound: entries of the session
  MaxIncidents,     \* bound: incidents recorded
  ChosenKeys,       \* idempotency keys a client posts events under besides its
                    \* own, which collide with keys the server derives
  None

(***************************************************************************)
(* navigation, scroll and marker entries obey the same rules: "marker"     *)
(* stands for the three.                                                   *)
(***************************************************************************)
EntryTypes ==
  {"capture_started", "artifact_part", "artifact_completed",
   "artifact_unavailable", "marker", "clock_restarted", "capture_finished"}

ASSUME BoundsAssumption ==
  /\ MaxTime \in Nat /\ MaxParts \in Nat
  /\ MaxArtifactSize \in Nat /\ MaxSessionSize \in Nat
  /\ MaxEntries \in Nat /\ MaxIncidents \in Nat

ASSUME SetsAssumption ==
  /\ EventTypes \subseteq EntryTypes
  /\ Modes \subseteq {"remote", "hash_only"}

VARIABLES
  status,       \* capture_sessions.status, "absent" before the row exists
  mode,         \* capture_sessions.evidence_mode
  deployment,   \* settings.evidence_mode of the running service
  key,          \* capture_sessions.client_public_key
  overdue,      \* more than max_session_duration_seconds since created_at
  nextSeq,      \* capture_sessions.next_sequence
  lastReceipt,  \* capture_sessions.last_receipt_hash
  manifest,     \* capture_sessions.capture_close, .manifest and signatures
  entries,      \* chain_entries
  parts,        \* artifact_parts
  artifacts,    \* artifacts
  receipts,     \* receipts
  incidents,    \* how many incidents are recorded
  objects,      \* part objects in the durable store
  upload        \* the part upload that holds the session row, or None

session == <<status, mode, key, nextSeq, lastReceipt, manifest>>
tables  == <<entries, parts, artifacts, receipts>>
vars    == <<session, deployment, overdue, tables, incidents, objects, upload>>

-----------------------------------------------------------------------------
(***************************************************************************)
(* The data.                                                               *)
(***************************************************************************)
PartNumbers == 0 .. MaxParts - 1

\* The hash of an artifact: the contents of its parts in order.
Hashes == UNION {[1 .. n -> Contents] : n \in 1 .. MaxParts}

MissingStatuses == {"unavailable", "failed", "not_requested"}

\* The fields of an entry that depend on its type.
NoData           == [none |-> TRUE]
PartData(a, n, c) == [artifact |-> a, part |-> n, hash |-> c]
DoneData(a, h)   == [artifact |-> a, hash |-> h]
GoneData(a, st)  == [artifact |-> a, status |-> st]

DataOf(type) ==
  CASE type = "artifact_part" ->
         {PartData(a, n, c) : a \in Artifacts, n \in PartNumbers, c \in Contents}
    [] type = "artifact_completed" ->
         {DoneData(a, h) : a \in Artifacts, h \in Hashes}
    [] type = "artifact_unavailable" ->
         {GoneData(a, st) : a \in Artifacts, st \in MissingStatuses}
    [] OTHER -> {NoData}

Data == UNION {DataOf(type) : type \in EntryTypes}

\* An entry without its link to the entry before it.
Facts == [seq : Nat, type : EntryTypes, data : Data,
          clock : Clocks, time : 0 .. MaxTime]

\* entry_hash commits to the entry and, through previous_entry_hash, to all
\* the entries before it.
EntryHash(e) == Append(e.previous, e.facts)

Entry == [facts : Facts, previous : Seq(Facts)]

\* Idempotency keys: the client's own for an event and for a part, and the
\* ones the server derives for the rows it writes itself.
EventKey(n)       == <<"event", n>>
PartKey(a, n)     == <<"part", a, n>>
EntryKey(k)       == <<"entry", k>>
CompleteKey(a)    == <<"artifact-complete", a>>
UnavailableKey(a) == <<"artifact-unavailable", a>>
EventKeys == {"event"} \X Nat
PartKeys  == {PartKey(a, n) : a \in Artifacts, n \in PartNumbers}
RowKeys   == EventKeys \cup {EntryKey(k) : k \in PartKeys}
             \cup {CompleteKey(a) : a \in Artifacts}
             \cup {UnavailableKey(a) : a \in Artifacts}

ReceiptHash(r) ==
  Append(r.previous, [seq |-> r.seq, entry |-> r.entry, artifact |-> r.artifact,
                      part |-> r.part, hash |-> r.hash])

(***************************************************************************)
(* The rows of the tables (models.py) and the values of the nullable       *)
(* columns, which hold None until they are set.                            *)
(***************************************************************************)
Rows == [key : RowKeys, entry : Entry, signer : Keys]

PartRows == [artifact : Artifacts, part : PartNumbers, hash : Contents, key : PartKeys]

ArtifactStatuses == MissingStatuses \cup {"captured"}

ArtifactRows == [artifact : Artifacts, status : ArtifactStatuses, parts : 0 .. MaxParts,
                 hash : Hashes \cup {<<>>}, entry : Seq(Facts)]

ReceiptFacts == [seq : Nat, entry : Seq(Facts), artifact : Artifacts,
                 part : PartNumbers, hash : Contents]

ReceiptRows == [seq : Nat, entry : Seq(Facts), artifact : Artifacts, part : PartNumbers,
                hash : Contents, previous : Seq(ReceiptFacts)]

Objects == [artifact : Artifacts, part : PartNumbers, bytes : Contents]

Uploads == [key : PartKeys, artifact : Artifacts, part : PartNumbers,
            hash : Contents, entry : Entry, signer : Keys]

Listed == [artifact : Artifacts, status : ArtifactStatuses, hash : Hashes \cup {<<>>}]

Closes == [root : Seq(Facts), count : Nat, artifacts : SUBSET Listed,
           gaps : BOOLEAN, key : Keys \cup {None}]

Manifests == [close : Closes, signer : Keys, status : {"complete", "incomplete"},
              root : Seq(Facts), count : Nat, artifacts : SUBSET Listed]

ASSUME ChosenKeysAssumption == ChosenKeys \subseteq RowKeys

ASSUME NoneAssumption == None \notin Keys \cup Uploads \cup Manifests

-----------------------------------------------------------------------------
(***************************************************************************)
(* Guards the handlers share.                                              *)
(***************************************************************************)

\* A handler gets the session row: no upload holds it.
MutantUnlocked == TRUE
Unlocked == upload = None

MutantClosed == {"complete"}
Closed == {"complete", "incomplete"}

Ready ==
  /\ mode = deployment
  /\ key # None
  /\ status \notin Closed
  /\ ~overdue

RowAt(n) == {r \in entries : r.entry.facts.seq = n}
Seqs     == {r.entry.facts.seq : r \in entries}

\* The latest row of the clock.
MutantLatestOf(clock) == {r \in RowAt(nextSeq - 1) : r.entry.facts.clock = clock}
LatestOf(clock) ==
  {r \in entries :
     /\ r.entry.facts.clock = clock
     /\ \A q \in entries : q.entry.facts.clock = clock
                             => q.entry.facts.seq <= r.entry.facts.seq}

LinkedTo(r, e) ==
  /\ e.previous = EntryHash(r.entry)
  /\ \/ e.facts.clock = r.entry.facts.clock
     \/ e.facts.type = "clock_restarted"

ValidEntry(e, signer) ==
  /\ e.facts.data \in DataOf(e.facts.type)
  /\ mode = "hash_only" /\ e.facts.type = "artifact_unavailable" =>
       e.facts.data.status = "unavailable"
  /\ e.facts.seq = nextSeq
  /\ signer = key
  /\ IF nextSeq = 0
     THEN e.facts.type = "capture_started" /\ e.previous = <<>>
     ELSE \E r \in RowAt(nextSeq - 1) : LinkedTo(r, e)
  /\ \A r \in LatestOf(e.facts.clock) : r.entry.facts.time <= e.facts.time

\* The unique constraints of chain_entries.
FreshRow(k, e) == \A r \in entries : r.key # k /\ r.entry.facts.seq # e.facts.seq

NewRow(k, e, signer) == [key |-> k, entry |-> e, signer |-> signer]

AddEntry(k, e, signer) ==
  /\ entries' = entries \cup {NewRow(k, e, signer)}
  /\ nextSeq' = nextSeq + 1

\* record_incident: the row, and the audit event beside it, commit alone.
RecordIncident ==
  /\ incidents < MaxIncidents
  /\ incidents' = incidents + 1
  /\ UNCHANGED <<session, deployment, overdue, tables, objects, upload>>

PartsOf(a)   == {p \in parts : p.artifact = a}
NumbersOf(a) == {p.part : p \in PartsOf(a)}

\* The parts of the artifact are exactly 0..count-1.
ExactParts(a, count) ==
  /\ Cardinality(PartsOf(a)) = count
  /\ NumbersOf(a) = 0 .. count - 1

-----------------------------------------------------------------------------
(***************************************************************************)
(* POST /v1/sessions and /keys.                                            *)
(***************************************************************************)
CreateSession ==
  /\ status = "absent"
  /\ status' = "created"
  /\ mode' = deployment
  /\ UNCHANGED <<key, nextSeq, lastReceipt, manifest, deployment, overdue,
                 tables, incidents, objects, upload>>

MutantRegisterKey(k) ==
  /\ status # "absent"
  /\ Unlocked
  /\ key' = k
  /\ status' = "key_registered"
  /\ UNCHANGED <<mode, nextSeq, lastReceipt, manifest, deployment, overdue,
                 tables, incidents, objects, upload>>

RegisterKey(k) ==
  /\ status = "created"
  /\ Unlocked
  /\ key' = k
  /\ status' = "key_registered"
  /\ UNCHANGED <<mode, nextSeq, lastReceipt, manifest, deployment, overdue,
                 tables, incidents, objects, upload>>

(***************************************************************************)
(* POST /events.                                                           *)
(***************************************************************************)
MutantEventOutcome(k, e, signer) ==
  IF ~Ready THEN "closed"
  ELSE IF ~ValidEntry(e, signer) THEN "refused"
  ELSE IF NewRow(k, e, signer) \in entries THEN "already_recorded"
  ELSE IF FreshRow(k, e) THEN "recorded" ELSE "event_idempotency_conflict"

EventOutcome(k, e, signer) ==
  IF ~Ready THEN "closed"
  ELSE IF \E r \in entries : r.key = k
       THEN IF NewRow(k, e, signer) \in entries
            THEN "already_recorded" ELSE "event_idempotency_conflict"
       ELSE IF ValidEntry(e, signer) /\ FreshRow(k, e) THEN "recorded" ELSE "refused"

CreateEvent(k, e, signer) ==
  /\ Unlocked
  /\ \/ /\ EventOutcome(k, e, signer) = "recorded"
        /\ AddEntry(k, e, signer)
        /\ status' = "capturing"
        /\ UNCHANGED <<mode, key, lastReceipt, manifest, deployment, overdue,
                       parts, artifacts, receipts, incidents, objects, upload>>
     \/ /\ EventOutcome(k, e, signer) = "event_idempotency_conflict"
        /\ RecordIncident

(***************************************************************************)
(* PUT /artifacts/{a}/parts/{n}: the bytes, or only their hash in the      *)
(* hash_only mode.                                                         *)
(***************************************************************************)
\* The request repeats the upload stored under key k.
RepeatsPart(k, a, n, c, e, signer) ==
  /\ [artifact |-> a, part |-> n, hash |-> c, key |-> k] \in parts
  /\ NewRow(EntryKey(k), e, signer) \in entries
  /\ \E r \in receipts : r.seq = e.facts.seq

WithinLimits(a) ==
  /\ Cardinality(PartsOf(a)) + 1 <= MaxArtifactSize
  /\ Cardinality(parts) + 1 <= MaxSessionSize

Stored(a, n) == {o \in objects : o.artifact = a /\ o.part = n}

MutantStoreRefuses(a, n, c) == FALSE
StoreRefuses(a, n, c) == mode = "remote" /\ \E o \in Stored(a, n) : o.bytes # c

UploadOutcome(k, a, n, c, e, signer) ==
  IF ~Ready THEN "closed"
  ELSE IF \E p \in parts : p.key = k
       THEN IF RepeatsPart(k, a, n, c, e, signer)
            THEN "already_recorded" ELSE "part_idempotency_conflict"
       ELSE IF ~ /\ WithinLimits(a)
                 /\ ValidEntry(e, signer)
                 /\ e.facts.type = "artifact_part"
                 /\ e.facts.data = PartData(a, n, c)
            THEN "refused"
            ELSE IF StoreRefuses(a, n, c) THEN "part_storage_conflict" ELSE "stored"

\* First step: the request is validated and its bytes are put in the store.
PutPart(k, a, n, c, e, signer) ==
  /\ Unlocked
  /\ \/ /\ UploadOutcome(k, a, n, c, e, signer) = "stored"
        /\ objects' = IF mode = "hash_only" THEN objects
                      ELSE objects \cup {[artifact |-> a, part |-> n, bytes |-> c]}
        /\ upload' = [key |-> k, artifact |-> a, part |-> n, hash |-> c,
                      entry |-> e, signer |-> signer]
        /\ UNCHANGED <<session, deployment, overdue, tables, incidents>>
     \/ /\ UploadOutcome(k, a, n, c, e, signer)
             \in {"part_idempotency_conflict", "part_storage_conflict"}
        /\ RecordIncident

\* The unique constraints of artifact_parts and receipts.
MutantFreshPart(u) == \A p \in parts : p.key # u.key

FreshPart(u) ==
  /\ \A p \in parts : /\ p.key # u.key
                      /\ ~(p.artifact = u.artifact /\ p.part = u.part)
  /\ \A r \in receipts : r.seq # u.entry.facts.seq

NewReceipt(u) ==
  [seq |-> nextSeq, entry |-> EntryHash(u.entry), artifact |-> u.artifact,
   part |-> u.part, hash |-> u.hash, previous |-> lastReceipt]

\* Second step: entry, part and receipt commit together, or the unique
\* constraints undo them.
CommitPart ==
  /\ upload # None
  /\ upload' = None
  /\ \/ /\ FreshRow(EntryKey(upload.key), upload.entry) /\ FreshPart(upload)
        /\ AddEntry(EntryKey(upload.key), upload.entry, upload.signer)
        /\ parts' = parts \cup {[artifact |-> upload.artifact, part |-> upload.part,
                                 hash |-> upload.hash, key |-> upload.key]}
        /\ receipts' = receipts \cup {NewReceipt(upload)}
        /\ lastReceipt' = ReceiptHash(NewReceipt(upload))
        /\ status' = "uploading"
        /\ UNCHANGED <<mode, key, manifest, deployment, overdue, artifacts,
                       incidents, objects>>
     \/ /\ ~(FreshRow(EntryKey(upload.key), upload.entry) /\ FreshPart(upload))
        /\ UNCHANGED <<session, deployment, overdue, tables, incidents, objects>>

-----------------------------------------------------------------------------
(***************************************************************************)
(* POST /artifacts/{a}/complete with a part count and an artifact hash.    *)
(***************************************************************************)
\* The hash of the first `count' part objects, read back from the store.
StoredHash(a, count) ==
  [i \in 1 .. count |-> (CHOOSE o \in Stored(a, i - 1) : TRUE).bytes]

MutantCapturedRow(a, count, h, e) ==
  [artifact |-> a, status |-> "complete", parts |-> count, hash |-> h,
   entry |-> EntryHash(e)]

CapturedRow(a, count, h, e) ==
  [artifact |-> a, status |-> "captured", parts |-> count, hash |-> h,
   entry |-> EntryHash(e)]

\* The unique constraint of artifacts.
NoResult(a) == \A x \in artifacts : x.artifact # a

CompleteOutcome(a, count, h, e, signer) ==
  IF ~Ready THEN "closed"
  ELSE IF ~NoResult(a)
       THEN IF CapturedRow(a, count, h, e) \in artifacts
            THEN "already_completed" ELSE "artifact_completion_conflict"
       ELSE IF /\ ValidEntry(e, signer)
               /\ e.facts.type = "artifact_completed"
               /\ e.facts.data = DoneData(a, h)
               /\ ExactParts(a, count)
               /\ mode = "remote" => h = StoredHash(a, count)
               /\ FreshRow(CompleteKey(a), e)
            THEN "completed" ELSE "refused"

CompleteArtifact(a, count, h, e, signer) ==
  /\ Unlocked
  /\ \/ /\ CompleteOutcome(a, count, h, e, signer) = "completed"
        /\ AddEntry(CompleteKey(a), e, signer)
        /\ artifacts' = artifacts \cup {CapturedRow(a, count, h, e)}
        /\ status' = "capturing"
        /\ UNCHANGED <<mode, key, lastReceipt, manifest, deployment, overdue,
                       parts, receipts, incidents, objects, upload>>
     \/ /\ CompleteOutcome(a, count, h, e, signer) = "artifact_completion_conflict"
        /\ RecordIncident

(***************************************************************************)
(* POST /artifacts/{a}/unavailable.                                        *)
(***************************************************************************)
MissingRow(a, st, e) ==
  [artifact |-> a, status |-> st, parts |-> 0, hash |-> <<>>, entry |-> EntryHash(e)]

UnavailableOutcome(a, st, e, signer) ==
  IF ~Ready THEN "closed"
  ELSE IF /\ NoResult(a)
          /\ ValidEntry(e, signer)
          /\ e.facts.type = "artifact_unavailable"
          /\ e.facts.data = GoneData(a, st)
          /\ FreshRow(UnavailableKey(a), e)
       THEN "declared" ELSE "refused"

DeclareUnavailable(a, st, e, signer) ==
  /\ Unlocked
  /\ UnavailableOutcome(a, st, e, signer) = "declared"
  /\ AddEntry(UnavailableKey(a), e, signer)
  /\ artifacts' = artifacts \cup {MissingRow(a, st, e)}
  /\ status' = "capturing"
  /\ UNCHANGED <<mode, key, lastReceipt, manifest, deployment, overdue,
                 parts, receipts, incidents, objects, upload>>

-----------------------------------------------------------------------------
(***************************************************************************)
(* POST /finalize with the capture_close the client signed.                *)
(***************************************************************************)
\* What capture_close and the manifest say of each artifact.
Inventory == {[artifact |-> x.artifact, status |-> x.status, hash |-> x.hash] :
                x \in artifacts}

\* The close of a client that saw the chain up to the entry of row r.
CloseAt(r, listed, gaps) ==
  [root |-> EntryHash(r.entry), count |-> r.entry.facts.seq + 1,
   artifacts |-> listed, gaps |-> gaps, key |-> key]

MutantPartsAccountedFor ==
  \A p \in parts : \E x \in artifacts : x.artifact = p.artifact

PartsAccountedFor ==
  \A p \in parts : \E x \in artifacts :
    /\ x.artifact = p.artifact
    /\ x.status = "captured" => ExactParts(x.artifact, x.parts)

ValidClose(close, signer) ==
  /\ entries # {}
  /\ Seqs = 0 .. Cardinality(entries) - 1
  /\ \A r \in RowAt(Cardinality(entries) - 1) :
       /\ r.entry.facts.type = "capture_finished"
       /\ close.root = EntryHash(r.entry)
  /\ close.count = Cardinality(entries)
  /\ close.artifacts = Inventory
  /\ close.key = key
  /\ PartsAccountedFor
  /\ signer = key

FinalStatus(close) ==
  IF close.gaps \/ \E x \in artifacts : x.status # "captured"
  THEN "incomplete" ELSE "complete"

NewManifest(close, signer) ==
  [close |-> close, signer |-> signer, status |-> FinalStatus(close),
   root |-> close.root, count |-> Cardinality(entries), artifacts |-> Inventory]

FinalizeOutcome(close, signer) ==
  IF manifest # None
  THEN IF manifest.close = close /\ manifest.signer = signer
       THEN "already_finalized" ELSE "finalization_conflict"
  ELSE IF ~Ready THEN "closed"
       ELSE IF ValidClose(close, signer) THEN "finalized" ELSE "refused"

FinalizeSession(close, signer) ==
  /\ Unlocked
  /\ \/ /\ FinalizeOutcome(close, signer) = "finalized"
        /\ manifest' = NewManifest(close, signer)
        /\ status' = FinalStatus(close)
        /\ UNCHANGED <<mode, key, nextSeq, lastReceipt, deployment, overdue,
                       tables, incidents, objects, upload>>
     \/ /\ FinalizeOutcome(close, signer) = "finalization_conflict"
        /\ RecordIncident

-----------------------------------------------------------------------------
(***************************************************************************)
(* The environment: the process dies with an upload between its two steps, *)
(* the service is redeployed in another evidence mode, the session becomes *)
(* too old.                                                                *)
(***************************************************************************)
Crash ==
  /\ upload # None
  /\ upload' = None
  /\ UNCHANGED <<session, deployment, overdue, tables, incidents, objects>>

Redeploy(m) ==
  /\ deployment # m
  /\ deployment' = m
  /\ upload' = None
  /\ UNCHANGED <<session, overdue, tables, incidents, objects>>

BecomeOverdue ==
  /\ status # "absent"
  /\ ~overdue
  /\ overdue' = TRUE
  /\ UNCHANGED <<session, deployment, tables, incidents, objects, upload>>

(***************************************************************************)
(* Requests.  A client may have seen all of the chain or only some of it,  *)
(* so an entry extends any stored entry; it signs with any key; the key of *)
(* an event carries the sequence, as in the extension, or is already used  *)
(* or is one the server will derive.                                       *)
(***************************************************************************)
Links == {[seq |-> 0, previous |-> <<>>]} \cup
         {[seq |-> r.entry.facts.seq + 1, previous |-> EntryHash(r.entry)] : r \in entries}

Requested(types) ==
  UNION {{[facts |-> [seq |-> l.seq, type |-> type, data |-> d, clock |-> clock, time |-> t],
           previous |-> l.previous] :
            l \in Links, d \in DataOf(type), clock \in Clocks, t \in 0 .. MaxTime} :
         type \in types}

Init ==
  /\ status = "absent"
  /\ deployment \in Modes
  /\ mode = deployment
  /\ key = None
  /\ overdue = FALSE
  /\ nextSeq = 0
  /\ lastReceipt = <<>>
  /\ manifest = None
  /\ entries = {} /\ parts = {} /\ artifacts = {} /\ receipts = {}
  /\ incidents = 0
  /\ objects = {}
  /\ upload = None

EntryRequest(signer) ==
  \/ \E e \in Requested(EventTypes) :
       \E k \in {EventKey(e.facts.seq)} \cup ChosenKeys \cup {r.key : r \in entries} :
         CreateEvent(k, e, signer)
  \/ \E e \in Requested({"artifact_part"}), k \in PartKeys, sent \in Contents :
       PutPart(k, e.facts.data.artifact, e.facts.data.part, sent, e, signer)
  \/ \E e \in Requested({"artifact_completed"}), count \in 1 .. MaxParts :
       CompleteArtifact(e.facts.data.artifact, count, e.facts.data.hash, e, signer)
  \/ \E e \in Requested({"artifact_unavailable"}) :
       DeclareUnavailable(e.facts.data.artifact, e.facts.data.status, e, signer)

Next ==
  \/ CreateSession
  \/ \E k \in Keys : RegisterKey(k)
  \/ \E signer \in Keys : nextSeq < MaxEntries /\ EntryRequest(signer)
  \/ CommitPart
  \/ \E signer \in Keys, r \in entries, listed \in {Inventory, {}}, gaps \in BOOLEAN :
       FinalizeSession(CloseAt(r, listed, gaps), signer)
  \/ Crash
  \/ \E m \in Modes : Redeploy(m)
  \/ BecomeOverdue

Spec == Init /\ [][Next]_vars

-----------------------------------------------------------------------------
\* The variables hold what the columns of models.py may hold.
TypeOK ==
  /\ status \in {"absent", "created", "key_registered", "capturing", "uploading"}
               \cup Closed
  /\ mode \in Modes /\ deployment \in Modes
  /\ key \in Keys \cup {None}
  /\ overdue \in BOOLEAN
  /\ nextSeq \in Nat
  /\ lastReceipt \in Seq(ReceiptFacts)
  /\ manifest \in Manifests \cup {None}
  /\ entries \in SUBSET Rows
  /\ parts \in SUBSET PartRows
  /\ artifacts \in SUBSET ArtifactRows
  /\ receipts \in SUBSET ReceiptRows
  /\ incidents \in 0 .. MaxIncidents
  /\ objects \in SUBSET Objects
  /\ upload \in Uploads \cup {None}

-----------------------------------------------------------------------------
(***************************************************************************)
(* The log the session keeps, as SealedLog sees it.                        *)
(***************************************************************************)
Chain == [i \in 1 .. nextSeq |-> (CHOOSE r \in RowAt(i - 1) : TRUE).entry.facts]

Log == INSTANCE SealedLog WITH log <- Chain, sealed <- manifest # None

\* The session keeps the promise of SealedLog: whatever the handlers, crashes
\* and redeployments, the stored chain only grows by one entry at its end and
\* not at all once a manifest is signed.
LogRefined == Log!Spec

(***************************************************************************)
(* Safety.                                                                 *)
(***************************************************************************)

\* The chain has no gap, no duplicate and no fork: the rows are numbered
\* 0..next_sequence-1, one row each, the genesis is capture_started, every
\* other row commits to the row before it and all are signed by the
\* session's key.  Each row was written by one of five handlers, some of
\* them interrupted or repeated (validate_entry and the handlers' commits).
ChainIntact ==
  /\ Seqs = 0 .. nextSeq - 1
  /\ \A q, r \in entries : q.entry.facts.seq = r.entry.facts.seq => q = r
  /\ \A r \in entries :
       /\ r.signer = key
       /\ IF r.entry.facts.seq = 0
          THEN r.entry.facts.type = "capture_started" /\ r.entry.previous = <<>>
          ELSE \E q \in RowAt(r.entry.facts.seq - 1) : LinkedTo(q, r.entry)

\* Between any two rows of one clock, however far apart and whatever clocks
\* come between them, time never runs backwards: the code only compares a
\* row with the latest row of its clock.
ClocksMonotone ==
  \A q, r \in entries :
    /\ q.entry.facts.clock = r.entry.facts.clock
    /\ q.entry.facts.seq <= r.entry.facts.seq
    => q.entry.facts.time <= r.entry.facts.time

Earlier(r) == {q \in receipts : q.seq < r.seq}

\* The latest of a set of receipts.
Latest(rs) == {r \in rs : \A q \in rs : q.seq <= r.seq}

\* Receipts form one chain that ends in last_receipt_hash and skips none,
\* although entries without receipts come in between; each receipt names a
\* stored chain entry by its hash and a stored part, and every part has one
\* (upload_part's single commit, after any number of crashes and retries).
ReceiptsLinked ==
  /\ \A r \in receipts :
       /\ \E row \in RowAt(r.seq) :
            /\ r.entry = EntryHash(row.entry)
            /\ row.entry.facts.data = PartData(r.artifact, r.part, r.hash)
       /\ \E p \in parts : PartData(p.artifact, p.part, p.hash)
                           = PartData(r.artifact, r.part, r.hash)
       /\ Earlier(r) = {} => r.previous = <<>>
       /\ \A q \in Latest(Earlier(r)) : r.previous = ReceiptHash(q)
  /\ \A p \in parts : \E r \in receipts :
       PartData(p.artifact, p.part, p.hash) = PartData(r.artifact, r.part, r.hash)
  /\ \A r \in Latest(receipts) : lastReceipt = ReceiptHash(r)
  /\ \A q, r \in receipts : q.seq = r.seq \/ (q.artifact = r.artifact /\ q.part = r.part)
                              => q = r

\* A receipt is only given for bytes the store holds, and no crash, retry or
\* conflicting upload ever puts other bytes beside them; so what was hashed
\* for a captured artifact can be read again at any later time.
ReceiptedBytesHeld ==
  mode = "remote" =>
    /\ \A p \in parts :
         Stored(p.artifact, p.part) =
           {[artifact |-> p.artifact, part |-> p.part, bytes |-> p.hash]}
    /\ \A x \in artifacts :
         x.status = "captured" => x.hash = StoredHash(x.artifact, x.parts)

\* The signed manifest describes the whole session, still: every entry, every
\* artifact, every part.  "complete" says that nothing is missing.
ManifestCoversSession ==
  manifest # None =>
    /\ manifest.count = nextSeq
    /\ \A r \in RowAt(nextSeq - 1) :
         r.entry.facts.type = "capture_finished" /\ manifest.root = EntryHash(r.entry)
    /\ manifest.artifacts = Inventory
    /\ \A p \in parts : \E x \in artifacts : x.artifact = p.artifact
    /\ \A x \in artifacts : x.status = "captured" =>
         NumbersOf(x.artifact) = 0 .. x.parts - 1
    /\ status = manifest.status
    /\ status = "complete" <=> /\ ~manifest.close.gaps
                               /\ \A x \in artifacts : x.status = "captured"

\* Once signed, the manifest and all it describes stay as they are: no later
\* or repeated request, not even an upload that was under way, reopens them.
SealedForever ==
  [][manifest # None => UNCHANGED <<session, tables>>]_vars

\* While the session takes requests, a client that lost an answer and sends
\* the identical request again is told it was done: never a conflict, never
\* a second row.  (declare_unavailable_artifact is not repeatable.)
RepetitionAnswered ==
  /\ Ready /\ Unlocked =>
       /\ \A r \in entries :
            r.key \in EventKeys => EventOutcome(r.key, r.entry, r.signer) = "already_recorded"
       /\ \A p \in parts : \E r \in entries :
            /\ r.key = EntryKey(p.key)
            /\ UploadOutcome(p.key, p.artifact, p.part, p.hash, r.entry, r.signer)
                 = "already_recorded"
       /\ \A x \in artifacts : x.status = "captured" =>
            \E r \in entries :
              /\ EntryHash(r.entry) = x.entry
              /\ CompleteOutcome(x.artifact, x.parts, x.hash, r.entry, r.signer)
                   = "already_completed"
  /\ manifest # None =>
       FinalizeOutcome(manifest.close, manifest.signer) = "already_finalized"

\* SPEC.md:1000, without the word "while": an identical repetition of an
\* event returns the previous result.
RepetitionReturnsPreviousResult ==
  \A r \in entries :
    r.key \in EventKeys => EventOutcome(r.key, r.entry, r.signer) = "already_recorded"

=============================================================================
