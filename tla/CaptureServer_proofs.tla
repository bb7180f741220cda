------------------------- MODULE CaptureServer_proofs -------------------------
(***************************************************************************)
(* Proofs about CaptureServer, for every value of its constants.           *)
(***************************************************************************)
EXTENDS CaptureServer, TLAPS

-----------------------------------------------------------------------------
(***************************************************************************)
(* What the requests and the rows are made of.                             *)
(***************************************************************************)
\* The hash of a well-typed entry is a sequence of facts.
LEMMA EntryHashType ==
  ASSUME NEW e \in Entry
  PROVE  EntryHash(e) \in Seq(Facts)
BY DEF EntryHash, Entry

\* Every request a client can build carries a well-typed entry of one of the
\* requested types.
LEMMA RequestedType ==
  ASSUME TypeOK, NEW types \in SUBSET EntryTypes, NEW e \in Requested(types)
  PROVE  /\ e \in Entry
         /\ e.facts.type \in types
         /\ e.facts.data \in DataOf(e.facts.type)
<1>0. PICK type \in types :
        \E l \in Links, d \in DataOf(type), clock \in Clocks, t \in 0 .. MaxTime :
          e = [facts |-> [seq |-> l.seq, type |-> type, data |-> d, clock |-> clock, time |-> t],
               previous |-> l.previous]
  BY DEF Requested
<1>1. PICK l \in Links, d \in DataOf(type), clock \in Clocks, t \in 0 .. MaxTime :
        e = [facts |-> [seq |-> l.seq, type |-> type, data |-> d, clock |-> clock, time |-> t],
             previous |-> l.previous]
  BY <1>0
<1>2. l.seq \in Nat /\ l.previous \in Seq(Facts)
  <2>1. CASE l = [seq |-> 0, previous |-> <<>>]
    BY <2>1
  <2>2. ASSUME NEW r \in entries,
               l = [seq |-> r.entry.facts.seq + 1, previous |-> EntryHash(r.entry)]
        PROVE  l.seq \in Nat /\ l.previous \in Seq(Facts)
    <3>1. r.entry \in Entry
      BY DEF TypeOK, Rows
    <3>2. r.entry.facts.seq \in Nat
      BY <3>1 DEF Entry, Facts
    <3>3. QED
      BY <2>2, <3>1, <3>2, EntryHashType
  <2>3. QED
    BY <2>1, <2>2 DEF Links
<1>3. d \in Data
  BY DEF Data
<1>4. QED
  BY <1>1, <1>2, <1>3 DEF Entry, Facts

\* The numbers of a row: its entry is well typed.
LEMMA RowType ==
  ASSUME TypeOK, NEW r \in entries
  PROVE  /\ r.entry \in Entry /\ r.key \in RowKeys /\ r.signer \in Keys
         /\ r.entry.facts \in Facts /\ r.entry.facts.seq \in Nat
BY DEF TypeOK, Rows, Entry, Facts

-----------------------------------------------------------------------------
(***************************************************************************)
(* Type correctness.                                                       *)
(***************************************************************************)
\* A row that a handler adds under one of its keys is well typed.
LEMMA AddEntryType ==
  ASSUME TypeOK, NEW k \in RowKeys, NEW e \in Entry, NEW signer \in Keys,
         AddEntry(k, e, signer)
  PROVE  entries' \in SUBSET Rows /\ nextSeq' \in Nat
BY DEF TypeOK, AddEntry, NewRow, Rows

\* The inventory lists what the artifact rows say.
LEMMA InventoryType ==
  ASSUME TypeOK
  PROVE  Inventory \in SUBSET Listed
BY DEF TypeOK, Inventory, Listed, ArtifactRows

\* Recording an incident leaves the tables TypeOK speaks of alone.
LEMMA IncidentKeepsType ==
  ASSUME TypeOK, RecordIncident
  PROVE  TypeOK'
BY BoundsAssumption DEF TypeOK, RecordIncident, session, tables

\* POST /events writes a well-typed row or an incident.
LEMMA CreateEventType ==
  ASSUME TypeOK, NEW e \in Entry, NEW k \in RowKeys, NEW signer \in Keys,
         CreateEvent(k, e, signer)
  PROVE  TypeOK'
<1>1. CASE EventOutcome(k, e, signer) = "recorded" /\ AddEntry(k, e, signer)
           /\ status' = "capturing"
           /\ UNCHANGED <<mode, key, lastReceipt, manifest, deployment, overdue,
                          parts, artifacts, receipts, incidents, objects, upload>>
  BY <1>1, AddEntryType DEF TypeOK
<1>2. CASE RecordIncident
  BY <1>2, IncidentKeepsType
<1>3. QED
  BY <1>1, <1>2 DEF CreateEvent

\* The first step of an upload writes a well-typed object and keeps a
\* well-typed upload, or records an incident.
LEMMA PutPartType ==
  ASSUME TypeOK, NEW e \in Entry, NEW k \in PartKeys, NEW signer \in Keys,
         NEW a \in Artifacts, NEW n \in PartNumbers, NEW c \in Contents,
         PutPart(k, a, n, c, e, signer)
  PROVE  TypeOK'
<1>1. ASSUME RecordIncident
      PROVE  TypeOK'
  BY <1>1, IncidentKeepsType
<1>2. CASE /\ UploadOutcome(k, a, n, c, e, signer) = "stored"
           /\ objects' = IF mode = "hash_only" THEN objects
                         ELSE objects \cup {[artifact |-> a, part |-> n, bytes |-> c]}
           /\ upload' = [key |-> k, artifact |-> a, part |-> n, hash |-> c,
                         entry |-> e, signer |-> signer]
           /\ UNCHANGED <<session, deployment, overdue, tables, incidents>>
  <2>1. objects' \in SUBSET Objects
    BY <1>2 DEF TypeOK, Objects
  <2>2. upload' \in Uploads
    BY <1>2 DEF Uploads
  <2>3. QED
    BY <1>2, <2>1, <2>2 DEF TypeOK, session, tables
<1>3. QED
  BY <1>1, <1>2 DEF PutPart

\* A receipt and its hash are well typed.
LEMMA ReceiptType ==
  ASSUME TypeOK, NEW u \in Uploads
  PROVE  NewReceipt(u) \in ReceiptRows /\ ReceiptHash(NewReceipt(u)) \in Seq(ReceiptFacts)
<1>1. EntryHash(u.entry) \in Seq(Facts)
  BY EntryHashType DEF Uploads
<1>2. NewReceipt(u) \in ReceiptRows
  BY <1>1 DEF NewReceipt, Uploads, ReceiptRows, TypeOK
<1>3. QED
  BY <1>2 DEF ReceiptHash, ReceiptRows, ReceiptFacts

\* The second step of an upload writes well-typed rows and a well-typed
\* receipt, or nothing.
LEMMA CommitPartType ==
  ASSUME TypeOK, CommitPart
  PROVE  TypeOK'
<1>0. upload \in Uploads
  BY DEF TypeOK, CommitPart
<1>1. CASE AddEntry(EntryKey(upload.key), upload.entry, upload.signer)
           /\ parts' = parts \cup {[artifact |-> upload.artifact, part |-> upload.part,
                                    hash |-> upload.hash, key |-> upload.key]}
           /\ receipts' = receipts \cup {NewReceipt(upload)}
           /\ lastReceipt' = ReceiptHash(NewReceipt(upload))
           /\ status' = "uploading"
           /\ upload' = None
           /\ UNCHANGED <<mode, key, manifest, deployment, overdue, artifacts,
                          incidents, objects>>
  <2>1. EntryKey(upload.key) \in RowKeys /\ upload.entry \in Entry /\ upload.signer \in Keys
    BY <1>0 DEF Uploads, RowKeys
  <2>2. parts' \in SUBSET PartRows
    BY <1>0, <1>1 DEF TypeOK, PartRows, Uploads
  <2>3. receipts' \in SUBSET ReceiptRows /\ lastReceipt' \in Seq(ReceiptFacts)
    BY <1>0, <1>1, ReceiptType DEF TypeOK
  <2>4. entries' \in SUBSET Rows /\ nextSeq' \in Nat
    BY <1>1, <2>1, AddEntryType
  <2>5. QED
    BY <1>1, <2>2, <2>3, <2>4 DEF TypeOK
<1>2. CASE upload' = None
           /\ UNCHANGED <<session, deployment, overdue, tables, incidents, objects>>
  BY <1>2 DEF TypeOK, session, tables
<1>3. QED
  BY <1>1, <1>2 DEF CommitPart

\* POST /complete writes a well-typed entry and result, or an incident.
LEMMA CompleteArtifactType ==
  ASSUME TypeOK, NEW e \in Entry, NEW a \in Artifacts, NEW count \in 0 .. MaxParts,
         NEW h \in Hashes, NEW signer \in Keys, CompleteArtifact(a, count, h, e, signer)
  PROVE  TypeOK'
<1>1. CASE AddEntry(CompleteKey(a), e, signer)
           /\ artifacts' = artifacts \cup {CapturedRow(a, count, h, e)}
           /\ status' = "capturing"
           /\ UNCHANGED <<mode, key, lastReceipt, manifest, deployment, overdue,
                          parts, receipts, incidents, objects, upload>>
  <2>1. CompleteKey(a) \in RowKeys
    BY DEF RowKeys
  <2>2. CapturedRow(a, count, h, e) \in ArtifactRows
    BY EntryHashType DEF CapturedRow, ArtifactRows, ArtifactStatuses
  <2>3. QED
    BY <1>1, <2>1, <2>2, AddEntryType DEF TypeOK
<1>2. CASE RecordIncident
  BY <1>2, IncidentKeepsType
<1>3. QED
  BY <1>1, <1>2 DEF CompleteArtifact

\* POST /unavailable writes a well-typed entry and result.
LEMMA DeclareUnavailableType ==
  ASSUME TypeOK, NEW e \in Entry, NEW a \in Artifacts, NEW st \in MissingStatuses,
         NEW signer \in Keys, DeclareUnavailable(a, st, e, signer)
  PROVE  TypeOK'
<1>1. UnavailableKey(a) \in RowKeys
  BY DEF RowKeys
<1>2. MissingRow(a, st, e) \in ArtifactRows
  BY EntryHashType, BoundsAssumption DEF MissingRow, ArtifactRows, ArtifactStatuses
<1>3. QED
  BY <1>1, <1>2, AddEntryType DEF TypeOK, DeclareUnavailable

\* The manifest that closes a session is well typed, so it is not null.
LEMMA ManifestType ==
  ASSUME TypeOK, NEW close \in Closes, NEW signer \in Keys,
         FinalizeOutcome(close, signer) = "finalized"
  PROVE  /\ FinalStatus(close) \in Closed
         /\ NewManifest(close, signer) \in Manifests
         /\ NewManifest(close, signer) # None
<1>1. Cardinality(entries) \in Nat \/ manifest # None
  BY DEF FinalizeOutcome, ValidClose, Closes
<1>2. Cardinality(entries) \in Nat
  BY <1>1 DEF FinalizeOutcome
<1>3. FinalStatus(close) \in Closed
  BY DEF FinalStatus, Closed
<1>4. NewManifest(close, signer) \in Manifests
  BY <1>2, <1>3, InventoryType DEF NewManifest, Manifests, Closes, Closed
<1>5. QED
  BY <1>3, <1>4, NoneAssumption

\* POST /finalize writes a well-typed manifest, or an incident.
LEMMA FinalizeSessionType ==
  ASSUME TypeOK, NEW close \in Closes, NEW signer \in Keys, FinalizeSession(close, signer)
  PROVE  TypeOK'
<1>1. CASE FinalizeOutcome(close, signer) = "finalized"
           /\ manifest' = NewManifest(close, signer)
           /\ status' = FinalStatus(close)
           /\ UNCHANGED <<mode, key, nextSeq, lastReceipt, deployment, overdue,
                          tables, incidents, objects, upload>>
  BY <1>1, ManifestType DEF TypeOK, tables
<1>2. CASE RecordIncident
  BY <1>2, IncidentKeepsType
<1>3. QED
  BY <1>1, <1>2 DEF FinalizeSession

\* A client closes with a well-typed declaration.
LEMMA CloseType ==
  ASSUME TypeOK, NEW r \in entries, NEW listed \in {Inventory, {}}, NEW gaps \in BOOLEAN
  PROVE  CloseAt(r, listed, gaps) \in Closes
<1>1. EntryHash(r.entry) \in Seq(Facts) /\ r.entry.facts.seq + 1 \in Nat
  BY RowType, EntryHashType
<1>2. listed \in SUBSET Listed
  BY InventoryType
<1>3. QED
  BY <1>1, <1>2 DEF CloseAt, Closes, TypeOK

-----------------------------------------------------------------------------
\* Every request of one signer keeps the types, whichever handler takes it.
LEMMA EntryRequestType ==
  ASSUME TypeOK, nextSeq < MaxEntries, NEW signer \in Keys, EntryRequest(signer)
  PROVE  TypeOK'
<1>1. ASSUME NEW e \in Requested(EventTypes),
             NEW k \in {EventKey(e.facts.seq)} \cup ChosenKeys \cup {r.key : r \in entries},
             CreateEvent(k, e, signer)
      PROVE  TypeOK'
  <2>1. e \in Entry
    BY RequestedType, SetsAssumption
  <2>2. EventKey(e.facts.seq) \in RowKeys
    BY <2>1 DEF Entry, Facts, RowKeys, EventKeys, EventKey
  <2>3. k \in RowKeys
    BY <1>1, <2>2, RowType, ChosenKeysAssumption
  <2>4. QED
    BY <1>1, <2>1, <2>3, CreateEventType
<1>2. ASSUME NEW e \in Requested({"artifact_part"}), NEW k \in PartKeys, NEW sent \in Contents,
             PutPart(k, e.facts.data.artifact, e.facts.data.part, sent, e, signer)
      PROVE  TypeOK'
  <2>1. e \in Entry /\ e.facts.data \in DataOf("artifact_part")
    BY RequestedType DEF EntryTypes
  <2>2. e.facts.data.artifact \in Artifacts /\ e.facts.data.part \in PartNumbers
    BY <2>1 DEF DataOf, PartData
  <2>3. QED
    BY <1>2, <2>1, <2>2, PutPartType
<1>3. ASSUME NEW e \in Requested({"artifact_completed"}), NEW count \in 1 .. MaxParts,
             CompleteArtifact(e.facts.data.artifact, count, e.facts.data.hash, e, signer)
      PROVE  TypeOK'
  <2>1. e \in Entry /\ e.facts.data \in DataOf("artifact_completed")
    BY RequestedType DEF EntryTypes
  <2>2. e.facts.data.artifact \in Artifacts /\ e.facts.data.hash \in Hashes
    BY <2>1 DEF DataOf, DoneData
  <2>3. count \in 0 .. MaxParts
    BY BoundsAssumption
  <2>4. QED
    BY <1>3, <2>1, <2>2, <2>3, CompleteArtifactType
<1>4. ASSUME NEW e \in Requested({"artifact_unavailable"}),
             DeclareUnavailable(e.facts.data.artifact, e.facts.data.status, e, signer)
      PROVE  TypeOK'
  <2>1. e \in Entry /\ e.facts.data \in DataOf("artifact_unavailable")
    BY RequestedType DEF EntryTypes
  <2>2. e.facts.data.artifact \in Artifacts /\ e.facts.data.status \in MissingStatuses
    BY <2>1 DEF DataOf, GoneData
  <2>3. QED
    BY <1>4, <2>1, <2>2, DeclareUnavailableType
<1>5. QED
  BY <1>1, <1>2, <1>3, <1>4 DEF EntryRequest

\* No step of the service or of its environment leaves the types.
LEMMA TypeStep ==
  ASSUME TypeOK, [Next]_vars
  PROVE  TypeOK'
<1>1. CASE CreateSession
  BY <1>1 DEF CreateSession, TypeOK, tables
<1>2. ASSUME NEW k \in Keys, RegisterKey(k)
      PROVE  TypeOK'
  BY <1>2 DEF RegisterKey, TypeOK, tables
<1>3. ASSUME NEW signer \in Keys, nextSeq < MaxEntries, EntryRequest(signer)
      PROVE  TypeOK'
  BY <1>3, EntryRequestType
<1>4. CASE CommitPart
  BY <1>4, CommitPartType
<1>5. ASSUME NEW signer \in Keys, NEW r \in entries, NEW listed \in {Inventory, {}},
             NEW gaps \in BOOLEAN, FinalizeSession(CloseAt(r, listed, gaps), signer)
      PROVE  TypeOK'
  BY <1>5, CloseType, FinalizeSessionType
<1>6. CASE Crash
  BY <1>6 DEF Crash, TypeOK, session, tables
<1>7. ASSUME NEW m \in Modes, Redeploy(m)
      PROVE  TypeOK'
  BY <1>7 DEF Redeploy, TypeOK, session, tables
<1>8. CASE BecomeOverdue
  BY <1>8 DEF BecomeOverdue, TypeOK, session, tables
<1>9. CASE UNCHANGED vars
  BY <1>9 DEF vars, TypeOK, session, tables
<1>10. QED
  BY <1>1, <1>2, <1>3, <1>4, <1>5, <1>6, <1>7, <1>8, <1>9 DEF Next

\* The service starts with nothing stored.
LEMMA InitType == ASSUME Init PROVE TypeOK
<1>1. /\ status \in {"absent"} /\ mode \in Modes /\ deployment \in Modes
      /\ key = None /\ overdue \in BOOLEAN /\ nextSeq \in Nat
      /\ manifest = None /\ upload = None
  BY DEF Init
<1>2. lastReceipt \in Seq(ReceiptFacts)
  BY DEF Init
<1>3. /\ entries = {} /\ parts = {} /\ artifacts = {} /\ receipts = {} /\ objects = {}
      /\ incidents \in 0 .. MaxIncidents
  BY BoundsAssumption DEF Init
<1>4. QED
  BY <1>1, <1>2, <1>3 DEF TypeOK

\* The columns of one session only ever hold what models.py declares for
\* them, through every request, crash and redeployment.
THEOREM TypeCorrect == Spec => []TypeOK
<1>1. Init => TypeOK
  BY InitType
<1>2. TypeOK /\ [Next]_vars => TypeOK'
  BY TypeStep
<1>3. QED
  BY <1>1, <1>2, PTL DEF Spec

-----------------------------------------------------------------------------
(***************************************************************************)
(* The chain.  ChainIntact alone is not inductive: an upload in its second *)
(* step adds an entry that was validated in the first one, so the entry    *)
(* has to be still valid; a key may be registered only before the first    *)
(* entry; and the comparison of times needs a latest row for each clock.   *)
(***************************************************************************)
KeyBeforeEntries ==
  /\ status \in {"absent", "created"} => key = None
  /\ key = None => entries = {}

ClosedByManifest == manifest # None <=> status \in Closed

UploadStillValid ==
  upload # None => ValidEntry(upload.entry, upload.signer) /\ status \notin Closed

LatestKnown == \A r \in entries : LatestOf(r.entry.facts.clock) # {}

ChainInv ==
  /\ TypeOK
  /\ ChainIntact
  /\ ClocksMonotone
  /\ KeyBeforeEntries
  /\ ClosedByManifest
  /\ UploadStillValid
  /\ LatestKnown

\* All rows lie below next_sequence.
LEMMA RowsBelow ==
  ASSUME TypeOK, ChainIntact, NEW r \in entries
  PROVE  r.entry.facts.seq \in 0 .. nextSeq - 1
BY DEF ChainIntact, Seqs

\* What AddEntry of a valid entry writes.
LEMMA NewRowFacts ==
  ASSUME TypeOK, ChainIntact, NEW k, NEW e \in Entry, NEW signer,
         ValidEntry(e, signer), AddEntry(k, e, signer)
  PROVE  /\ entries' = entries \cup {NewRow(k, e, signer)}
         /\ NewRow(k, e, signer).entry = e
         /\ NewRow(k, e, signer).signer = key
         /\ e.facts.seq = nextSeq
         /\ nextSeq \in Nat
         /\ nextSeq' = nextSeq + 1
         /\ e.facts.time \in Nat
         /\ \A r \in entries : r.entry.facts.seq \in 0 .. nextSeq - 1
BY RowsBelow, BoundsAssumption DEF NewRow, AddEntry, ValidEntry, TypeOK, Entry, Facts

\* A valid entry extends an intact chain to an intact chain.
LEMMA AddEntryKeepsChain ==
  ASSUME TypeOK, ChainIntact, NEW k, NEW e \in Entry, NEW signer,
         ValidEntry(e, signer), AddEntry(k, e, signer), key' = key
  PROVE  ChainIntact'
<1> DEFINE new == NewRow(k, e, signer)
<1>1. Seqs' = 0 .. nextSeq' - 1
  <2>1. Seqs' = Seqs \cup {nextSeq}
    BY NewRowFacts DEF Seqs
  <2>2. Seqs = 0 .. nextSeq - 1
    BY DEF ChainIntact
  <2>3. QED
    BY <2>1, <2>2, NewRowFacts
<1>2. \A q, r \in entries' : q.entry.facts.seq = r.entry.facts.seq => q = r
  <2>1. \A q, r \in entries : q.entry.facts.seq = r.entry.facts.seq => q = r
    BY DEF ChainIntact
  <2>2. \A r \in entries : r.entry.facts.seq # new.entry.facts.seq
    <3>1. nextSeq \in Nat /\ new.entry.facts.seq = nextSeq
      BY NewRowFacts
    <3>2. \A r \in entries : r.entry.facts.seq \in 0 .. nextSeq - 1
      BY RowsBelow
    <3>3. nextSeq \notin 0 .. nextSeq - 1
      BY <3>1
    <3>4. QED
      BY <3>1, <3>2, <3>3
  <2>3. QED
    BY <2>1, <2>2, NewRowFacts
<1>3. ASSUME NEW r \in entries'
      PROVE  /\ r.signer = key'
             /\ IF r.entry.facts.seq = 0
                THEN r.entry.facts.type = "capture_started" /\ r.entry.previous = <<>>
                ELSE \E q \in (RowAt(r.entry.facts.seq - 1))' : LinkedTo(q, r.entry)
  <2>1. \A n : RowAt(n) \subseteq (RowAt(n))'
    BY NewRowFacts DEF RowAt
  <2>2. CASE r \in entries
    BY <2>1, <2>2 DEF ChainIntact
  <2>3. CASE r = new
    BY <2>1, <2>3, NewRowFacts DEF ValidEntry
  <2>4. QED
    BY <2>2, <2>3, NewRowFacts
<1>4. QED
  BY <1>1, <1>2, <1>3 DEF ChainIntact

\* A valid entry is not earlier than any row of its clock, and becomes the
\* latest of them.
LEMMA AddEntryKeepsClocks ==
  ASSUME TypeOK, ChainIntact, ClocksMonotone, LatestKnown,
         NEW k, NEW e \in Entry, NEW signer,
         ValidEntry(e, signer), AddEntry(k, e, signer)
  PROVE  ClocksMonotone' /\ LatestKnown'
<1> DEFINE new == NewRow(k, e, signer)
<1>0. \A r \in entries : r.entry.facts.time \in Nat /\ r.entry.facts.seq \in Nat
  BY BoundsAssumption, RowType DEF Facts
<1>1. ASSUME NEW r \in entries, r.entry.facts.clock = e.facts.clock
      PROVE  r.entry.facts.time <= e.facts.time
  <2>1. PICK q \in LatestOf(e.facts.clock) : TRUE
    BY <1>1 DEF LatestKnown
  <2>2. q \in entries /\ q.entry.facts.time <= e.facts.time
    BY <2>1 DEF ValidEntry, LatestOf
  <2>3. r.entry.facts.seq <= q.entry.facts.seq /\ q.entry.facts.clock = e.facts.clock
    BY <1>1, <2>1 DEF LatestOf
  <2>4. r.entry.facts.time <= q.entry.facts.time
    BY <1>1, <2>2, <2>3 DEF ClocksMonotone
  <2>5. e.facts.time \in Nat /\ q.entry.facts.time \in Nat /\ r.entry.facts.time \in Nat
    BY <1>0, <2>2, NewRowFacts
  <2>6. QED
    BY <2>2, <2>4, <2>5
<1>2. ClocksMonotone'
  <2> SUFFICES ASSUME NEW q \in entries', NEW r \in entries',
                      q.entry.facts.clock = r.entry.facts.clock,
                      q.entry.facts.seq <= r.entry.facts.seq
               PROVE  q.entry.facts.time <= r.entry.facts.time
    BY DEF ClocksMonotone
  <2>1. CASE q \in entries /\ r \in entries
    BY <2>1 DEF ClocksMonotone
  <2>2. CASE q \in entries /\ r = new
    BY <1>1, <2>2, NewRowFacts
  <2>3. CASE q = new /\ r = new
    BY <2>3, NewRowFacts
  <2>4. CASE q = new /\ r \in entries
    BY <2>4, <1>0, NewRowFacts
  <2>5. QED
    BY <2>1, <2>2, <2>3, <2>4, NewRowFacts
<1>3. LatestKnown'
  <2> SUFFICES ASSUME NEW r \in entries'
               PROVE  (LatestOf(r.entry.facts.clock))' # {}
    BY DEF LatestKnown
  <2>1. CASE r.entry.facts.clock = e.facts.clock
    <3>1. new \in (LatestOf(r.entry.facts.clock))'
      BY <2>1, <1>0, NewRowFacts DEF LatestOf
    <3>2. QED
      BY <3>1
  <2>2. CASE r.entry.facts.clock # e.facts.clock
    <3>1. r \in entries
      BY <2>2, NewRowFacts
    <3>2. PICK q \in LatestOf(r.entry.facts.clock) : TRUE
      BY <3>1 DEF LatestKnown
    <3>3. q \in (LatestOf(r.entry.facts.clock))'
      BY <2>2, <3>2, NewRowFacts DEF LatestOf
    <3>4. QED
      BY <3>3
  <2>3. QED
    BY <2>1, <2>2
<1>4. QED
  BY <1>2, <1>3

-----------------------------------------------------------------------------
\* A step that touches neither the rows nor the key keeps the chain.
LEMMA RowsKept ==
  ASSUME ChainInv, UNCHANGED <<entries, nextSeq>>, key' = key
  PROVE  ChainIntact' /\ ClocksMonotone' /\ LatestKnown'
BY DEF ChainInv, ChainIntact, Seqs, RowAt, LinkedTo, EntryHash, ClocksMonotone, LatestKnown, LatestOf

\* ValidEntry looks at the rows and at three columns of the session only.
LEMMA ValidEntryKept ==
  ASSUME NEW e, NEW signer, ValidEntry(e, signer),
         UNCHANGED <<entries, nextSeq, key, mode>>
  PROVE  ValidEntry(e, signer)'
BY DEF ValidEntry, RowAt, LatestOf, LinkedTo, EntryHash

\* A step that touches neither the rows nor the columns a valid entry depends
\* on, and leaves the upload alone or drops it, keeps the whole invariant.
LEMMA StutterKeeps ==
  ASSUME ChainInv, TypeOK', UNCHANGED <<entries, nextSeq, key, mode, status, manifest>>,
         upload' \in {upload, None}
  PROVE  ChainInv'
<1>1. ChainIntact' /\ ClocksMonotone' /\ LatestKnown'
  BY RowsKept
<1>2. UploadStillValid'
  <2>1. CASE upload' = None
    BY <2>1 DEF UploadStillValid
  <2>2. CASE upload' = upload
    BY <2>2, ValidEntryKept DEF ChainInv, UploadStillValid
  <2>3. QED
    BY <2>1, <2>2
<1>3. KeyBeforeEntries' /\ ClosedByManifest'
  BY DEF ChainInv, KeyBeforeEntries, ClosedByManifest
<1>4. QED
  BY <1>1, <1>2, <1>3 DEF ChainInv

\* Recording a valid entry in an open, unlocked session keeps the invariant.
LEMMA RecordedKeeps ==
  ASSUME ChainInv, TypeOK', NEW k, NEW e \in Entry, NEW signer \in Keys,
         ValidEntry(e, signer), AddEntry(k, e, signer),
         status \notin Closed, status' \in {"capturing", "uploading"},
         UNCHANGED <<key, manifest>>, upload' = None
  PROVE  ChainInv'
<1>1. ChainIntact' /\ ClocksMonotone' /\ LatestKnown'
  BY AddEntryKeepsChain, AddEntryKeepsClocks DEF ChainInv
<1>2. KeyBeforeEntries'
  BY NoneAssumption DEF ValidEntry, KeyBeforeEntries
<1>3. ClosedByManifest'
  BY DEF ChainInv, ClosedByManifest, Closed
<1>4. UploadStillValid'
  BY DEF UploadStillValid
<1>5. QED
  BY <1>1, <1>2, <1>3, <1>4 DEF ChainInv

\* Recording an incident keeps the invariant.
LEMMA IncidentKeeps ==
  ASSUME ChainInv, TypeOK', RecordIncident
  PROVE  ChainInv'
BY StutterKeeps DEF RecordIncident, session, tables

\* POST /events keeps the invariant: what it records is a valid entry of an
\* open session whose row no upload holds.
LEMMA CreateEventKeeps ==
  ASSUME ChainInv, TypeOK', NEW e \in Entry, NEW k, NEW signer \in Keys,
         CreateEvent(k, e, signer)
  PROVE  ChainInv'
<1>1. CASE /\ EventOutcome(k, e, signer) = "recorded"
           /\ AddEntry(k, e, signer)
           /\ status' = "capturing"
           /\ UNCHANGED <<mode, key, lastReceipt, manifest, deployment, overdue,
                          parts, artifacts, receipts, incidents, objects, upload>>
  <2>1. status \notin Closed /\ ValidEntry(e, signer)
    BY <1>1 DEF EventOutcome, Ready
  <2>2. upload' = None
    BY <1>1 DEF CreateEvent, Unlocked
  <2>3. QED
    BY <1>1, <2>1, <2>2, RecordedKeeps
<1>2. CASE RecordIncident
  BY <1>2, IncidentKeeps
<1>3. QED
  BY <1>1, <1>2 DEF CreateEvent

\* The first step of an upload leaves a valid entry waiting.
LEMMA PutPartKeeps ==
  ASSUME ChainInv, TypeOK', NEW e, NEW k, NEW signer, NEW a, NEW n, NEW c,
         PutPart(k, a, n, c, e, signer)
  PROVE  ChainInv'
<1>1. ASSUME RecordIncident
      PROVE  ChainInv'
  BY <1>1, IncidentKeeps
<1>2. CASE /\ UploadOutcome(k, a, n, c, e, signer) = "stored"
           /\ upload' = [key |-> k, artifact |-> a, part |-> n, hash |-> c,
                         entry |-> e, signer |-> signer]
           /\ UNCHANGED <<session, deployment, overdue, tables, incidents>>
  <2>1. UNCHANGED <<entries, nextSeq, key, mode, status, manifest>>
    BY <1>2 DEF session, tables
  <2>2. status \notin Closed /\ ValidEntry(e, signer)
    BY <1>2 DEF UploadOutcome, Ready
  <2>3. UploadStillValid'
    BY <1>2, <2>1, <2>2, ValidEntryKept DEF UploadStillValid
  <2>4. ChainIntact' /\ ClocksMonotone' /\ LatestKnown'
    BY <2>1, RowsKept
  <2>5. KeyBeforeEntries' /\ ClosedByManifest'
    BY <2>1 DEF ChainInv, KeyBeforeEntries, ClosedByManifest
  <2>6. QED
    BY <2>3, <2>4, <2>5 DEF ChainInv
<1>3. QED
  BY <1>1, <1>2 DEF PutPart

\* The second step records the entry that was validated in the first.
LEMMA CommitPartKeeps ==
  ASSUME ChainInv, TypeOK', CommitPart
  PROVE  ChainInv'
<1>1. /\ upload \in Uploads /\ upload' = None
      /\ ValidEntry(upload.entry, upload.signer) /\ status \notin Closed
  BY DEF CommitPart, ChainInv, TypeOK, UploadStillValid
<1>2. CASE /\ AddEntry(EntryKey(upload.key), upload.entry, upload.signer)
           /\ status' = "uploading"
           /\ UNCHANGED <<key, manifest>>
  BY <1>1, <1>2, RecordedKeeps DEF Uploads
<1>3. CASE UNCHANGED <<session, deployment, overdue, tables, incidents, objects>>
  BY <1>1, <1>3, StutterKeeps DEF session, tables
<1>4. QED
  BY <1>2, <1>3 DEF CommitPart

\* POST /complete keeps the invariant, for the same reason.
LEMMA CompleteArtifactKeeps ==
  ASSUME ChainInv, TypeOK', NEW e \in Entry, NEW a, NEW count, NEW h, NEW signer \in Keys,
         CompleteArtifact(a, count, h, e, signer)
  PROVE  ChainInv'
<1>1. CASE /\ CompleteOutcome(a, count, h, e, signer) = "completed"
           /\ AddEntry(CompleteKey(a), e, signer)
           /\ status' = "capturing"
           /\ UNCHANGED <<key, manifest, upload>>
  <2>1. status \notin Closed /\ ValidEntry(e, signer)
    BY <1>1 DEF CompleteOutcome, Ready
  <2>2. upload' = None
    BY <1>1 DEF CompleteArtifact, Unlocked
  <2>3. QED
    BY <1>1, <2>1, <2>2, RecordedKeeps
<1>2. CASE RecordIncident
  BY <1>2, IncidentKeeps
<1>3. QED
  BY <1>1, <1>2 DEF CompleteArtifact

\* POST /unavailable keeps the invariant, for the same reason.
LEMMA DeclareUnavailableKeeps ==
  ASSUME ChainInv, TypeOK', NEW e \in Entry, NEW a, NEW st, NEW signer \in Keys,
         DeclareUnavailable(a, st, e, signer)
  PROVE  ChainInv'
<1>1. status \notin Closed /\ ValidEntry(e, signer)
  BY DEF DeclareUnavailable, UnavailableOutcome, Ready
<1>2. upload' = None
  BY DEF DeclareUnavailable, Unlocked
<1>3. QED
  BY <1>1, <1>2, RecordedKeeps DEF DeclareUnavailable

\* Closing signs a manifest exactly when it closes.
LEMMA FinalizeSessionKeeps ==
  ASSUME ChainInv, TypeOK', NEW close \in Closes, NEW signer \in Keys,
         FinalizeSession(close, signer)
  PROVE  ChainInv'
<1>1. CASE /\ FinalizeOutcome(close, signer) = "finalized"
           /\ manifest' = NewManifest(close, signer)
           /\ status' = FinalStatus(close)
           /\ UNCHANGED <<mode, key, nextSeq, lastReceipt, deployment, overdue,
                          tables, incidents, objects, upload>>
  <2>1. UNCHANGED <<entries, nextSeq, key>> /\ upload' = None
    BY <1>1 DEF tables, FinalizeSession, Unlocked
  <2>2. status' \in Closed
    BY <1>1 DEF FinalStatus, Closed
  <2>3. manifest' # None
    BY <1>1, ManifestType DEF ChainInv
  <2>4. ClosedByManifest' /\ UploadStillValid'
    BY <2>1, <2>2, <2>3 DEF ClosedByManifest, UploadStillValid
  <2>5. KeyBeforeEntries'
    BY <2>1, <2>2 DEF ChainInv, KeyBeforeEntries, Closed
  <2>6. QED
    BY <2>1, <2>4, <2>5, RowsKept DEF ChainInv
<1>2. CASE RecordIncident
  BY <1>2, IncidentKeeps
<1>3. QED
  BY <1>1, <1>2 DEF FinalizeSession

-----------------------------------------------------------------------------
\* So every request that carries an entry keeps the invariant.
LEMMA EntryRequestKeeps ==
  ASSUME ChainInv, TypeOK', NEW signer \in Keys, EntryRequest(signer)
  PROVE  ChainInv'
<1>0. TypeOK
  BY DEF ChainInv
<1>1. ASSUME NEW e \in Requested(EventTypes), NEW k, CreateEvent(k, e, signer)
      PROVE  ChainInv'
  BY <1>0, <1>1, RequestedType, SetsAssumption, CreateEventKeeps
<1>2. ASSUME NEW e \in Requested({"artifact_part"}), NEW k, NEW sent,
             PutPart(k, e.facts.data.artifact, e.facts.data.part, sent, e, signer)
      PROVE  ChainInv'
  BY <1>2, PutPartKeeps
<1>3. ASSUME NEW e \in Requested({"artifact_completed"}), NEW count,
             CompleteArtifact(e.facts.data.artifact, count, e.facts.data.hash, e, signer)
      PROVE  ChainInv'
  <2>1. e \in Entry
    BY <1>0, RequestedType DEF EntryTypes
  <2>2. QED
    BY <1>3, <2>1, CompleteArtifactKeeps
<1>4. ASSUME NEW e \in Requested({"artifact_unavailable"}),
             DeclareUnavailable(e.facts.data.artifact, e.facts.data.status, e, signer)
      PROVE  ChainInv'
  <2>1. e \in Entry
    BY <1>0, RequestedType DEF EntryTypes
  <2>2. QED
    BY <1>4, <2>1, DeclareUnavailableKeeps
<1>5. QED
  BY <1>1, <1>2, <1>3, <1>4 DEF EntryRequest

\* The invariant holds before the session exists.
LEMMA ChainInit == Init => ChainInv
<1> SUFFICES ASSUME Init PROVE ChainInv
  OBVIOUS
<1>1. TypeOK
  BY InitType
<1>2. entries = {} /\ nextSeq = 0 /\ status = "absent" /\ key = None
      /\ manifest = None /\ upload = None
  BY DEF Init
<1>3. ChainIntact
  <2>1. 0 .. 0 - 1 = {}
    OBVIOUS
  <2>2. QED
    BY <1>2, <2>1 DEF ChainIntact, Seqs
<1>4. ClocksMonotone /\ LatestKnown
  BY <1>2 DEF ClocksMonotone, LatestKnown
<1>5. KeyBeforeEntries /\ ClosedByManifest /\ UploadStillValid
  BY <1>2 DEF KeyBeforeEntries, ClosedByManifest, UploadStillValid, Closed
<1>6. QED
  BY <1>1, <1>3, <1>4, <1>5 DEF ChainInv

\* The invariant is inductive: no step of the service or of its environment
\* breaks it.
LEMMA ChainStep ==
  ASSUME ChainInv, [Next]_vars
  PROVE  ChainInv'
<1>0. TypeOK /\ TypeOK'
  BY TypeStep DEF ChainInv
<1>1. CASE CreateSession
  <2>1. status = "absent" /\ status' = "created" /\ UNCHANGED <<entries, nextSeq, key, manifest, upload>>
    BY <1>1 DEF CreateSession, tables
  <2>2. KeyBeforeEntries' /\ ClosedByManifest'
    BY <2>1 DEF ChainInv, KeyBeforeEntries, ClosedByManifest, Closed
  <2>3. UploadStillValid'
    <3>1. upload # None => upload.signer \in Keys
      BY <1>0 DEF TypeOK, Uploads
    <3>2. upload = None
      BY <2>1, <3>1, NoneAssumption
         DEF ChainInv, KeyBeforeEntries, UploadStillValid, ValidEntry
    <3>3. QED
      BY <2>1, <3>2 DEF UploadStillValid
  <2>4. QED
    BY <1>0, <2>1, <2>2, <2>3, RowsKept DEF ChainInv
<1>2. ASSUME NEW k \in Keys, RegisterKey(k)
      PROVE  ChainInv'
  <2>1. /\ status = "created" /\ status' = "key_registered"
        /\ key' \in Keys /\ entries' = entries /\ nextSeq' = nextSeq
        /\ manifest' = manifest /\ upload' = None
    BY <1>2 DEF RegisterKey, tables, Unlocked
  <2>2. entries = {}
    BY <2>1 DEF ChainInv, KeyBeforeEntries
  <2>3. ChainIntact' /\ ClocksMonotone' /\ LatestKnown'
    BY <2>1, <2>2 DEF ChainInv, ChainIntact, ClocksMonotone, LatestKnown, Seqs
  <2>4. KeyBeforeEntries' /\ ClosedByManifest' /\ UploadStillValid'
    BY <2>1, <2>2 DEF ChainInv, KeyBeforeEntries, ClosedByManifest, UploadStillValid, Closed
  <2>5. QED
    BY <1>0, <2>3, <2>4 DEF ChainInv
<1>3. ASSUME NEW signer \in Keys, EntryRequest(signer)
      PROVE  ChainInv'
  BY <1>0, <1>3, EntryRequestKeeps
<1>4. CASE CommitPart
  BY <1>0, <1>4, CommitPartKeeps
<1>5. ASSUME NEW signer \in Keys, NEW r \in entries, NEW listed \in {Inventory, {}},
             NEW gaps \in BOOLEAN, FinalizeSession(CloseAt(r, listed, gaps), signer)
      PROVE  ChainInv'
  BY <1>0, <1>5, CloseType, FinalizeSessionKeeps
<1>6. CASE Crash
  BY <1>0, <1>6, StutterKeeps DEF Crash, session, tables
<1>7. ASSUME NEW m \in Modes, Redeploy(m)
      PROVE  ChainInv'
  BY <1>0, <1>7, StutterKeeps DEF Redeploy, session, tables
<1>8. CASE BecomeOverdue
  BY <1>0, <1>8, StutterKeeps DEF BecomeOverdue, session, tables
<1>9. CASE UNCHANGED vars
  BY <1>0, <1>9, StutterKeeps DEF vars, session, tables
<1>10. QED
  BY <1>1, <1>2, <1>3, <1>4, <1>5, <1>6, <1>7, <1>8, <1>9 DEF Next

\* The inductive invariant of the session: in every reachable state the chain
\* is intact, its clocks are monotone, a closed session has its manifest, and
\* an upload under way still carries an entry that is valid when it commits.
THEOREM ChainInvariant == Spec => []ChainInv
<1>1. ChainInv /\ [Next]_vars => ChainInv'
  BY ChainStep
<1>2. QED
  BY <1>1, ChainInit, PTL DEF Spec

\* The stored chain of a session has no gap, fork or foreign signature,
\* however its requests, crashes and redeployments interleave.
THEOREM ChainAlwaysIntact == Spec => []ChainIntact
<1>1. ChainInv => ChainIntact
  BY DEF ChainInv
<1>2. QED
  BY <1>1, ChainInvariant, PTL

\* Within one clock the stored times never run backwards.
THEOREM ClocksNeverRunBack == Spec => []ClocksMonotone
<1>1. ChainInv => ClocksMonotone
  BY DEF ChainInv
<1>2. QED
  BY <1>1, ChainInvariant, PTL

-----------------------------------------------------------------------------
(***************************************************************************)
(* Sealing.                                                                *)
(***************************************************************************)
\* A session with a manifest refuses every request that would write an entry.
LEMMA SealedRefuses ==
  ASSUME ChainInv, manifest # None, NEW signer, EntryRequest(signer)
  PROVE  UNCHANGED <<session, tables>>
<1>1. ~Ready
  BY DEF ChainInv, ClosedByManifest, Ready
<1>2. ASSUME RecordIncident
      PROVE  UNCHANGED <<session, tables>>
  BY <1>2 DEF RecordIncident
<1>3. ASSUME NEW e, NEW k, CreateEvent(k, e, signer)
      PROVE  UNCHANGED <<session, tables>>
  BY <1>1, <1>2, <1>3 DEF CreateEvent, EventOutcome
<1>4. ASSUME NEW e, NEW k, NEW a, NEW n, NEW c, PutPart(k, a, n, c, e, signer)
      PROVE  UNCHANGED <<session, tables>>
  BY <1>1, <1>2, <1>4 DEF PutPart, UploadOutcome
<1>5. ASSUME NEW e, NEW a, NEW count, NEW h, CompleteArtifact(a, count, h, e, signer)
      PROVE  UNCHANGED <<session, tables>>
  BY <1>1, <1>2, <1>5 DEF CompleteArtifact, CompleteOutcome
<1>6. ASSUME NEW e, NEW a, NEW st
      PROVE  ~DeclareUnavailable(a, st, e, signer)
  BY <1>1 DEF DeclareUnavailable, UnavailableOutcome
<1>7. QED
  BY <1>3, <1>4, <1>5, <1>6 DEF EntryRequest

\* No step of an invariant state changes a session that has its manifest.
LEMMA SealedStep ==
  ASSUME ChainInv, [Next]_vars, manifest # None
  PROVE  UNCHANGED <<session, tables>>
<1>0. status \in Closed /\ upload = None
  BY DEF ChainInv, ClosedByManifest, UploadStillValid
<1>1. CASE CreateSession \/ \E k \in Keys : RegisterKey(k)
  BY <1>0, <1>1 DEF CreateSession, RegisterKey, Closed
<1>2. CASE \E signer \in Keys : EntryRequest(signer)
  BY <1>2, SealedRefuses
<1>3. CASE CommitPart \/ Crash
  BY <1>0, <1>3 DEF CommitPart, Crash
<1>4. ASSUME NEW close, NEW signer, FinalizeSession(close, signer)
      PROVE  UNCHANGED <<session, tables>>
  BY <1>4 DEF FinalizeSession, FinalizeOutcome, RecordIncident
<1>5. CASE \E m \in Modes : Redeploy(m)
  BY <1>5 DEF Redeploy
<1>6. CASE BecomeOverdue
  BY <1>6 DEF BecomeOverdue
<1>7. CASE UNCHANGED vars
  BY <1>7 DEF vars
<1>8. QED
  BY <1>1, <1>2, <1>3, <1>4, <1>5, <1>6, <1>7 DEF Next

\* Once a manifest is signed, no later request, repeated request or pending
\* upload changes what it describes.
THEOREM SealedOnce == Spec => SealedForever
<1>1. ChainInv /\ [Next]_vars => [manifest # None => UNCHANGED <<session, tables>>]_vars
  BY SealedStep
<1>2. QED
  BY <1>1, ChainInvariant, PTL DEF Spec, SealedForever

-----------------------------------------------------------------------------
(***************************************************************************)
(* Refinement of SealedLog: every step of the service leaves the log       *)
(* alone, extends it or seals it.                                          *)
(***************************************************************************)
\* The log is the facts of the rows in order of their numbers.
LEMMA ChainValues ==
  ASSUME TypeOK, ChainIntact
  PROVE  /\ Chain \in Seq(Facts)
         /\ Len(Chain) = nextSeq
         /\ \A i \in 1 .. nextSeq : \E r \in RowAt(i - 1) : Chain[i] = r.entry.facts
<1>1. nextSeq \in Nat
  BY DEF TypeOK
<1>2. ASSUME NEW i \in 1 .. nextSeq
      PROVE  /\ (CHOOSE r \in RowAt(i - 1) : TRUE) \in RowAt(i - 1)
             /\ (CHOOSE r \in RowAt(i - 1) : TRUE).entry.facts \in Facts
  <2>1. i - 1 \in 0 .. nextSeq - 1
    BY <1>1
  <2>2. \E r \in entries : r.entry.facts.seq = i - 1
    BY <2>1 DEF ChainIntact, Seqs
  <2>3. RowAt(i - 1) # {}
    BY <2>2 DEF RowAt
  <2>4. (CHOOSE r \in RowAt(i - 1) : TRUE) \in RowAt(i - 1)
    BY <2>3
  <2>5. QED
    BY <2>4, RowType DEF RowAt
<1>3. Chain \in [1 .. nextSeq -> Facts]
  BY <1>2 DEF Chain
<1>4. Chain \in Seq(Facts) /\ Len(Chain) = nextSeq
  BY <1>1, <1>3
<1>5. QED
  BY <1>2, <1>4 DEF Chain

\* The new row comes after all rows of the log so far.
LEMMA ChainExtended ==
  ASSUME TypeOK, ChainIntact,
         NEW k, NEW e \in Entry, NEW signer, ValidEntry(e, signer), AddEntry(k, e, signer)
  PROVE  Len(Chain') = Len(Chain) + 1 /\ SubSeq(Chain', 1, Len(Chain)) = Chain
<1> DEFINE new     == NewRow(k, e, signer)
           rows(n) == {r \in entries' : r.entry.facts.seq = n}
           first(s) == (CHOOSE r \in s : TRUE).entry.facts
           before  == [i \in 1 .. nextSeq |-> first(RowAt(i - 1))]
           after   == [i \in 1 .. nextSeq + 1 |-> first(rows(i - 1))]
<1>1. /\ Chain \in Seq(Facts) /\ Len(Chain) = nextSeq /\ nextSeq \in Nat
      /\ nextSeq' = nextSeq + 1 /\ e.facts \in Facts
  BY ChainValues, NewRowFacts DEF Entry
<1>2. Chain = before /\ Chain' = after
  BY <1>1 DEF Chain, RowAt
<1>0. /\ entries' = entries \cup {new}
      /\ new.entry = e /\ e.facts.seq = nextSeq
  BY NewRowFacts
<1>3. ASSUME NEW i \in 1 .. nextSeq
      PROVE  after[i] = Chain[i]
  <2>1. rows(i - 1) = RowAt(i - 1)
    <3>1. i - 1 # nextSeq
      BY <1>1
    <3>2. QED
      BY <3>1, <1>0 DEF RowAt
  <2>2. first(rows(i - 1)) = first(RowAt(i - 1))
    BY <2>1
  <2>3. after[i] = first(rows(i - 1)) /\ before[i] = first(RowAt(i - 1))
    <3> HIDE DEF first, rows
    <3> QED
      BY <1>1
  <2>4. QED
    BY <1>2, <2>2, <2>3
<1>4. after[nextSeq + 1] = e.facts
  <2>1. nextSeq \notin 0 .. nextSeq - 1
    BY <1>1
  <2>2. \A r \in entries : r.entry.facts.seq # nextSeq
    BY <2>1, RowsBelow
  <2>3. rows(nextSeq) = {new}
    BY <2>2, <1>0
  <2>4. first(rows(nextSeq)) = e.facts
    BY <2>3, <1>0
  <2>5. nextSeq + 1 \in 1 .. nextSeq + 1 /\ (nextSeq + 1) - 1 = nextSeq
    BY <1>1
  <2>6. after[nextSeq + 1] = first(rows(nextSeq))
    <3> HIDE DEF first, rows
    <3> QED
      BY <2>5
  <2>7. QED
    BY <2>4, <2>6
<1>5. after = Append(Chain, e.facts)
  <2> HIDE DEF before, after
  <2>1. \A i \in 1 .. nextSeq + 1 : after[i] = Append(Chain, e.facts)[i]
    BY <1>1, <1>3, <1>4
  <2>2. after = [i \in 1 .. nextSeq + 1 |-> after[i]]
    BY DEF after
  <2>3. QED
    BY <1>1, <2>1, <2>2
<1> HIDE DEF before, after
<1>6. QED
  BY <1>1, <1>2, <1>5

\* What a step may do to the log.
LogKept == UNCHANGED <<entries, nextSeq, manifest>>

LogGrows ==
  /\ manifest = None /\ manifest' = None
  /\ \E k, e, signer : e \in Entry /\ ValidEntry(e, signer) /\ AddEntry(k, e, signer)

LogSealed ==
  /\ manifest = None /\ manifest' # None
  /\ entries # {}
  /\ UNCHANGED <<entries, nextSeq>>

\* Recording an incident does not change the log.
LEMMA IncidentKeepsLog ==
  ASSUME RecordIncident
  PROVE  LogKept
BY DEF RecordIncident, LogKept, session, tables

\* A request that carries an entry adds it to the rows or leaves them alone.
LEMMA EntryRequestLog ==
  ASSUME ChainInv, NEW signer \in Keys, EntryRequest(signer)
  PROVE  LogKept \/ LogGrows
<1>0. TypeOK /\ (Ready => manifest = None)
  BY DEF ChainInv, ClosedByManifest, Ready
<1>1. ASSUME NEW e \in Requested(EventTypes), NEW k, CreateEvent(k, e, signer)
      PROVE  LogKept \/ LogGrows
  <2>1. e \in Entry
    BY <1>0, RequestedType, SetsAssumption
  <2>2. QED
    BY <1>0, <1>1, <2>1, IncidentKeepsLog DEF CreateEvent, EventOutcome, LogGrows
<1>2. ASSUME NEW e, NEW k, NEW a, NEW n, NEW c, PutPart(k, a, n, c, e, signer)
      PROVE  LogKept
  BY <1>2, IncidentKeepsLog DEF PutPart, LogKept, session, tables
<1>3. ASSUME NEW e \in Requested({"artifact_completed"}), NEW a, NEW count, NEW h,
             CompleteArtifact(a, count, h, e, signer)
      PROVE  LogKept \/ LogGrows
  <2>1. e \in Entry
    BY <1>0, RequestedType DEF EntryTypes
  <2>2. QED
    BY <1>0, <1>3, <2>1, IncidentKeepsLog DEF CompleteArtifact, CompleteOutcome, LogGrows
<1>4. ASSUME NEW e \in Requested({"artifact_unavailable"}), NEW a, NEW st,
             DeclareUnavailable(a, st, e, signer)
      PROVE  LogGrows
  <2>1. e \in Entry
    BY <1>0, RequestedType DEF EntryTypes
  <2>2. QED
    BY <1>0, <1>4, <2>1 DEF DeclareUnavailable, UnavailableOutcome, LogGrows
<1>5. QED
  BY <1>1, <1>2, <1>3, <1>4 DEF EntryRequest

\* The upload's second step adds its entry or nothing.
LEMMA CommitPartLog ==
  ASSUME ChainInv, CommitPart
  PROVE  LogKept \/ LogGrows
<1>1. /\ upload \in Uploads /\ manifest = None
      /\ ValidEntry(upload.entry, upload.signer)
  BY DEF CommitPart, ChainInv, TypeOK, UploadStillValid, ClosedByManifest
<1>2. CASE AddEntry(EntryKey(upload.key), upload.entry, upload.signer) /\ manifest' = manifest
  BY <1>1, <1>2 DEF LogGrows, Uploads
<1>3. CASE UNCHANGED <<session, deployment, overdue, tables, incidents, objects>>
  BY <1>3 DEF LogKept, session, tables
<1>4. QED
  BY <1>2, <1>3 DEF CommitPart

\* Every step keeps the rows, adds one, or signs the manifest.
LEMMA LogStep ==
  ASSUME ChainInv, [Next]_vars
  PROVE  LogKept \/ LogGrows \/ LogSealed
<1>1. CASE CreateSession \/ (\E k \in Keys : RegisterKey(k))
  BY <1>1 DEF CreateSession, RegisterKey, LogKept, tables
<1>2. CASE \E signer \in Keys : EntryRequest(signer)
  BY <1>2, EntryRequestLog
<1>3. CASE CommitPart
  BY <1>3, CommitPartLog
<1>4. ASSUME NEW signer \in Keys, NEW close \in Closes, FinalizeSession(close, signer)
      PROVE  LogKept \/ LogSealed
  <2>1. CASE /\ FinalizeOutcome(close, signer) = "finalized"
             /\ manifest' = NewManifest(close, signer)
             /\ status' = FinalStatus(close)
             /\ UNCHANGED <<nextSeq, tables>>
    <3>1. manifest = None /\ entries # {}
      BY <2>1 DEF FinalizeOutcome, ValidClose
    <3>2. manifest' # None
      BY <2>1, <1>4, ManifestType DEF ChainInv
    <3>3. QED
      BY <2>1, <3>1, <3>2 DEF LogSealed, tables
  <2>2. CASE RecordIncident
    BY <2>2, IncidentKeepsLog
  <2>3. QED
    BY <1>4, <2>1, <2>2 DEF FinalizeSession
<1>5. CASE Crash \/ BecomeOverdue \/ (\E m \in Modes : Redeploy(m))
  BY <1>5 DEF Crash, BecomeOverdue, Redeploy, LogKept, session, tables
<1>6. CASE UNCHANGED vars
  BY <1>6 DEF vars, LogKept, session, tables
<1>7. QED
  BY <1>1, <1>2, <1>3, <1>4, <1>5, <1>6, CloseType DEF Next, ChainInv

\* Seen through the refinement mapping, such a step is a step of SealedLog or
\* a stutter.
LEMMA LogStepRefined ==
  ASSUME ChainInv, ChainInv', LogKept \/ LogGrows \/ LogSealed
  PROVE  [Log!Extend \/ Log!Seal]_<<Chain, manifest # None>>
<1>0. TypeOK /\ ChainIntact /\ TypeOK' /\ ChainIntact'
  BY DEF ChainInv
<1>1. CASE LogKept
  BY <1>1 DEF LogKept, Chain, RowAt
<1>2. CASE LogGrows
  BY <1>0, <1>2, ChainExtended DEF LogGrows, Log!Extend
<1>3. CASE LogSealed
  <2>1. Chain' = Chain
    BY <1>3 DEF LogSealed, Chain, RowAt
  <2>2. nextSeq # 0
    BY <1>0, <1>3, RowsBelow DEF LogSealed, TypeOK
  <2>3. Chain # <<>>
    BY <1>0, <2>2, ChainValues
  <2>4. QED
    BY <1>3, <2>1, <2>3 DEF LogSealed, Log!Seal
<1>4. QED
  BY <1>1, <1>2, <1>3

\* The service implements the abstract log: entries are only ever appended,
\* and a signed manifest ends that for good.
THEOREM LogImplemented == Spec => LogRefined
<1>1. Init => Log!Init
  <2> SUFFICES ASSUME Init PROVE Log!Init
    OBVIOUS
  <2>1. nextSeq = 0 /\ manifest = None
    BY DEF Init
  <2>2. TypeOK /\ ChainIntact
    BY ChainInit DEF ChainInv
  <2>3. Chain = <<>>
    BY <2>1, <2>2, ChainValues
  <2>4. QED
    BY <2>1, <2>3 DEF Log!Init
<1>2. ChainInv /\ ChainInv' /\ [Next]_vars => [Log!Extend \/ Log!Seal]_<<Chain, manifest # None>>
  BY LogStep, LogStepRefined
<1>3. QED
  BY <1>1, <1>2, ChainInvariant, PTL DEF Spec, LogRefined, Log!Spec

-----------------------------------------------------------------------------
(***************************************************************************)
(* The evidence: parts, their bytes, their receipts, the results and the   *)
(* manifest.  The proofs rest on the invariant of the chain.  An upload    *)
(* waits with its bytes stored under the name its entry gives them, no     *)
(* name has two contents, and what is recorded of a part or of a result is *)
(* recorded in the chain as well.                                          *)
(***************************************************************************)
PartObject(p) == [artifact |-> p.artifact, part |-> p.part, bytes |-> p.hash]

UploadPrepared ==
  upload # None =>
    /\ upload.entry.facts.data = PartData(upload.artifact, upload.part, upload.hash)
    /\ mode = "remote" => PartObject(upload) \in objects

OneContent == \A o, q \in objects : o.artifact = q.artifact /\ o.part = q.part => o = q

PartsHeld == mode = "remote" => \A p \in parts : PartObject(p) \in objects

PartsRecorded ==
  \A p \in parts : \E r \in entries :
    r.key = EntryKey(p.key) /\ \E x \in receipts : x.seq = r.entry.facts.seq

FirstReceipt == receipts = {} => lastReceipt = <<>>

OneResult == \A x, y \in artifacts : x.artifact = y.artifact => x = y

ResultsRecorded ==
  \A x \in artifacts : x.status = "captured" =>
    /\ \E r \in entries : EntryHash(r.entry) = x.entry
    /\ \A i \in 0 .. x.parts - 1 : \E p \in parts : p.artifact = x.artifact /\ p.part = i
    /\ mode = "remote" => x.hash = StoredHash(x.artifact, x.parts)

Evidence ==
  /\ UploadPrepared /\ OneContent /\ PartsHeld /\ PartsRecorded
  /\ FirstReceipt /\ ReceiptsLinked /\ OneResult /\ ResultsRecorded

\* A step that leaves the tables and the store alone, and the upload or drops it.
LEMMA EvidenceUntouched ==
  ASSUME Evidence, UNCHANGED <<tables, lastReceipt, mode, objects>>, upload' \in {upload, None}
  PROVE  Evidence'
<1>1. \A n : RowAt(n)' = RowAt(n)
  BY DEF RowAt, tables
<1>2. \A r : Earlier(r)' = Earlier(r)
  BY DEF Earlier, tables
<1>3. ReceiptsLinked'
  BY <1>1, <1>2 DEF Evidence, ReceiptsLinked, Latest, tables
<1>4. \A a, n : StoredHash(a, n)' = StoredHash(a, n)
  BY DEF StoredHash, Stored
<1>5. ResultsRecorded'
  BY <1>4 DEF Evidence, ResultsRecorded, tables
<1>6. UploadPrepared' /\ OneContent' /\ PartsHeld' /\ PartsRecorded' /\ FirstReceipt' /\ OneResult'
  BY DEF Evidence, UploadPrepared, OneContent, PartsHeld, PartsRecorded, FirstReceipt, OneResult,
         PartObject, tables
<1>7. QED
  BY <1>3, <1>5, <1>6 DEF Evidence

\* An incident leaves the evidence alone.
LEMMA IncidentEvidence ==
  ASSUME Evidence, RecordIncident
  PROVE  Evidence'
BY EvidenceUntouched DEF RecordIncident, session

\* An entry that is recorded by itself, or with the result of an artifact.
LEMMA RecordedEvidence ==
  ASSUME Evidence, NEW k, NEW e, NEW signer, AddEntry(k, e, signer),
         UNCHANGED <<parts, receipts, lastReceipt, mode, objects>>, upload' = None,
         \/ artifacts' = artifacts
         \/ \E x : /\ NoResult(x.artifact) /\ artifacts' = artifacts \cup {x}
                   /\ x.status = "captured" =>
                        /\ EntryHash(e) = x.entry
                        /\ \A i \in 0 .. x.parts - 1 : i \in NumbersOf(x.artifact)
                        /\ mode = "remote" => x.hash = StoredHash(x.artifact, x.parts)
  PROVE  Evidence'
<1>1. entries \subseteq entries' /\ \A n : RowAt(n) \subseteq RowAt(n)'
  BY DEF AddEntry, RowAt
<1>2. \A r : Earlier(r)' = Earlier(r)
  BY DEF Earlier
<1>3. ReceiptsLinked'
  BY <1>1, <1>2 DEF Evidence, ReceiptsLinked, Latest
<1>4. PartsRecorded'
  BY <1>1 DEF Evidence, PartsRecorded
<1>5. UploadPrepared' /\ OneContent' /\ PartsHeld' /\ FirstReceipt'
  BY DEF Evidence, UploadPrepared, OneContent, PartsHeld, FirstReceipt, PartObject
<1>6. \A a, n : StoredHash(a, n)' = StoredHash(a, n)
  BY DEF StoredHash, Stored
<1>7. OneResult' /\ ResultsRecorded'
  <2>1. CASE artifacts' = artifacts
    BY <1>1, <1>6, <2>1 DEF Evidence, OneResult, ResultsRecorded
  <2>2. ASSUME NEW x, NoResult(x.artifact), artifacts' = artifacts \cup {x},
               x.status = "captured" =>
                 /\ EntryHash(e) = x.entry
                 /\ \A i \in 0 .. x.parts - 1 : i \in NumbersOf(x.artifact)
                 /\ mode = "remote" => x.hash = StoredHash(x.artifact, x.parts)
        PROVE  OneResult' /\ ResultsRecorded'
    <3>1. OneResult'
      BY <2>2 DEF Evidence, OneResult, NoResult
    <3>2. x.status = "captured" => \E r \in entries' : EntryHash(r.entry) = x.entry
      <4>1. NewRow(k, e, signer) \in entries' /\ NewRow(k, e, signer).entry = e
        BY DEF AddEntry, NewRow
      <4>2. QED
        BY <2>2, <4>1
    <3>3. \A i \in NumbersOf(x.artifact) : \E p \in parts : p.artifact = x.artifact /\ p.part = i
      BY DEF NumbersOf, PartsOf
    <3>4. \A y \in artifacts : y.status = "captured" =>
            /\ \E r \in entries' : EntryHash(r.entry) = y.entry
            /\ \A i \in 0 .. y.parts - 1 : \E p \in parts : p.artifact = y.artifact /\ p.part = i
            /\ mode = "remote" => y.hash = StoredHash(y.artifact, y.parts)
      BY <1>1 DEF Evidence, ResultsRecorded
    <3>5. ResultsRecorded'
      BY <1>6, <2>2, <3>2, <3>3, <3>4 DEF ResultsRecorded, EntryHash
    <3>6. QED
      BY <3>1, <3>5
  <2>3. QED
    BY <2>1, <2>2
<1>8. QED
  BY <1>3, <1>4, <1>5, <1>7 DEF Evidence

\* Bytes stored under a name that holds no others change no hash that was
\* read back.
LEMMA StoredHashKept ==
  ASSUME TypeOK, OneContent, NEW a \in Artifacts, NEW n \in PartNumbers, NEW c \in Contents,
         \A o \in Stored(a, n) : o.bytes = c,
         objects' = objects \cup {[artifact |-> a, part |-> n, bytes |-> c]},
         NEW b, NEW count, count \in Nat, \A i \in 0 .. count - 1 : Stored(b, i) # {}
  PROVE  StoredHash(b, count)' = StoredHash(b, count)
<1> DEFINE new == [artifact |-> a, part |-> n, bytes |-> c]
           first(s) == (CHOOSE o \in s : TRUE).bytes
<1>1. ASSUME NEW i \in 1 .. count
      PROVE  Stored(b, i - 1)' = Stored(b, i - 1)
  <2>1. i - 1 \in 0 .. count - 1
    OBVIOUS
  <2>2. PICK o \in objects : o.artifact = b /\ o.part = i - 1
    BY <2>1 DEF Stored
  <2>3. b = a /\ i - 1 = n => o = new
    BY <2>2 DEF Stored, TypeOK, Objects
  <2>4. QED
    BY <2>2, <2>3 DEF Stored
<1>2. /\ StoredHash(b, count) = [i \in 1 .. count |-> first(Stored(b, i - 1))]
      /\ StoredHash(b, count)' = [i \in 1 .. count |-> first(Stored(b, i - 1)')]
  BY DEF StoredHash
<1> HIDE DEF first
<1>3. QED
  BY <1>1, <1>2

\* The first step of an upload stores its bytes where there are none or the
\* same, and waits with what its entry says.
LEMMA PutPartEvidence ==
  ASSUME TypeOK, Evidence, NEW e, NEW k, NEW signer,
         NEW a \in Artifacts, NEW n \in PartNumbers, NEW c \in Contents,
         PutPart(k, a, n, c, e, signer)
  PROVE  Evidence'
<1> DEFINE new == [artifact |-> a, part |-> n, bytes |-> c]
<1>1. ASSUME RecordIncident
      PROVE  Evidence'
  BY <1>1, IncidentEvidence
<1>2. CASE /\ UploadOutcome(k, a, n, c, e, signer) = "stored"
           /\ objects' = IF mode = "hash_only" THEN objects ELSE objects \cup {new}
           /\ upload' = [key |-> k, artifact |-> a, part |-> n, hash |-> c,
                         entry |-> e, signer |-> signer]
           /\ UNCHANGED <<session, deployment, overdue, tables, incidents>>
  <2>1. /\ e.facts.data = PartData(a, n, c)
        /\ mode = "remote" => \A o \in Stored(a, n) : o.bytes = c
        /\ mode \in {"remote", "hash_only"}
    BY <1>2, SetsAssumption DEF UploadOutcome, StoreRefuses, TypeOK
  <2>2. UNCHANGED <<tables, lastReceipt, mode>>
    BY <1>2 DEF session
  <2>3. CASE mode = "hash_only"
    <3>1. objects' = objects
      BY <1>2, <2>3
    <3>2. upload = None
      BY DEF PutPart, Unlocked
    <3>3. UploadPrepared'
      BY <1>2, <2>1, <2>2, <2>3 DEF UploadPrepared
    <3>4. \A m : RowAt(m)' = RowAt(m)
      BY <2>2 DEF RowAt, tables
    <3>5. \A r : Earlier(r)' = Earlier(r)
      BY <2>2 DEF Earlier, tables
    <3>6. ReceiptsLinked'
      BY <2>2, <3>4, <3>5 DEF Evidence, ReceiptsLinked, Latest, tables
    <3>7. OneContent' /\ PartsHeld' /\ PartsRecorded' /\ FirstReceipt' /\ OneResult' /\ ResultsRecorded'
      BY <2>2, <2>3, <3>1 DEF Evidence, OneContent, PartsHeld, PartsRecorded, FirstReceipt, OneResult,
         ResultsRecorded, PartObject, tables
    <3>8. QED
      BY <3>3, <3>6, <3>7 DEF Evidence
  <2>4. CASE mode = "remote"
    <3>1. objects' = objects \cup {new}
      BY <1>2, <2>4
    <3>2. UploadPrepared'
      BY <1>2, <2>1, <2>2, <3>1 DEF UploadPrepared, PartObject
    <3>3. OneContent'
      <4>1. \A o \in objects : o.artifact = a /\ o.part = n => o = new
        BY <2>1, <2>4 DEF Stored, TypeOK, Objects
      <4>2. QED
        BY <3>1, <4>1 DEF Evidence, OneContent
    <3>4. PartsHeld' /\ PartsRecorded' /\ FirstReceipt' /\ OneResult'
      BY <2>2, <3>1 DEF Evidence, PartsHeld, PartsRecorded, FirstReceipt, OneResult, PartObject, tables
    <3>5. \A m : RowAt(m)' = RowAt(m)
      BY <2>2 DEF RowAt, tables
    <3>6. \A r : Earlier(r)' = Earlier(r)
      BY <2>2 DEF Earlier, tables
    <3>7. ReceiptsLinked'
      BY <2>2, <3>5, <3>6 DEF Evidence, ReceiptsLinked, Latest, tables
    <3>8. ASSUME NEW x \in artifacts, x.status = "captured"
          PROVE  StoredHash(x.artifact, x.parts)' = StoredHash(x.artifact, x.parts)
      <4>1. PICK b \in Artifacts, count \in Nat : b = x.artifact /\ count = x.parts
        <5>1. x \in ArtifactRows
          BY DEF TypeOK
        <5>2. x.artifact \in Artifacts /\ x.parts \in Nat
          BY <5>1, BoundsAssumption DEF ArtifactRows
        <5>3. QED
          BY <5>2
      <4>2. ASSUME NEW i \in 0 .. count - 1
            PROVE  Stored(b, i) # {}
        <5>1. PICK p \in parts : p.artifact = b /\ p.part = i
          BY <3>8, <4>1 DEF Evidence, ResultsRecorded
        <5>2. PartObject(p) \in Stored(b, i)
          BY <2>4, <5>1 DEF Evidence, PartsHeld, PartObject, Stored
        <5>3. QED
          BY <5>2
      <4>3. StoredHash(b, count)' = StoredHash(b, count)
        BY <2>1, <2>4, <3>1, <4>2, StoredHashKept DEF Evidence
      <4>4. QED
        BY <4>1, <4>3, <2>2 DEF tables
    <3>9. ResultsRecorded'
      BY <2>2, <3>8 DEF Evidence, ResultsRecorded, tables
    <3>10. QED
      BY <3>2, <3>3, <3>4, <3>7, <3>9 DEF Evidence
  <2>5. QED
    BY <2>1, <2>3, <2>4
<1>3. QED
  BY <1>1, <1>2 DEF PutPart

\* Receipts come with entries, so they lie below next_sequence.
LEMMA ReceiptsBelow ==
  ASSUME TypeOK, ChainIntact, ReceiptsLinked, NEW r \in receipts
  PROVE  r.seq \in Nat /\ r.seq < nextSeq
<1>1. PICK row \in RowAt(r.seq) : TRUE
  BY DEF ReceiptsLinked
<1>2. row \in entries /\ row.entry.facts.seq = r.seq
  BY DEF RowAt
<1>3. QED
  BY <1>2, RowsBelow DEF TypeOK

\* The receipt of an upload that commits is the next one of the chain.
LEMMA CommitLinksReceipt ==
  ASSUME ChainInv, Evidence, upload \in Uploads, ValidEntry(upload.entry, upload.signer),
         upload # None, FreshPart(upload),
         AddEntry(EntryKey(upload.key), upload.entry, upload.signer),
         parts' = parts \cup {[artifact |-> upload.artifact, part |-> upload.part,
                               hash |-> upload.hash, key |-> upload.key]},
         receipts' = receipts \cup {NewReceipt(upload)},
         lastReceipt' = ReceiptHash(NewReceipt(upload))
  PROVE  ReceiptsLinked'
<1> DEFINE part == [artifact |-> upload.artifact, part |-> upload.part,
                    hash |-> upload.hash, key |-> upload.key]
           row  == NewRow(EntryKey(upload.key), upload.entry, upload.signer)
<1>new. PICK new : new = NewReceipt(upload)
  OBVIOUS
<1>0. TypeOK /\ ChainIntact /\ ReceiptsLinked
  BY DEF ChainInv, Evidence
<1>1. /\ row \in entries' /\ row.entry = upload.entry /\ entries \subseteq entries'
      /\ upload.entry.facts.seq = nextSeq /\ nextSeq \in Nat
  BY <1>0 DEF AddEntry, NewRow, ValidEntry, TypeOK
<1>2. /\ new.seq = nextSeq /\ new.entry = EntryHash(upload.entry) /\ new.previous = lastReceipt
      /\ new.artifact = upload.artifact /\ new.part = upload.part /\ new.hash = upload.hash
  BY <1>new DEF NewReceipt
<1>3. upload.entry.facts.data = PartData(upload.artifact, upload.part, upload.hash)
  BY DEF Evidence, UploadPrepared
<1>4. \A r \in receipts : r.seq \in Nat /\ r.seq < nextSeq
  BY <1>0, ReceiptsBelow
<1>5. /\ part \in parts' /\ part.artifact = upload.artifact /\ part.part = upload.part
      /\ part.hash = upload.hash
  OBVIOUS
<1> HIDE DEF row, part
<1>6. receipts' = receipts \cup {new} /\ parts' = parts \cup {part}
  BY <1>new DEF part
<1>7. Earlier(new)' = receipts /\ \A r \in receipts : Earlier(r)' = Earlier(r)
  BY <1>1, <1>2, <1>4, <1>6 DEF Earlier
<1>8. \A r \in receipts' : \E q \in RowAt(r.seq)' :
        /\ r.entry = EntryHash(q.entry)
        /\ q.entry.facts.data = PartData(r.artifact, r.part, r.hash)
  <2>1. ASSUME NEW r \in receipts
        PROVE  \E q \in RowAt(r.seq)' : /\ r.entry = EntryHash(q.entry)
                                        /\ q.entry.facts.data = PartData(r.artifact, r.part, r.hash)
    BY <1>0, <1>1 DEF ReceiptsLinked, RowAt
  <2>2. row \in RowAt(new.seq)'
    BY <1>1, <1>2 DEF RowAt
  <2>3. /\ new.entry = EntryHash(row.entry)
        /\ row.entry.facts.data = PartData(new.artifact, new.part, new.hash)
    BY <1>1, <1>2, <1>3
  <2>4. QED
    BY <1>6, <2>1, <2>2, <2>3
<1>9. /\ \A r \in receipts' : \E p \in parts' :
           PartData(p.artifact, p.part, p.hash) = PartData(r.artifact, r.part, r.hash)
      /\ \A p \in parts' : \E r \in receipts' :
           PartData(p.artifact, p.part, p.hash) = PartData(r.artifact, r.part, r.hash)
  BY <1>0, <1>2, <1>5, <1>6 DEF ReceiptsLinked
<1>10. \A r \in receipts' :
         /\ Earlier(r)' = {} => r.previous = <<>>
         /\ \A q \in Latest(Earlier(r)') : r.previous = ReceiptHash(q)
  <2>1. receipts = {} => new.previous = <<>>
    BY <1>2 DEF Evidence, FirstReceipt
  <2>2. \A q \in Latest(receipts) : new.previous = ReceiptHash(q)
    BY <1>0, <1>2 DEF ReceiptsLinked
  <2>3. QED
    BY <1>0, <1>6, <1>7, <2>1, <2>2 DEF ReceiptsLinked
<1>11. \A r \in Latest(receipts') : lastReceipt' = ReceiptHash(r)
  <2>1. \A r \in Latest(receipts') : r = new
    BY <1>1, <1>2, <1>4, <1>6 DEF Latest
  <2>2. QED
    BY <1>new, <2>1
<1>12. \A q, r \in receipts' : q.seq = r.seq \/ (q.artifact = r.artifact /\ q.part = r.part) => q = r
  <2>1. ASSUME NEW r \in receipts
        PROVE  r.seq # new.seq /\ ~(r.artifact = new.artifact /\ r.part = new.part)
    <3>1. PICK p \in parts : PartData(p.artifact, p.part, p.hash) = PartData(r.artifact, r.part, r.hash)
      BY <1>0 DEF ReceiptsLinked
    <3>2. p.artifact = r.artifact /\ p.part = r.part
      BY <3>1 DEF PartData
    <3>3. QED
      BY <1>1, <1>2, <1>4, <3>2 DEF FreshPart
  <2>2. QED
    BY <1>0, <1>6, <2>1 DEF ReceiptsLinked
<1>13. QED
  BY <1>8, <1>9, <1>10, <1>11, <1>12 DEF ReceiptsLinked, Latest

\* The second step records the part, its entry and its receipt, or nothing.
LEMMA CommitPartEvidence ==
  ASSUME ChainInv, Evidence, CommitPart
  PROVE  Evidence'
<1>0. /\ upload \in Uploads /\ upload # None /\ upload' = None
      /\ ValidEntry(upload.entry, upload.signer)
  BY DEF CommitPart, ChainInv, TypeOK, UploadStillValid
<1>1. CASE /\ FreshPart(upload)
           /\ AddEntry(EntryKey(upload.key), upload.entry, upload.signer)
           /\ parts' = parts \cup {[artifact |-> upload.artifact, part |-> upload.part,
                                    hash |-> upload.hash, key |-> upload.key]}
           /\ receipts' = receipts \cup {NewReceipt(upload)}
           /\ lastReceipt' = ReceiptHash(NewReceipt(upload))
           /\ UNCHANGED <<mode, artifacts, objects>>
  <2> DEFINE part == [artifact |-> upload.artifact, part |-> upload.part,
                      hash |-> upload.hash, key |-> upload.key]
             new  == NewReceipt(upload)
             row  == NewRow(EntryKey(upload.key), upload.entry, upload.signer)
  <2>1. ReceiptsLinked'
    BY <1>0, <1>1, CommitLinksReceipt
  <2>2. UploadPrepared' /\ OneContent' /\ FirstReceipt' /\ OneResult'
    BY <1>0, <1>1 DEF Evidence, UploadPrepared, OneContent, FirstReceipt, OneResult
  <2>3. PartsHeld'
    <3>1. PartObject(part) = PartObject(upload)
      BY DEF PartObject
    <3>2. \A p \in parts' : p \in parts \/ p = part
      BY <1>1
    <3> HIDE DEF part
    <3>3. QED
      BY <1>0, <1>1, <3>1, <3>2 DEF Evidence, UploadPrepared, PartsHeld, PartObject
  <2>4. PartsRecorded'
    <3>1. /\ row \in entries' /\ row.key = EntryKey(part.key) /\ row.entry.facts.seq = nextSeq
          /\ new \in receipts' /\ new.seq = nextSeq
      BY <1>0, <1>1 DEF AddEntry, NewRow, NewReceipt, ValidEntry
    <3>2. parts' = parts \cup {part} /\ entries \subseteq entries' /\ receipts \subseteq receipts'
      BY <1>1 DEF AddEntry
    <3> HIDE DEF row, new, part
    <3>3. QED
      BY <3>1, <3>2 DEF Evidence, PartsRecorded
  <2>5. ResultsRecorded'
    <3>1. entries \subseteq entries' /\ parts \subseteq parts'
      BY <1>1 DEF AddEntry
    <3>2. \A a, n : StoredHash(a, n)' = StoredHash(a, n)
      BY <1>1 DEF StoredHash, Stored
    <3>3. QED
      BY <1>1, <3>1, <3>2 DEF Evidence, ResultsRecorded
  <2>6. QED
    BY <2>1, <2>2, <2>3, <2>4, <2>5 DEF Evidence
<1>2. CASE UNCHANGED <<session, deployment, overdue, tables, incidents, objects>>
  BY <1>0, <1>2, EvidenceUntouched DEF session
<1>3. QED
  BY <1>1, <1>2 DEF CommitPart

\* A result is recorded with the entry that says so, once per artifact, and
\* a captured one has all its parts.
LEMMA CompleteArtifactEvidence ==
  ASSUME Evidence, NEW a, NEW count, NEW h, NEW e, NEW signer,
         CompleteArtifact(a, count, h, e, signer)
  PROVE  Evidence'
<1> DEFINE x == CapturedRow(a, count, h, e)
<1>1. CASE RecordIncident
  BY <1>1, IncidentEvidence
<1>2. CASE /\ CompleteOutcome(a, count, h, e, signer) = "completed"
           /\ AddEntry(CompleteKey(a), e, signer)
           /\ artifacts' = artifacts \cup {x}
           /\ UNCHANGED <<mode, lastReceipt, parts, receipts, objects, upload>>
  <2>1. /\ NoResult(a) /\ NumbersOf(a) = 0 .. count - 1
        /\ mode = "remote" => h = StoredHash(a, count)
    BY <1>2 DEF CompleteOutcome, ExactParts
  <2>2. x.artifact = a /\ x.parts = count /\ x.hash = h /\ x.entry = EntryHash(e)
    BY DEF CapturedRow
  <2>3. upload' = None
    BY <1>2 DEF CompleteArtifact, Unlocked
  <2> HIDE DEF x
  <2>4. QED
    BY <1>2, <2>1, <2>2, <2>3, RecordedEvidence
<1>3. QED
  BY <1>1, <1>2 DEF CompleteArtifact

\* The other handlers that record an entry.
LEMMA EntryRequestEvidence ==
  ASSUME TypeOK, Evidence, NEW signer \in Keys, EntryRequest(signer)
  PROVE  Evidence'
<1>1. ASSUME NEW e, NEW k, CreateEvent(k, e, signer)
      PROVE  Evidence'
  <2>1. CASE /\ AddEntry(k, e, signer)
             /\ UNCHANGED <<mode, lastReceipt, parts, artifacts, receipts, objects, upload>>
    <3>1. upload' = None
      BY <1>1, <2>1 DEF CreateEvent, Unlocked
    <3>2. QED
      BY <2>1, <3>1, RecordedEvidence
  <2>2. QED
    BY <1>1, <2>1, IncidentEvidence DEF CreateEvent
<1>2. ASSUME NEW e \in Requested({"artifact_part"}), NEW k \in PartKeys, NEW sent \in Contents,
             PutPart(k, e.facts.data.artifact, e.facts.data.part, sent, e, signer)
      PROVE  Evidence'
  <2>1. e.facts.data \in DataOf("artifact_part")
    BY RequestedType DEF EntryTypes
  <2>2. e.facts.data.artifact \in Artifacts /\ e.facts.data.part \in PartNumbers
    BY <2>1 DEF DataOf, PartData
  <2>3. QED
    BY <1>2, <2>2, PutPartEvidence
<1>3. ASSUME NEW e, NEW count, NEW a, NEW h, CompleteArtifact(a, count, h, e, signer)
      PROVE  Evidence'
  BY <1>3, CompleteArtifactEvidence
<1>4. ASSUME NEW e \in Requested({"artifact_unavailable"}), NEW a, NEW st \in MissingStatuses,
             DeclareUnavailable(a, st, e, signer)
      PROVE  Evidence'
  <2> DEFINE x == MissingRow(a, st, e)
  <2>1. x.status # "captured" /\ NoResult(x.artifact)
    BY <1>4 DEF MissingRow, MissingStatuses, DeclareUnavailable, UnavailableOutcome
  <2>2. /\ AddEntry(UnavailableKey(a), e, signer) /\ artifacts' = artifacts \cup {x}
        /\ UNCHANGED <<mode, lastReceipt, parts, receipts, objects>> /\ upload' = None
    BY <1>4 DEF DeclareUnavailable, Unlocked
  <2> HIDE DEF x
  <2>3. QED
    BY <2>1, <2>2, RecordedEvidence
<1>5. ASSUME NEW e \in Requested({"artifact_unavailable"})
      PROVE  e.facts.data.status \in MissingStatuses
  <2>1. e.facts.data \in DataOf("artifact_unavailable")
    BY RequestedType DEF EntryTypes
  <2>2. QED
    BY <2>1 DEF DataOf, GoneData
<1>6. QED
  BY <1>1, <1>2, <1>3, <1>4, <1>5 DEF EntryRequest

\* Before the session has a key nothing is recorded, so nothing depends on
\* its mode when the session is created.
LEMMA CreateSessionEvidence ==
  ASSUME ChainInv, Evidence, CreateSession
  PROVE  Evidence'
<1>1. entries = {} /\ key = None
  BY DEF CreateSession, ChainInv, KeyBeforeEntries
<1>2. upload = None
  <2>1. upload # None => upload.signer \in Keys
    BY DEF ChainInv, TypeOK, Uploads
  <2>2. QED
    BY <1>1, <2>1, NoneAssumption DEF ChainInv, UploadStillValid, ValidEntry
<1>3. parts = {} /\ (\A x \in artifacts : x.status # "captured")
  BY <1>1 DEF Evidence, PartsRecorded, ResultsRecorded
<1>4. /\ UNCHANGED <<entries, parts, artifacts, receipts, lastReceipt, objects, upload>>
  BY DEF CreateSession, tables
<1>5. \A n : RowAt(n)' = RowAt(n)
  BY <1>4 DEF RowAt
<1>6. \A r : Earlier(r)' = Earlier(r)
  BY <1>4 DEF Earlier
<1>7. ReceiptsLinked'
  BY <1>4, <1>5, <1>6 DEF Evidence, ReceiptsLinked, Latest
<1>8. QED
  BY <1>2, <1>3, <1>4, <1>7 DEF Evidence, UploadPrepared, OneContent, PartsHeld, PartsRecorded,
     FirstReceipt, OneResult, ResultsRecorded

\* Every step of the session keeps Evidence, one handler at a time.
LEMMA EvidenceStep ==
  ASSUME ChainInv, Evidence, [Next]_vars
  PROVE  Evidence'
<1>1. CASE CreateSession
  BY <1>1, CreateSessionEvidence
<1>2. ASSUME NEW k \in Keys, RegisterKey(k)
      PROVE  Evidence'
  BY <1>2, EvidenceUntouched DEF RegisterKey, tables
<1>3. ASSUME NEW signer \in Keys, EntryRequest(signer)
      PROVE  Evidence'
  BY <1>3, EntryRequestEvidence DEF ChainInv
<1>4. CASE CommitPart
  BY <1>4, CommitPartEvidence
<1>5. ASSUME NEW close, NEW signer, FinalizeSession(close, signer)
      PROVE  Evidence'
  BY <1>5, EvidenceUntouched, IncidentEvidence DEF FinalizeSession
<1>6. CASE Crash \/ BecomeOverdue \/ \E m \in Modes : Redeploy(m)
  BY <1>6, EvidenceUntouched DEF Crash, BecomeOverdue, Redeploy, session
<1>7. CASE UNCHANGED vars
  BY <1>7, EvidenceUntouched DEF vars, session
<1>8. QED
  BY <1>1, <1>2, <1>3, <1>4, <1>5, <1>6, <1>7 DEF Next

\* Nothing is stored before the session is created.
LEMMA EvidenceInit == Init => Evidence
BY DEF Init, Evidence, UploadPrepared, OneContent, PartsHeld, PartsRecorded, FirstReceipt,
       ReceiptsLinked, Latest, OneResult, ResultsRecorded

\* Evidence in every reachable state.
LEMMA EvidenceInvariant == Spec => [](ChainInv /\ Evidence)
<1>1. ChainInv /\ Evidence /\ [Next]_vars => Evidence'
  BY EvidenceStep
<1>2. QED
  BY <1>1, EvidenceInit, ChainInvariant, PTL DEF Spec

\* The receipts form one chain that covers every part and nothing else,
\* whatever crashes, repetitions and conflicts come between them.
THEOREM ReceiptsAlwaysLinked == Spec => []ReceiptsLinked
<1>1. Evidence => ReceiptsLinked
  BY DEF Evidence
<1>2. QED
  BY <1>1, EvidenceInvariant, PTL

\* The store holds the bytes of every part that has a receipt and never any
\* others, and a captured artifact can be read back as it was hashed.
THEOREM BytesAlwaysHeld == Spec => []ReceiptedBytesHeld
<1>1. ASSUME TypeOK, Evidence, mode = "remote", NEW p \in parts
      PROVE  Stored(p.artifact, p.part) = {PartObject(p)}
  <2>1. PartObject(p) \in objects
    BY <1>1 DEF Evidence, PartsHeld
  <2>2. QED
    BY <1>1, <2>1 DEF Evidence, OneContent, Stored, PartObject
<1>2. TypeOK /\ Evidence => ReceiptedBytesHeld
  BY <1>1 DEF Evidence, ResultsRecorded, ReceiptedBytesHeld, PartObject
<1>3. QED
  BY <1>2, EvidenceInvariant, PTL DEF ChainInv

\* What was answered once is answered again to the identical request: the
\* rows a repetition is compared with are the ones the first one left.
THEOREM RepetitionsAnswered == Spec => []RepetitionAnswered
<1>1. ASSUME TypeOK, Evidence, Ready, NEW r \in entries
      PROVE  /\ NewRow(r.key, r.entry, r.signer) = r
             /\ EventOutcome(r.key, r.entry, r.signer) = "already_recorded"
  <2>1. r \in Rows
    BY <1>1 DEF TypeOK
  <2>2. NewRow(r.key, r.entry, r.signer) = r
    BY <2>1 DEF Rows, NewRow
  <2>3. QED
    BY <1>1, <2>2 DEF EventOutcome
<1>2. ASSUME TypeOK, Evidence, Ready, NEW p \in parts
      PROVE  \E r \in entries :
               /\ r.key = EntryKey(p.key)
               /\ UploadOutcome(p.key, p.artifact, p.part, p.hash, r.entry, r.signer)
                    = "already_recorded"
  <2>1. PICK r \in entries : r.key = EntryKey(p.key) /\ \E x \in receipts : x.seq = r.entry.facts.seq
    BY <1>2 DEF Evidence, PartsRecorded
  <2>2. NewRow(EntryKey(p.key), r.entry, r.signer) = r
    BY <1>1, <1>2, <2>1
  <2>3. [artifact |-> p.artifact, part |-> p.part, hash |-> p.hash, key |-> p.key] = p
    BY <1>2 DEF TypeOK, PartRows
  <2>4. QED
    BY <1>2, <2>1, <2>2, <2>3 DEF UploadOutcome, RepeatsPart
<1>3. ASSUME TypeOK, Evidence, Ready, NEW x \in artifacts, x.status = "captured"
      PROVE  \E r \in entries :
               /\ EntryHash(r.entry) = x.entry
               /\ CompleteOutcome(x.artifact, x.parts, x.hash, r.entry, r.signer)
                    = "already_completed"
  <2>1. PICK r \in entries : EntryHash(r.entry) = x.entry
    BY <1>3 DEF Evidence, ResultsRecorded
  <2>2. CapturedRow(x.artifact, x.parts, x.hash, r.entry) = x
    BY <1>3, <2>1 DEF TypeOK, ArtifactRows, CapturedRow
  <2>3. QED
    BY <1>3, <2>1, <2>2 DEF CompleteOutcome, NoResult
<1>4. manifest # None => FinalizeOutcome(manifest.close, manifest.signer) = "already_finalized"
  BY DEF FinalizeOutcome
<1>5. TypeOK /\ Evidence => RepetitionAnswered
  BY <1>1, <1>2, <1>3, <1>4 DEF RepetitionAnswered
<1>6. QED
  BY <1>5, EvidenceInvariant, PTL DEF ChainInv

-----------------------------------------------------------------------------
(***************************************************************************)
(* The manifest.                                                           *)
(***************************************************************************)
\* All parts of a captured artifact are there, if every part is accounted for.
LEMMA CapturedComplete ==
  ASSUME TypeOK, Evidence, PartsAccountedFor, NEW x \in artifacts, x.status = "captured"
  PROVE  NumbersOf(x.artifact) = 0 .. x.parts - 1
<1>1. CASE \E p \in parts : p.artifact = x.artifact
  BY <1>1 DEF Evidence, OneResult, PartsAccountedFor, ExactParts
<1>2. CASE \A p \in parts : p.artifact # x.artifact
  <2>1. NumbersOf(x.artifact) = {}
    BY <1>2 DEF NumbersOf, PartsOf
  <2>2. \A i \in 0 .. x.parts - 1 : FALSE
    BY <1>2 DEF Evidence, ResultsRecorded
  <2>3. QED
    BY <2>1, <2>2
<1>3. QED
  BY <1>1, <1>2

\* Signing it.
LEMMA FinalizeCovers ==
  ASSUME ChainInv, Evidence, manifest = None, NEW close \in Closes, NEW signer \in Keys,
         FinalizeOutcome(close, signer) = "finalized",
         manifest' = NewManifest(close, signer), status' = FinalStatus(close),
         UNCHANGED <<nextSeq, tables>>
  PROVE  ManifestCoversSession'
<1>1. ValidClose(close, signer)
  BY DEF FinalizeOutcome
<1>2. Cardinality(entries) = nextSeq
  <2>1. Cardinality(entries) \in Nat /\ nextSeq \in Nat
    BY <1>1 DEF ValidClose, Closes, ChainInv, TypeOK
  <2>2. 0 .. Cardinality(entries) - 1 = 0 .. nextSeq - 1
    BY <1>1 DEF ValidClose, ChainInv, ChainIntact
  <2>3. nextSeq # 0
    BY <1>1, RowsBelow DEF ValidClose, ChainInv, TypeOK
  <2>4. QED
    BY <2>1, <2>2, <2>3
<1>3. \A n : RowAt(n)' = RowAt(n)
  BY DEF RowAt, tables
<1>4. Inventory' = Inventory /\ \A a : NumbersOf(a)' = NumbersOf(a)
  BY DEF Inventory, NumbersOf, PartsOf, tables
<1>5. /\ manifest'.count = nextSeq /\ manifest'.root = close.root
      /\ manifest'.artifacts = Inventory /\ manifest'.close = close
      /\ manifest'.status = FinalStatus(close)
  BY <1>2 DEF NewManifest
<1>6. \A r \in RowAt(nextSeq - 1) :
        r.entry.facts.type = "capture_finished" /\ close.root = EntryHash(r.entry)
  BY <1>1, <1>2 DEF ValidClose
<1>7. /\ \A p \in parts : \E x \in artifacts : x.artifact = p.artifact
      /\ \A x \in artifacts : x.status = "captured" => NumbersOf(x.artifact) = 0 .. x.parts - 1
  BY <1>1, CapturedComplete DEF ValidClose, PartsAccountedFor, ChainInv
<1>8. FinalStatus(close) = "complete" <=> ~close.gaps /\ \A x \in artifacts : x.status = "captured"
  BY DEF FinalStatus, Closes
<1>9. QED
  BY <1>3, <1>4, <1>5, <1>6, <1>7, <1>8 DEF ManifestCoversSession, tables

\* What the manifest covers stays.
LEMMA CoveredStays ==
  ASSUME ManifestCoversSession, UNCHANGED <<session, tables>>
  PROVE  ManifestCoversSession'
<1>1. \A n : RowAt(n)' = RowAt(n)
  BY DEF RowAt, tables
<1>2. Inventory' = Inventory /\ \A a : NumbersOf(a)' = NumbersOf(a)
  BY DEF Inventory, NumbersOf, PartsOf, tables
<1>3. QED
  BY <1>1, <1>2 DEF ManifestCoversSession, session, tables

\* Signing it, and whatever comes after.
LEMMA ManifestStep ==
  ASSUME ChainInv, Evidence, ManifestCoversSession, [Next]_vars
  PROVE  ManifestCoversSession'
<1>1. CASE manifest # None
  BY <1>1, SealedStep, CoveredStays
<1>2. CASE manifest' = None
  BY <1>2 DEF ManifestCoversSession
<1>3. CASE manifest = None /\ manifest' # None
  <2>1. PICK close \in Closes, signer \in Keys :
          /\ FinalizeOutcome(close, signer) = "finalized"
          /\ manifest' = NewManifest(close, signer)
          /\ status' = FinalStatus(close)
          /\ UNCHANGED <<nextSeq, tables>>
    BY <1>3, CloseType
       DEF ChainInv, Next, CreateSession, RegisterKey, EntryRequest, CreateEvent, PutPart,
           CompleteArtifact, DeclareUnavailable, CommitPart, FinalizeSession, Crash, Redeploy,
           BecomeOverdue, RecordIncident, session, vars
  <2>2. QED
    BY <1>3, <2>1, FinalizeCovers
<1>4. QED
  BY <1>1, <1>2, <1>3

\* The signed manifest describes the whole session: every entry, artifact
\* and part of it, at the time it is signed and ever after.
THEOREM ManifestAlwaysCovers == Spec => []ManifestCoversSession
<1>1. ChainInv /\ Evidence /\ ManifestCoversSession /\ [Next]_vars => ManifestCoversSession'
  BY ManifestStep
<1>2. Init => ManifestCoversSession
  BY DEF Init, ManifestCoversSession
<1>3. QED
  BY <1>1, <1>2, EvidenceInvariant, PTL DEF Spec

=============================================================================
