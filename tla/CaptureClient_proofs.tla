------------------------ MODULE CaptureClient_proofs ------------------------
(***************************************************************************)
(* Proofs about the extension and the server it talks to (CaptureClient),  *)
(* for every number of chunks, inputs and faults.                          *)
(***************************************************************************)
EXTENDS CaptureClient, CaptureServer_proofs, FiniteSetTheorems

-----------------------------------------------------------------------------
(***************************************************************************)
(* Prefixes of a chain.                                                    *)
(***************************************************************************)
\* A prefix of a prefix is a prefix.
LEMMA PrefixTransitive ==
  ASSUME NEW X, NEW s \in Seq(X), NEW t \in Seq(X), NEW u \in Seq(X),
         IsPrefix(s, t), IsPrefix(t, u)
  PROVE  IsPrefix(s, u)
BY DEF IsPrefix

\* A sequence is a prefix of itself and of what it grows to.
LEMMA PrefixGrows ==
  ASSUME NEW X, NEW s \in Seq(X), NEW t \in Seq(X), NEW x \in X, IsPrefix(s, t)
  PROVE  IsPrefix(s, s) /\ IsPrefix(s, Append(t, x)) /\ Append(t, x) \in Seq(X)
BY DEF IsPrefix

\* A prefix as long as the whole is the whole.
LEMMA PrefixWhole ==
  ASSUME NEW X, NEW s \in Seq(X), NEW t \in Seq(X), IsPrefix(s, t), Len(s) = Len(t)
  PROVE  s = t
BY DEF IsPrefix

-----------------------------------------------------------------------------
(***************************************************************************)
(* The tasks and the scripts.                                              *)
(***************************************************************************)
\* What the constructors build are tasks.
LEMMA TaskTypes ==
  /\ \A type \in EventNames : Event(type) \in Tasks
  /\ \A a \in Names, c \in Contents, try \in Tries :
       Queue(a, c, try) \in Tasks /\ Complete(a, try) \in Tasks
  /\ \A p \in StoredParts, try \in Tries : Upload(p, try) \in Tasks
  /\ \A a \in Names : Missing(a) \in Tasks
  /\ \A on \in BOOLEAN : Save(on) \in Tasks
  /\ \A clock \in Clocks : Restart(clock) \in Tasks
  /\ \A do \in {"begin", "finalizing"}, was \in BOOLEAN : Begin(do, was) \in Tasks
  /\ \A do \in {"read", "retry", "finished", "finalize", "package", "interrupt", "ask", "await",
                "delete", "throw"} : Simple(do) \in Tasks
BY DEF Event, Queue, Complete, Upload, Missing, Save, Restart, Begin, Simple, Tasks, Tries, StoredParts

\* What a task of each kind holds.
LEMMA TaskFields ==
  ASSUME NEW t \in Tasks
  PROVE  /\ t.try \in Tries
         /\ t.do = "event" => t.type \in EventNames
         /\ t.do = "queue" => t.artifact \in Names /\ t.bytes \in Contents
         /\ t.do = "upload" => t.artifact \in Names /\ t.part \in Nat
         /\ t.do \in {"complete", "missing"} => t.artifact \in Names
         /\ t.do = "save" => t.recording \in BOOLEAN
         /\ t.do = "restart" => t.clock \in Clocks
         /\ t.do \in {"begin", "finalizing"} => t.wasActive \in BOOLEAN
BY DEF Tasks, Tries

\* Tasks made of the session the operation has in memory, and tasks that read
\* the session of IndexedDB into it.
UsesCopy(t)  == t.do \in {"event", "save", "finished", "finalize", "package"}
Refreshes(t) == t.do \in {"read", "restart", "complete", "missing"}

\* Every task that uses the copy in memory comes after one that refreshes it.
Tolerant(todo) ==
  \A k \in 1 .. Len(todo) : UsesCopy(todo[k]) => \E j \in 1 .. k - 1 : Refreshes(todo[j])

\* What is left of a script at any time: only its first task is an upload, a
\* queued part is completed next if anything is left to do, a package is asked
\* for after the finalization, and nothing follows a deletion.
Formed(todo) ==
  \A k \in 1 .. Len(todo) :
    /\ todo[k].do = "upload" => k = 1
    /\ todo[k].do = "queue" /\ k < Len(todo) => todo[k + 1].do = "complete"
    /\ todo[k].do = "package" /\ k > 1 => todo[k - 1].do = "finalize"
    /\ todo[k].do = "delete" => k = Len(todo)

\* A piece of a script that may stand anywhere in it.
Plain(s) ==
  /\ s \in Seq(Tasks)
  /\ \A k \in 1 .. Len(s) :
       /\ s[k].do \notin {"upload", "delete"}
       /\ s[k].do = "queue" => k < Len(s) /\ s[k + 1].do = "complete"
       /\ s[k].do = "package" => k > 1 /\ s[k - 1].do = "finalize"

\* A script made of plain pieces is well formed.
LEMMA PlainForms ==
  ASSUME NEW s, Plain(s)
  PROVE  Formed(s)
BY DEF Plain, Formed

\* The pieces the scripts are made of.
LEMMA PlainPieces ==
  /\ Plain(<<>>)
  /\ \A t \in Tasks : t.do \notin {"upload", "delete", "queue", "package"} => Plain(<<t>>)
  /\ \A t, u \in Tasks :
       /\ t.do = "queue" /\ u.do = "complete" => Plain(<<t, u>>)
       /\ t.do = "finalize" /\ u.do = "package" => Plain(<<t, u>>)
       /\ {t.do, u.do} \cap {"upload", "delete", "queue", "package"} = {} => Plain(<<t, u>>)
  /\ \A t, u, v \in Tasks :
       {t.do, u.do, v.do} \cap {"upload", "delete", "queue", "package"} = {} => Plain(<<t, u, v>>)
<1>1. Plain(<<>>)
  BY DEF Plain
<1>2. \A t \in Tasks : t.do \notin {"upload", "delete", "queue", "package"} => Plain(<<t>>)
  BY DEF Plain
<1>3. ASSUME NEW t \in Tasks, NEW u \in Tasks
      PROVE  /\ t.do = "queue" /\ u.do = "complete" => Plain(<<t, u>>)
             /\ t.do = "finalize" /\ u.do = "package" => Plain(<<t, u>>)
             /\ {t.do, u.do} \cap {"upload", "delete", "queue", "package"} = {} => Plain(<<t, u>>)
  <2>1. PICK s : s = <<t, u>>
    OBVIOUS
  <2>2. s \in Seq(Tasks) /\ Len(s) = 2 /\ s[1] = t /\ s[2] = u
    BY <1>3, <2>1
  <2>3. \A k \in 1 .. Len(s) : k = 1 \/ k = 2
    BY <2>2
  <2>4. t.do = "queue" /\ u.do = "complete" => Plain(s)
    BY <2>2, <2>3 DEF Plain
  <2>5. t.do = "finalize" /\ u.do = "package" => Plain(s)
    BY <2>2, <2>3 DEF Plain
  <2>6. {t.do, u.do} \cap {"upload", "delete", "queue", "package"} = {} => Plain(s)
    BY <2>2, <2>3 DEF Plain
  <2>7. QED
    BY <2>1, <2>4, <2>5, <2>6
<1>4. ASSUME NEW t \in Tasks, NEW u \in Tasks, NEW v \in Tasks,
             {t.do, u.do, v.do} \cap {"upload", "delete", "queue", "package"} = {}
      PROVE  Plain(<<t, u, v>>)
  <2>1. PICK s : s = <<t, u, v>>
    OBVIOUS
  <2>2. s \in Seq(Tasks) /\ Len(s) = 3 /\ s[1] = t /\ s[2] = u /\ s[3] = v
    BY <1>4, <2>1
  <2>3. \A k \in 1 .. Len(s) : k = 1 \/ k = 2 \/ k = 3
    BY <2>2
  <2>4. Plain(s)
    BY <1>4, <2>2, <2>3 DEF Plain
  <2>5. QED
    BY <2>1, <2>4
<1>5. QED
  BY <1>1, <1>2, <1>3, <1>4

\* Pieces make scripts.
LEMMA PlainConcat ==
  ASSUME NEW s, NEW t, Plain(s), Plain(t)
  PROVE  Plain(s \o t)
<1>1. s \in Seq(Tasks) /\ t \in Seq(Tasks)
  BY DEF Plain
<1>2. s \o t \in Seq(Tasks) /\ Len(s \o t) = Len(s) + Len(t)
  BY <1>1
<1>3. \A k \in 1 .. Len(s) : (s \o t)[k] = s[k]
  BY <1>1
<1>4. \A k \in 1 .. Len(t) : (s \o t)[Len(s) + k] = t[k]
  BY <1>1
<1>5. ASSUME NEW k \in 1 .. Len(s \o t)
      PROVE  /\ (s \o t)[k].do \notin {"upload", "delete"}
             /\ (s \o t)[k].do = "queue" => k < Len(s \o t) /\ (s \o t)[k + 1].do = "complete"
             /\ (s \o t)[k].do = "package" => k > 1 /\ (s \o t)[k - 1].do = "finalize"
  <2>1. CASE k \in 1 .. Len(s)
    BY <1>1, <1>2, <1>3, <2>1 DEF Plain
  <2>2. CASE k \notin 1 .. Len(s)
    <3>1. PICK i \in 1 .. Len(t) : k = Len(s) + i
      <4>1. k - Len(s) \in 1 .. Len(t) /\ k = Len(s) + (k - Len(s))
        BY <1>1, <1>2, <2>2
      <4>2. QED
        BY <4>1
    <3>2. i < Len(t) => (s \o t)[k + 1] = t[i + 1]
      BY <1>1, <1>4, <3>1
    <3>3. i > 1 => (s \o t)[k - 1] = t[i - 1]
      <4>1. i > 1 => i - 1 \in 1 .. Len(t) /\ k - 1 = Len(s) + (i - 1)
        BY <1>1, <3>1
      <4>2. QED
        BY <4>1, <1>4
    <3>4. QED
      BY <1>1, <1>2, <1>4, <3>1, <3>2, <3>3 DEF Plain
  <2>3. QED
    BY <2>1, <2>2
<1>6. QED
  BY <1>2, <1>5 DEF Plain

\* What is left after the first task.
LEMMA FormedTail ==
  ASSUME NEW s \in Seq(Tasks), s # <<>>, Formed(s)
  PROVE  /\ Formed(Tail(s)) /\ Tail(s) \in Seq(Tasks)
         /\ Len(Tail(s)) = Len(s) - 1
         /\ \A k \in 1 .. Len(Tail(s)) : Tail(s)[k] = s[k + 1]
<1>1. /\ Tail(s) \in Seq(Tasks) /\ Len(Tail(s)) = Len(s) - 1
      /\ \A k \in 1 .. Len(Tail(s)) : Tail(s)[k] = s[k + 1]
  OBVIOUS
<1>2. PICK t : t = Tail(s)
  BY Zenon
<1>3. ASSUME NEW k \in 1 .. Len(t)
      PROVE  /\ t[k].do = "upload" => k = 1
             /\ t[k].do = "queue" /\ k < Len(t) => t[k + 1].do = "complete"
             /\ t[k].do = "package" /\ k > 1 => t[k - 1].do = "finalize"
             /\ t[k].do = "delete" => k = Len(t)
  <2>1. /\ k + 1 \in 1 .. Len(s) /\ t[k] = s[k + 1] /\ (k + 1) - 1 = k
        /\ k < Len(t) => t[k + 1] = s[(k + 1) + 1] /\ k + 1 < Len(s)
        /\ k > 1 => t[k - 1] = s[k]
    BY <1>1, <1>2
  <2>2. /\ s[k + 1].do # "upload"
        /\ s[k + 1].do = "queue" /\ k + 1 < Len(s) => s[(k + 1) + 1].do = "complete"
        /\ s[k + 1].do = "package" => s[k].do = "finalize"
        /\ s[k + 1].do = "delete" => k + 1 = Len(s)
    BY <2>1 DEF Formed
  <2>3. Len(s) = Len(t) + 1 /\ Len(t) \in Nat
    BY <1>1, <1>2
  <2>4. k < Len(t) => k + 1 < Len(s)
    BY <2>3
  <2>5. k + 1 = Len(s) => k = Len(t)
    BY <2>3
  <2>6. QED
    BY <2>1, <2>2, <2>4, <2>5, Zenon
<1>4. Formed(t)
  BY <1>3 DEF Formed
<1>5. QED
  BY <1>1, <1>2, <1>4

\* An upload put before what is left: of a queued part, or of a part found
\* pending.
LEMMA FormedUpload ==
  ASSUME NEW s \in Seq(Tasks), NEW u \in Tasks, Formed(s), u.do = "upload"
  PROVE  /\ s # <<>> /\ Head(s).do = "retry" => Formed(<<u>> \o s)
         /\ s # <<>> /\ Head(s).do = "queue" => Formed(<<u>> \o Tail(s)) /\ Tolerant(<<u>> \o Tail(s))
         /\ s # <<>> /\ Head(s).do = "queue" => Tolerant(Tail(s))
         /\ <<u>> \o s \in Seq(Tasks)
<1>1. ASSUME NEW t \in Seq(Tasks)
      PROVE  /\ <<u>> \o t \in Seq(Tasks) /\ Len(<<u>> \o t) = Len(t) + 1
             /\ (<<u>> \o t)[1] = u
             /\ \A k \in 2 .. Len(t) + 1 : (<<u>> \o t)[k] = t[k - 1]
  OBVIOUS
<1>2. ASSUME s # <<>>, Head(s).do = "retry"
      PROVE  Formed(<<u>> \o s)
  BY <1>1, <1>2 DEF Formed
<1>3. ASSUME s # <<>>, Head(s).do = "queue"
      PROVE  Formed(<<u>> \o Tail(s)) /\ Tolerant(<<u>> \o Tail(s)) /\ Tolerant(Tail(s))
  <2>1. /\ Tail(s) \in Seq(Tasks) /\ Len(Tail(s)) = Len(s) - 1 /\ s[1].do = "queue"
        /\ \A k \in 1 .. Len(Tail(s)) : Tail(s)[k] = s[k + 1]
    BY <1>3
  <2>2. PICK t : t = Tail(s)
    OBVIOUS
  <2>3. /\ \A k \in 1 .. Len(t) : t[k].do # "upload"
        /\ Len(t) > 0 => t[1].do = "complete"
        /\ Formed(t)
    <3>1. Formed(t)
      BY <1>3, <2>2, FormedTail
    <3>2. \A k \in 1 .. Len(t) : k + 1 \in 1 .. Len(s) /\ k + 1 # 1 /\ t[k] = s[k + 1]
      <4>1. Len(s) \in Nat /\ Len(t) = Len(s) - 1 /\ \A k \in 1 .. Len(t) : t[k] = s[k + 1]
        BY <2>1, <2>2
      <4>2. QED
        BY <4>1
    <3>3. \A k \in 1 .. Len(t) : t[k].do # "upload"
      BY <3>2 DEF Formed
    <3>4. ASSUME Len(t) > 0
          PROVE  t[1].do = "complete"
      <4>1. 1 \in 1 .. Len(s) /\ 1 < Len(s) /\ t[1] = s[1 + 1]
        BY <2>1, <2>2, <3>4
      <4>2. QED
        BY <2>1, <4>1 DEF Formed
    <3>5. QED
      BY <3>1, <3>3, <3>4
  <2>4. Formed(<<u>> \o t)
    <3>1. PICK w : w = <<u>> \o t
      OBVIOUS
    <3>2. /\ Len(w) = Len(t) + 1 /\ w[1] = u /\ Len(t) \in Nat
          /\ \A k \in 2 .. Len(t) + 1 : w[k] = t[k - 1]
      BY <1>1, <2>1, <2>2, <3>1
    <3>3. ASSUME NEW k \in 1 .. Len(w)
          PROVE  /\ w[k].do = "upload" => k = 1
                 /\ w[k].do = "queue" /\ k < Len(w) => w[k + 1].do = "complete"
                 /\ w[k].do = "package" /\ k > 1 => w[k - 1].do = "finalize"
                 /\ w[k].do = "delete" => k = Len(w)
      <4>1. CASE k = 1
        BY <3>2, <4>1
      <4>2. CASE k # 1
        <5>1. PICK i : i = k - 1
          OBVIOUS
        <5>2. /\ i \in 1 .. Len(t) /\ k = i + 1 /\ w[k] = t[i]
              /\ k < Len(w) => w[k + 1] = t[i + 1] /\ i < Len(t)
              /\ i > 1 => w[k - 1] = t[i - 1]
          <6>1. i \in 1 .. Len(t) /\ k = i + 1 /\ w[k] = t[i]
            BY <3>2, <4>2, <5>1
          <6>2. ASSUME k < Len(w)
                PROVE  w[k + 1] = t[i + 1] /\ i < Len(t)
            <7>1. k + 1 \in 2 .. Len(t) + 1 /\ (k + 1) - 1 = i + 1 /\ i < Len(t)
              BY <3>2, <6>1, <6>2
            <7>2. QED
              BY <3>2, <7>1
          <6>3. ASSUME i > 1
                PROVE  w[k - 1] = t[i - 1]
            <7>1. k - 1 \in 2 .. Len(t) + 1 /\ (k - 1) - 1 = i - 1
              BY <3>2, <6>1, <6>3
            <7>2. QED
              BY <3>2, <7>1
          <6>4. QED
            BY <6>1, <6>2, <6>3
        <5>3. /\ t[i].do # "upload"
              /\ t[i].do = "queue" /\ i < Len(t) => t[i + 1].do = "complete"
              /\ t[i].do = "package" /\ i > 1 => t[i - 1].do = "finalize"
              /\ t[i].do = "delete" => i = Len(t)
          BY <2>3, <5>2 DEF Formed
        <5>4. i = 1 => t[i].do = "complete"
          BY <2>3, <5>2
        <5>5. QED
          BY <3>2, <5>2, <5>3, <5>4
      <4>3. QED
        BY <4>1, <4>2
    <3>4. QED
      BY <3>1, <3>3 DEF Formed
  <2>5. Tolerant(t)
    BY <2>1, <2>2, <2>3 DEF Tolerant, UsesCopy, Refreshes
  <2>6. ASSUME NEW k \in 1 .. Len(<<u>> \o t), UsesCopy((<<u>> \o t)[k])
        PROVE  \E j \in 1 .. k - 1 : Refreshes((<<u>> \o t)[j])
    <3>1. k # 1 /\ k \in 2 .. Len(t) + 1 /\ Len(t) > 0
      BY <1>1, <2>1, <2>2, <2>6 DEF UsesCopy
    <3>2. k # 2
      BY <1>1, <2>1, <2>2, <2>3, <2>6, <3>1 DEF UsesCopy
    <3>3. 2 \in 1 .. k - 1 /\ Refreshes((<<u>> \o t)[2])
      BY <1>1, <2>1, <2>2, <2>3, <3>1, <3>2 DEF Refreshes
    <3>4. QED
      BY <3>3
  <2>7. QED
    BY <2>2, <2>4, <2>5, <2>6 DEF Tolerant
<1>4. QED
  BY <1>1, <1>2, <1>3

\* What a catch block leaves of a script: the suffix after the try block, in
\* which the task that failed was.
LEMMA AfterTryForms ==
  ASSUME op \in Operations, op.todo # <<>>, Formed(op.todo), Task.try # None
  PROVE  /\ Missing(Task.try) \in Tasks
         /\ Handler(Task.try) \in Seq(Tasks)
         /\ Formed(Handler(Task.try))
         /\ Handler(Task.try) # <<>> /\ Head(Handler(Task.try)) = Missing(Task.try)
<1> DEFINE a == Task.try
<1>1. PICK todo : todo = op.todo
  OBVIOUS
<1>2. todo \in Seq(Tasks) /\ Len(todo) \in Nat \ {0} /\ Task = todo[1] /\ todo[1] \in Tasks
  BY <1>1 DEF Operations, Task
<1>3. a \in Names
  BY <1>2, TaskFields DEF Tries
<1>4. Missing(a) \in Tasks /\ Missing(a).do = "missing"
  BY <1>3, TaskTypes DEF Missing
<1>5. CASE a = Recording
  <2>1. /\ Simple("read") \in Tasks /\ Save(FALSE) \in Tasks
        /\ Simple("read").do = "read" /\ Save(FALSE).do = "save"
    BY TaskTypes DEF Simple, Save
  <2>2. Plain(<<Missing(a), Simple("read"), Save(FALSE)>>)
    BY <1>4, <2>1, PlainPieces
  <2>3. Plain(Handler(a))
    BY <1>5, <2>2 DEF Handler
  <2>4. Handler(a) # <<>> /\ Head(Handler(a)) = Missing(a)
    <3>1. \A x, y, z : <<x, y, z>> # <<>> /\ Head(<<x, y, z>>) = x
      OBVIOUS
    <3>2. Handler(a) = <<Missing(a), Simple("read"), Save(FALSE)>>
      BY <1>5 DEF Handler
    <3>3. QED
      BY <3>1, <3>2
  <2>5. QED
    BY <1>4, <2>3, <2>4, PlainForms DEF Plain
<1>6. CASE a # Recording
  <2>1. PICK n : n = Cardinality(InTry(a))
    OBVIOUS
  <2>2. InTry(a) \in SUBSET (1 .. Len(todo)) /\ 1 \in InTry(a)
    BY <1>1, <1>2 DEF InTry
  <2>3. IsFiniteSet(1 .. Len(todo)) /\ Cardinality(1 .. Len(todo)) = Len(todo)
    BY <1>2, FS_Interval
  <2>4. n \in 1 .. Len(todo)
    <3>1. IsFiniteSet(InTry(a)) /\ n \in Nat /\ n <= Len(todo)
      BY <2>1, <2>2, <2>3, FS_Subset, FS_CardinalityType
    <3>2. n # 0
      BY <2>1, <2>2, <3>1, FS_EmptySet
    <3>3. QED
      BY <1>2, <3>1, <3>2
  <2>5. n \in InTry(a)
    <3>1. SUFFICES ASSUME n \notin InTry(a)
                   PROVE  FALSE
      OBVIOUS
    <3>2. \A i \in InTry(a) : i < n
      BY <1>1, <1>2, <2>4, <3>1 DEF InTry
    <3>3. PICK m \in Nat : n = m + 1
      BY <2>4
    <3>4. InTry(a) \in SUBSET (1 .. m)
      BY <2>2, <2>4, <3>2, <3>3
    <3>5. IsFiniteSet(1 .. m) /\ Cardinality(1 .. m) = m
      BY <3>3, FS_Interval
    <3>6. Cardinality(InTry(a)) <= Cardinality(1 .. m)
      BY <3>4, <3>5, FS_Subset
    <3>7. QED
      BY <2>1, <3>3, <3>5, <3>6
  <2>6. PICK t : t = SubSeq(todo, n + 1, Len(todo))
    OBVIOUS
  <2>7. /\ t \in Seq(Tasks) /\ Len(t) = Len(todo) - n
        /\ \A k \in 1 .. Len(t) : t[k] = todo[n + k]
    BY <1>2, <2>4, <2>6
  <2>8. PICK w : w = <<Missing(a)>> \o t
    OBVIOUS
  <2>9. /\ w \in Seq(Tasks) /\ Len(w) = Len(t) + 1 /\ w[1] = Missing(a)
        /\ \A k \in 1 .. Len(t) : w[k + 1] = t[k]
    BY <1>4, <2>7, <2>8
  <2>10. todo[n].do # "finalize"
    BY <1>1, <1>2, <1>3, <2>4, <2>5 DEF InTry, Tasks
  <2>11. Formed(w)
    <3>1. ASSUME NEW k \in 1 .. Len(w)
          PROVE  /\ w[k].do = "upload" => k = 1
                 /\ w[k].do = "queue" /\ k < Len(w) => w[k + 1].do = "complete"
                 /\ w[k].do = "package" /\ k > 1 => w[k - 1].do = "finalize"
                 /\ w[k].do = "delete" => k = Len(w)
      <4>1. CASE k = 1
        BY <1>4, <2>9, <4>1
      <4>2. CASE k # 1
        <5>1. PICK i : i = k - 1
          OBVIOUS
        <5>2. i \in 1 .. Len(t) /\ k = i + 1 /\ w[k] = t[i] /\ t[i] = todo[n + i]
              /\ n + i \in 2 .. Len(todo)
          BY <1>2, <2>4, <2>7, <2>9, <4>2, <5>1
        <5>3. k < Len(w) => w[k + 1] = todo[(n + i) + 1] /\ n + i < Len(todo)
          <6>1. ASSUME k < Len(w)
                PROVE  i + 1 \in 1 .. Len(t) /\ k = i + 1 /\ n + (i + 1) = (n + i) + 1
                       /\ n + i < Len(todo)
            BY <1>2, <2>4, <2>7, <2>9, <5>2, <6>1
          <6>2. QED
            BY <2>7, <2>9, <6>1
        <5>4. k = 2 => todo[(n + i) - 1].do # "finalize"
          <6>1. k = 2 => (n + i) - 1 = n
            BY <2>4, <5>2
          <6>2. QED
            BY <2>10, <6>1
        <5>5. k > 2 => w[k - 1] = todo[(n + i) - 1]
          <6>1. ASSUME k > 2
                PROVE  i - 1 \in 1 .. Len(t) /\ k - 1 = (i - 1) + 1 /\ n + (i - 1) = (n + i) - 1
            BY <1>2, <2>4, <2>7, <5>2, <6>1
          <6>2. QED
            BY <2>7, <2>9, <6>1
        <5>6. /\ todo[n + i].do # "upload"
              /\ todo[n + i].do = "queue" /\ n + i < Len(todo) => todo[(n + i) + 1].do = "complete"
              /\ todo[n + i].do = "package" => todo[(n + i) - 1].do = "finalize"
              /\ todo[n + i].do = "delete" => n + i = Len(todo)
          <6>1. PICK j : j = n + i
            OBVIOUS
          <6>2. j \in 2 .. Len(todo) /\ Len(todo) \in Nat
            BY <1>2, <5>2, <6>1
          <6>3. /\ todo[j].do # "upload"
                /\ todo[j].do = "queue" /\ j < Len(todo) => todo[j + 1].do = "complete"
                /\ todo[j].do = "package" => todo[j - 1].do = "finalize"
                /\ todo[j].do = "delete" => j = Len(todo)
            BY <1>1, <6>2 DEF Formed
          <6>4. QED
            BY <6>1, <6>3
        <5>7. todo[n + i].do = "delete" => k = Len(w)
          <6>1. Len(w) = (Len(todo) - n) + 1 /\ k = i + 1
            BY <2>7, <2>9, <5>2
          <6>2. n \in Nat /\ i \in Nat /\ Len(todo) \in Nat
            BY <1>2, <2>4, <2>7, <5>2
          <6>3. n + i = Len(todo) => k = Len(w)
            BY <6>1, <6>2
          <6>4. QED
            BY <5>6, <6>3
        <5>8. k = 2 \/ k > 2
          BY <4>2
        <5>9. QED
          BY <4>2, <5>2, <5>3, <5>4, <5>5, <5>6, <5>7, <5>8
      <4>3. QED
        BY <4>1, <4>2
    <3>2. QED
      BY <3>1 DEF Formed
  <2>12. Handler(a) = w
    BY <1>1, <1>6, <2>1, <2>6, <2>8 DEF Handler, AfterTry
  <2>13. w # <<>> /\ Head(w) = Missing(a)
    BY <2>9, <2>7
  <2>14. QED
    BY <1>4, <2>9, <2>11, <2>12, <2>13
<1>7. QED
  BY <1>5, <1>6

-----------------------------------------------------------------------------
(***************************************************************************)
(* The invariant of the extension: what is left of the script that runs,   *)
(* and what the request it waits for was made of.                          *)
(***************************************************************************)
\* A task that needs no session.
Harmless(t) == t.do \in {"throw", "queue", "upload"} /\ t.try = None

FormInv == op # None => Formed(op.todo)

\* An operation that still needs the session has it, in IndexedDB and in memory.
LiveInv ==
  op # None =>
    \/ local # None /\ op.s # None /\ op.s.status # "complete"
    \/ \A k \in 1 .. Len(op.todo) : Harmless(op.todo[k])

Linking == {"event", "complete", "missing"}

\* The request carries the data its kind says.
Fits(r) ==
  /\ r.kind = "event" => r.entry.facts.type \in EventNames
  /\ r.kind = "part" => /\ r.entry.facts.type = "artifact_part"
                        /\ r.entry.facts.data = PartData(r.artifact, r.part, r.bytes)
  /\ r.kind = "complete" => /\ r.entry.facts.type = "artifact_completed"
                            /\ r.entry.facts.data \in [artifact : Names, hash : Seq(Contents)]
  /\ r.kind = "missing" => /\ r.entry.facts.type = "artifact_unavailable"
                           /\ r.entry.facts.data \in [artifact : Names, status : {"unavailable"}]

KindOf(do) == IF do = "upload" THEN "part" ELSE do

Matches(r, p) ==
  p.artifact = r.artifact /\ p.part = r.part /\ p.bytes = r.bytes /\ p.entry = r.entry

\* What the request of the running task was made of.
CallOK(r) ==
  /\ Fits(r)
  /\ r.kind = KindOf(Task.do)
  /\ r.kind \in Linking => /\ r.entry.previous = op.s.prev
                           /\ r.entry.facts.seq = op.s.seq
                           /\ local # None /\ op.s # None
  /\ r.kind = "part" => \E p \in store : /\ Matches(r, p)
                                         /\ p.artifact = Task.artifact /\ p.part = Task.part
  /\ r.kind = "finalize" => r.close = CloseOf(op.s)

CallInv ==
  op # None =>
    /\ op.failed => op.todo # <<>> /\ op.call = None
    /\ op.todo # <<>> /\ Task.do = "upload" =>
         \E p \in store : p.artifact = Task.artifact /\ p.part = Task.part
    /\ op.call # None => op.todo # <<>> /\ CallOK(op.call.request)

StopperInv == stopper.pc = "saving" => stopper.copy # None /\ stopper.copy.status # "complete"

\* The parts of an artifact are numbered without a gap, once each.
OnePart  == \A p, q \in store : p.artifact = q.artifact /\ p.part = q.part => p = q
Numbered ==
  \A a \in Names : {p.part : p \in LocalOf(a)} = 0 .. Cardinality(LocalOf(a)) - 1
PartEntries ==
  \A p \in store : /\ p.entry.facts.type = "artifact_part"
                   /\ p.entry.facts.data = PartData(p.artifact, p.part, p.bytes)

StoreInv == IsFiniteSet(store) /\ OnePart /\ Numbered /\ PartEntries

\* The upload the server has under way is the one whose request is served.
Served(r) ==
  [key |-> PartKey(r.artifact, r.part), artifact |-> r.artifact, part |-> r.part,
   hash |-> r.bytes, entry |-> r.entry, signer |-> TheKey]

WireInv ==
  /\ \A c \in wire : Fits(c.request)
  /\ serving # None => /\ serving.request.kind = "part" /\ Fits(serving.request)
                       /\ upload = Served(serving.request)

ClientInv ==
  ClientTypeOK /\ FormInv /\ LiveInv /\ CallInv /\ StopperInv /\ StoreInv /\ WireInv

-----------------------------------------------------------------------------
(***************************************************************************)
(* What the extension makes is well typed.                                 *)
(***************************************************************************)
LEMMA TheKeyType == TheKey \in Keys
BY KeysAssumption DEF TheKey

\* A new session, and what the extension makes of a session.
LEMMA SessionTypes ==
  ASSUME ClientTypeOK
  PROVE  /\ \A source \in {"tab", "desktop"} :
              NewSession(source) \in LocalSessions /\ NewSession(source) # None
         /\ \A e \in Drafts : EntryHash(e) \in Seq(DraftFacts)
         /\ \A s \in LocalSessions, e \in Drafts : Advance(s, e) \in LocalSessions
         /\ \A s \in LocalSessions, type \in EntryTypes, data \in DraftData :
              MakeEntry(s, type, data) \in Drafts
         /\ \A s \in LocalSessions : CloseOf(s) \in ClientCloses
         /\ None \notin LocalSessions /\ None \notin Calls /\ None # "ok" /\ None # "refused"
<1>1. \A source \in {"tab", "desktop"} : NewSession(source) \in LocalSessions
  <2>1. 0 \in Clocks
    BY ClientAssumption
  <2>2. <<>> \in Seq(DraftFacts)
    OBVIOUS
  <2>3. QED
    BY <2>1, <2>2 DEF NewSession, LocalSessions
<1>2. \A e \in Drafts : EntryHash(e) \in Seq(DraftFacts)
  BY DEF EntryHash, Drafts
<1>3. \A s \in LocalSessions, e \in Drafts : Advance(s, e) \in LocalSessions
  <2>1. ASSUME NEW s \in LocalSessions, NEW h \in Seq(DraftFacts)
        PROVE  [s EXCEPT !.seq = s.seq + 1, !.prev = h] \in LocalSessions
    <3>1. PICK t : t = [s EXCEPT !.seq = s.seq + 1, !.prev = h]
      OBVIOUS
    <3>2. t = [status |-> t.status, source |-> t.source, seq |-> t.seq, prev |-> t.prev,
               clock |-> t.clock, recording |-> t.recording, finished |-> t.finished,
               artifacts |-> t.artifacts]
      BY <3>1 DEF LocalSessions
    <3>3. QED
      BY <3>1, <3>2 DEF LocalSessions
  <2>2. QED
    BY <1>2, <2>1 DEF Advance
<1>4. \A s \in LocalSessions, type \in EntryTypes, data \in DraftData :
        MakeEntry(s, type, data) \in Drafts
  BY DEF MakeEntry, LocalSessions, Drafts, DraftFacts, ClientTypeOK
<1>5. \A s \in LocalSessions : CloseOf(s) \in ClientCloses
  <2>1. ASSUME NEW s \in LocalSessions, NEW g \in BOOLEAN
        PROVE  [root |-> s.prev, count |-> s.seq, artifacts |-> s.artifacts,
                gaps |-> g, key |-> TheKey] \in ClientCloses
    BY <2>1 DEF LocalSessions, ClientCloses
  <2>2. QED
    BY <2>1 DEF CloseOf
<1>6. QED
  BY <1>1, <1>2, <1>3, <1>4, <1>5, ClientNoneAssumption

\* An operation after its first task, after a failure and after an answer.
LEMMA OperationTypes ==
  ASSUME NEW o \in Operations, o.todo # <<>>
  PROVE  /\ Done(o) \in Operations /\ Done(o).todo = Tail(o.todo)
         /\ Done(o).name = o.name /\ Done(o).s = o.s /\ Done(o).call = o.call
         /\ Done(o).answer = o.answer /\ Done(o).failed = o.failed
         /\ Failing(o) \in Operations /\ Failing(o).todo = o.todo
         /\ Failing(o).name = o.name /\ Failing(o).s = o.s /\ Failing(o).call = None
         /\ Failing(o).answer = None /\ Failing(o).failed = TRUE
         /\ Head(o.todo) \in Tasks /\ Tail(o.todo) \in Seq(Tasks)
<1>1. Head(o.todo) \in Tasks /\ Tail(o.todo) \in Seq(Tasks)
  BY DEF Operations
<1>2. Done(o) \in Operations
  BY <1>1 DEF Done, Operations
<1>3. Failing(o) \in Operations
  <2>1. PICK u : u = Failing(o)
    OBVIOUS
  <2>2. u = [name |-> u.name, todo |-> u.todo, s |-> u.s, call |-> u.call,
             answer |-> u.answer, failed |-> u.failed]
    BY <2>1 DEF Failing, Operations
  <2>3. QED
    BY <2>1, <2>2 DEF Failing, Operations
<1>4. QED
  BY <1>1, <1>2, <1>3 DEF Done, Failing, Operations

\* The operation after its task is answered.
LEMMA ReceivedType ==
  ASSUME op \in Operations, op.todo # <<>>
  PROVE  /\ Received \in Operations /\ Received.todo = Tail(op.todo)
         /\ Received.name = op.name /\ Received.s = op.s /\ Received.call = None
         /\ Received.answer = None /\ Received.failed = op.failed
<1>1. PICK d \in Operations : d = Done(op)
  BY OperationTypes
<1>2. /\ d.todo = Tail(op.todo) /\ d.name = op.name /\ d.s = op.s /\ d.failed = op.failed
  BY <1>1, OperationTypes
<1>3. PICK u : u = [d EXCEPT !.call = None, !.answer = None]
  OBVIOUS
<1>4. /\ u = [name |-> u.name, todo |-> u.todo, s |-> u.s, call |-> u.call,
              answer |-> u.answer, failed |-> u.failed]
      /\ u.call = None /\ u.answer = None /\ u.name = d.name /\ u.todo = d.todo /\ u.s = d.s
      /\ u.failed = d.failed
  BY <1>3 DEF Operations
<1>5. u \in Operations
  BY <1>4 DEF Operations
<1>6. u = Received
  BY <1>1, <1>3 DEF Received
<1>7. QED
  BY <1>2, <1>4, <1>5, <1>6

Recorders == [doc : BOOLEAN, on : BOOLEAN, pending : Nat, emitted : 0 .. MaxChunks,
              failed : BOOLEAN]

\* A recorder that stops, and the messages of its last chunk.
LEMMA StoppedType ==
  ASSUME ClientTypeOK, NEW last \in LastChunks,
         NEW r \in Recorders, r.emitted = recorder.emitted
  PROVE  /\ Stopped(r, last) \in Recorders /\ last \in Seq(Messages)
         /\ Stopped(r, last).doc = r.doc /\ Stopped(r, last).on = FALSE
         /\ Stopped(r, last).pending = r.pending + Len(last)
<1>1. recorder \in Recorders
  BY DEF ClientTypeOK, Recorders
<1>2. /\ last \in Seq(Messages) /\ Len(last) \in Nat
      /\ r.emitted + Len(last) \in 0 .. MaxChunks
  <2>1. CASE last = <<>>
    BY <2>1, ClientAssumption DEF Recorders
  <2>2. CASE last # <<>>
    <3>1. recorder.emitted < MaxChunks /\ last = <<ChunkMessage(recorder.emitted + 1)>>
      BY <2>2 DEF LastChunks
    <3>2. recorder.emitted + 1 \in 0 .. MaxChunks
      BY <1>1, <3>1, ClientAssumption DEF Recorders
    <3>3. ChunkMessage(recorder.emitted + 1) \in Messages
      BY <3>2, ClientAssumption DEF ChunkMessage, Messages
    <3>4. QED
      BY <1>1, <3>1, <3>2, <3>3
  <2>3. QED
    BY <2>1, <2>2
<1>3. PICK u : u = Stopped(r, last)
  OBVIOUS
<1>4. /\ u.doc = r.doc /\ u.on = FALSE /\ u.pending = r.pending + Len(last)
      /\ u.emitted = r.emitted + Len(last) /\ u.failed = r.failed
  BY <1>3 DEF Stopped, Recorders
<1>5. u.doc \in BOOLEAN /\ u.on \in BOOLEAN /\ u.failed \in BOOLEAN
  BY <1>4 DEF Recorders
<1>6. u.emitted \in 0 .. MaxChunks /\ u.pending \in Nat
  BY <1>2, <1>4 DEF Recorders
<1>7. u = [doc |-> u.doc, on |-> u.on, pending |-> u.pending, emitted |-> u.emitted,
           failed |-> u.failed]
  BY <1>3 DEF Stopped, Recorders
<1>8. u \in Recorders
  BY <1>5, <1>6, <1>7 DEF Recorders
<1>9. QED
  BY <1>2, <1>3, <1>4, <1>8

\* What a request holds.
LEMMA RequestFields ==
  ASSUME NEW r \in Requests
  PROVE  /\ r.kind \in Linking \cup {"part", "finalize", "package"}
         /\ r.kind \in Linking \cup {"part"} => r.entry \in Drafts
         /\ r.kind = "part" => r.artifact \in Names /\ r.part \in Nat /\ r.bytes \in Contents
         /\ r.kind = "complete" => r.count \in Nat
         /\ r.kind = "finalize" => r.close \in ClientCloses
BY DEF Requests, Linking

\* A script that runs has a session in memory before every task but a queued
\* chunk, an upload and a throw.
LEMMA RunsLive ==
  ASSUME ClientTypeOK, LiveInv, op # None, op.todo # <<>>, ~Harmless(Task)
  PROVE  /\ local # None /\ local \in LocalSessions
         /\ op.s # None /\ op.s \in LocalSessions /\ op.s.status # "complete"
<1>1. Len(op.todo) \in Nat \ {0} /\ Task = op.todo[1] /\ op \in Operations
  BY DEF ClientTypeOK, Operations, Task
<1>2. local # None /\ op.s # None /\ op.s.status # "complete"
  BY <1>1 DEF LiveInv
<1>3. QED
  BY <1>1, <1>2 DEF ClientTypeOK, Operations

\* The parts of an artifact, counted and hashed.
LEMMA LocalParts ==
  ASSUME ClientTypeOK, StoreInv, NEW a \in Names
  PROVE  /\ Cardinality(LocalOf(a)) \in Nat /\ IsFiniteSet(LocalOf(a))
         /\ LocalHash(a) \in Seq(Contents)
         /\ \A p \in LocalOf(a) : p.part < Cardinality(LocalOf(a))
         /\ \A i \in 0 .. Cardinality(LocalOf(a)) - 1 : \E p \in LocalOf(a) : p.part = i
<1>1. IsFiniteSet(LocalOf(a)) /\ Cardinality(LocalOf(a)) \in Nat
  BY FS_Subset, FS_CardinalityType DEF StoreInv, LocalOf
<1>2. PICK n \in Nat : n = Cardinality(LocalOf(a))
  BY <1>1
<1>3. {p.part : p \in LocalOf(a)} = 0 .. n - 1
  BY <1>2 DEF StoreInv, Numbered
<1>4. /\ \A p \in LocalOf(a) : p.part < n
      /\ \A i \in 0 .. n - 1 : \E p \in LocalOf(a) : p.part = i
  <2>1. PICK S : S = {p.part : p \in LocalOf(a)}
    OBVIOUS
  <2>2. \A p \in LocalOf(a) : p.part \in S
    BY <2>1
  <2>3. \A i \in S : \E p \in LocalOf(a) : p.part = i
    BY <2>1
  <2>4. S = 0 .. n - 1
    BY <1>3, <2>1
  <2>5. \A i \in S : i < n
    BY <1>2, <2>4
  <2>6. QED
    BY <2>2, <2>3, <2>4, <2>5
<1>5. \A p \in LocalOf(a) : p.bytes \in Contents
  BY DEF LocalOf, ClientTypeOK, StoredParts
<1>6. ASSUME NEW i \in 1 .. n
      PROVE  (CHOOSE p \in LocalOf(a) : p.part = i - 1).bytes \in Contents
  <2>1. i - 1 \in 0 .. n - 1
    OBVIOUS
  <2>2. \E p \in LocalOf(a) : p.part = i - 1
    BY <1>4, <2>1
  <2>3. QED
    BY <1>5, <2>2
<1>7. LocalHash(a) \in Seq(Contents)
  BY <1>2, <1>6 DEF LocalHash
<1>8. QED
  BY <1>1, <1>2, <1>4, <1>7

\* The request of the running task.
LEMMA MakeRequestType ==
  ASSUME ClientInv, op # None, op.todo # <<>>,
         Task.do \in {"event", "upload", "complete", "missing", "finalize", "package"},
         Task.do \in {"complete", "missing"} => Active
  PROVE  /\ MakeRequest(Task) \in Requests /\ Fits(MakeRequest(Task))
         /\ MakeRequest(Task).kind = KindOf(Task.do)
         /\ SessionOf(Task) \in LocalSessions \cup {None}
         /\ Task.do # "upload" => /\ local # None /\ SessionOf(Task) # None
                                  /\ SessionOf(Task).status # "complete"
         /\ Task.do \in Linking =>
              /\ MakeRequest(Task).entry.previous = SessionOf(Task).prev
              /\ MakeRequest(Task).entry.facts.seq = SessionOf(Task).seq
         /\ Task.do = "upload" =>
              \E p \in store : /\ Matches(MakeRequest(Task), p)
                               /\ p.artifact = Task.artifact /\ p.part = Task.part
         /\ Task.do = "finalize" => MakeRequest(Task).close = CloseOf(SessionOf(Task))
<1>1. PICK t \in Tasks : t = Task
  BY OperationTypes DEF ClientInv, ClientTypeOK, Task
<1>2. /\ ClientTypeOK /\ StoreInv /\ op \in Operations
      /\ SessionOf(Task) \in LocalSessions \cup {None}
  BY DEF ClientInv, ClientTypeOK, Operations, SessionOf
<1>3. t.do # "upload" => /\ local # None /\ local \in LocalSessions
                         /\ op.s \in LocalSessions /\ op.s.status # "complete" /\ op.s # None
  BY <1>1, RunsLive DEF ClientInv, Harmless
<1>4. t.do # "upload" => SessionOf(t) # None /\ SessionOf(t).status # "complete"
  BY <1>1, <1>3 DEF SessionOf, Active
<1>5. CASE t.do = "event"
  <2>1. PICK e \in Drafts : e = MakeEntry(op.s, t.type, NoData) /\ e.facts.type = t.type
                            /\ e.previous = op.s.prev /\ e.facts.seq = op.s.seq
    <3>1. t.type \in EventNames /\ t.type \in EntryTypes /\ NoData \in DraftData
      BY <1>5, TaskFields DEF EventNames, EntryTypes, DraftData
    <3>2. MakeEntry(op.s, t.type, NoData) \in Drafts
      BY <1>2, <1>3, <1>5, <3>1, SessionTypes
    <3>3. QED
      BY <3>2 DEF MakeEntry
  <2>2. MakeRequest(t) = [kind |-> "event", entry |-> e]
    BY <1>5, <2>1 DEF MakeRequest
  <2>3. MakeRequest(t) \in Requests
    BY <2>1, <2>2 DEF Requests
  <2>4. t.type \in EventNames
    BY <1>5, TaskFields
  <2>5. QED
    BY <1>1, <1>2, <1>3, <1>4, <1>5, <2>1, <2>2, <2>3, <2>4 DEF Fits, KindOf, SessionOf, Linking
<1>6. CASE t.do = "upload"
  <2>1. \E p \in store : p.artifact = t.artifact /\ p.part = t.part
    BY <1>1, <1>6 DEF ClientInv, CallInv
  <2>2. PICK p \in store : /\ p = CHOOSE q \in store : q.artifact = t.artifact /\ q.part = t.part
                           /\ p.artifact = t.artifact /\ p.part = t.part
    BY <2>1
  <2>3. MakeRequest(t) = [kind |-> "part", artifact |-> p.artifact, part |-> p.part,
                          bytes |-> p.bytes, entry |-> p.entry]
    BY <1>6, <2>2 DEF MakeRequest
  <2>4. p \in StoredParts
    BY <1>2 DEF ClientTypeOK
  <2>5. MakeRequest(t) \in Requests
    BY <2>3, <2>4 DEF Requests, StoredParts
  <2>6. Fits(MakeRequest(t))
    BY <1>2, <2>3 DEF Fits, StoreInv, PartEntries
  <2>7. Matches(MakeRequest(t), p)
    BY <2>3 DEF Matches
  <2>8. MakeRequest(t).kind = KindOf(t.do)
    BY <1>6, <2>3 DEF KindOf
  <2>9. t.do # "finalize" /\ t.do \notin Linking
    BY <1>6 DEF Linking
  <2>10. QED
    BY <1>1, <1>2, <1>6, <2>2, <2>5, <2>6, <2>7, <2>8, <2>9
<1>7. CASE t.do = "complete"
  <2>1. t.artifact \in Names
    BY <1>7, TaskFields
  <2>2. PICK d : d = DoneData(t.artifact, LocalHash(t.artifact))
    OBVIOUS
  <2>3. d \in [artifact : Names, hash : Seq(Contents)]
    BY <1>2, <2>1, <2>2, LocalParts DEF DoneData
  <2>4. PICK e : e = MakeEntry(local, "artifact_completed", d)
    OBVIOUS
  <2>5. /\ e \in Drafts /\ e.facts.type = "artifact_completed" /\ e.facts.data = d
        /\ e.previous = local.prev /\ e.facts.seq = local.seq
    <3>1. d \in DraftData /\ "artifact_completed" \in EntryTypes
      BY <2>3 DEF DraftData, EntryTypes
    <3>2. e \in Drafts
      BY <1>2, <1>3, <1>7, <2>4, <3>1, SessionTypes
    <3>3. QED
      BY <2>4, <3>2 DEF MakeEntry
  <2>6. PICK n : n = Cardinality(LocalOf(t.artifact))
    OBVIOUS
  <2>7. n \in Nat
    BY <1>2, <2>1, <2>6, LocalParts
  <2>8. MakeRequest(t) = [kind |-> "complete", count |-> n, entry |-> e]
    BY <1>7, <2>2, <2>4, <2>6 DEF MakeRequest
  <2>9. MakeRequest(t) \in Requests
    BY <2>5, <2>7, <2>8 DEF Requests
  <2>10. QED
    BY <1>1, <1>2, <1>3, <1>4, <1>7, <2>3, <2>5, <2>8, <2>9 DEF Fits, KindOf, SessionOf, Linking
<1>8. CASE t.do = "missing"
  <2>1. t.artifact \in Names
    BY <1>8, TaskFields
  <2>2. PICK d : d = GoneData(t.artifact, "unavailable")
    OBVIOUS
  <2>3. d \in [artifact : Names, status : {"unavailable"}]
    BY <2>1, <2>2 DEF GoneData
  <2>4. PICK e : e = MakeEntry(local, "artifact_unavailable", d)
    OBVIOUS
  <2>5. /\ e \in Drafts /\ e.facts.type = "artifact_unavailable" /\ e.facts.data = d
        /\ e.previous = local.prev /\ e.facts.seq = local.seq
    <3>1. d \in DraftData /\ "artifact_unavailable" \in EntryTypes
      BY <2>3 DEF DraftData, EntryTypes
    <3>2. e \in Drafts
      BY <1>2, <1>3, <1>8, <2>4, <3>1, SessionTypes
    <3>3. QED
      BY <2>4, <3>2 DEF MakeEntry
  <2>6. MakeRequest(t) = [kind |-> "missing", entry |-> e]
    BY <1>8, <2>2, <2>4 DEF MakeRequest
  <2>7. MakeRequest(t) \in Requests
    BY <2>5, <2>6 DEF Requests
  <2>8. QED
    BY <1>1, <1>2, <1>3, <1>4, <1>8, <2>3, <2>5, <2>6, <2>7 DEF Fits, KindOf, SessionOf, Linking
<1>9. CASE t.do = "finalize"
  <2>1. CloseOf(op.s) \in ClientCloses
    BY <1>2, <1>3, <1>9, SessionTypes
  <2>2. MakeRequest(t) = [kind |-> "finalize", close |-> CloseOf(op.s)]
    BY <1>9 DEF MakeRequest
  <2>3. MakeRequest(t) \in Requests
    BY <2>1, <2>2 DEF Requests
  <2>4. QED
    BY <1>1, <1>2, <1>3, <1>4, <1>9, <2>2, <2>3 DEF Fits, KindOf, SessionOf, Linking
<1>10. CASE t.do = "package"
  <2>1. MakeRequest(t) = [kind |-> "package"]
    BY <1>10 DEF MakeRequest
  <2>2. MakeRequest(t) \in Requests
    BY <2>1 DEF Requests
  <2>3. QED
    BY <1>1, <1>2, <1>3, <1>4, <1>10, <2>1, <2>2 DEF Fits, KindOf, SessionOf, Linking
<1>11. QED
  BY <1>1, <1>5, <1>6, <1>7, <1>8, <1>9, <1>10

-----------------------------------------------------------------------------
(***************************************************************************)
(* The scripts are well formed.                                            *)
(***************************************************************************)
LEMMA NamesKnown ==
  /\ Recording \in Names /\ Page \in Names /\ Context \in Names
  /\ \A n \in Nat : Shot(n) \in Names
  /\ 0 \in Contents /\ Names \subseteq Tries /\ None \in Tries
BY ClientAssumption DEF Names, Shot, Tries

\* An artifact of one part, and the start of the recorder.
LEMMA WholePlain ==
  ASSUME NEW a \in Names, NEW try \in Tries
  PROVE  Plain(Whole(a, 0, try))
<1>1. Queue(a, 0, try) \in Tasks /\ Complete(a, try) \in Tasks
  BY NamesKnown, TaskTypes
<1>2. Queue(a, 0, try).do = "queue" /\ Complete(a, try).do = "complete"
  BY DEF Queue, Complete
<1>3. QED
  BY <1>1, <1>2, PlainPieces DEF Whole

\* The two tasks that start the recorder are a plain piece.
LEMMA RecordingStartsPlain ==
  ASSUME NEW try \in Tries
  PROVE  Plain(RecordingStarts(try))
<1>1. PICK t : t = [do |-> "record", try |-> try]
  OBVIOUS
<1>2. PICK u : u = [Event("marker") EXCEPT !.try = try]
  OBVIOUS
<1>3. t \in Tasks /\ t.do = "record"
  BY <1>1 DEF Tasks
<1>4. u \in Tasks /\ u.do = "event"
  <2>1. u = [do |-> "event", type |-> "marker", try |-> try]
    BY <1>2 DEF Event
  <2>2. QED
    BY <2>1 DEF Tasks, EventNames
<1>5. QED
  BY <1>1, <1>2, <1>3, <1>4, PlainPieces DEF RecordingStarts

\* Single tasks that may stand anywhere.
LEMMA SimplePlain ==
  /\ \A do \in {"read", "retry", "finished", "finalize", "interrupt", "ask", "await", "throw"} :
       Simple(do) \in Tasks /\ Simple(do).do = do /\ Plain(<<Simple(do)>>)
  /\ \A type \in EventNames : Event(type) \in Tasks /\ Event(type).do = "event" /\ Plain(<<Event(type)>>)
  /\ \A on \in BOOLEAN : Plain(<<Save(on)>>)
  /\ \A clock \in Clocks : Plain(<<Restart(clock)>>)
  /\ \A a \in Names : Plain(<<Missing(a)>>)
  /\ \A a \in Names, try \in Tries : Plain(<<Complete(a, try)>>)
  /\ \A was \in BOOLEAN, do \in {"begin", "finalizing"} : Plain(<<Begin(do, was)>>)
<1>1. \A do : Simple(do).do = do
  BY DEF Simple
<1>2. \A type : Event(type).do = "event"
  BY DEF Event
<1>3. /\ \A on : Save(on).do = "save"
      /\ \A clock : Restart(clock).do = "restart"
      /\ \A a : Missing(a).do = "missing"
      /\ \A a, try : Complete(a, try).do = "complete"
      /\ \A was, do : Begin(do, was).do = do
  BY DEF Save, Restart, Missing, Complete, Begin
<1>4. \A a \in Names, try \in Tries : Complete(a, try) \in Tasks
  BY TaskTypes, NamesKnown
<1>5. QED
  BY <1>1, <1>2, <1>3, <1>4, TaskTypes, PlainPieces

\* So are the scripts of startCapture,
LEMMA StartScriptsPlain ==
  ASSUME NEW source, NEW script \in StartScripts(source)
  PROVE  Plain(script)
<1>1. Plain(<<Event("capture_started")>>) /\ Plain(<<Simple("read")>>) /\ Plain(<<Save(TRUE)>>)
  BY SimplePlain DEF EventNames
<1>2. PICK first \in IF source = "tab" THEN Screenshots(Page) ELSE {<<>>} :
        script = <<Event("capture_started")>> \o first \o <<Simple("read")>>
                   \o RecordingStarts(Recording) \o <<Save(TRUE)>>
  BY DEF StartScripts
<1>3. Plain(first)
  <2>1. first \in {Whole(Page, 0, Page), <<Missing(Page)>>, <<>>}
    BY <1>2 DEF Screenshots
  <2>2. QED
    BY <2>1, WholePlain, SimplePlain, NamesKnown, PlainPieces
<1>4. Plain(RecordingStarts(Recording))
  BY RecordingStartsPlain, NamesKnown
<1>5. QED
  BY <1>1, <1>2, <1>3, <1>4, PlainConcat

\* of resumeCapture,
LEMMA ResumeScriptPlain ==
  ASSUME NEW clock \in Clocks
  PROVE  Plain(ResumeScript(clock))
<1>1. /\ Simple("retry") \in Tasks /\ Simple("retry").do = "retry"
      /\ Restart(clock) \in Tasks /\ Restart(clock).do = "restart"
      /\ Event("clock_restarted") \in Tasks /\ Event("clock_restarted").do = "event"
  BY SimplePlain, TaskTypes DEF Restart, EventNames
<1>2. Plain(<<Simple("retry"), Restart(clock), Event("clock_restarted")>>)
  BY <1>1, PlainPieces
<1>3. Plain(RecordingStarts(None)) /\ Plain(<<Save(TRUE)>>)
  BY RecordingStartsPlain, NamesKnown, SimplePlain
<1>4. QED
  BY <1>2, <1>3, PlainConcat DEF ResumeScript

\* and of stopCapture.
LEMMA StopScriptPlain ==
  ASSUME NEW was \in BOOLEAN
  PROVE  Plain(StopScript(was))
<1>1. Plain(IF Has(local, Recording) \/ ~(was \/ LocalOf(Recording) # {}) THEN <<>>
            ELSE IF LocalOf(Recording) # {} THEN <<Complete(Recording, None)>>
            ELSE <<Missing(Recording)>>)
  BY SimplePlain, PlainPieces, NamesKnown
<1>2. Plain(IF mode = "hash_only" /\ ~local.finished /\ ~Has(local, Context)
            THEN Whole(Context, 0, None) ELSE <<>>)
  BY WholePlain, NamesKnown, PlainPieces
<1>3. Plain(<<Simple("read")>>)
  BY SimplePlain
<1>4. Plain(IF local.finished THEN <<>> ELSE <<Event("capture_finished"), Simple("finished")>>)
  <2>1. /\ Event("capture_finished") \in Tasks /\ Event("capture_finished").do = "event"
        /\ Simple("finished") \in Tasks /\ Simple("finished").do = "finished"
    BY SimplePlain DEF EventNames
  <2>2. Plain(<<Event("capture_finished"), Simple("finished")>>)
    BY <2>1, PlainPieces
  <2>3. QED
    BY <2>2, PlainPieces
<1>5. Plain(<<Simple("finalize"), Simple("package")>>)
  <2>1. /\ Simple("finalize") \in Tasks /\ Simple("finalize").do = "finalize"
        /\ Simple("package") \in Tasks /\ Simple("package").do = "package"
    BY TaskTypes DEF Simple
  <2>2. QED
    BY <2>1, PlainPieces
<1>6. QED
  BY <1>1, <1>2, <1>3, <1>4, <1>5, PlainConcat DEF StopScript

\* What a message starts.
LEMMA ScriptsFormed ==
  ASSUME ClientTypeOK, NEW m \in Messages, NEW script \in Scripts(m)
  PROVE  /\ script \in Seq(Tasks) /\ Formed(script)
         /\ script # <<>> /\ Head(script).do \notin {"upload", "package"}
         /\ Active \/ \A k \in 1 .. Len(script) : Harmless(script[k])
<1>1. ASSUME Plain(script), script # <<>>
      PROVE  script \in Seq(Tasks) /\ Formed(script) /\ Head(script).do \notin {"upload", "package"}
  BY <1>1, PlainForms DEF Plain
<1>2. CASE m.name = "chunk"
  <2>1. m.bytes \in Contents
    BY <1>2 DEF Messages
  <2>2. PICK t : t = Queue(Recording, m.bytes, None)
    OBVIOUS
  <2>3. t \in Tasks /\ t.do = "queue" /\ t.try = None
    BY <2>1, <2>2, TaskTypes, NamesKnown DEF Queue
  <2>4. script = <<t>>
    <3>1. Scripts(m) = {<<Queue(Recording, m.bytes, None)>>}
      BY <1>2 DEF Scripts
    <3>2. QED
      BY <2>2, <3>1
  <2>5. Formed(<<t>>)
    BY <2>3 DEF Formed
  <2>6. QED
    BY <2>3, <2>4, <2>5 DEF Harmless
<1>3. CASE m.name # "chunk" /\ ~Active
  <2>1. script = Throw
    <3>1. Scripts(m) = {Throw}
      BY <1>3 DEF Scripts
    <3>2. QED
      BY <3>1
  <2>2. Simple("throw") \in Tasks /\ Simple("throw").do = "throw" /\ Simple("throw").try = None
    BY SimplePlain DEF Simple
  <2>3. Plain(script)
    BY <2>1, SimplePlain DEF Throw
  <2>4. script # <<>> /\ \A k \in 1 .. Len(script) : Harmless(script[k])
    BY <2>1, <2>2 DEF Throw, Harmless
  <2>5. QED
    BY <1>1, <2>3, <2>4
<1>4. CASE m.name # "chunk" /\ Active
  <2>1. local \in LocalSessions
    BY <1>4 DEF Active, ClientTypeOK
  <2>2. m.name \in {"marker", "shot", "discard", "sharing_ended", "resume", "stop"}
    BY <1>4 DEF Messages
  <2>3. Plain(Throw) /\ Throw # <<>>
    BY SimplePlain DEF Throw
  <2>4. CASE m.name = "marker"
    <3>1. script = <<Event("marker")>>
      BY <1>4, <2>4 DEF Scripts
    <3>2. Plain(script) /\ script # <<>>
      BY <3>1, SimplePlain DEF EventNames
    <3>3. QED
      BY <1>1, <1>4, <3>2
  <2>5. CASE m.name = "shot"
    <3>1. Shot(local.seq) \in Names
      BY <2>1, NamesKnown DEF LocalSessions
    <3>2. script \in {Throw, Whole(Shot(local.seq), 0, Shot(local.seq)), <<Missing(Shot(local.seq))>>}
      BY <1>4, <2>5 DEF Scripts, Screenshots
    <3>3. Plain(script) /\ script # <<>>
      BY <2>3, <3>1, <3>2, WholePlain, SimplePlain, NamesKnown DEF Whole
    <3>4. QED
      BY <1>1, <1>4, <3>3
  <2>6. CASE m.name = "resume"
    <3>1. m.clock \in Clocks
      BY <2>6 DEF Messages
    <3>2. script \in {Throw, ResumeScript(m.clock)}
      BY <1>4, <2>6 DEF Scripts
    <3>3. Plain(ResumeScript(m.clock))
      BY <3>1, ResumeScriptPlain
    <3>4. ResumeScript(m.clock) # <<>>
      <4>1. ASSUME NEW s \in Seq(Tasks), NEW t \in Tasks, NEW u \in Tasks, NEW v \in Tasks
            PROVE  (<<t, u, v>> \o s) # <<>>
        OBVIOUS
      <4>2. \A s, t \in Seq(Tasks) : s # <<>> => s \o t \in Seq(Tasks) /\ s \o t # <<>>
        OBVIOUS
      <4>3. /\ RecordingStarts(None) \in Seq(Tasks) /\ <<Save(TRUE)>> \in Seq(Tasks)
            /\ Simple("retry") \in Tasks /\ Restart(m.clock) \in Tasks
            /\ Event("clock_restarted") \in Tasks
        <5>1. RecordingStarts(None) \in Seq(Tasks)
          BY RecordingStartsPlain, NamesKnown DEF Plain
        <5>2. Save(TRUE) \in Tasks /\ Restart(m.clock) \in Tasks
          BY <3>1, TaskTypes
        <5>3. Simple("retry") \in Tasks /\ Event("clock_restarted") \in Tasks
          BY SimplePlain DEF EventNames
        <5>4. <<Save(TRUE)>> \in Seq(Tasks)
          <6>1. Plain(<<Save(TRUE)>>)
            BY SimplePlain
          <6>2. QED
            BY <6>1, Zenon DEF Plain
        <5>5. QED
          BY <5>1, <5>2, <5>3, <5>4
      <4>4. /\ <<Simple("retry"), Restart(m.clock), Event("clock_restarted")>> \in Seq(Tasks)
            /\ <<Simple("retry"), Restart(m.clock), Event("clock_restarted")>> # <<>>
        BY <4>3
      <4>5. QED
        BY <4>2, <4>3, <4>4 DEF ResumeScript
    <3>5. QED
      BY <1>1, <1>4, <2>3, <3>2, <3>3, <3>4
  <2>7. CASE m.name = "stop"
    <3>1. m.wasActive \in BOOLEAN
      BY <2>7 DEF Messages
    <3>2. script = <<Begin("begin", m.wasActive)>>
      BY <1>4, <2>7 DEF Scripts
    <3>3. Plain(script) /\ script # <<>>
      BY <3>1, <3>2, SimplePlain
    <3>4. QED
      BY <1>1, <1>4, <3>3
  <2>8. CASE m.name = "discard"
    <3>1. script \in {Throw, <<Simple("ask"), Simple("await"), Simple("delete")>>, <<Simple("delete")>>}
      BY <1>4, <2>8 DEF Scripts
    <3>2. PICK a, w, d : a = Simple("ask") /\ w = Simple("await") /\ d = Simple("delete")
      OBVIOUS
    <3>3. /\ a \in Tasks /\ w \in Tasks /\ d \in Tasks
          /\ a.do = "ask" /\ w.do = "await" /\ d.do = "delete"
      BY <3>2, TaskTypes DEF Simple
    <3>4. <<d>> \in Seq(Tasks) /\ Formed(<<d>>) /\ <<d>> # <<>> /\ Head(<<d>>).do \notin {"upload", "package"}
      BY <3>3 DEF Formed
    <3>5. PICK s : s = <<a, w, d>>
      OBVIOUS
    <3>6. s \in Seq(Tasks) /\ Len(s) = 3 /\ s[1] = a /\ s[2] = w /\ s[3] = d
      BY <3>3, <3>5
    <3>7. \A k \in 1 .. Len(s) : k = 1 \/ k = 2 \/ k = 3
      BY <3>6
    <3>8. Formed(s) /\ s # <<>> /\ Head(s).do \notin {"upload", "package"}
      <4>1. s[1].do = "ask" /\ s[2].do = "await" /\ s[3].do = "delete"
        BY <3>3, <3>6
      <4>2. Formed(s)
        BY <3>6, <3>7, <4>1 DEF Formed
      <4>3. s # <<>> /\ Head(s) = s[1]
        BY <3>6
      <4>4. QED
        BY <4>1, <4>2, <4>3
    <3>9. QED
      BY <1>1, <1>4, <2>3, <3>1, <3>2, <3>4, <3>5, <3>6, <3>8
  <2>9. CASE m.name = "sharing_ended"
    <3>1. script = <<Simple("interrupt")>>
      BY <1>4, <2>9 DEF Scripts
    <3>2. Plain(script) /\ script # <<>>
      BY <3>1, SimplePlain
    <3>3. QED
      BY <1>1, <1>4, <3>2
  <2>10. QED
    BY <2>2, <2>4, <2>5, <2>6, <2>7, <2>8, <2>9
<1>5. QED
  BY <1>2, <1>3, <1>4

-----------------------------------------------------------------------------
(***************************************************************************)
(* What a step does to the operation that runs, and what the invariant of  *)
(* the extension asks of each kind of step.                                *)
(***************************************************************************)
OpInv == FormInv /\ LiveInv /\ CallInv

Stoppers == [pc : {"idle", "stopping", "queued", "failed", "saving"}, left : Nat,
             copy : LocalSessions \cup {None}]

\* The types, with the names the proofs give them.
LEMMA Types ==
  ASSUME ClientInv
  PROVE  /\ TypeOK /\ ClientTypeOK /\ local \in LocalSessions \cup {None}
         /\ store \in SUBSET StoredParts /\ op \in Operations \cup {None}
         /\ mail \in Seq(Messages) /\ stopper \in Stoppers /\ recorder \in Recorders
         /\ wire \in SUBSET Calls /\ serving \in Calls \cup {None}
         /\ inputs \in 0 .. MaxInputs /\ faults \in 0 .. MaxFaults /\ overwrote \in BOOLEAN
         /\ OpInv /\ StopperInv /\ StoreInv /\ WireInv
         /\ MaxInputs \in Nat /\ MaxFaults \in Nat
BY ClientAssumption DEF ClientInv, ClientTypeOK, OpInv, Stoppers, Recorders

\* A step of the extension that talks to nobody keeps the invariant if it
\* keeps its parts.
LEMMA LocalStep ==
  ASSUME ClientInv, UNCHANGED <<vars, network>>,
         op' \in Operations \cup {None}, local' \in LocalSessions \cup {None},
         store' \in SUBSET StoredParts, mail' \in Seq(Messages), stopper' \in Stoppers,
         recorder' \in Recorders, inputs' \in 0 .. MaxInputs, faults' \in 0 .. MaxFaults,
         overwrote' \in BOOLEAN, OpInv', StopperInv', StoreInv'
  PROVE  ClientInv'
<1>1. TypeOK'
  BY TypeStep DEF ClientInv, ClientTypeOK
<1>2. UNCHANGED <<wire, serving, upload>>
  BY DEF network, vars
<1>3. WireInv'
  BY <1>2 DEF ClientInv, WireInv, Fits, Served
<1>4. ClientTypeOK'
  BY <1>1, <1>2 DEF ClientInv, ClientTypeOK, Stoppers, Recorders
<1>5. QED
  BY <1>3, <1>4 DEF ClientInv, OpInv

\* Parts that do not change stay numbered.
LEMMA StoreKept ==
  ASSUME StoreInv, store' = store
  PROVE  StoreInv'
BY DEF StoreInv, OnePart, Numbered, PartEntries, LocalOf

\* The operation goes on as it was.
LEMMA OpKept ==
  ASSUME OpInv, UNCHANGED <<op, store>>, local # None => local' # None
  PROVE  OpInv'
<1>1. FormInv' /\ LiveInv'
  BY DEF OpInv, FormInv, LiveInv
<1>2. ASSUME op # None, op.call # None, CallOK(op.call.request)
      PROVE  CallOK(op.call.request)'
  BY <1>2 DEF CallOK, Fits, Matches, CloseOf, Task
<1>3. CallInv'
  BY <1>2 DEF OpInv, CallInv, Task
<1>4. QED
  BY <1>1, <1>3 DEF OpInv

\* No operation runs.
LEMMA OpGone ==
  ASSUME op' = None
  PROVE  OpInv'
BY DEF OpInv, FormInv, LiveInv, CallInv

\* The running task fails.
LEMMA OpFails ==
  ASSUME OpInv, op \in Operations, op # None, op.todo # <<>>, op' = Failing(op), store' = store,
         local # None => local' # None
  PROVE  OpInv' /\ op' \in Operations
<1>1. PICK o \in Operations : o = Failing(op) /\ o.todo = op.todo /\ o.s = op.s /\ o.call = None
                              /\ o.failed
  BY OperationTypes
<1>2. op' = o
  BY <1>1
<1>3. FormInv'
  BY <1>1, <1>2 DEF OpInv, FormInv
<1>4. LiveInv'
  BY <1>1, <1>2 DEF OpInv, LiveInv
<1>5. CallInv'
  BY <1>1, <1>2 DEF OpInv, CallInv, Task
<1>6. QED
  BY <1>1, <1>2, <1>3, <1>4, <1>5 DEF OpInv

\* The running task is done, and the session in memory is another or the same.
LEMMA OpDone ==
  ASSUME OpInv, op \in Operations, op # None, op.todo # <<>>, ~op.failed,
         NEW o \in Operations, op' = o, o.todo = Tail(op.todo), o.call = None, o.failed = op.failed,
         \/ local' # None /\ o.s # None /\ o.s.status # "complete"
         \/ o.s = op.s /\ (local # None => local' # None)
         \/ Tail(op.todo) = <<>>
  PROVE  OpInv'
<1>1. PICK todo \in Seq(Tasks) : todo = op.todo
  BY DEF Operations
<1>2. Formed(todo)
  BY <1>1 DEF OpInv, FormInv
<1>3. /\ Formed(Tail(todo)) /\ Len(Tail(todo)) = Len(todo) - 1 /\ Tail(todo) \in Seq(Tasks)
      /\ \A k \in 1 .. Len(Tail(todo)) : Tail(todo)[k] = todo[k + 1]
  BY <1>1, <1>2, FormedTail
<1>4. \A k \in 1 .. Len(Tail(todo)) : k + 1 \in 1 .. Len(todo) /\ Tail(todo)[k] = todo[k + 1]
  BY <1>3
<1>5. FormInv'
  BY <1>1, <1>3 DEF FormInv
<1>6. LiveInv'
  <2>1. CASE local' # None /\ o.s # None /\ o.s.status # "complete"
    BY <2>1 DEF LiveInv
  <2>2. CASE o.s = op.s /\ (local # None => local' # None)
    <3>1. CASE local # None /\ op.s # None /\ op.s.status # "complete"
      BY <2>2, <3>1 DEF LiveInv
    <3>2. CASE \A k \in 1 .. Len(todo) : Harmless(todo[k])
      BY <1>1, <1>4, <3>2 DEF LiveInv
    <3>3. QED
      BY <1>1, <3>1, <3>2 DEF OpInv, LiveInv
  <2>3. CASE Tail(op.todo) = <<>>
    <3>1. Len(o.todo) = 0
      BY <1>1, <1>3, <2>3
    <3>2. ASSUME NEW k \in 1 .. 0
          PROVE  FALSE
      OBVIOUS
    <3>3. QED
      BY <3>1, <3>2 DEF LiveInv
  <2>4. QED
    BY <2>1, <2>2, <2>3
<1>7. CallInv'
  <2>1. ASSUME Tail(todo) # <<>>
        PROVE  Head(Tail(todo)).do # "upload"
    <3>1. 1 \in 1 .. Len(Tail(todo)) /\ Head(Tail(todo)) = Tail(todo)[1]
      BY <1>3, <2>1
    <3>2. 2 \in 1 .. Len(todo) /\ Tail(todo)[1] = todo[2]
      BY <1>4, <3>1
    <3>3. QED
      BY <1>2, <3>1, <3>2 DEF Formed
  <2>2. o.failed = FALSE /\ o.call = None
    BY DEF Operations
  <2>3. QED
    BY <1>1, <2>1, <2>2 DEF CallInv, Task
<1>8. QED
  BY <1>5, <1>6, <1>7 DEF OpInv

\* An operation starts, or goes on with another script.
LEMMA OpStarts ==
  ASSUME NEW o \in Operations, op' = o, Formed(o.todo), ~o.failed, o.call = None,
         o.todo # <<>> => Head(o.todo).do # "upload",
         \/ local' # None /\ o.s # None /\ o.s.status # "complete"
         \/ \A k \in 1 .. Len(o.todo) : Harmless(o.todo[k])
  PROVE  OpInv'
<1>1. FormInv' /\ LiveInv'
  BY DEF FormInv, LiveInv
<1>2. CallInv'
  BY DEF CallInv, Task
<1>3. QED
  BY <1>1, <1>2 DEF OpInv

-----------------------------------------------------------------------------
(***************************************************************************)
(* The tasks that do not call the server keep the invariant.               *)
(***************************************************************************)
LEMMA RunningFacts ==
  ASSUME ClientInv, NEW do, Running(do)
  PROVE  /\ op \in Operations /\ op # None /\ op.call = None /\ ~op.failed /\ op.failed \in BOOLEAN
         /\ op.todo # <<>> /\ Task.do = do /\ Task \in Tasks
         /\ Task.do \notin {"throw", "queue", "upload"} =>
              /\ local # None /\ local \in LocalSessions
              /\ op.s # None /\ op.s \in LocalSessions /\ op.s.status # "complete"
<1>1. /\ op \in Operations /\ op # None /\ op.call = None /\ ~op.failed
      /\ op.todo # <<>> /\ Task.do = do
  BY Types DEF Running, Task
<1>2. Task \in Tasks /\ op.failed \in BOOLEAN
  BY <1>1, OperationTypes DEF Task, Operations
<1>3. Task.do \notin {"throw", "queue", "upload"} => ~Harmless(Task)
  BY DEF Harmless
<1>4. QED
  BY <1>1, <1>2, <1>3, RunsLive DEF ClientInv

\* The next message starts its script.
LEMMA TakeKeeps ==
  ASSUME ClientInv, Take
  PROVE  ClientInv'
<1>1. PICK m \in Messages : m = Head(mail)
  BY Types DEF Take
<1>2. PICK script \in Scripts(m) : op' = Operation(m.name, script, local)
  BY <1>1 DEF Take
<1>3. /\ script \in Seq(Tasks) /\ Formed(script)
      /\ script # <<>> /\ Head(script).do # "upload"
      /\ Active \/ \A k \in 1 .. Len(script) : Harmless(script[k])
  BY Types, ScriptsFormed
<1>4. PICK o : o = Operation(m.name, script, local)
  OBVIOUS
<1>5. m.name \in {"chunk", "marker", "shot", "resume", "stop", "discard", "sharing_ended"}
  BY DEF Messages
<1>6. /\ o \in Operations /\ o.todo = script /\ o.call = None /\ o.s = local /\ ~o.failed
  BY <1>3, <1>4, <1>5, Types DEF Operation, Operations
<1>7. local' = local /\ store' = store
  BY DEF Take, indexedDB
<1>8. OpInv'
  BY <1>2, <1>3, <1>4, <1>6, <1>7, OpStarts DEF Active
<1>9. mail' \in Seq(Messages)
  BY Types DEF Take
<1>10. StopperInv' /\ StoreInv'
  BY <1>7, Types, StoreKept DEF Take, StopperInv
<1>11. QED
  BY <1>2, <1>4, <1>6, <1>7, <1>8, <1>9, <1>10, Types, LocalStep DEF Take

\* The session is read again, for a resumption with its new clock.
LEMMA ReadSessionKeeps ==
  ASSUME ClientInv, ReadSession
  PROVE  ClientInv'
<1>1. /\ op \in Operations /\ op # None /\ ~op.failed /\ op.failed \in BOOLEAN /\ op.todo # <<>>
      /\ op.call = None /\ Task.do \in {"read", "restart"} /\ Task \in Tasks
  BY RunningFacts DEF ReadSession
<1>2. local' = local /\ store' = store
  BY DEF ReadSession, indexedDB
<1>3. OpInv' /\ op' \in Operations
  <2>1. CASE ~Active
    BY <1>1, <1>2, <2>1, Types, OpFails DEF ReadSession
  <2>2. CASE Active
    <3>1. PICK d \in Operations : d = Done(op) /\ d.todo = Tail(op.todo) /\ d.call = None
                                  /\ d.failed = op.failed
      BY <1>1, OperationTypes
    <3>2. PICK x : x = IF Task.do = "read" THEN local ELSE [local EXCEPT !.clock = Task.clock]
      OBVIOUS
    <3>3. local \in LocalSessions /\ local.status # "complete" /\ local # None
      BY <2>2, Types DEF Active
    <3>4. x \in LocalSessions /\ x.status # "complete"
      BY <1>1, <3>2, <3>3, TaskFields DEF LocalSessions
    <3>5. x # None
      BY <3>4, ClientNoneAssumption
    <3>6. PICK w : w = [d EXCEPT !.s = x]
      OBVIOUS
    <3>7. w \in Operations /\ w.todo = d.todo /\ w.call = d.call /\ w.failed = d.failed /\ w.s = x
      BY <3>4, <3>6 DEF Operations
    <3>8. op' = w
      BY <2>2, <3>1, <3>2, <3>6, <1>1 DEF ReadSession
    <3>9. QED
      BY <1>1, <1>2, <3>1, <3>3, <3>4, <3>5, <3>7, <3>8, Types, OpDone
  <2>3. QED
    BY <2>1, <2>2
<1>4. StopperInv' /\ StoreInv'
  BY <1>2, Types, StoreKept DEF ReadSession, StopperInv
<1>5. QED
  BY <1>2, <1>3, <1>4, Types, LocalStep DEF ReadSession

\* A part queued under the next number of its artifact.
LEMMA StoreAdds ==
  ASSUME ClientTypeOK, StoreInv, NEW p \in StoredParts,
         p.part = NextNumber(p.artifact),
         p.entry.facts.type = "artifact_part",
         p.entry.facts.data = PartData(p.artifact, p.part, p.bytes),
         store' = {q \in store : ~(q.artifact = p.artifact /\ q.part = p.part)} \cup {p}
  PROVE  /\ store' = store \cup {p} /\ store' \in SUBSET StoredParts
         /\ \A q \in store : ~(q.artifact = p.artifact /\ q.part = p.part)
         /\ StoreInv'
<1>1. PICK a \in Names : a = p.artifact
  BY DEF StoredParts
<1>2. PICK n \in Nat : n = Cardinality(LocalOf(a)) /\ n = p.part
  BY <1>1, LocalParts DEF NextNumber
<1>3. \A q \in LocalOf(a) : q.part < n
  BY <1>2, LocalParts
<1>4. ASSUME NEW q \in store, q.artifact = p.artifact /\ q.part = p.part
      PROVE  FALSE
  <2>1. q \in LocalOf(a)
    BY <1>1, <1>4 DEF LocalOf
  <2>2. q.part < n /\ q.part = n
    BY <1>2, <1>3, <1>4, <2>1
  <2>3. QED
    BY <1>2, <2>2
<1>5. store' = store \cup {p} /\ store' \in SUBSET StoredParts
  BY <1>4 DEF ClientTypeOK
<1>6. IsFiniteSet(store')
  BY <1>5, FS_AddElement DEF StoreInv
<1>7. OnePart' /\ PartEntries'
  BY <1>4, <1>5 DEF StoreInv, OnePart, PartEntries
<1>8. ASSUME NEW b \in Names
      PROVE  {q.part : q \in LocalOf(b)'} = 0 .. Cardinality(LocalOf(b)') - 1
  <2>1. CASE b # a
    <3>1. LocalOf(b)' = LocalOf(b)
      BY <1>1, <1>5, <2>1 DEF LocalOf
    <3>2. QED
      BY <3>1 DEF StoreInv, Numbered
  <2>2. CASE b = a
    <3>1. LocalOf(b)' = LocalOf(a) \cup {p} /\ p \notin LocalOf(a)
      BY <1>1, <1>4, <1>5, <2>2 DEF LocalOf
    <3>2. Cardinality(LocalOf(b)') = n + 1
      <4>1. PICK S : S = LocalOf(a)
        OBVIOUS
      <4>2. IsFiniteSet(S) /\ Cardinality(S) = n /\ p \notin S
        BY <1>2, <3>1, <4>1, LocalParts
      <4>3. Cardinality(S \cup {p}) = n + 1
        BY <4>2, FS_AddElement
      <4>4. QED
        BY <3>1, <4>1, <4>3
    <3>3. {q.part : q \in LocalOf(b)'} = {q.part : q \in LocalOf(a)} \cup {n}
      BY <1>2, <3>1
    <3>4. {q.part : q \in LocalOf(a)} = 0 .. n - 1
      BY <1>2 DEF StoreInv, Numbered
    <3>5. (0 .. n - 1) \cup {n} = 0 .. (n + 1) - 1
      OBVIOUS
    <3>6. QED
      BY <3>2, <3>3, <3>4, <3>5
  <2>3. QED
    BY <2>1, <2>2
<1>9. Numbered'
  BY <1>8 DEF Numbered
<1>10. QED
  BY <1>4, <1>5, <1>6, <1>7, <1>9 DEF StoreInv

\* What queueing a part writes, whatever the operation.
QueuedPart ==
  [artifact |-> Task.artifact, part |-> NextNumber(Task.artifact), bytes |-> Task.bytes,
   entry |-> MakeEntry(local, "artifact_part",
                       PartData(Task.artifact, NextNumber(Task.artifact), Task.bytes)),
   uploaded |-> FALSE]

\* What QueuePart writes: the session advances by the entry of the new part.
LEMMA QueueWrites ==
  ASSUME ClientInv, QueuePart, Active
  PROVE  /\ QueuedPart \in StoredParts
         /\ QueuedPart.artifact = Task.artifact
         /\ QueuedPart.entry \in Drafts /\ QueuedPart.entry.previous = local.prev
         /\ QueuedPart.entry.facts.seq = local.seq /\ ~QueuedPart.uploaded
         /\ local # None /\ local \in LocalSessions /\ local.status # "complete"
         /\ local' = Advance(local, QueuedPart.entry) /\ local' \in LocalSessions
         /\ local' # None
         /\ store' = store \cup {QueuedPart} /\ store' \in SUBSET StoredParts
         /\ \A q \in store : ~(q.artifact = QueuedPart.artifact /\ q.part = QueuedPart.part)
         /\ StoreInv'
<1>1. Task \in Tasks /\ Task.do = "queue"
  BY RunningFacts DEF QueuePart
<1>2. Task.artifact \in Names /\ Task.bytes \in Contents
  BY <1>1, TaskFields
<1>3. PICK n \in Nat : n = NextNumber(Task.artifact)
  BY <1>2, Types, LocalParts DEF NextNumber
<1>4. local # None /\ local \in LocalSessions /\ local.status # "complete"
  BY Types DEF Active
<1>5. PICK d : d = PartData(Task.artifact, n, Task.bytes)
  OBVIOUS
<1>6. d \in DraftData /\ "artifact_part" \in EntryTypes
  BY <1>2, <1>5 DEF DraftData, EntryTypes, PartData
<1>7. PICK e : e = MakeEntry(local, "artifact_part", d)
  OBVIOUS
<1>8. /\ e \in Drafts /\ e.previous = local.prev /\ e.facts.seq = local.seq
      /\ e.facts.type = "artifact_part" /\ e.facts.data = d
  <2>1. e \in Drafts
    BY <1>4, <1>6, <1>7, Types, SessionTypes
  <2>2. QED
    BY <1>7, <2>1 DEF MakeEntry
<1>9. PICK p : p = QueuedPart
  OBVIOUS
<1>10. p = [artifact |-> Task.artifact, part |-> n, bytes |-> Task.bytes, entry |-> e,
            uploaded |-> FALSE]
  BY <1>3, <1>5, <1>7, <1>9 DEF QueuedPart
<1>11. /\ p \in StoredParts /\ p.artifact = Task.artifact /\ p.part = n /\ p.entry = e
       /\ p.bytes = Task.bytes /\ ~p.uploaded
  BY <1>2, <1>8, <1>10 DEF StoredParts
<1>12. /\ local' = Advance(local, e)
       /\ store' = {q \in store : ~(q.artifact = p.artifact /\ q.part = p.part)} \cup {p}
  BY <1>3, <1>5, <1>7, <1>10, <1>11 DEF QueuePart
<1>13. local' \in LocalSessions /\ local' # None
  BY <1>4, <1>8, <1>12, Types, SessionTypes
<1>14. /\ store' = store \cup {p} /\ store' \in SUBSET StoredParts
       /\ \A q \in store : ~(q.artifact = p.artifact /\ q.part = p.part)
       /\ StoreInv'
  BY <1>3, <1>5, <1>8, <1>11, <1>12, Types, StoreAdds
<1>15. QED
  BY <1>4, <1>8, <1>9, <1>11, <1>12, <1>13, <1>14

\* A part is queued, and sent at once if nothing waits before it.
LEMMA QueuePartKeeps ==
  ASSUME ClientInv, QueuePart
  PROVE  ClientInv'
<1>1. /\ op \in Operations /\ op # None /\ ~op.failed /\ op.failed \in BOOLEAN /\ op.todo # <<>>
      /\ op.call = None /\ Task.do = "queue" /\ Task \in Tasks
  BY RunningFacts DEF QueuePart
<1>2. StopperInv'
  BY Types DEF QueuePart, StopperInv
<1>3. CASE ~Active
  <2>1. op' = Failing(op) /\ local' = local /\ store' = store
    BY <1>3 DEF QueuePart, indexedDB
  <2>2. OpInv' /\ op' \in Operations
    BY <1>1, <2>1, Types, OpFails
  <2>3. QED
    BY <1>2, <2>1, <2>2, Types, StoreKept, LocalStep DEF QueuePart
<1>4. CASE Active
  <2>1. PICK p \in StoredParts : p = QueuedPart /\ p \in store'
    BY <1>4, QueueWrites
  <2>2. PICK todo : todo = (IF Pending = {} THEN <<Upload(p, Task.try)>> ELSE <<>>) \o Tail(op.todo)
    OBVIOUS
  <2>3. op' = [op EXCEPT !.todo = todo]
    BY <1>4, <2>1, <2>2 DEF QueuePart, QueuedPart
  <2>4. PICK u \in Tasks : u = Upload(p, Task.try)
    BY <1>1, <2>1, TaskTypes, TaskFields
  <2>5. u.do = "upload" /\ u.try = Task.try /\ u.artifact = p.artifact /\ u.part = p.part
    BY <2>4 DEF Upload
  <2>6. PICK old \in Seq(Tasks) : old = op.todo
    BY <1>1 DEF Operations
  <2>7. Formed(old) /\ old # <<>> /\ Head(old).do = "queue" /\ Head(old) = Task
    BY <1>1, <2>6, Types DEF OpInv, FormInv, Task
  <2>8. PICK t : t = Tail(old)
    OBVIOUS
  <2>9. /\ t \in Seq(Tasks) /\ Formed(t)
        /\ \A k \in 1 .. Len(t) : t[k] = old[k + 1] /\ k + 1 \in 1 .. Len(old)
        /\ t # <<>> => Head(t).do # "upload"
    <3>1. /\ t \in Seq(Tasks) /\ Formed(t) /\ Len(t) = Len(old) - 1
          /\ \A k \in 1 .. Len(t) : t[k] = old[k + 1]
      BY <2>6, <2>7, <2>8, FormedTail
    <3>2. \A k \in 1 .. Len(t) : k + 1 \in 1 .. Len(old) /\ k + 1 # 1
      BY <3>1
    <3>3. ASSUME t # <<>>
          PROVE  Head(t).do # "upload"
      <4>1. 1 \in 1 .. Len(t) /\ Head(t) = t[1]
        BY <3>1, <3>3
      <4>2. QED
        BY <2>7, <3>1, <3>2, <4>1 DEF Formed
    <3>4. QED
      BY <3>1, <3>2, <3>3
  <2>10. /\ todo \in Seq(Tasks) /\ Formed(todo)
         /\ todo # <<>> /\ Head(todo).do = "upload" =>
              Head(todo).artifact = p.artifact /\ Head(todo).part = p.part
         /\ \A k \in 1 .. Len(todo) : todo[k] = u \/ \E j \in 1 .. Len(old) : todo[k] = old[j]
    <3>1. CASE Pending = {}
      <4>1. PICK w : w = <<u>> \o t
        OBVIOUS
      <4>2. /\ w \in Seq(Tasks) /\ Len(w) = Len(t) + 1 /\ w[1] = u /\ Head(w) = u
            /\ \A k \in 2 .. Len(w) : w[k] = t[k - 1] /\ k - 1 \in 1 .. Len(t)
        BY <2>9, <4>1
      <4>3. Formed(w)
        BY <2>5, <2>6, <2>7, <2>8, <4>1, FormedUpload
      <4>4. ASSUME NEW k \in 1 .. Len(w)
            PROVE  w[k] = u \/ \E j \in 1 .. Len(old) : w[k] = old[j]
        <5>1. CASE k = 1
          BY <4>2, <5>1
        <5>2. CASE k # 1
          <6>1. PICK n \in 1 .. Len(t) : w[k] = t[n]
            <7>1. Len(w) \in Nat
              BY <4>2
            <7>2. k \in 2 .. Len(w)
              BY <5>2, <7>1
            <7>3. QED
              BY <4>2, <7>2
          <6>2. w[k] = old[n + 1] /\ n + 1 \in 1 .. Len(old)
            BY <2>9, <6>1
          <6>3. QED
            BY <6>2
        <5>3. QED
          BY <5>1, <5>2
      <4>5. todo = w
        BY <2>2, <2>4, <2>6, <2>8, <3>1, <4>1
      <4>6. QED
        BY <2>5, <4>2, <4>3, <4>4, <4>5
    <3>2. CASE Pending # {}
      <4>1. todo = t
        <5>1. todo = <<>> \o t
          BY <2>2, <2>6, <2>8, <3>2
        <5>2. <<>> \o t = t
          BY <2>9
        <5>3. QED
          BY <5>1, <5>2
      <4>2. QED
        BY <2>9, <4>1
    <3>3. QED
      BY <3>1, <3>2
  <2>11. PICK o : o = [op EXCEPT !.todo = todo]
    OBVIOUS
  <2>12. /\ o \in Operations /\ o.todo = todo /\ o.s = op.s /\ o.call = None /\ ~o.failed
    BY <1>1, <2>10, <2>11 DEF Operations
  <2>13. FormInv'
    BY <2>3, <2>10, <2>11, <2>12 DEF FormInv
  <2>14. LiveInv'
    <3>1. CASE op.s # None /\ op.s.status # "complete"
      BY <1>4, <2>3, <2>11, <2>12, <3>1, QueueWrites DEF LiveInv
    <3>2. CASE \A k \in 1 .. Len(old) : Harmless(old[k])
      <4>1. 1 \in 1 .. Len(old) /\ Task = old[1]
        BY <2>6, <2>7
      <4>2. Harmless(u)
        BY <2>5, <3>2, <4>1 DEF Harmless
      <4>3. \A k \in 1 .. Len(o.todo) : Harmless(o.todo[k])
        BY <2>10, <2>12, <3>2, <4>2
      <4>4. QED
        BY <2>3, <2>11, <4>3 DEF LiveInv
    <3>3. QED
      BY <1>1, <2>6, <3>1, <3>2, Types DEF OpInv, LiveInv
  <2>15. CallInv'
    BY <2>1, <2>3, <2>10, <2>11, <2>12 DEF CallInv, Task
  <2>16. OpInv' /\ op' \in Operations
    BY <2>3, <2>11, <2>12, <2>13, <2>14, <2>15 DEF OpInv
  <2>17. QED
    BY <1>2, <1>4, <2>16, Types, QueueWrites, LocalStep DEF QueuePart
<1>5. QED
  BY <1>3, <1>4

\* A pending part is sent first.
LEMMA RetryPartsKeeps ==
  ASSUME ClientInv, RetryParts
  PROVE  ClientInv'
<1>1. /\ op \in Operations /\ op # None /\ ~op.failed /\ op.failed \in BOOLEAN /\ op.todo # <<>>
      /\ op.call = None /\ Task.do = "retry" /\ Task \in Tasks
      /\ local # None /\ op.s # None /\ op.s.status # "complete"
  BY RunningFacts DEF RetryParts
<1>2. local' = local /\ store' = store
  BY DEF RetryParts, indexedDB
<1>3. OpInv' /\ op' \in Operations
  <2>1. CASE op' = Done(op)
    BY <1>1, <1>2, <2>1, Types, OperationTypes, OpDone
  <2>2. CASE \E p \in FirstPending : op' = [op EXCEPT !.todo = <<Upload(p, None)>> \o @]
    <3>1. PICK p \in store : op' = [op EXCEPT !.todo = <<Upload(p, None)>> \o @]
      BY <2>2 DEF FirstPending, Pending
    <3>2. PICK u \in Tasks : u = Upload(p, None)
      BY Types, TaskTypes, NamesKnown
    <3>3. u.do = "upload" /\ u.artifact = p.artifact /\ u.part = p.part
      BY <3>2 DEF Upload
    <3>4. PICK old \in Seq(Tasks) : old = op.todo
      BY <1>1 DEF Operations
    <3>5. Formed(old) /\ old # <<>> /\ Head(old).do = "retry"
      BY <1>1, <3>4, Types DEF OpInv, FormInv, Task
    <3>6. PICK w : w = <<u>> \o old
      OBVIOUS
    <3>7. w \in Seq(Tasks) /\ Formed(w) /\ Head(w) = u /\ w # <<>>
      BY <3>3, <3>4, <3>5, <3>6, FormedUpload
    <3>8. PICK o : o = [op EXCEPT !.todo = w]
      OBVIOUS
    <3>9. o \in Operations /\ o.todo = w /\ o.s = op.s /\ o.call = None /\ ~o.failed
      BY <1>1, <3>7, <3>8 DEF Operations
    <3>10. op' = o
      BY <3>1, <3>2, <3>4, <3>6, <3>8
    <3>11. FormInv' /\ LiveInv'
      BY <1>1, <1>2, <3>7, <3>9, <3>10 DEF FormInv, LiveInv
    <3>12. CallInv'
      BY <1>2, <3>1, <3>3, <3>7, <3>9, <3>10 DEF CallInv, Task
    <3>13. QED
      BY <3>9, <3>10, <3>11, <3>12 DEF OpInv
  <2>3. QED
    BY <2>1, <2>2 DEF RetryParts
<1>4. StopperInv' /\ StoreInv'
  BY <1>2, Types, StoreKept DEF RetryParts, StopperInv
<1>5. QED
  BY <1>2, <1>3, <1>4, Types, LocalStep DEF RetryParts

\* A task that is done or fails, while the session of IndexedDB is saved or
\* left alone and the parts stay.
LEMMA TaskEnds ==
  ASSUME ClientInv, NEW do, Running(do), UNCHANGED <<vars, network, store, inputs, faults, overwrote>>,
         op' \in {Done(op), Failing(op)},
         local' \in LocalSessions \cup {None}, local # None => local' # None,
         mail' \in Seq(Messages), stopper' = stopper, recorder' \in Recorders
  PROVE  ClientInv'
<1>1. /\ op \in Operations /\ op # None /\ ~op.failed /\ op.failed \in BOOLEAN /\ op.todo # <<>>
      /\ op.call = None
  BY RunningFacts
<1>2. OpInv' /\ op' \in Operations
  <2>1. CASE op' = Done(op)
    BY <1>1, <2>1, Types, OperationTypes, OpDone
  <2>2. CASE op' = Failing(op)
    BY <1>1, <2>2, Types, OpFails
  <2>3. QED
    BY <2>1, <2>2
<1>3. StopperInv' /\ StoreInv'
  BY Types, StoreKept DEF StopperInv
<1>4. QED
  BY <1>2, <1>3, Types, LocalStep

\* The recorder starts, or the task fails.
LEMMA StartRecorderKeeps ==
  ASSUME ClientInv, StartRecorder
  PROVE  ClientInv'
<1>1. op' \in {Done(op), Failing(op)}
  BY DEF StartRecorder
<1>2. recorder' \in Recorders
  <2>1. CASE recorder' = [recorder EXCEPT !.doc = TRUE, !.on = TRUE, !.failed = FALSE]
    <3>1. PICK u : u = [recorder EXCEPT !.doc = TRUE, !.on = TRUE, !.failed = FALSE]
      OBVIOUS
    <3>2. u = [doc |-> u.doc, on |-> u.on, pending |-> u.pending, emitted |-> u.emitted,
               failed |-> u.failed]
      BY <3>1, Types DEF Recorders
    <3>3. u \in Recorders
      BY <3>1, <3>2, Types DEF Recorders
    <3>4. QED
      BY <2>1, <3>1, <3>3
  <2>2. CASE \E failed \in {recorder.failed, recorder.failed /\ recorder.on} :
               recorder' = [recorder EXCEPT !.doc = TRUE, !.failed = failed]
    <3>1. PICK failed \in BOOLEAN : recorder' = [recorder EXCEPT !.doc = TRUE, !.failed = failed]
      BY <2>2, Types DEF Recorders
    <3>2. PICK u : u = [recorder EXCEPT !.doc = TRUE, !.failed = failed]
      OBVIOUS
    <3>3. u = [doc |-> u.doc, on |-> u.on, pending |-> u.pending, emitted |-> u.emitted,
               failed |-> u.failed]
      BY <3>2, Types DEF Recorders
    <3>4. u \in Recorders
      BY <3>2, <3>3, Types DEF Recorders
    <3>5. QED
      BY <3>1, <3>2, <3>4
  <2>3. QED
    BY <2>1, <2>2 DEF StartRecorder
<1>3. local' = local /\ store' = store
  BY DEF StartRecorder, indexedDB
<1>4. QED
  BY <1>1, <1>2, <1>3, Types, TaskEnds DEF StartRecorder

\* The session saved when the recording starts, or was refused.
LEMMA SavedSession ==
  ASSUME NEW s \in LocalSessions, NEW on \in BOOLEAN
  PROVE  [s EXCEPT !.status = "recording", !.recording = on] \in LocalSessions
<1>1. PICK t : t = [s EXCEPT !.status = "recording", !.recording = on]
  OBVIOUS
<1>2. t = [status |-> t.status, source |-> t.source, seq |-> t.seq, prev |-> t.prev,
           clock |-> t.clock, recording |-> t.recording, finished |-> t.finished,
           artifacts |-> t.artifacts]
  BY <1>1 DEF LocalSessions
<1>3. QED
  BY <1>1, <1>2 DEF LocalSessions

\* The session in memory is saved as recording.
LEMMA SaveRecordingKeeps ==
  ASSUME ClientInv, SaveRecording
  PROVE  ClientInv'
<1>1. op.s \in LocalSessions /\ Task.recording \in BOOLEAN
  <2>1. Task.do = "save" /\ Task \in Tasks /\ op.s \in LocalSessions
    BY RunningFacts DEF SaveRecording
  <2>2. QED
    BY <2>1, TaskFields
<1>2. local' \in LocalSessions
  BY <1>1, SavedSession DEF SaveRecording
<1>3. QED
  BY <1>2, Types, TaskEnds, ClientNoneAssumption DEF SaveRecording

\* The session in memory is saved as finished.
LEMMA SaveFinishedKeeps ==
  ASSUME ClientInv, SaveFinished
  PROVE  ClientInv'
<1>1. /\ op \in Operations /\ op # None /\ ~op.failed /\ op.failed \in BOOLEAN /\ op.todo # <<>>
      /\ op.call = None /\ op.s \in LocalSessions /\ op.s.status # "complete"
  BY RunningFacts DEF SaveFinished
<1>2. PICK s : s = [op.s EXCEPT !.finished = TRUE]
  OBVIOUS
<1>3. s \in LocalSessions /\ s.status # "complete" /\ s # None
  <2>1. s \in LocalSessions /\ s.status # "complete"
    BY <1>1, <1>2 DEF LocalSessions
  <2>2. QED
    BY <2>1, ClientNoneAssumption
<1>4. PICK d \in Operations : d = Done(op) /\ d.todo = Tail(op.todo) /\ d.call = None
                              /\ d.failed = op.failed
  BY <1>1, OperationTypes
<1>5. PICK w : w = [d EXCEPT !.s = s]
  OBVIOUS
<1>6. w \in Operations /\ w.todo = d.todo /\ w.call = d.call /\ w.failed = d.failed /\ w.s = s
  BY <1>3, <1>5 DEF Operations
<1>7. op' = w /\ local' = s
  BY <1>2, <1>4, <1>5 DEF SaveFinished
<1>8. OpInv' /\ op' \in Operations
  BY <1>1, <1>3, <1>4, <1>6, <1>7, Types, OpDone
<1>9. StopperInv' /\ StoreInv'
  BY Types, StoreKept DEF SaveFinished, StopperInv
<1>10. QED
  BY <1>3, <1>7, <1>8, <1>9, Types, LocalStep DEF SaveFinished

\* The finalization saves that the recording is over.
LEMMA BeginStopKeeps ==
  ASSUME ClientInv, BeginStop
  PROVE  ClientInv'
<1>1. /\ op \in Operations /\ op # None /\ ~op.failed /\ op.failed \in BOOLEAN /\ op.todo # <<>>
      /\ op.call = None /\ op.s # None /\ op.s.status # "complete"
      /\ local \in LocalSessions /\ Task \in Tasks /\ Task.do = "begin"
  BY RunningFacts DEF BeginStop
<1>2. local' \in LocalSessions /\ local' # None
  <2>1. local' \in LocalSessions
    BY <1>1 DEF BeginStop, LocalSessions
  <2>2. QED
    BY <2>1, ClientNoneAssumption
<1>3. PICK b : b = Begin("finalizing", Task.wasActive)
  OBVIOUS
<1>4. b \in Tasks /\ b.do = "finalizing"
  <2>1. Task.wasActive \in BOOLEAN
    BY <1>1, TaskFields
  <2>2. b \in Tasks
    BY <1>3, <2>1, TaskTypes
  <2>3. b.do = "finalizing"
    BY <1>3 DEF Begin
  <2>4. QED
    BY <2>2, <2>3
<1>5. <<b>> \in Seq(Tasks) /\ Formed(<<b>>) /\ Head(<<b>>).do # "upload"
  BY <1>4 DEF Formed
<1>6. PICK o : o = [op EXCEPT !.todo = <<b>>]
  OBVIOUS
<1>7. o \in Operations /\ o.todo = <<b>> /\ o.s = op.s /\ o.call = None /\ ~o.failed
  BY <1>1, <1>5, <1>6 DEF Operations
<1>8. op' = o
  BY <1>3, <1>6 DEF BeginStop
<1>9. OpInv'
  BY <1>1, <1>2, <1>5, <1>7, <1>8, OpStarts
<1>10. StopperInv' /\ StoreInv'
  BY Types, StoreKept DEF BeginStop, StopperInv
<1>11. QED
  BY <1>2, <1>7, <1>8, <1>9, <1>10, Types, LocalStep DEF BeginStop

\* stopCapture decides what is left to do.
LEMMA BeginFinalizingKeeps ==
  ASSUME ClientInv, BeginFinalizing
  PROVE  ClientInv'
<1>1. /\ op \in Operations /\ op # None /\ ~op.failed /\ op.failed \in BOOLEAN /\ op.todo # <<>>
      /\ op.call = None /\ op.s # None /\ op.s.status # "complete"
      /\ local \in LocalSessions /\ Task \in Tasks /\ Task.do = "finalizing"
  BY RunningFacts DEF BeginFinalizing
<1>2. CASE ~Active
  BY <1>2, Types, TaskEnds DEF BeginFinalizing
<1>3. CASE Active
  <2>1. local' \in LocalSessions /\ local' # None
    <3>1. local' \in LocalSessions
      BY <1>1, <1>3 DEF BeginFinalizing, LocalSessions
    <3>2. QED
      BY <3>1, ClientNoneAssumption
  <2>2. PICK script : script = StopScript(Task.wasActive)
    OBVIOUS
  <2>3. Plain(script)
    <3>1. Task.wasActive \in BOOLEAN
      BY <1>1, TaskFields
    <3>2. QED
      BY <2>2, <3>1, StopScriptPlain
  <2>4. /\ script \in Seq(Tasks) /\ Formed(script)
        /\ script # <<>> => Head(script).do # "upload"
    BY <2>3, PlainForms DEF Plain
  <2>5. PICK o : o = [op EXCEPT !.todo = script]
    OBVIOUS
  <2>6. o \in Operations /\ o.todo = script /\ o.s = op.s /\ o.call = None /\ ~o.failed
    BY <1>1, <2>4, <2>5 DEF Operations
  <2>7. op' = o
    BY <1>3, <2>2, <2>5 DEF BeginFinalizing
  <2>8. OpInv'
    BY <1>1, <2>1, <2>4, <2>6, <2>7, OpStarts
  <2>9. StopperInv' /\ StoreInv'
    BY Types, StoreKept DEF BeginFinalizing, StopperInv
  <2>10. QED
    BY <2>1, <2>6, <2>7, <2>8, <2>9, Types, LocalStep DEF BeginFinalizing
<1>4. QED
  BY <1>2, <1>3

\* The recorder has stopped by itself.
LEMMA InterruptKeeps ==
  ASSUME ClientInv, Interrupt
  PROVE  ClientInv'
<1>1. local' \in LocalSessions \cup {None} /\ (local # None => local' # None)
  <2>1. CASE local # None /\ local.status = "recording"
    <3>1. local' \in LocalSessions
      BY <2>1, Types DEF Interrupt, LocalSessions
    <3>2. QED
      BY <3>1, ClientNoneAssumption
  <2>2. CASE ~(local # None /\ local.status = "recording")
    BY <2>2, Types DEF Interrupt
  <2>3. QED
    BY <2>1, <2>2
<1>2. QED
  BY <1>1, Types, TaskEnds DEF Interrupt

\* A discard asks the recorder to stop.
LEMMA AskRecorderKeeps ==
  ASSUME ClientInv, AskRecorder
  PROVE  ClientInv'
<1>1. PICK last \in LastChunks : recorder' = Stopped(recorder, last) /\ mail' = mail \o last
  BY DEF AskRecorder
<1>2. recorder' \in Recorders /\ last \in Seq(Messages)
  BY <1>1, Types, StoppedType
<1>3. mail' \in Seq(Messages)
  BY <1>1, <1>2, Types
<1>4. QED
  BY <1>2, <1>3, Types, TaskEnds DEF AskRecorder, indexedDB

\* A discard waits for the recorder.
LEMMA AwaitRecorderKeeps ==
  ASSUME ClientInv, AwaitRecorder
  PROVE  ClientInv'
BY Types, TaskEnds DEF AwaitRecorder, indexedDB

\* A message that is not allowed fails at once.
LEMMA ThrowErrorKeeps ==
  ASSUME ClientInv, ThrowError
  PROVE  ClientInv'
BY Types, TaskEnds DEF ThrowError, indexedDB

\* A discard deletes the session and the parts, and that is its last task.
LEMMA DeleteSessionKeeps ==
  ASSUME ClientInv, DeleteSession
  PROVE  ClientInv'
<1>1. /\ op \in Operations /\ op # None /\ ~op.failed /\ op.failed \in BOOLEAN /\ op.todo # <<>>
      /\ op.call = None /\ Task.do = "delete"
  BY RunningFacts DEF DeleteSession
<1>2. Tail(op.todo) = <<>>
  <2>1. PICK todo \in Seq(Tasks) : todo = op.todo /\ todo # <<>>
    BY <1>1 DEF Operations
  <2>2. Formed(todo) /\ 1 \in 1 .. Len(todo) /\ todo[1].do = "delete"
    BY <1>1, <2>1, Types DEF OpInv, FormInv, Task
  <2>3. Len(todo) = 1
    BY <2>2 DEF Formed
  <2>4. PICK t : t = Tail(todo)
    OBVIOUS
  <2>5. t \in Seq(Tasks) /\ Len(t) = 0
    BY <2>1, <2>3, <2>4
  <2>6. t = <<>>
    BY <2>5
  <2>7. QED
    BY <2>1, <2>4, <2>6
<1>3. PICK d \in Operations : d = Done(op) /\ d.todo = Tail(op.todo) /\ d.call = None
                              /\ d.failed = op.failed
  BY <1>1, OperationTypes
<1>4. op' = d /\ local' = None /\ store' = {}
  BY <1>3 DEF DeleteSession
<1>5. OpInv'
  BY <1>1, <1>2, <1>3, <1>4, Types, OpDone
<1>6. StoreInv'
  <2>1. IsFiniteSet(store')
    BY <1>4, FS_EmptySet
  <2>2. OnePart' /\ PartEntries'
    BY <1>4 DEF OnePart, PartEntries
  <2>3. ASSUME NEW a \in Names
        PROVE  {p.part : p \in LocalOf(a)'} = 0 .. Cardinality(LocalOf(a)') - 1
    <3>1. LocalOf(a)' = {}
      BY <1>4 DEF LocalOf
    <3>2. Cardinality(LocalOf(a)') = 0
      BY <3>1, FS_EmptySet
    <3>3. 0 .. 0 - 1 = {}
      OBVIOUS
    <3>4. {p.part : p \in LocalOf(a)'} = {}
      BY <3>1
    <3>5. QED
      BY <3>2, <3>3, <3>4
  <2>4. QED
    BY <2>1, <2>2, <2>3 DEF StoreInv, Numbered
<1>7. stopper' \in Stoppers /\ StopperInv'
  <2>1. stopper' = IF stopper.pc = "stopping" THEN Failed(stopper) ELSE stopper
    BY DEF DeleteSession
  <2>2. PICK f : f = Failed(stopper)
    OBVIOUS
  <2>3. /\ f = [pc |-> f.pc, left |-> f.left, copy |-> f.copy]
        /\ f.pc = "failed" /\ f.left = 0 /\ f.copy = stopper.copy
    BY <2>2, Types DEF Failed, Stoppers
  <2>4. f \in Stoppers
    BY <2>3, Types DEF Stoppers
  <2>5. CASE stopper.pc = "stopping"
    BY <2>1, <2>2, <2>3, <2>4, <2>5 DEF StopperInv
  <2>6. CASE stopper.pc # "stopping"
    BY <2>1, <2>6, Types DEF StopperInv
  <2>7. QED
    BY <2>5, <2>6
<1>8. NoRecorder(recorder.emitted) \in Recorders
  BY Types DEF NoRecorder, Recorders
<1>9. QED
  BY <1>3, <1>4, <1>5, <1>6, <1>7, <1>8, Types, LocalStep DEF DeleteSession

-----------------------------------------------------------------------------
(***************************************************************************)
(* The tasks that call the server keep the invariant.                      *)
(***************************************************************************)
\* The request is made and sent, or the task fails before that.
LEMMA CallServerKeeps ==
  ASSUME ClientInv, CallServer
  PROVE  ClientInv'
<1>1. PICK do \in {"event", "upload", "complete", "missing", "finalize", "package"} : Running(do)
  BY DEF CallServer
<1>2. /\ op \in Operations /\ op # None /\ ~op.failed /\ op.failed \in BOOLEAN /\ op.todo # <<>>
      /\ op.call = None /\ Task.do = do /\ Task \in Tasks
  BY <1>1, RunningFacts
<1>3. local' = local /\ store' = store
  BY DEF CallServer, indexedDB
<1>4. StopperInv' /\ StoreInv'
  BY <1>3, Types, StoreKept DEF CallServer, StopperInv
<1>5. CASE Task.do \in {"complete", "missing"} /\ (~Active \/ PartsMissing(Task))
  <2>1. op' = Failing(op) /\ wire' = wire
    BY <1>5 DEF CallServer
  <2>2. OpInv' /\ op' \in Operations
    BY <1>2, <1>3, <2>1, Types, OpFails
  <2>3. QED
    BY <1>3, <1>4, <2>1, <2>2, Types, LocalStep DEF CallServer, network
<1>6. CASE ~(Task.do \in {"complete", "missing"} /\ (~Active \/ PartsMissing(Task)))
  <2>1. PICK r \in Requests :
          /\ r = MakeRequest(Task) /\ Fits(r) /\ r.kind = KindOf(Task.do)
          /\ Task.do \in Linking => /\ r.entry.previous = SessionOf(Task).prev
                                    /\ r.entry.facts.seq = SessionOf(Task).seq
          /\ Task.do = "upload" =>
               \E p \in store : /\ Matches(r, p)
                                /\ p.artifact = Task.artifact /\ p.part = Task.part
          /\ Task.do = "finalize" => r.close = CloseOf(SessionOf(Task))
    BY <1>1, <1>2, <1>6, MakeRequestType
  <2>2. PICK s \in LocalSessions \cup {None} :
          /\ s = SessionOf(Task)
          /\ Task.do # "upload" => local # None /\ s # None /\ s.status # "complete"
    BY <1>1, <1>2, <1>6, MakeRequestType
  <2>3. PICK c : c = Sent(r)
    OBVIOUS
  <2>4. c \in Calls /\ c.request = r /\ c # None
    <3>1. c \in Calls /\ c.request = r
      BY <2>3, Types DEF Sent, Calls
    <3>2. QED
      BY <3>1, ClientNoneAssumption
  <2>5. PICK o : o = [op EXCEPT !.call = c, !.s = s]
    OBVIOUS
  <2>6. op' = o /\ wire' = wire \cup {c}
    BY <1>6, <2>1, <2>2, <2>3, <2>5 DEF CallServer
  <2>7. /\ o = [name |-> o.name, todo |-> o.todo, s |-> o.s, call |-> o.call,
                answer |-> o.answer, failed |-> o.failed]
        /\ o.call = c /\ o.s = s /\ o.todo = op.todo /\ o.failed = op.failed
        /\ o.name = op.name /\ o.answer = op.answer
    BY <1>2, <2>5 DEF Operations
  <2>8. o \in Operations
    BY <1>2, <2>2, <2>4, <2>7 DEF Operations
  <2>9. Task' = Task
    BY <2>6, <2>7 DEF Task
  <2>10. FormInv'
    BY <1>2, <2>6, <2>7, Types DEF OpInv, FormInv
  <2>11. LiveInv'
    <3>1. CASE Task.do # "upload"
      BY <1>3, <2>2, <2>6, <2>7, <3>1 DEF LiveInv
    <3>2. CASE Task.do = "upload"
      <4>1. s = op.s
        BY <2>2, <3>2 DEF SessionOf
      <4>2. QED
        BY <1>2, <1>3, <2>6, <2>7, <4>1, Types DEF OpInv, LiveInv
    <3>3. QED
      BY <3>1, <3>2
  <2>12. CallOK(r)'
    <3>1. r.kind \in Linking => Task.do \in Linking
      BY <1>1, <1>2, <2>1 DEF KindOf, Linking
    <3>2. r.kind = "part" => Task.do = "upload"
      BY <1>1, <1>2, <2>1 DEF KindOf
    <3>3. r.kind = "finalize" => Task.do = "finalize"
      BY <1>1, <1>2, <2>1 DEF KindOf
    <3>4. r.kind \in Linking => /\ r.entry.previous = o.s.prev /\ r.entry.facts.seq = o.s.seq
                                /\ local # None /\ o.s # None
      BY <2>1, <2>2, <2>7, <3>1 DEF Linking
    <3>5. Fits(r)'
      BY <2>1 DEF Fits
    <3>6. r.kind = "part" => \E p \in store : /\ Matches(r, p)
                                              /\ p.artifact = Task.artifact /\ p.part = Task.part
      BY <2>1, <3>2
    <3>7. r.kind = "finalize" => r.close = CloseOf(o.s)
      BY <2>1, <2>2, <2>7, <3>3
    <3>8. QED
      BY <1>3, <2>1, <2>6, <2>9, <3>4, <3>5, <3>6, <3>7 DEF CallOK, Matches, CloseOf
  <2>13. CallInv'
    BY <1>2, <1>3, <2>4, <2>6, <2>7, <2>9, <2>12, Types DEF OpInv, CallInv
  <2>14. OpInv'
    BY <2>10, <2>11, <2>13 DEF OpInv
  <2>15. TypeOK' /\ UNCHANGED <<vars, serving, upload>>
    <3>1. UNCHANGED vars
      BY DEF CallServer
    <3>2. UNCHANGED <<serving, upload>>
      BY <3>1 DEF CallServer, vars
    <3>3. QED
      BY <3>1, <3>2, Types, TypeStep
  <2>16. WireInv'
    BY <2>1, <2>4, <2>6, <2>15, Types DEF WireInv, Fits, Served
  <2>17. ClientTypeOK'
    <3>1. wire' \in SUBSET Calls
      BY <2>4, <2>6, Types
    <3>2. QED
      BY <1>3, <2>6, <2>8, <2>15, <3>1, Types DEF CallServer, ClientTypeOK, Stoppers, Recorders
  <2>18. QED
    BY <1>4, <2>14, <2>16, <2>17 DEF ClientInv, OpInv
<1>7. QED
  BY <1>5, <1>6

\* Whoever waits for an answer made its request of the session it has.
LEMMA WaitingFacts ==
  ASSUME ClientInv, op # None, op.call # None
  PROVE  /\ op \in Operations /\ ~op.failed /\ op.failed \in BOOLEAN /\ op.todo # <<>>
         /\ Task \in Tasks /\ op.call \in Calls /\ op.call.request \in Requests
         /\ CallOK(op.call.request)
         /\ Task.do # "upload" =>
              /\ local # None /\ local \in LocalSessions
              /\ op.s # None /\ op.s \in LocalSessions /\ op.s.status # "complete"
<1>1. /\ op \in Operations /\ ~op.failed /\ op.todo # <<>> /\ CallOK(op.call.request)
      /\ op.call \in Calls
  BY Types DEF OpInv, CallInv, Operations
<1>2. Task \in Tasks /\ op.failed \in BOOLEAN /\ op.call.request \in Requests
  BY <1>1, OperationTypes DEF Task, Operations, Calls
<1>3. ASSUME Task.do # "upload"
      PROVE  ~Harmless(Task)
  <2>1. op.call.request.kind \in Linking \cup {"part", "finalize", "package"}
    BY <1>2, RequestFields
  <2>2. op.call.request.kind = Task.do
    BY <1>1, <1>3 DEF CallOK, KindOf
  <2>3. QED
    BY <1>3, <2>1, <2>2 DEF Harmless, Linking
<1>4. QED
  BY <1>1, <1>2, <1>3, Types, RunsLive DEF OpInv

\* The answer to an event, a completion or a declaration.
LEMMA AfterAnswerType ==
  ASSUME ClientInv, op # None, op.call # None, Task.do \in Linking
  PROVE  /\ AfterAnswer \in LocalSessions /\ AfterAnswer # None
         /\ AfterAnswer.status = op.s.status
         /\ AfterAnswer.seq = op.s.seq + 1
         /\ AfterAnswer.prev = EntryHash(Request.entry)
<1>1. PICK r \in Requests : r = Request /\ Fits(r) /\ r.kind = Task.do
  BY WaitingFacts DEF Request, CallOK, KindOf, Linking
<1>2. Task \in Tasks /\ op.s \in LocalSessions
  BY WaitingFacts DEF Linking
<1>3. r.entry \in Drafts
  BY <1>1, RequestFields
<1>4. PICK s : s = Advance(op.s, r.entry)
  OBVIOUS
<1>5. /\ s \in LocalSessions /\ s.status = op.s.status /\ s.seq = op.s.seq + 1
      /\ s.prev = EntryHash(r.entry)
  <2>1. s \in LocalSessions
    BY <1>2, <1>3, <1>4, Types, SessionTypes
  <2>2. QED
    BY <1>2, <1>4, <2>1 DEF Advance, LocalSessions
<1>6. ASSUME NEW x \in Results
      PROVE  /\ [s EXCEPT !.artifacts = s.artifacts \cup {x}] \in LocalSessions
             /\ [s EXCEPT !.artifacts = s.artifacts \cup {x}].status = s.status
             /\ [s EXCEPT !.artifacts = s.artifacts \cup {x}].seq = s.seq
             /\ [s EXCEPT !.artifacts = s.artifacts \cup {x}].prev = s.prev
  BY <1>5 DEF LocalSessions
<1>7. CASE Task.do = "event"
  BY <1>1, <1>4, <1>5, <1>7, ClientNoneAssumption DEF AfterAnswer
<1>8. CASE Task.do = "complete"
  <2>1. PICK x : x = Result(Task.artifact, "captured", r.entry.facts.data.hash)
    OBVIOUS
  <2>2. x \in Results
    <3>1. Task.artifact \in Names
      BY <1>2, <1>8, TaskFields
    <3>2. r.entry.facts.data.hash \in Seq(Contents)
      BY <1>1, <1>8 DEF Fits
    <3>3. QED
      BY <2>1, <3>1, <3>2 DEF Result, Results
  <2>3. AfterAnswer = [s EXCEPT !.artifacts = s.artifacts \cup {x}]
    BY <1>1, <1>4, <1>8, <2>1 DEF AfterAnswer
  <2>4. QED
    BY <1>1, <1>5, <1>6, <2>2, <2>3, ClientNoneAssumption
<1>9. CASE Task.do = "missing"
  <2>1. PICK x : x = Result(Task.artifact, "unavailable", <<>>)
    OBVIOUS
  <2>2. x \in Results
    <3>1. Task.artifact \in Names
      BY <1>2, <1>9, TaskFields
    <3>2. QED
      BY <2>1, <3>1 DEF Result, Results
  <2>3. AfterAnswer = [s EXCEPT !.artifacts = s.artifacts \cup {x}]
    BY <1>1, <1>4, <1>9, <2>1 DEF AfterAnswer
  <2>4. QED
    BY <1>1, <1>5, <1>6, <2>2, <2>3, ClientNoneAssumption
<1>10. QED
  BY <1>7, <1>8, <1>9 DEF Linking

\* The session advances by the entry that was answered.
LEMMA ReceiveEntryKeeps ==
  ASSUME ClientInv, ReceiveEntry
  PROVE  ClientInv'
<1>1. /\ op \in Operations /\ op # None /\ ~op.failed /\ op.failed \in BOOLEAN /\ op.todo # <<>>
      /\ op.call # None /\ Task.do \in Linking /\ op.s.status # "complete"
  BY WaitingFacts DEF ReceiveEntry, Answered, Linking
<1>2. PICK s \in LocalSessions : s = AfterAnswer /\ s # None /\ s.status # "complete"
  BY <1>1, AfterAnswerType
<1>3. PICK d \in Operations : d = Received /\ d.todo = Tail(op.todo) /\ d.call = None
                              /\ d.failed = op.failed
  BY <1>1, ReceivedType
<1>4. PICK w : w = [d EXCEPT !.s = s]
  OBVIOUS
<1>5. w \in Operations /\ w.todo = d.todo /\ w.call = d.call /\ w.failed = d.failed /\ w.s = s
  BY <1>2, <1>4 DEF Operations
<1>6. op' = w /\ local' = s
  BY <1>2, <1>3, <1>4 DEF ReceiveEntry
<1>7. OpInv'
  BY <1>1, <1>2, <1>3, <1>5, <1>6, Types, OpDone
<1>8. StopperInv' /\ StoreInv'
  BY Types, StoreKept DEF ReceiveEntry, StopperInv
<1>9. QED
  BY <1>2, <1>5, <1>6, <1>7, <1>8, Types, LocalStep DEF ReceiveEntry

\* Acknowledging a part leaves the others and every number as they were.
LEMMA StoreAcknowledges ==
  ASSUME ClientTypeOK, StoreInv, NEW x \in store, NEW y \in StoredParts,
         y.artifact = x.artifact, y.part = x.part, y.bytes = x.bytes, y.entry = x.entry,
         store' = (store \ {x}) \cup {y}
  PROVE  store' \in SUBSET StoredParts /\ StoreInv'
<1>1. store' \in SUBSET StoredParts
  BY DEF ClientTypeOK
<1>2. IsFiniteSet(store')
  BY FS_AddElement, FS_RemoveElement DEF StoreInv
<1>3. OnePart' /\ PartEntries'
  BY DEF StoreInv, OnePart, PartEntries
<1>4. ASSUME NEW a \in Names
      PROVE  {q.part : q \in LocalOf(a)'} = 0 .. Cardinality(LocalOf(a)') - 1
  <2>1. CASE a # x.artifact
    <3>1. LocalOf(a)' = LocalOf(a)
      BY <2>1 DEF LocalOf
    <3>2. QED
      BY <3>1 DEF StoreInv, Numbered
  <2>2. CASE a = x.artifact
    <3>1. PICK S : S = LocalOf(a)
      OBVIOUS
    <3>2. IsFiniteSet(S) /\ x \in S
      BY <2>2, <3>1, LocalParts DEF LocalOf
    <3>3. LocalOf(a)' = (S \ {x}) \cup {y}
      BY <2>2, <3>1 DEF LocalOf
    <3>4. Cardinality((S \ {x}) \cup {y}) = Cardinality(S)
      <4>1. IsFiniteSet(S \ {x}) /\ Cardinality(S \ {x}) = Cardinality(S) - 1
        BY <3>2, FS_RemoveElement
      <4>2. CASE y \in S \ {x}
        <5>1. y = x
          BY <3>1, <4>2 DEF StoreInv, OnePart, LocalOf
        <5>2. QED
          BY <4>2, <5>1
      <4>3. CASE y \notin S \ {x}
        <5>1. PICK T : T = S \ {x}
          OBVIOUS
        <5>2. Cardinality(T \cup {y}) = Cardinality(T) + 1
          BY <4>1, <4>3, <5>1, FS_AddElement
        <5>3. Cardinality(S) \in Nat
          BY <3>2, FS_CardinalityType
        <5>4. QED
          BY <4>1, <5>1, <5>2, <5>3
      <4>4. QED
        BY <4>2, <4>3
    <3>5. {q.part : q \in (S \ {x}) \cup {y}} = {q.part : q \in S}
      BY <3>2
    <3>6. {q.part : q \in S} = 0 .. Cardinality(S) - 1
      BY <3>1 DEF StoreInv, Numbered
    <3>7. QED
      BY <3>3, <3>4, <3>5, <3>6
  <2>3. QED
    BY <2>1, <2>2
<1>5. QED
  BY <1>1, <1>2, <1>3, <1>4 DEF StoreInv, Numbered

\* The part the upload was of is the one acknowledged.
LEMMA AcknowledgeWrites ==
  ASSUME ClientInv, Acknowledge, Active
  PROVE  \E x \in store : \E y \in StoredParts :
           /\ y = [x EXCEPT !.uploaded = TRUE]
           /\ x.artifact = Task.artifact /\ x.part = Task.part
           /\ y.artifact = x.artifact /\ y.part = x.part /\ y.bytes = x.bytes
           /\ y.entry = x.entry /\ y.uploaded
           /\ Matches(Request, x) /\ Request.kind = "part"
           /\ store' = (store \ {x}) \cup {y}
           /\ \A q \in store : q # x => ~(q.artifact = x.artifact /\ q.part = x.part)
<1>1. /\ CallOK(op.call.request) /\ Task.do = "upload"
      /\ store' = {Acknowledged(p) : p \in store}
  BY WaitingFacts DEF Acknowledge, Answered
<1>2. PICK x \in store : /\ Matches(op.call.request, x)
                         /\ x.artifact = Task.artifact /\ x.part = Task.part
  BY <1>1 DEF CallOK, KindOf
<1>3. PICK y : y = [x EXCEPT !.uploaded = TRUE]
  OBVIOUS
<1>4. /\ y \in StoredParts /\ y.artifact = x.artifact /\ y.part = x.part /\ y.bytes = x.bytes
      /\ y.entry = x.entry /\ y.uploaded
  BY <1>3, Types DEF StoredParts
<1>5. \A q \in store : q # x => ~(q.artifact = x.artifact /\ q.part = x.part)
  BY Types DEF StoreInv, OnePart
<1>6. /\ Acknowledged(x) = y
      /\ \A q \in store : q # x => Acknowledged(q) = q
  BY <1>2, <1>3, <1>5 DEF Acknowledged
<1>7. store' = (store \ {x}) \cup {y}
  BY <1>1, <1>6
<1>8. Request.kind = "part"
  BY <1>1 DEF Request, CallOK, KindOf
<1>9. QED
  BY <1>2, <1>3, <1>4, <1>5, <1>7, <1>8 DEF Request

\* A part that was answered is acknowledged.
LEMMA AcknowledgeKeeps ==
  ASSUME ClientInv, Acknowledge
  PROVE  ClientInv'
<1>1. /\ op \in Operations /\ op # None /\ ~op.failed /\ op.failed \in BOOLEAN /\ op.todo # <<>>
      /\ op.call # None
  BY WaitingFacts DEF Acknowledge, Answered
<1>2. StopperInv'
  BY Types DEF Acknowledge, StopperInv
<1>3. CASE ~Active
  <2>1. op' = Failing(op) /\ store' = store
    BY <1>3 DEF Acknowledge
  <2>2. OpInv' /\ op' \in Operations
    BY <1>1, <2>1, Types, OpFails DEF Acknowledge
  <2>3. QED
    BY <1>2, <2>1, <2>2, Types, StoreKept, LocalStep DEF Acknowledge
<1>4. CASE Active
  <2>1. PICK d \in Operations : d = Received /\ d.todo = Tail(op.todo) /\ d.call = None
                                /\ d.failed = op.failed /\ d.s = op.s
    BY <1>1, ReceivedType
  <2>2. op' = d /\ local' = local
    BY <1>4, <2>1 DEF Acknowledge
  <2>3. OpInv'
    BY <1>1, <2>1, <2>2, Types, OpDone
  <2>4. store' \in SUBSET StoredParts /\ StoreInv'
    BY <1>4, Types, AcknowledgeWrites, StoreAcknowledges
  <2>5. QED
    BY <1>2, <2>1, <2>2, <2>3, <2>4, Types, LocalStep DEF Acknowledge
<1>5. QED
  BY <1>3, <1>4

\* The answer to the finalization or to the package.
LEMMA ReceiveResultKeeps ==
  ASSUME ClientInv, ReceiveResult
  PROVE  ClientInv'
<1>1. /\ op \in Operations /\ op # None /\ ~op.failed /\ op.failed \in BOOLEAN /\ op.todo # <<>>
      /\ op.call # None /\ op.s \in LocalSessions /\ local # None
  BY WaitingFacts DEF ReceiveResult, Answered
<1>2. PICK d \in Operations : d = Received /\ d.todo = Tail(op.todo) /\ d.call = None
                              /\ d.failed = op.failed /\ d.s = op.s
  BY <1>1, ReceivedType
<1>3. local' \in LocalSessions /\ local' # None
  <2>1. [op.s EXCEPT !.status = "complete"] \in LocalSessions
    BY <1>1 DEF LocalSessions
  <2>2. local' \in LocalSessions
    BY <1>1, <2>1, Types DEF ReceiveResult
  <2>3. QED
    BY <2>2, ClientNoneAssumption
<1>4. OpInv'
  BY <1>1, <1>2, <1>3, Types, OpDone DEF ReceiveResult
<1>5. StopperInv' /\ StoreInv'
  BY Types, StoreKept DEF ReceiveResult, StopperInv
<1>6. QED
  BY <1>2, <1>3, <1>4, <1>5, Types, LocalStep DEF ReceiveResult

\* A refusal, and a call that is given up.
LEMMA ReceiveErrorKeeps ==
  ASSUME ClientInv, ReceiveError
  PROVE  ClientInv'
<1>1. op \in Operations /\ op # None /\ op.todo # <<>>
  BY WaitingFacts DEF ReceiveError, Answered
<1>2. op' = Failing(op) /\ local' = local /\ store' = store
  BY DEF ReceiveError, indexedDB
<1>3. OpInv' /\ op' \in Operations
  BY <1>1, <1>2, Types, OpFails
<1>4. StopperInv' /\ StoreInv'
  BY <1>2, Types, StoreKept DEF ReceiveError, StopperInv
<1>5. QED
  BY <1>2, <1>3, <1>4, Types, LocalStep DEF ReceiveError

\* A call fails.
LEMMA GiveUpKeeps ==
  ASSUME ClientInv, GiveUp
  PROVE  ClientInv'
<1>1. op \in Operations /\ op # None /\ op.todo # <<>>
  BY WaitingFacts DEF GiveUp
<1>2. op' = Failing(op) /\ local' = local /\ store' = store /\ faults' \in 0 .. MaxFaults
  BY Types DEF GiveUp, indexedDB
<1>3. OpInv' /\ op' \in Operations
  BY <1>1, <1>2, Types, OpFails
<1>4. StopperInv' /\ StoreInv'
  BY <1>2, Types, StoreKept DEF GiveUp, StopperInv
<1>5. QED
  BY <1>2, <1>3, <1>4, Types, LocalStep DEF GiveUp

-----------------------------------------------------------------------------
(***************************************************************************)
(* The end of an operation, the stop outside the queue, the user and the   *)
(* deaths keep the invariant.                                              *)
(***************************************************************************)
LEMMA FinishKeeps ==
  ASSUME ClientInv, Finish
  PROVE  ClientInv'
<1>1. op' = None /\ local' = local /\ store' = store
  BY DEF Finish, indexedDB
<1>2. OpInv'
  BY <1>1, OpGone
<1>3. recorder' \in Recorders
  <2>1. recorder.pending > 0 => [recorder EXCEPT !.pending = recorder.pending - 1] \in Recorders
    BY Types DEF Recorders
  <2>2. QED
    BY <2>1, Types DEF Finish
<1>4. stopper' \in Stoppers /\ StopperInv'
  <2>1. stopper.left > 0 => [stopper EXCEPT !.left = stopper.left - 1] \in Stoppers
    BY Types DEF Stoppers
  <2>2. IdleStopper \in Stoppers /\ IdleStopper.pc = "idle"
    BY DEF IdleStopper, Stoppers
  <2>3. \/ stopper' = IdleStopper
        \/ stopper' = stopper
        \/ stopper.left > 0 /\ stopper' = [stopper EXCEPT !.left = stopper.left - 1]
    BY DEF Finish
  <2>4. CASE stopper' = IdleStopper
    BY <2>2, <2>4 DEF StopperInv
  <2>5. CASE stopper' = stopper
    BY <2>5, Types DEF StopperInv
  <2>6. CASE stopper.left > 0 /\ stopper' = [stopper EXCEPT !.left = stopper.left - 1]
    BY <2>1, <2>6, Types DEF StopperInv, Stoppers
  <2>7. QED
    BY <2>3, <2>4, <2>5, <2>6
<1>5. QED
  BY <1>1, <1>2, <1>3, <1>4, Types, StoreKept, LocalStep DEF Finish

\* The record of an error keeps whether there is a session.
LEMMA WithErrorType ==
  ASSUME NEW s \in LocalSessions \cup {None}
  PROVE  /\ WithError(s) \in LocalSessions \cup {None}
         /\ s # None => WithError(s) # None /\ WithError(s) \in LocalSessions
         /\ s # None => /\ WithError(s).seq = s.seq /\ WithError(s).prev = s.prev
                        /\ WithError(s).artifacts = s.artifacts
                        /\ (WithError(s).status = "complete" <=> s.status = "complete")
<1>1. s # None => [s EXCEPT !.status = "error"] \in LocalSessions
  BY DEF LocalSessions
<1>2. s # None => /\ [s EXCEPT !.status = "error"].seq = s.seq
                  /\ [s EXCEPT !.status = "error"].prev = s.prev
                  /\ [s EXCEPT !.status = "error"].artifacts = s.artifacts
                  /\ [s EXCEPT !.status = "error"].status = "error"
  BY DEF LocalSessions
<1>3. QED
  BY <1>1, <1>2, ClientNoneAssumption DEF WithError

\* Failing what the stopper waits for.
LEMMA FailedType ==
  ASSUME stopper \in Stoppers
  PROVE  Failed(stopper) \in Stoppers /\ Failed(stopper).pc = "failed"
         /\ Failed(stopper).copy = stopper.copy
<1>1. PICK f : f = Failed(stopper)
  OBVIOUS
<1>2. /\ f = [pc |-> f.pc, left |-> f.left, copy |-> f.copy]
      /\ f.pc = "failed" /\ f.left = 0 /\ f.copy = stopper.copy
  BY <1>1 DEF Failed, Stoppers
<1>3. f \in Stoppers
  BY <1>2 DEF Stoppers
<1>4. QED
  BY <1>1, <1>2, <1>3

\* A failed operation goes on with the catch block of its try block, or ends.
LEMMA CatchKeeps ==
  ASSUME ClientInv, Catch
  PROVE  ClientInv'
<1>1. /\ op \in Operations /\ op # None /\ op.failed /\ op.todo # <<>> /\ op.call = None
  BY Types DEF Catch, OpInv, CallInv
<1>2. store' = store /\ UNCHANGED <<vars, network, inputs, faults, overwrote>>
  BY DEF Catch
<1>3. recorder' \in Recorders /\ mail' \in Seq(Messages)
  <2>1. PICK last \in LastChunks :
          LET stops == Task.try = Recording \/ op.name = "chunk"
              r == IF stops THEN Stopped(recorder, last) ELSE recorder
          IN  /\ stops \/ last = <<>>
              /\ mail' = mail \o last
              /\ recorder' = IF op.name = "chunk" /\ recorder.pending > 0
                             THEN [r EXCEPT !.pending = @ - 1, !.failed = TRUE] ELSE r
    BY DEF Catch
  <2>2. PICK r : r = IF Task.try = Recording \/ op.name = "chunk"
                     THEN Stopped(recorder, last) ELSE recorder
    OBVIOUS
  <2>3. last \in Seq(Messages) /\ Len(last) \in Nat /\ r \in Recorders
        /\ r.pending >= recorder.pending
    <3>1. /\ last \in Seq(Messages) /\ Stopped(recorder, last) \in Recorders
          /\ Stopped(recorder, last).pending = recorder.pending + Len(last)
      BY <2>1, Types, StoppedType
    <3>2. Len(last) \in Nat
      BY <3>1
    <3>3. CASE r = recorder
      BY <3>1, <3>2, <3>3, Types DEF Recorders
    <3>4. CASE r = Stopped(recorder, last)
      BY <3>1, <3>2, <3>4, Types DEF Recorders
    <3>5. QED
      BY <2>2, <3>3, <3>4
  <2>4. mail' \in Seq(Messages)
    BY <2>1, <2>3, Types
  <2>5. PICK u : u = [r EXCEPT !.pending = r.pending - 1, !.failed = TRUE]
    OBVIOUS
  <2>6. recorder.pending > 0 => u \in Recorders
    <3>1. u = [doc |-> u.doc, on |-> u.on, pending |-> u.pending, emitted |-> u.emitted,
               failed |-> u.failed]
      BY <2>3, <2>5 DEF Recorders
    <3>2. /\ u.doc = r.doc /\ u.on = r.on /\ u.pending = r.pending - 1 /\ u.emitted = r.emitted
          /\ u.failed = TRUE
      BY <2>3, <2>5 DEF Recorders
    <3>3. recorder.pending > 0 => r.pending - 1 \in Nat
      BY <2>3, Types DEF Recorders
    <3>4. QED
      BY <2>3, <3>1, <3>2, <3>3 DEF Recorders
  <2>7. recorder' = IF op.name = "chunk" /\ recorder.pending > 0 THEN u ELSE r
    BY <2>1, <2>2, <2>5
  <2>8. QED
    BY <2>3, <2>4, <2>6, <2>7
<1>4. CASE Caught
  <2>1. UNCHANGED <<local, stopper>> /\ op' = [op EXCEPT !.failed = FALSE, !.todo = Handler(Task.try)]
    BY <1>4 DEF Catch
  <2>2. Task.try # None /\ Formed(op.todo)
    BY <1>1, <1>4, Types DEF Caught, OpInv, FormInv
  <2>3. PICK h \in Seq(Tasks) : /\ h = Handler(Task.try) /\ Formed(h) /\ h # <<>>
                                /\ Head(h) = Missing(Task.try)
    BY <1>1, <2>2, AfterTryForms
  <2>4. Head(h).do = "missing"
    BY <2>3 DEF Missing
  <2>5. PICK o : o = [op EXCEPT !.failed = FALSE, !.todo = h]
    OBVIOUS
  <2>6. /\ o = [name |-> o.name, todo |-> o.todo, s |-> o.s, call |-> o.call,
                answer |-> o.answer, failed |-> o.failed]
        /\ o.todo = h /\ o.failed = FALSE /\ o.s = op.s /\ o.call = None /\ o.name = op.name
        /\ o.answer = op.answer
    BY <1>1, <2>5 DEF Operations
  <2>7. o \in Operations
    BY <1>1, <2>3, <2>6 DEF Operations
  <2>8. op' = o
    BY <2>1, <2>3, <2>5
  <2>9. local # None /\ op.s # None /\ op.s.status # "complete"
    BY <1>1, <2>2, RunsLive, Types DEF OpInv, Harmless
  <2>10. OpInv'
    BY <2>1, <2>3, <2>4, <2>6, <2>7, <2>8, <2>9, OpStarts
  <2>11. StopperInv' /\ StoreInv'
    BY <1>2, <2>1, Types, StoreKept DEF StopperInv
  <2>12. QED
    BY <1>2, <1>3, <2>1, <2>7, <2>8, <2>10, <2>11, Types, LocalStep
<1>5. CASE ~Caught
  <2>1. /\ op' = None
        /\ local' = IF op.name = "stop" THEN local ELSE WithError(local)
        /\ stopper' = IF op.name = "stop" \/ (op.name = "chunk" /\ stopper.left > 0)
                      THEN Failed(stopper) ELSE stopper
    BY <1>5 DEF Catch
  <2>2. OpInv'
    BY <2>1, OpGone
  <2>3. local' \in LocalSessions \cup {None}
    BY <2>1, Types, WithErrorType
  <2>4. stopper' \in Stoppers /\ StopperInv'
    BY <2>1, Types, FailedType DEF StopperInv
  <2>5. QED
    BY <1>2, <1>3, <2>1, <2>2, <2>3, <2>4, Types, StoreKept, LocalStep
<1>6. QED
  BY <1>4, <1>5

\* A step that leaves the queue and the parts alone.
LEMMA AsideKeeps ==
  ASSUME ClientInv, UNCHANGED <<vars, network, op, store, overwrote>>,
         local' \in LocalSessions \cup {None}, local # None => local' # None,
         mail' \in Seq(Messages), stopper' \in Stoppers, StopperInv',
         recorder' \in Recorders, inputs' \in 0 .. MaxInputs, faults' \in 0 .. MaxFaults
  PROVE  ClientInv'
<1>1. OpInv'
  BY Types, OpKept
<1>2. QED
  BY <1>1, Types, StoreKept, LocalStep

\* The recorder emits a chunk.
LEMMA EmitChunkKeeps ==
  ASSUME ClientInv, EmitChunk
  PROVE  ClientInv'
<1>1. recorder.emitted + 1 \in 0 .. MaxChunks
  BY Types, ClientAssumption DEF EmitChunk, Recorders
<1>2. ChunkMessage(recorder.emitted + 1) \in Messages
  BY <1>1, ClientAssumption DEF ChunkMessage, Messages
<1>3. mail' \in Seq(Messages)
  BY <1>2, Types DEF EmitChunk
<1>4. PICK u : u = [recorder EXCEPT !.pending = recorder.pending + 1, !.emitted = recorder.emitted + 1]
  OBVIOUS
<1>5. u \in Recorders
  <2>1. u = [doc |-> u.doc, on |-> u.on, pending |-> u.pending, emitted |-> u.emitted,
             failed |-> u.failed]
    BY <1>4, Types DEF Recorders
  <2>2. /\ u.doc = recorder.doc /\ u.on = recorder.on /\ u.pending = recorder.pending + 1
        /\ u.emitted = recorder.emitted + 1 /\ u.failed = recorder.failed
    BY <1>4, Types DEF Recorders
  <2>3. QED
    BY <1>1, <2>1, <2>2, Types DEF Recorders
<1>6. recorder' = u
  BY <1>4 DEF EmitChunk
<1>7. QED
  BY <1>3, <1>5, <1>6, Types, AsideKeeps DEF EmitChunk, indexedDB, StopperInv

\* A message that is put behind the others.
LEMMA MailGrows ==
  ASSUME NEW ms \in Seq(Messages), NEW m \in Messages
  PROVE  Append(ms, m) \in Seq(Messages) /\ ms \o <<m>> \in Seq(Messages)
<1>1. Append(ms, m) \in Seq(Messages)
  OBVIOUS
<1>2. <<m>> \in Seq(Messages)
  OBVIOUS
<1>3. PICK t \in Seq(Messages) : t = <<m>>
  BY <1>2
<1>4. ms \o t \in Seq(Messages)
  OBVIOUS
<1>5. QED
  BY <1>1, <1>3, <1>4

\* The user ends the sharing.
LEMMA SharingEndsKeeps ==
  ASSUME ClientInv, SharingEnds
  PROVE  ClientInv'
<1>1. PICK last \in LastChunks : /\ recorder' = Stopped(recorder, last)
                                 /\ mail' = mail \o <<[name |-> "sharing_ended"]>> \o last
  BY DEF SharingEnds
<1>2. recorder' \in Recorders /\ last \in Seq(Messages)
  BY <1>1, Types, StoppedType
<1>3. PICK m \in Messages : m = [name |-> "sharing_ended"]
  BY DEF Messages
<1>4. PICK ms \in Seq(Messages) : ms = mail \o <<m>>
  BY Types, MailGrows
<1>5. mail' = ms \o last
  BY <1>1, <1>3, <1>4
<1>6. mail' \in Seq(Messages)
  BY <1>2, <1>5
<1>7. inputs' \in 0 .. MaxInputs
  BY Types DEF SharingEnds
<1>8. QED
  BY <1>2, <1>6, <1>7, Types, AsideKeeps DEF SharingEnds, indexedDB, StopperInv

\* The user stops the capture.
LEMMA PressStopKeeps ==
  ASSUME ClientInv, PressStop
  PROVE  ClientInv'
<1>1. /\ inputs' \in 0 .. MaxInputs /\ local' = local /\ store' = store
      /\ UNCHANGED <<vars, op, network, faults, overwrote>>
  BY Types DEF PressStop, indexedDB
<1>2. CASE ~local.recording
  <2>1. stopper' = [stopper EXCEPT !.pc = "queued"] /\ mail' = Append(mail, Stop(FALSE))
        /\ recorder' = recorder
    BY <1>2 DEF PressStop
  <2>2. stopper' \in Stoppers /\ StopperInv'
    BY <2>1, Types DEF Stoppers, StopperInv
  <2>3. PICK m \in Messages : m = Stop(FALSE)
    <3>1. \A b \in BOOLEAN : Stop(b) \in Messages
      BY DEF Stop, Messages
    <3>2. Stop(FALSE) \in Messages
      BY <3>1, Zenon
    <3>3. QED
      BY <3>2
  <2>4. mail' \in Seq(Messages)
    <3>1. mail' = Append(mail, m)
      BY <2>1, <2>3, Zenon
    <3>2. QED
      BY <3>1, Types, MailGrows
  <2>5. QED
    BY <1>1, <2>1, <2>2, <2>4, Types, AsideKeeps
<1>3. CASE local.recording /\ ~recorder.doc
  <2>1. stopper' = Failed(stopper) /\ UNCHANGED <<mail, recorder>>
    BY <1>3 DEF PressStop
  <2>2. stopper' \in Stoppers /\ StopperInv'
    BY <2>1, Types, FailedType DEF StopperInv
  <2>3. QED
    BY <1>1, <2>1, <2>2, Types, AsideKeeps
<1>4. CASE local.recording /\ recorder.doc
  <2>1. PICK last \in LastChunks :
          /\ recorder' = Stopped(recorder, last)
          /\ stopper' = [stopper EXCEPT !.pc = "stopping", !.left = recorder'.pending]
          /\ mail' = mail \o last
    BY <1>4 DEF PressStop
  <2>2. recorder' \in Recorders /\ last \in Seq(Messages)
    BY <2>1, Types, StoppedType
  <2>3. PICK n \in Nat : n = recorder'.pending
    BY <2>2 DEF Recorders
  <2>4. PICK t : t = [stopper EXCEPT !.pc = "stopping", !.left = n]
    OBVIOUS
  <2>5. t = [pc |-> t.pc, left |-> t.left, copy |-> t.copy]
        /\ t.pc = "stopping" /\ t.left = n /\ t.copy = stopper.copy
    BY <2>4, Types DEF Stoppers
  <2>6. t \in Stoppers
    BY <2>3, <2>5, Types DEF Stoppers
  <2>7. stopper' = t
    BY <2>1, <2>3, <2>4
  <2>8. StopperInv'
    BY <2>5, <2>7 DEF StopperInv
  <2>9. mail' \in Seq(Messages)
    BY <2>1, <2>2, Types
  <2>10. QED
    BY <1>1, <2>2, <2>6, <2>7, <2>8, <2>9, Types, AsideKeeps
<1>5. QED
  BY <1>2, <1>3, <1>4

\* The stop goes on when the recorder has stopped.
LEMMA RecorderHasStoppedKeeps ==
  ASSUME ClientInv, RecorderHasStopped
  PROVE  ClientInv'
<1>1. local' = local
  BY DEF RecorderHasStopped, indexedDB
<1>2. CASE recorder.failed
  <2>1. stopper' = Failed(stopper) /\ mail' = mail
    BY <1>2 DEF RecorderHasStopped
  <2>2. stopper' \in Stoppers /\ StopperInv'
    BY <2>1, Types, FailedType DEF StopperInv
  <2>3. QED
    BY <1>1, <2>1, <2>2, Types, AsideKeeps DEF RecorderHasStopped, indexedDB
<1>3. CASE ~recorder.failed
  <2>1. stopper' = [stopper EXCEPT !.pc = "queued"] /\ mail' = Append(mail, Stop(TRUE))
    BY <1>3 DEF RecorderHasStopped
  <2>2. stopper' \in Stoppers /\ StopperInv'
    BY <2>1, Types DEF Stoppers, StopperInv
  <2>3. PICK m \in Messages : m = Stop(TRUE)
    <3>1. \A b \in BOOLEAN : Stop(b) \in Messages
      BY DEF Stop, Messages
    <3>2. Stop(TRUE) \in Messages
      BY <3>1, Zenon
    <3>3. QED
      BY <3>2
  <2>4. mail' \in Seq(Messages)
    <3>1. mail' = Append(mail, m)
      BY <2>1, <2>3, Zenon
    <3>2. QED
      BY <3>1, Types, MailGrows
  <2>5. QED
    BY <1>1, <2>2, <2>4, Types, AsideKeeps DEF RecorderHasStopped, indexedDB
<1>4. QED
  BY <1>2, <1>3

\* The error of a stop reads the session,
LEMMA ReadForErrorKeeps ==
  ASSUME ClientInv, ReadForError
  PROVE  ClientInv'
<1>1. IdleStopper \in Stoppers /\ IdleStopper.pc = "idle"
  BY DEF IdleStopper, Stoppers
<1>2. stopper' \in Stoppers /\ StopperInv'
  <2>1. CASE Active
    <3>1. PICK t : t = [IdleStopper EXCEPT !.pc = "saving", !.copy = local]
      OBVIOUS
    <3>2. t = [pc |-> "saving", left |-> 0, copy |-> local]
      BY <3>1 DEF IdleStopper
    <3>3. stopper' = t
      BY <2>1, <3>1 DEF ReadForError
    <3>4. QED
      BY <2>1, <3>2, <3>3, Types DEF Stoppers, StopperInv, Active
  <2>2. CASE ~Active
    BY <1>1, <2>2 DEF ReadForError, StopperInv
  <2>3. QED
    BY <2>1, <2>2
<1>3. QED
  BY <1>2, Types, AsideKeeps DEF ReadForError, indexedDB

\* and then saves it.
LEMMA SaveErrorKeeps ==
  ASSUME ClientInv, SaveError
  PROVE  ClientInv'
<1>1. IdleStopper \in Stoppers /\ IdleStopper.pc = "idle"
  BY DEF IdleStopper, Stoppers
<1>2. stopper.copy \in LocalSessions
  BY Types DEF SaveError, StopperInv, Stoppers
<1>3. local' \in LocalSessions /\ local' # None
  BY <1>2, WithErrorType, ClientNoneAssumption DEF SaveError
<1>4. OpInv'
  BY <1>3, Types, OpKept DEF SaveError
<1>5. overwrote' \in BOOLEAN
  BY Types DEF SaveError
<1>6. stopper' \in Stoppers /\ StopperInv'
  BY <1>1 DEF SaveError, StopperInv
<1>7. QED
  BY <1>3, <1>4, <1>5, <1>6, Types, StoreKept, LocalStep DEF SaveError

\* The user presses another button.
LEMMA PressKeeps ==
  ASSUME ClientInv, NEW name \in {"marker", "shot", "resume", "discard"}, Press(name)
  PROVE  ClientInv'
<1>1. inputs' \in 0 .. MaxInputs /\ inputs + 1 \in Clocks
  BY Types, ClientAssumption DEF Press
<1>2. PICK m \in Messages : m = Message(name)
  <2>1. CASE name = "resume"
    <3>1. Message(name) = [name |-> "resume", clock |-> inputs + 1]
      BY <2>1 DEF Message
    <3>2. QED
      BY <1>1, <3>1 DEF Messages
  <2>2. CASE name # "resume"
    <3>1. Message(name) = [name |-> name]
      BY <2>2 DEF Message
    <3>2. QED
      BY <2>2, <3>1 DEF Messages
  <2>3. QED
    BY <2>1, <2>2
<1>3. mail' \in Seq(Messages)
  BY <1>2, Types DEF Press
<1>4. QED
  BY <1>1, <1>3, Types, AsideKeeps DEF Press, indexedDB, StopperInv

\* The popup finds the recorder gone.
LEMMA GetStateKeeps ==
  ASSUME ClientInv, GetState
  PROVE  ClientInv'
<1>1. local' \in LocalSessions
  BY Types DEF GetState, LocalSessions
<1>2. QED
  BY <1>1, Types, AsideKeeps, ClientNoneAssumption DEF GetState, background, StopperInv

\* The background script dies.
LEMMA DieKeeps ==
  ASSUME ClientInv, NEW withBrowser \in BOOLEAN, Die(withBrowser)
  PROVE  ClientInv'
<1>1. faults' \in 0 .. MaxFaults /\ op' = None /\ local' = local /\ store' = store
  BY Types DEF Die, indexedDB
<1>2. OpInv'
  BY <1>1, OpGone
<1>3. stopper' \in Stoppers /\ StopperInv'
  BY DEF Die, IdleStopper, Stoppers, StopperInv
<1>4. recorder' \in Recorders /\ mail' \in Seq(Messages)
  <2>1. CASE withBrowser
    <3>1. NoRecorder(recorder.emitted) \in Recorders
      BY Types DEF NoRecorder, Recorders
    <3>2. QED
      BY <2>1, <3>1 DEF Die
  <2>2. CASE ~withBrowser
    <3>1. PICK f \in BOOLEAN : f = (recorder.failed \/ recorder.pending > 0)
      OBVIOUS
    <3>2. recorder' = [recorder EXCEPT !.pending = 0, !.failed = f] /\ mail' = <<>>
      BY <2>2, <3>1 DEF Die
    <3>3. recorder' \in Recorders
      BY <3>2, Types DEF Recorders
    <3>4. <<>> \in Seq(Messages)
      OBVIOUS
    <3>5. QED
      BY <3>2, <3>3, <3>4
  <2>3. QED
    BY <2>1, <2>2
<1>5. QED
  BY <1>1, <1>2, <1>3, <1>4, Types, StoreKept, LocalStep DEF Die

-----------------------------------------------------------------------------
(***************************************************************************)
(* The server under the extension.  A draft it accepts is an entry of its  *)
(* own limits, so its invariants are kept by the handlers alone.           *)
(***************************************************************************)
ServerInv == ChainInv /\ Evidence /\ ManifestCoversSession

\* A draft the server accepts.
LEMMA AcceptedEntry ==
  ASSUME TypeOK, NEW e \in Drafts, NEW signer, ValidEntry(e, signer)
  PROVE  e \in Entry
<1>1. /\ e.facts.seq \in Nat /\ e.facts.type \in EntryTypes /\ e.facts.clock \in Clocks
      /\ e.facts.time \in 0 .. MaxTime
  BY ClientAssumption, BoundsAssumption DEF Drafts, DraftFacts
<1>2. e.facts.data \in Data
  BY <1>1 DEF ValidEntry, Data
<1>3. e.facts \in Facts
  <2>1. PICK f : f = e.facts
    OBVIOUS
  <2>2. f = [seq |-> f.seq, type |-> f.type, data |-> f.data, clock |-> f.clock, time |-> f.time]
    BY <2>1 DEF Drafts, DraftFacts
  <2>3. QED
    BY <1>1, <1>2, <2>1, <2>2 DEF Facts
<1>4. e.previous \in Seq(Facts)
  <2>1. CASE nextSeq = 0
    <3>1. e.previous = <<>>
      BY <2>1 DEF ValidEntry
    <3>2. QED
      BY <3>1
  <2>2. CASE nextSeq # 0
    <3>1. PICK r \in entries : e.previous = EntryHash(r.entry)
      BY <2>2 DEF ValidEntry, RowAt, LinkedTo
    <3>2. QED
      BY <3>1, RowType, EntryHashType
  <2>3. QED
    BY <2>1, <2>2
<1>5. QED
  <2>1. e = [facts |-> e.facts, previous |-> e.previous]
    BY DEF Drafts
  <2>2. QED
    BY <1>3, <1>4, <2>1 DEF Entry

\* What an accepted request holds, kind by kind.
LEMMA AcceptedPart ==
  ASSUME TypeOK, NEW r \in Requests, Fits(r), r.kind = "part", ValidEntry(r.entry, TheKey)
  PROVE  /\ r.entry \in Entry /\ r.artifact \in Artifacts /\ r.part \in PartNumbers
         /\ r.bytes \in Contents /\ PartKey(r.artifact, r.part) \in PartKeys
<1>1. r.entry \in Entry /\ r.bytes \in Contents
  BY RequestFields, AcceptedEntry
<1>2. r.entry.facts.data = PartData(r.artifact, r.part, r.bytes)
  BY DEF Fits
<1>3. r.entry.facts.data \in {PartData(a, n, c) : a \in Artifacts, n \in PartNumbers, c \in Contents}
  BY DEF Fits, ValidEntry, DataOf
<1>4. PICK a \in Artifacts, n \in PartNumbers, c \in Contents :
        PartData(r.artifact, r.part, r.bytes) = PartData(a, n, c)
  BY <1>2, <1>3
<1>5. r.artifact = a /\ r.part = n
  BY <1>4 DEF PartData
<1>6. QED
  BY <1>1, <1>5 DEF PartKeys

\* A completion that is accepted names its artifact.
LEMMA AcceptedCompletion ==
  ASSUME TypeOK, NEW r \in Requests, Fits(r), r.kind = "complete", ValidEntry(r.entry, TheKey),
         ExactParts(ArtifactOf(r), r.count)
  PROVE  /\ r.entry \in Entry /\ ArtifactOf(r) \in Artifacts /\ r.count \in 0 .. MaxParts
         /\ r.entry.facts.data.hash \in Hashes
<1>1. r.entry \in Entry /\ r.count \in Nat
  BY RequestFields, AcceptedEntry DEF Linking
<1>2. r.entry.facts.data \in {DoneData(a, h) : a \in Artifacts, h \in Hashes}
  BY DEF Fits, ValidEntry, DataOf
<1>3. PICK a \in Artifacts, h \in Hashes : r.entry.facts.data = DoneData(a, h)
  BY <1>2
<1>4. ArtifactOf(r) = a /\ r.entry.facts.data.hash = h
  BY <1>3 DEF DoneData, ArtifactOf
<1>5. r.count <= MaxParts
  <2>1. NumbersOf(a) \subseteq PartNumbers
    BY DEF NumbersOf, PartsOf, TypeOK, PartRows
  <2>2. NumbersOf(a) = 0 .. r.count - 1
    BY <1>4 DEF ExactParts
  <2>3. r.count > MaxParts => MaxParts \in 0 .. r.count - 1
    BY <1>1, BoundsAssumption
  <2>4. MaxParts \notin PartNumbers
    BY BoundsAssumption DEF PartNumbers
  <2>5. QED
    BY <1>1, <2>1, <2>2, <2>3, <2>4, BoundsAssumption
<1>6. QED
  BY <1>1, <1>4, <1>5, BoundsAssumption

\* So does a declaration.
LEMMA AcceptedDeclaration ==
  ASSUME TypeOK, NEW r \in Requests, Fits(r), r.kind = "missing", ValidEntry(r.entry, TheKey)
  PROVE  r.entry \in Entry /\ ArtifactOf(r) \in Artifacts
<1>1. r.entry \in Entry
  BY RequestFields, AcceptedEntry DEF Linking
<1>2. r.entry.facts.data \in {GoneData(a, st) : a \in Artifacts, st \in MissingStatuses}
  BY DEF Fits, ValidEntry, DataOf
<1>3. PICK a \in Artifacts, st \in MissingStatuses : r.entry.facts.data = GoneData(a, st)
  BY <1>2
<1>4. QED
  BY <1>1, <1>3 DEF GoneData, ArtifactOf

\* A close that is accepted is one of the server.
LEMMA AcceptedClose ==
  ASSUME ChainInv, NEW close \in ClientCloses, ValidClose(close, TheKey)
  PROVE  close \in Closes
<1>1. TypeOK /\ close.count \in Nat /\ close.gaps \in BOOLEAN
  BY DEF ChainInv, ClientCloses
<1>2. close.artifacts \in SUBSET Listed /\ close.key \in Keys \cup {None}
  BY <1>1, InventoryType DEF ValidClose, TypeOK
<1>3. close.root \in Seq(Facts)
  <2>1. PICK n \in Nat : n = Cardinality(entries) /\ n = close.count
    BY <1>1 DEF ValidClose
  <2>2. PICK q \in entries : TRUE
    BY DEF ValidClose
  <2>3. q.entry.facts.seq \in Seqs /\ Seqs = 0 .. n - 1
    BY <2>1, <2>2 DEF Seqs, ValidClose
  <2>4. n - 1 \in Seqs
    BY <2>1, <2>3
  <2>5. PICK r \in entries : r.entry.facts.seq = n - 1
    BY <2>4 DEF Seqs
  <2>6. close.root = EntryHash(r.entry)
    BY <2>1, <2>5 DEF ValidClose, RowAt
  <2>7. QED
    BY <1>1, <2>6, RowType, EntryHashType
<1>4. close = [root |-> close.root, count |-> close.count, artifacts |-> close.artifacts,
               gaps |-> close.gaps, key |-> close.key]
  BY DEF ClientCloses
<1>5. QED
  BY <1>1, <1>2, <1>3, <1>4 DEF Closes

\* A session that still takes entries has no manifest.
LEMMA ReadyUnsigned ==
  ASSUME ServerInv, Ready
  PROVE  manifest = None /\ TypeOK
BY DEF ServerInv, ChainInv, ClosedByManifest, Ready

\* The server accepts a request.
LEMMA AcceptKeeps ==
  ASSUME ServerInv, NEW r \in Requests, Fits(r), Accept(r),
         Outcome(r) \in {"recorded", "completed", "declared", "finalized"}
  PROVE  ServerInv' /\ upload = None /\ upload' = None
<1> DEFINE e == r.entry
<1>1. /\ TypeOK /\ ChainInv /\ Evidence /\ TheKey \in Keys
      /\ Ready => manifest = None
  BY ReadyUnsigned, TheKeyType DEF ServerInv, ChainInv
<1>2. CASE r.kind = "event"
  <2>1. EventOutcome(EventKey(e.facts.seq), e, TheKey) = "recorded"
    BY <1>2 DEF Outcome, EventOutcome
  <2>2. CreateEvent(EventKey(e.facts.seq), e, TheKey)
    BY <1>2 DEF Accept
  <2>3. Ready /\ ValidEntry(e, TheKey)
    BY <2>1 DEF EventOutcome
  <2>4. e \in Drafts /\ e \in Entry
    BY <1>1, <1>2, <2>3, RequestFields, AcceptedEntry DEF Linking
  <2>5. EventKey(e.facts.seq) \in RowKeys
    BY <2>4 DEF Entry, Facts, EventKey, RowKeys, EventKeys
  <2>6. TypeOK'
    BY <1>1, <2>2, <2>4, <2>5, CreateEventType
  <2>7. ChainInv'
    BY <1>1, <2>2, <2>4, <2>6, CreateEventKeeps
  <2>8. /\ AddEntry(EventKey(e.facts.seq), e, TheKey) /\ upload = None
        /\ UNCHANGED <<parts, artifacts, receipts, lastReceipt, mode, objects, upload, manifest>>
    BY <2>1, <2>2 DEF CreateEvent, Unlocked
  <2>9. Evidence'
    BY <1>1, <2>8, RecordedEvidence
  <2>10. ManifestCoversSession'
    BY <1>1, <2>3, <2>8 DEF ManifestCoversSession
  <2>11. QED
    BY <2>7, <2>8, <2>9, <2>10 DEF ServerInv
<1>3. CASE r.kind = "complete"
  <2>1. CompleteOutcome(ArtifactOf(r), r.count, e.facts.data.hash, e, TheKey) = "completed"
    BY <1>3 DEF Outcome, CompleteOutcome
  <2>2. CompleteArtifact(ArtifactOf(r), r.count, e.facts.data.hash, e, TheKey)
    BY <1>3 DEF Accept
  <2>3. Ready /\ ValidEntry(e, TheKey) /\ ExactParts(ArtifactOf(r), r.count)
    BY <2>1 DEF CompleteOutcome
  <2>4. /\ e \in Entry /\ ArtifactOf(r) \in Artifacts /\ r.count \in 0 .. MaxParts
        /\ e.facts.data.hash \in Hashes
    BY <1>1, <1>3, <2>3, AcceptedCompletion
  <2>5. TypeOK'
    BY <1>1, <2>2, <2>4, CompleteArtifactType
  <2>6. ChainInv'
    BY <1>1, <2>2, <2>4, <2>5, CompleteArtifactKeeps
  <2>7. Evidence'
    BY <1>1, <2>2, CompleteArtifactEvidence
  <2>8. upload = None /\ upload' = None /\ manifest' = manifest
    BY <2>1, <2>2 DEF CompleteArtifact, Unlocked
  <2>9. ManifestCoversSession'
    BY <1>1, <2>3, <2>8 DEF ManifestCoversSession
  <2>10. QED
    BY <2>6, <2>7, <2>8, <2>9 DEF ServerInv
<1>4. CASE r.kind = "missing"
  <2>1. UnavailableOutcome(ArtifactOf(r), "unavailable", e, TheKey) = "declared"
    BY <1>4 DEF Outcome, UnavailableOutcome
  <2>2. DeclareUnavailable(ArtifactOf(r), "unavailable", e, TheKey)
    BY <1>4 DEF Accept
  <2>3. Ready /\ ValidEntry(e, TheKey) /\ NoResult(ArtifactOf(r))
    BY <2>1 DEF UnavailableOutcome
  <2>4. e \in Entry /\ ArtifactOf(r) \in Artifacts /\ "unavailable" \in MissingStatuses
    BY <1>1, <1>4, <2>3, AcceptedDeclaration DEF MissingStatuses
  <2>5. TypeOK'
    BY <1>1, <2>2, <2>4, DeclareUnavailableType
  <2>6. ChainInv'
    BY <1>1, <2>2, <2>4, <2>5, DeclareUnavailableKeeps
  <2>7. PICK x : x = MissingRow(ArtifactOf(r), "unavailable", e)
    OBVIOUS
  <2>8. x.artifact = ArtifactOf(r) /\ x.status # "captured"
    BY <2>7 DEF MissingRow
  <2>9. /\ AddEntry(UnavailableKey(ArtifactOf(r)), e, TheKey) /\ upload = None
        /\ artifacts' = artifacts \cup {x}
        /\ UNCHANGED <<parts, receipts, lastReceipt, mode, objects, upload, manifest>>
    BY <2>2, <2>7 DEF DeclareUnavailable, Unlocked
  <2>10. Evidence'
    BY <1>1, <2>3, <2>8, <2>9, RecordedEvidence
  <2>11. ManifestCoversSession'
    BY <1>1, <2>3, <2>9 DEF ManifestCoversSession
  <2>12. QED
    BY <2>6, <2>9, <2>10, <2>11 DEF ServerInv
<1>5. CASE r.kind = "finalize"
  <2>1. FinalizeOutcome(r.close, TheKey) = "finalized"
    BY <1>5 DEF Outcome, FinalizeOutcome
  <2>2. FinalizeSession(r.close, TheKey)
    BY <1>5 DEF Accept
  <2>3. manifest = None /\ Ready /\ ValidClose(r.close, TheKey)
    BY <2>1 DEF FinalizeOutcome
  <2>4. r.close \in Closes
    BY <1>1, <1>5, <2>3, RequestFields, AcceptedClose
  <2>5. TypeOK'
    BY <1>1, <2>2, <2>4, FinalizeSessionType
  <2>6. ChainInv'
    BY <1>1, <2>2, <2>4, <2>5, FinalizeSessionKeeps
  <2>7. /\ manifest' = NewManifest(r.close, TheKey) /\ status' = FinalStatus(r.close)
        /\ upload = None /\ UNCHANGED <<nextSeq, tables, lastReceipt, mode, objects, upload>>
    BY <2>1, <2>2 DEF FinalizeSession, Unlocked
  <2>8. Evidence'
    BY <1>1, <2>7, EvidenceUntouched
  <2>9. ManifestCoversSession'
    BY <1>1, <2>1, <2>3, <2>4, <2>7, FinalizeCovers
  <2>10. QED
    BY <2>6, <2>7, <2>8, <2>9 DEF ServerInv
<1>6. QED
  BY <1>2, <1>3, <1>4, <1>5 DEF Accept

\* The server stores the bytes of a part, and holds the session for it.
LEMMA PutKeeps ==
  ASSUME ServerInv, NEW r \in Requests, Fits(r), r.kind = "part", Outcome(r) = "stored",
         PutPart(PartKey(r.artifact, r.part), r.artifact, r.part, r.bytes, r.entry, TheKey)
  PROVE  ServerInv' /\ upload = None /\ upload' = Served(r) /\ upload' # None
<1>1. TypeOK /\ ChainInv /\ Evidence /\ TheKey \in Keys
  BY TheKeyType DEF ServerInv, ChainInv
<1>2. UploadOutcome(PartKey(r.artifact, r.part), r.artifact, r.part, r.bytes, r.entry, TheKey)
        = "stored"
  BY DEF Outcome
<1>3. Ready /\ ValidEntry(r.entry, TheKey)
  BY <1>2 DEF UploadOutcome
<1>4. /\ r.entry \in Entry /\ r.artifact \in Artifacts /\ r.part \in PartNumbers
      /\ r.bytes \in Contents /\ PartKey(r.artifact, r.part) \in PartKeys
  BY <1>1, <1>3, AcceptedPart
<1>5. TypeOK'
  BY <1>1, <1>4, PutPartType
<1>6. ChainInv'
  BY <1>1, <1>4, <1>5, PutPartKeeps
<1>7. Evidence'
  BY <1>1, <1>4, PutPartEvidence
<1>8. /\ upload = None /\ upload' = Served(r) /\ manifest' = manifest
  BY <1>2 DEF PutPart, Unlocked, Served, session
<1>9. manifest = None
  BY <1>3, ReadyUnsigned
<1>10. ManifestCoversSession'
  BY <1>8, <1>9 DEF ManifestCoversSession
<1>11. upload' # None
  <2>1. Served(r) \in Uploads
    BY <1>1, <1>4 DEF Served, Uploads
  <2>2. QED
    BY <1>8, <2>1, NoneAssumption
<1>12. QED
  BY <1>6, <1>7, <1>8, <1>10, <1>11 DEF ServerInv

\* The upload commits, or the server dies with it.
LEMMA CommitKeeps ==
  ASSUME ServerInv, CommitPart \/ Crash
  PROVE  ServerInv' /\ upload' = None
<1>1. TypeOK /\ ChainInv /\ Evidence
  BY DEF ServerInv, ChainInv
<1>2. [Next]_vars
  BY DEF Next
<1>3. ChainInv' /\ Evidence' /\ ManifestCoversSession'
  BY <1>1, <1>2, ChainStep, EvidenceStep, ManifestStep DEF ServerInv
<1>4. QED
  BY <1>3 DEF ServerInv, CommitPart, Crash

\* A step of the server: the queue hears at most of an answer.
LEMMA AnswerKeeps ==
  ASSUME ClientInv, NEW c, NEW how \in {"ok", "refused"}, Answer(c, how), UNCHANGED indexedDB
  PROVE  OpInv' /\ op' \in Operations \cup {None}
<1>1. local' = local /\ store' = store
  BY DEF indexedDB
<1>2. CASE op' = op
  BY <1>1, <1>2, Types, OpKept
<1>3. CASE op # None /\ op' = [op EXCEPT !.answer = how]
  <2>1. PICK o : o = [op EXCEPT !.answer = how]
    OBVIOUS
  <2>2. /\ o \in Operations /\ o.todo = op.todo /\ o.s = op.s /\ o.call = op.call
        /\ o.failed = op.failed
    BY <1>3, <2>1, Types DEF Operations
  <2>3. op' = o
    BY <1>3, <2>1
  <2>4. Task' = Task
    BY <2>2, <2>3 DEF Task
  <2>5. FormInv' /\ LiveInv'
    BY <1>1, <1>3, <2>2, <2>3, Types DEF OpInv, FormInv, LiveInv
  <2>6. ASSUME op.call # None
        PROVE  CallOK(op.call.request)'
    <3>1. CallOK(op.call.request) /\ op'.call.request = op.call.request /\ op'.s = op.s
      BY <1>3, <2>2, <2>3, <2>6, Types DEF OpInv, CallInv
    <3>2. PICK r : r = op.call.request
      OBVIOUS
    <3>3. Fits(r) /\ CallOK(r) /\ r = op'.call.request
      BY <3>1, <3>2 DEF CallOK
    <3>4. QED
      BY <1>1, <2>4, <3>1, <3>3 DEF CallOK, Fits, Matches, CloseOf
  <2>7. CallInv'
    BY <1>1, <1>3, <2>2, <2>3, <2>4, <2>6, Types DEF OpInv, CallInv
  <2>8. QED
    BY <2>2, <2>3, <2>5, <2>7 DEF OpInv
<1>4. QED
  BY <1>2, <1>3 DEF Answer

\* A step of the server with what is on the wire and what it has under way.
LEMMA ServerStep ==
  ASSUME ClientInv, ServerInv', UNCHANGED <<indexedDB, mail, stopper, recorder, inputs, overwrote>>,
         OpInv', op' \in Operations \cup {None}, faults' \in 0 .. MaxFaults,
         wire' \in SUBSET wire, serving' \in Calls \cup {None},
         serving' # None <=> upload' # None,
         serving' # None => /\ serving'.request.kind = "part" /\ Fits(serving'.request)
                            /\ upload' = Served(serving'.request)
  PROVE  ClientInv'
<1>1. local' = local /\ store' = store
  BY DEF indexedDB
<1>2. TypeOK'
  BY DEF ServerInv, ChainInv
<1>3. ClientTypeOK'
  BY <1>1, <1>2, Types DEF ClientTypeOK, Stoppers, Recorders
<1>4. StopperInv' /\ StoreInv'
  BY <1>1, Types, StoreKept DEF StopperInv
<1>5. WireInv'
  BY Types DEF WireInv, Fits, Served
<1>6. QED
  BY <1>3, <1>4, <1>5 DEF ClientInv, OpInv

\* A request is handled.
LEMMA ServeKeeps ==
  ASSUME ClientInv, ServerInv, NEW c \in wire, Serve(c)
  PROVE  ClientInv' /\ ServerInv'
<1>1. /\ c \in Calls /\ c # None /\ c.request \in Requests /\ Fits(c.request)
      /\ upload = None /\ serving = None
      /\ wire' = wire \ {c} /\ UNCHANGED <<indexedDB, mail, stopper, recorder, inputs, faults, overwrote>>
  BY Types, ClientNoneAssumption DEF Serve, Calls, WireInv, Unlocked, ClientTypeOK
<1>2. CASE ServeAccepted(c)
  <2>1. ServerInv' /\ upload' = None
    BY <1>1, <1>2, AcceptKeeps DEF ServeAccepted
  <2>2. Answer(c, "ok") /\ serving' = serving
    BY <1>2 DEF ServeAccepted
  <2>3. OpInv' /\ op' \in Operations \cup {None}
    BY <1>1, <2>2, AnswerKeeps
  <2>4. QED
    BY <1>1, <2>1, <2>2, <2>3, Types, ServerStep
<1>3. CASE ServePart(c)
  <2>1. /\ ServerInv' /\ upload' = Served(c.request) /\ upload' # None
        /\ c.request.kind = "part" /\ serving' = c /\ op' = op
    BY <1>1, <1>3, PutKeeps DEF ServePart
  <2>2. OpInv'
    BY <1>1, <2>1, Types, OpKept DEF indexedDB
  <2>3. QED
    BY <1>1, <2>1, <2>2, Types, ServerStep
<1>4. CASE ServeRepeated(c) \/ ServeRefused(c)
  <2>1. /\ UNCHANGED vars /\ serving' = serving
        /\ \E how \in {"ok", "refused"} : Answer(c, how)
    BY <1>4 DEF ServeRepeated, ServeRefused
  <2>2. ServerInv' /\ upload' = upload
    BY <2>1, ChainStep, EvidenceStep, ManifestStep DEF ServerInv, vars
  <2>3. OpInv' /\ op' \in Operations \cup {None}
    BY <1>1, <2>1, AnswerKeeps
  <2>4. QED
    BY <1>1, <2>1, <2>2, <2>3, Types, ServerStep
<1>5. QED
  BY <1>2, <1>3, <1>4 DEF Serve

\* An upload commits, or dies with the server.
LEMMA CommitUploadKeeps ==
  ASSUME ClientInv, ServerInv, CommitUpload \/ ServerDies
  PROVE  ClientInv' /\ ServerInv'
<1>1. /\ CommitPart \/ Crash
      /\ serving' = None /\ wire' = wire /\ UNCHANGED <<indexedDB, mail, stopper, recorder, inputs, overwrote>>
      /\ faults' \in 0 .. MaxFaults
  BY Types DEF CommitUpload, ServerDies
<1>2. \E how \in {"ok", "refused"} : Answer(serving, how)
  BY DEF CommitUpload, ServerDies
<1>3. ServerInv' /\ upload' = None
  BY <1>1, CommitKeeps
<1>4. OpInv' /\ op' \in Operations \cup {None}
  BY <1>1, <1>2, AnswerKeeps
<1>5. QED
  BY <1>1, <1>3, <1>4, ServerStep

\* The session is created, and START_CAPTURE registers its key.
LEMMA OpenSessionKeeps ==
  ASSUME ClientInv, ServerInv, OpenSession
  PROVE  ClientInv' /\ ServerInv'
<1>1. [Next]_vars /\ upload' = upload
  BY DEF OpenSession, CreateSession, Next
<1>2. ServerInv'
  BY <1>1, ChainStep, EvidenceStep, ManifestStep DEF ServerInv
<1>3. /\ UNCHANGED <<indexedDB, mail, stopper, recorder, inputs, overwrote, op, faults, network>>
      /\ local' = local /\ store' = store
  BY DEF OpenSession, clientVars, background, indexedDB
<1>4. OpInv'
  BY <1>3, Types, OpKept
<1>5. wire' = wire /\ serving' = serving
  BY <1>3 DEF network
<1>6. QED
  BY <1>1, <1>2, <1>3, <1>4, <1>5, Types, ServerStep DEF ClientTypeOK, WireInv

\* The session gets its key and is saved.
LEMMA StartCaptureKeeps ==
  ASSUME ClientInv, ServerInv, NEW source \in {"tab", "desktop"}, StartCapture(source)
  PROVE  ClientInv' /\ ServerInv'
<1>1. [Next]_vars /\ upload' = upload
  BY TheKeyType DEF StartCapture, RegisterKey, Next
<1>2. ServerInv'
  BY <1>1, ChainStep, EvidenceStep, ManifestStep DEF ServerInv
<1>3. PICK s \in LocalSessions : s = NewSession(source) /\ s # None /\ s.status = "starting"
  BY Types, SessionTypes DEF NewSession
<1>4. PICK script \in StartScripts(source) :
        op' = Operation("start", script, NewSession(source))
  BY DEF StartCapture
<1>5. /\ script \in Seq(Tasks) /\ Formed(script)
      /\ script # <<>> => Head(script).do # "upload"
  BY <1>4, StartScriptsPlain, PlainForms DEF Plain
<1>6. PICK o : o = Operation("start", script, s)
  OBVIOUS
<1>7. o \in Operations /\ o.todo = script /\ o.call = None /\ o.s = s /\ ~o.failed
  BY <1>3, <1>5, <1>6 DEF Operation, Operations
<1>8. local' = s /\ op' = o /\ UNCHANGED <<store, mail, stopper, recorder, wire, serving, inputs, faults, overwrote>>
  BY <1>3, <1>4, <1>6 DEF StartCapture, network
<1>9. OpInv'
  BY <1>3, <1>5, <1>7, <1>8, OpStarts
<1>10. StopperInv' /\ StoreInv'
  BY <1>8, Types, StoreKept DEF StopperInv
<1>11. WireInv'
  BY <1>1, <1>8, Types DEF WireInv, Fits, Served
<1>12. ClientTypeOK'
  BY <1>1, <1>2, <1>7, <1>8, Types DEF ServerInv, ChainInv, ClientTypeOK, Stoppers, Recorders
<1>13. QED
  BY <1>2, <1>9, <1>10, <1>11, <1>12 DEF ClientInv, OpInv

-----------------------------------------------------------------------------
(***************************************************************************)
(* The invariant of the extension and the server, one step at a time.      *)
(***************************************************************************)
BaseInv == ClientInv /\ ServerInv

\* A step of the queue.
LEMMA QueueStepKeeps ==
  ASSUME ClientInv, QueueStep
  PROVE  ClientInv' /\ UNCHANGED vars
<1>1. ClientInv'
  BY TakeKeeps, ReadSessionKeeps, QueuePartKeeps, RetryPartsKeeps, StartRecorderKeeps,
     SaveRecordingKeeps, SaveFinishedKeeps, BeginStopKeeps, BeginFinalizingKeeps, InterruptKeeps,
     AskRecorderKeeps, AwaitRecorderKeeps, DeleteSessionKeeps, ThrowErrorKeeps, CallServerKeeps,
     ReceiveEntryKeeps, AcknowledgeKeeps, ReceiveResultKeeps, ReceiveErrorKeeps, FinishKeeps,
     CatchKeeps
     DEF QueueStep
<1>2. UNCHANGED vars
  BY Zenon
     DEF QueueStep, Take, ReadSession, QueuePart, RetryParts, StartRecorder, SaveRecording,
         SaveFinished, BeginStop, BeginFinalizing, Interrupt, AskRecorder, AwaitRecorder,
         DeleteSession, ThrowError, CallServer, ReceiveEntry, Acknowledge, ReceiveResult,
         ReceiveError, Finish, Catch
<1>3. QED
  BY <1>1, <1>2

\* Any other step of the extension alone.
LEMMA AsideStepKeeps ==
  ASSUME ClientInv,
         \/ \E name \in {"marker", "shot", "resume", "discard"} : Press(name)
         \/ PressStop \/ GetState \/ EmitChunk \/ SharingEnds \/ StopperStep \/ GiveUp
         \/ \E withBrowser \in BOOLEAN : Die(withBrowser)
  PROVE  ClientInv' /\ UNCHANGED vars
<1>1. ClientInv'
  BY PressKeeps, PressStopKeeps, GetStateKeeps, EmitChunkKeeps, SharingEndsKeeps,
     RecorderHasStoppedKeeps, ReadForErrorKeeps, SaveErrorKeeps, GiveUpKeeps, DieKeeps
     DEF StopperStep
<1>2. UNCHANGED vars
  BY DEF Press, PressStop, GetState, EmitChunk, SharingEnds, StopperStep, RecorderHasStopped,
         ReadForError, SaveError, GiveUp, Die
<1>3. QED
  BY <1>1, <1>2

\* Every step of the composed system keeps the invariant of both sides.
LEMMA BaseStep ==
  ASSUME BaseInv, [ClientNext]_allVars
  PROVE  BaseInv'
<1>1. ClientInv /\ ServerInv
  BY DEF BaseInv
<1>2. ASSUME UNCHANGED vars
      PROVE  ServerInv'
  BY <1>1, <1>2, ChainStep, EvidenceStep, ManifestStep DEF ServerInv
<1>3. CASE \/ OpenSession
           \/ \E source \in {"tab", "desktop"} : StartCapture(source)
           \/ \E c \in wire : Serve(c)
           \/ CommitUpload
           \/ ServerDies
  BY <1>1, <1>3, OpenSessionKeeps, StartCaptureKeeps, ServeKeeps, CommitUploadKeeps DEF BaseInv
<1>4. CASE QueueStep
  BY <1>1, <1>2, <1>4, QueueStepKeeps DEF BaseInv
<1>5. CASE \/ \E name \in {"marker", "shot", "resume", "discard"} : Press(name)
           \/ PressStop \/ GetState \/ EmitChunk \/ SharingEnds \/ StopperStep \/ GiveUp
           \/ \E withBrowser \in BOOLEAN : Die(withBrowser)
  BY <1>1, <1>2, <1>5, AsideStepKeeps DEF BaseInv
<1>6. CASE UNCHANGED allVars
  <2>1. UNCHANGED vars /\ UNCHANGED clientVars
    BY <1>6 DEF allVars
  <2>2. /\ UNCHANGED <<network, op, store, overwrote, local, mail, stopper, recorder, inputs, faults>>
    BY <2>1 DEF clientVars, indexedDB, background
  <2>3. StopperInv'
    BY <1>1, <2>2, Types DEF StopperInv
  <2>4. ClientInv'
    BY <1>1, <2>1, <2>2, <2>3, Types, AsideKeeps
  <2>5. QED
    BY <1>2, <2>1, <2>4 DEF BaseInv
<1>7. QED
  BY <1>3, <1>4, <1>5, <1>6 DEF ClientNext

\* Both sides start with it.
LEMMA BaseInit == ClientInit => BaseInv
<1> SUFFICES ASSUME ClientInit PROVE BaseInv
  OBVIOUS
<1>1. ServerInv
  BY ChainInit, EvidenceInit DEF ClientInit, ServerInv, Init, ManifestCoversSession
<1>2. /\ local = None /\ store = {} /\ op = None /\ mail = <<>> /\ stopper = IdleStopper
      /\ recorder = NoRecorder(0) /\ wire = {} /\ serving = None /\ upload = None
      /\ inputs = 0 /\ faults = 0 /\ overwrote = FALSE
  BY DEF ClientInit, Init
<1>3. ClientTypeOK
  <2>1. TypeOK
    BY <1>1 DEF ServerInv, ChainInv
  <2>2. IdleStopper \in Stoppers
    BY DEF IdleStopper, Stoppers
  <2>3. NoRecorder(0) \in Recorders
    BY ClientAssumption DEF NoRecorder, Recorders
  <2>4. mail \in Seq(Messages)
    BY <1>2
  <2>5. inputs \in 0 .. MaxInputs /\ faults \in 0 .. MaxFaults /\ overwrote \in BOOLEAN
    <3>1. inputs = 0 /\ faults = 0
      BY <1>2, Zenon
    <3>2. inputs \in 0 .. MaxInputs /\ faults \in 0 .. MaxFaults
      BY <3>1, ClientAssumption
    <3>3. overwrote \in BOOLEAN
      BY <1>2, Zenon
    <3>4. QED
      BY <3>2, <3>3, Zenon
  <2>6. QED
    BY <1>2, <2>1, <2>2, <2>3, <2>4, <2>5 DEF ClientTypeOK, Stoppers, Recorders
<1>4. FormInv /\ LiveInv /\ CallInv /\ StopperInv /\ WireInv
  BY <1>2 DEF FormInv, LiveInv, CallInv, StopperInv, WireInv, IdleStopper
<1>5. StoreInv
  <2>1. IsFiniteSet(store)
    BY <1>2, FS_EmptySet
  <2>2. OnePart /\ PartEntries
    BY <1>2 DEF OnePart, PartEntries
  <2>3. ASSUME NEW a \in Names
        PROVE  {p.part : p \in LocalOf(a)} = 0 .. Cardinality(LocalOf(a)) - 1
    <3>1. LocalOf(a) = {}
      BY <1>2 DEF LocalOf
    <3>2. Cardinality(LocalOf(a)) = 0
      BY <3>1, FS_EmptySet
    <3>3. 0 .. 0 - 1 = {}
      OBVIOUS
    <3>4. {p.part : p \in LocalOf(a)} = {}
      BY <3>1
    <3>5. QED
      BY <3>2, <3>3, <3>4
  <2>4. QED
    BY <2>1, <2>2, <2>3 DEF StoreInv, Numbered
<1>6. QED
  BY <1>1, <1>3, <1>4, <1>5 DEF BaseInv, ClientInv

\* In every reachable state of the extension and the server.
LEMMA BaseInvariant == ClientSpec => []BaseInv
<1>1. BaseInv /\ [ClientNext]_allVars => BaseInv'
  BY BaseStep
<1>2. QED
  BY <1>1, BaseInit, PTL DEF ClientSpec

\* The extension and the server hold what types.ts and models.py declare,
\* whatever fails: the scripts of the queue stay well formed, every request is
\* made of a session and of parts that are there, and the upload the server has
\* under way is the one it serves.
THEOREM ClientTypeCorrect == ClientSpec => []ClientTypeOK
<1>1. BaseInv => ClientTypeOK
  BY DEF BaseInv, ClientInv
<1>2. QED
  BY <1>1, BaseInvariant, PTL

\* The chain of the server is intact although the extension makes entries
\* after lost answers, sends parts again and late, and dies: what it accepts
\* always extends what it has.
THEOREM ChainIntactUnderClient == ClientSpec => []ChainIntact
<1>1. BaseInv => ChainIntact
  BY DEF BaseInv, ServerInv, ChainInv
<1>2. QED
  BY <1>1, BaseInvariant, PTL

\* Every part the extension got stored has one receipt, linked to the one
\* before, whatever was sent twice or late.
THEOREM ReceiptsLinkedUnderClient == ClientSpec => []ReceiptsLinked
<1>1. BaseInv => ReceiptsLinked
  BY DEF BaseInv, ServerInv, Evidence
<1>2. QED
  BY <1>1, BaseInvariant, PTL

\* A manifest that the extension got signed covers the whole session.
THEOREM ManifestCoversUnderClient == ClientSpec => []ManifestCoversSession
<1>1. BaseInv => ManifestCoversSession
  BY DEF BaseInv, ServerInv
<1>2. QED
  BY <1>1, BaseInvariant, PTL

=============================================================================
