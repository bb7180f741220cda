-------------------------- MODULE MerkleTree_proofs --------------------------
(***************************************************************************)
(* Proofs about MerkleTree, for every sequence of leaves.  What the loops  *)
(* of proofs.py compute is followed turn by turn: if some turn went wrong  *)
(* there would be a first one, and it does not.                            *)
(***************************************************************************)
EXTENDS MerkleTree, WellFoundedInduction, TLAPS

\* A set of numbers has a least one.
LEMMA LeastNumber ==
  ASSUME NEW T, T \subseteq Nat, T # {}
  PROVE  \E m \in T : \A k \in T : m <= k
<1>1. PICK m \in T : \A k \in T : ~ (<<k, m>> \in OpToRel(<, Nat))
  BY WFMin, NatLessThanWellFounded
<1>2. \A k \in T : ~ (k < m)
  BY <1>1 DEF OpToRel
<1> QED
  BY <1>2

\* A function on 1 .. m has length m.
LEMMA LenIs ==
  ASSUME NEW f, NEW m \in Nat, f = [k \in 1 .. m |-> f[k]]
  PROVE  Len(f) = m
<1>1. f \in [1 .. m -> {f[k] : k \in 1 .. m}]
  OBVIOUS
<1>2. f \in Seq({f[k] : k \in 1 .. m})
  BY <1>1
<1> QED
  BY <1>1, <1>2

-----------------------------------------------------------------------------
(***************************************************************************)
(* The loop.                                                               *)
(***************************************************************************)
LEMMA FollowsExists ==
  ASSUME NEW leaves, NEW n \in Nat
  PROVE  \E g : g = [turn \in 0 .. n |->
                       IF turn = 0 THEN LeafLevel(leaves) ELSE OneTurn(g[turn - 1])]
<1> DEFINE Is(g, m) == g = [turn \in 0 .. m |->
                              IF turn = 0 THEN LeafLevel(leaves) ELSE OneTurn(g[turn - 1])]
<1> SUFFICES ASSUME ~ \E g : Is(g, n) PROVE FALSE
  OBVIOUS
<1>1. PICK T : T = {m \in Nat : ~ \E g : Is(g, m)}
  OBVIOUS
<1>2. T \subseteq Nat /\ n \in T
  BY <1>1
<1>3. PICK m \in T : \A k \in T : m <= k
  BY <1>2, LeastNumber
<1>4. CASE m = 0
  <2>1. PICK g : g = [turn \in 0 .. 0 |-> LeafLevel(leaves)]
    OBVIOUS
  <2>2. g = [turn \in 0 .. 0 |-> IF turn = 0 THEN LeafLevel(leaves) ELSE OneTurn(g[turn - 1])]
    BY <2>1
  <2>3. Is(g, m)
    BY <1>4, <2>2
  <2> QED
    BY <1>1, <1>3, <2>3
<1>5. CASE m # 0
  <2>1. m - 1 \in Nat /\ m - 1 \notin T
    BY <1>2, <1>3, <1>5
  <2>2. PICK g : Is(g, m - 1)
    BY <1>1, <2>1
  <2>3. PICK h : h = [turn \in 0 .. m |-> IF turn = m THEN OneTurn(g[m - 1]) ELSE g[turn]]
    OBVIOUS
  <2>4. ASSUME NEW turn \in 0 .. m
        PROVE  h[turn] = IF turn = 0 THEN LeafLevel(leaves) ELSE OneTurn(h[turn - 1])
    <3>1. CASE turn = m
      BY <1>2, <1>3, <1>5, <2>3, <3>1
    <3>2. CASE turn # m
      <4>1. turn \in 0 .. m - 1 /\ h[turn] = g[turn]
        BY <1>2, <1>3, <2>3, <3>2
      <4>2. turn # 0 => h[turn - 1] = g[turn - 1]
        BY <1>2, <1>3, <2>3, <4>1
      <4>3. g[turn] = IF turn = 0 THEN LeafLevel(leaves) ELSE OneTurn(g[turn - 1])
        BY <2>2, <4>1, Zenon
      <4> QED
        BY <4>1, <4>2, <4>3
    <3> QED
      BY <3>1, <3>2
  <2>5. Is(h, m)
    BY <2>3, <2>4
  <2> QED
    BY <1>1, <1>3, <2>5
<1> QED
  BY <1>4, <1>5

\* Each turn of the loop follows from the one before.
LEMMA TurnsFollow ==
  ASSUME NEW leaves, Len(leaves) \in Nat
  PROVE  /\ Turns(leaves)[0] = LeafLevel(leaves)
         /\ \A turn \in 1 .. Len(leaves) :
              Turns(leaves)[turn] = OneTurn(Turns(leaves)[turn - 1])
<1>1. Turns(leaves) = [turn \in 0 .. Len(leaves) |->
         IF turn = 0 THEN LeafLevel(leaves) ELSE OneTurn(Turns(leaves)[turn - 1])]
  BY FollowsExists DEF Turns
<1> QED
  BY <1>1

-----------------------------------------------------------------------------
(***************************************************************************)
(* The path of a leaf.                                                     *)
(***************************************************************************)
\* g has the hashes that verify_merkle_proof reaches along the steps.
Reaches(g, leaf, steps) ==
  /\ g = [turn \in 0 .. Len(steps) |-> g[turn]]
  /\ g[0] = Commitment(leaf)
  /\ \A turn \in 1 .. Len(steps) : g[turn] = Combine(steps[turn], g[turn - 1])

\* The steps reach one hash.
LEMMA ReachesUnique ==
  ASSUME NEW leaf, NEW steps, Len(steps) \in Nat, NEW g, NEW h,
         Reaches(g, leaf, steps), Reaches(h, leaf, steps)
  PROVE  g[Len(steps)] = h[Len(steps)]
<1>1. PICK T : T = {m \in 0 .. Len(steps) : g[m] # h[m]}
  OBVIOUS
<1>2. SUFFICES ASSUME T # {} PROVE FALSE
  BY <1>1
<1>3. T \subseteq Nat
  BY <1>1
<1>4. PICK m \in T : \A k \in T : m <= k
  BY <1>3, <1>2, LeastNumber
<1>5. m # 0
  BY <1>1, <1>4 DEF Reaches
<1>6. m - 1 \in 0 .. Len(steps) /\ m - 1 \notin T /\ m \in 1 .. Len(steps)
  BY <1>1, <1>4, <1>5
<1>7. g[m - 1] = h[m - 1]
  BY <1>1, <1>6
<1>8. g[m] = Combine(steps[m], g[m - 1]) /\ h[m] = Combine(steps[m], h[m - 1])
  BY <1>6 DEF Reaches
<1> QED
  BY <1>1, <1>4, <1>7, <1>8

\* What verify_merkle_proof ends with, if there is such a path.
LEMMA ClimbReaches ==
  ASSUME NEW leaf, NEW steps, Len(steps) \in Nat, NEW g, Reaches(g, leaf, steps)
  PROVE  Climb(leaf, steps)[Len(steps)] = g[Len(steps)]
<1>1. PICK c : c = Climb(leaf, steps)
  OBVIOUS
<1>2. g = [turn \in 0 .. Len(steps) |->
             IF turn = 0 THEN Commitment(leaf) ELSE Combine(steps[turn], g[turn - 1])]
  <2>1. \A turn \in 0 .. Len(steps) :
          g[turn] = IF turn = 0 THEN Commitment(leaf) ELSE Combine(steps[turn], g[turn - 1])
    BY DEF Reaches
  <2>2. g = [turn \in 0 .. Len(steps) |-> g[turn]]
    BY DEF Reaches
  <2> QED
    BY <2>1, <2>2
<1>3. c = [turn \in 0 .. Len(steps) |->
             IF turn = 0 THEN Commitment(leaf) ELSE Combine(steps[turn], c[turn - 1])]
  BY <1>1, <1>2 DEF Climb
<1>4. Reaches(c, leaf, steps)
  <2>1. c[0] = Commitment(leaf)
    BY <1>3
  <2>2. \A turn \in 1 .. Len(steps) : c[turn] = Combine(steps[turn], c[turn - 1])
    BY <1>3
  <2>3. c = [turn \in 0 .. Len(steps) |-> c[turn]]
    BY <1>3
  <2> QED
    BY <2>1, <2>2, <2>3 DEF Reaches
<1> QED
  BY <1>1, <1>4, ReachesUnique

\* The steps lead from the leaf to the hash.
Lead(steps, leaf, hash) ==
  /\ \E S : steps \in Seq(S)
  /\ \E g : Reaches(g, leaf, steps) /\ g[Len(steps)] = hash

\* One more step.
LEMMA OneMoreStep ==
  ASSUME NEW steps, NEW step, NEW leaf, NEW hash, Lead(steps, leaf, hash)
  PROVE  Lead(Append(steps, step), leaf, Combine(step, hash))
<1>1. PICK S, g, more : /\ steps \in Seq(S) /\ Reaches(g, leaf, steps) /\ g[Len(steps)] = hash
                        /\ more = Append(steps, step)
  BY DEF Lead
<1>2. PICK n \in Nat : n = Len(steps)
  BY <1>1
<1>3. steps \in Seq(S \cup {step})
  BY <1>1
<1>4. /\ more \in Seq(S \cup {step}) /\ Len(more) = n + 1 /\ more[n + 1] = step
      /\ \A i \in 1 .. n : more[i] = steps[i]
  BY <1>1, <1>2, <1>3
<1>5. PICK h : h = [turn \in 0 .. n + 1 |->
                      IF turn = n + 1 THEN Combine(step, g[n]) ELSE g[turn]]
  OBVIOUS
<1>6. h[0] = Commitment(leaf) /\ h[n + 1] = Combine(step, g[n]) /\ \A turn \in 0 .. n : h[turn] = g[turn]
  BY <1>1, <1>2, <1>5 DEF Reaches
<1>7. ASSUME NEW turn \in 1 .. n + 1 PROVE h[turn] = Combine(more[turn], h[turn - 1])
  <2>1. CASE turn = n + 1
    BY <1>4, <1>6, <2>1
  <2>2. CASE turn # n + 1
    <3>1. turn \in 1 .. n /\ turn \in 0 .. n /\ turn - 1 \in 0 .. n
      BY <2>2
    <3>2. g[turn] = Combine(steps[turn], g[turn - 1])
      BY <1>1, <1>2, <3>1 DEF Reaches
    <3> QED
      BY <1>4, <1>6, <3>1, <3>2
  <2> QED
    BY <2>1, <2>2
<1>8. Reaches(h, leaf, more)
  BY <1>4, <1>5, <1>6, <1>7 DEF Reaches
<1> QED
  BY <1>1, <1>2, <1>4, <1>6, <1>8 DEF Lead

-----------------------------------------------------------------------------
(***************************************************************************)
(* The state of the loop after a number of turns.                          *)
(***************************************************************************)
\* Each leaf is under one hash of the level, ...
LeavesPlaced(tree, leaves) ==
  /\ \A i \in 1 .. Len(leaves) : \E j \in 1 .. Len(tree.level) : i \in tree.members[j]
  /\ \A j, k \in 1 .. Len(tree.level) : \A i \in 1 .. Len(leaves) :
       i \in tree.members[j] /\ i \in tree.members[k] => j = k

\* ... its path leads there, ...
PathsLead(tree, leaves) ==
  /\ DOMAIN tree.paths = 1 .. Len(leaves)
  /\ \A i \in 1 .. Len(leaves) :
       Lead(tree.paths[i], leaves[i], tree.level[Slot(tree, i)])

\* ... and the level is shorter each time.
TreeOK(tree, leaves, turn) ==
  /\ Len(tree.level) \in Nat \ {0} /\ (Len(tree.level) = 1 \/ Len(tree.level) <= Len(leaves) - turn)
  /\ LeavesPlaced(tree, leaves) /\ PathsLead(tree, leaves)

\* A leaf is under its slot and nowhere else.
LEMMA SlotIs ==
  ASSUME NEW tree, NEW leaves, LeavesPlaced(tree, leaves), NEW i \in 1 .. Len(leaves)
  PROVE  /\ Slot(tree, i) \in 1 .. Len(tree.level) /\ i \in tree.members[Slot(tree, i)]
         /\ \A j \in 1 .. Len(tree.level) : i \in tree.members[j] => j = Slot(tree, i)
<1>1. \E j \in 1 .. Len(tree.level) : i \in tree.members[j]
  BY DEF LeavesPlaced
<1>2. Slot(tree, i) \in 1 .. Len(tree.level) /\ i \in tree.members[Slot(tree, i)]
  BY <1>1 DEF Slot
<1> QED
  BY <1>2 DEF LeavesPlaced

\* Before the first turn.
LEMMA LeafLevelOK ==
  ASSUME NEW X, NEW leaves \in Seq(X), leaves # <<>>
  PROVE  TreeOK(LeafLevel(leaves), leaves, 0)
<1>1. PICK n \in Nat \ {0} : n = Len(leaves) /\ DOMAIN leaves = 1 .. n
  OBVIOUS
<1>2. PICK tree : tree = LeafLevel(leaves)
  OBVIOUS
<1>3. /\ tree.level = [i \in 1 .. n |-> Commitment(leaves[i])]
      /\ tree.members = [i \in 1 .. n |-> {i}] /\ tree.paths = [i \in 1 .. n |-> <<>>]
  BY <1>1, <1>2 DEF LeafLevel
<1>4. Len(tree.level) = n
  <2>1. tree.level = [k \in 1 .. n |-> tree.level[k]]
    BY <1>3
  <2> QED
    BY <2>1, LenIs
<1>5. LeavesPlaced(tree, leaves)
  BY <1>1, <1>3, <1>4 DEF LeavesPlaced
<1>6. ASSUME NEW i \in 1 .. n
      PROVE  Lead(tree.paths[i], leaves[i], tree.level[Slot(tree, i)])
  <2>1. tree.paths[i] = <<>> /\ Len(<<>>) = 0
    BY <1>3
  <2>2. Slot(tree, i) = i
    BY <1>1, <1>3, <1>4, <1>5, SlotIs
  <2>3. PICK g : g = [turn \in 0 .. 0 |-> Commitment(leaves[i])]
    OBVIOUS
  <2>4. Reaches(g, leaves[i], <<>>)
    BY <2>3 DEF Reaches
  <2>5. g[0] = tree.level[i]
    BY <1>3, <2>3
  <2>6. <<>> \in Seq(X)
    OBVIOUS
  <2> QED
    BY <2>1, <2>2, <2>4, <2>5, <2>6 DEF Lead
<1>7. PathsLead(tree, leaves)
  BY <1>1, <1>3, <1>6 DEF PathsLead
<1> QED
  BY <1>1, <1>2, <1>4, <1>5, <1>7 DEF TreeOK

-----------------------------------------------------------------------------
(***************************************************************************)
(* A turn.                                                                 *)
(***************************************************************************)
Pairs(tree) == 1 .. (Len(tree.level) + 1) \div 2
Right(tree, k) == Sibling(2 * k - 1, Len(tree.level))

\* Half of a number, rounded up.
LEMMA Half ==
  ASSUME NEW n \in Nat
  PROVE  /\ (n + 1) \div 2 \in Nat /\ 2 * ((n + 1) \div 2) \in {n, n + 1}
         /\ n % 2 = 0 => 2 * ((n + 1) \div 2) = n
         /\ n % 2 # 0 => 2 * ((n + 1) \div 2) = n + 1
OBVIOUS

\* The next level halves the one before.
LEMMA NextLevelIs ==
  ASSUME NEW tree, Len(tree.level) \in Nat
  PROVE  LET next == NextLevel(tree)
         IN  /\ Len(next.level) = (Len(tree.level) + 1) \div 2
             /\ next.level = [k \in Pairs(tree) |->
                  <<tree.level[2 * k - 1], tree.level[Right(tree, k)]>>]
             /\ next.members = [k \in Pairs(tree) |->
                  tree.members[2 * k - 1] \cup tree.members[Right(tree, k)]]
             /\ next.paths = [i \in DOMAIN tree.paths |-> Append(tree.paths[i], Step(tree, i))]
<1>1. PICK next : next = NextLevel(tree)
  OBVIOUS
<1>2. /\ next.level = [k \in Pairs(tree) |-> <<tree.level[2 * k - 1], tree.level[Right(tree, k)]>>]
      /\ next.members = [k \in Pairs(tree) |->
           tree.members[2 * k - 1] \cup tree.members[Right(tree, k)]]
      /\ next.paths = [i \in DOMAIN tree.paths |-> Append(tree.paths[i], Step(tree, i))]
  BY <1>1 DEF NextLevel, Pairs, Right
<1>3. PICK m \in Nat : m = (Len(tree.level) + 1) \div 2
  BY Half
<1>4. next.level = [k \in 1 .. m |-> next.level[k]]
  BY <1>2, <1>3 DEF Pairs
<1>5. Len(next.level) = m
  BY <1>4, LenIs
<1> QED
  BY <1>1, <1>2, <1>3, <1>5

\* The pair of a hash of the level.
LEMMA PairIs ==
  ASSUME NEW tree, Len(tree.level) \in Nat \ {0}, NEW j \in 1 .. Len(tree.level),
         NEW k, k = (j + 1) \div 2
  PROVE  /\ k \in Pairs(tree)
         /\ j % 2 = 0 => j = Right(tree, k) /\ 2 * k - 1 = Sibling(j, Len(tree.level))
         /\ j % 2 # 0 => j = 2 * k - 1 /\ Right(tree, k) = Sibling(j, Len(tree.level))
<1>1. PICK n \in Nat \ {0} : n = Len(tree.level)
  OBVIOUS
<1>2. /\ j \in 1 .. n /\ k \in Nat
      /\ j % 2 = 0 => 2 * k = j
      /\ j % 2 # 0 => 2 * k = j + 1
  BY <1>1, Half
<1>3. PICK h \in Nat : h = (n + 1) \div 2 /\ 2 * h \in {n, n + 1}
  BY Half
<1>4. k \in 1 .. h
  BY <1>2, <1>3
<1>5. k \in Pairs(tree)
  BY <1>1, <1>3, <1>4 DEF Pairs
<1>6. CASE j % 2 = 0
  BY <1>1, <1>2, <1>5, <1>6 DEF Right, Sibling
<1>7. CASE j % 2 # 0
  BY <1>1, <1>2, <1>5, <1>7 DEF Right, Sibling
<1> QED
  BY <1>6, <1>7

\* No hash is in two pairs.
LEMMA PairOf ==
  ASSUME NEW tree, Len(tree.level) \in Nat \ {0}, NEW k \in Pairs(tree)
  PROVE  /\ 2 * k - 1 \in 1 .. Len(tree.level) /\ Right(tree, k) \in 1 .. Len(tree.level)
         /\ k = (2 * k) \div 2 /\ k = (Right(tree, k) + 1) \div 2
<1>1. PICK n \in Nat \ {0} : n = Len(tree.level)
  OBVIOUS
<1>2. PICK h \in Nat : h = (n + 1) \div 2 /\ 2 * h \in {n, n + 1}
  BY Half
<1>3. k \in 1 .. h
  BY <1>1, <1>2 DEF Pairs
<1>4. 2 * k - 1 \in 1 .. n /\ (2 * k - 1) % 2 # 0 /\ k = (2 * k) \div 2
  BY <1>2, <1>3
<1>5. Right(tree, k) = IF 2 * k - 1 < n THEN 2 * k ELSE 2 * k - 1
  BY <1>1, <1>3, <1>4 DEF Right, Sibling
<1>6. k = (2 * k + 1) \div 2
  BY <1>3
<1> QED
  BY <1>1, <1>3, <1>4, <1>5, <1>6

\* A turn leaves each leaf under one hash of the next level, with its path there.
LEMMA NextLevelOK ==
  ASSUME NEW X, NEW leaves \in Seq(X), NEW tree, NEW turn \in Nat,
         TreeOK(tree, leaves, turn), Len(tree.level) # 1
  PROVE  TreeOK(NextLevel(tree), leaves, turn + 1)
<1>1. PICK next : next = NextLevel(tree)
  OBVIOUS
<1>2. PICK size : size = Len(tree.level)
  OBVIOUS
<1>3. size \in Nat \ {0, 1} /\ size <= Len(leaves) - turn /\ LeavesPlaced(tree, leaves)
      /\ PathsLead(tree, leaves)
  BY <1>2 DEF TreeOK
<1>4. /\ Len(next.level) = (size + 1) \div 2
      /\ next.level = [k \in Pairs(tree) |->
           <<tree.level[2 * k - 1], tree.level[Right(tree, k)]>>]
      /\ next.members = [k \in Pairs(tree) |->
           tree.members[2 * k - 1] \cup tree.members[Right(tree, k)]]
      /\ next.paths = [i \in DOMAIN tree.paths |-> Append(tree.paths[i], Step(tree, i))]
  BY <1>1, <1>2, <1>3, NextLevelIs
<1>5. Len(next.level) \in Nat \ {0} /\ Len(next.level) <= Len(leaves) - (turn + 1)
  <2>1. Len(leaves) \in Nat
    OBVIOUS
  <2> QED
    BY <1>3, <1>4, <2>1
<1>6. Pairs(tree) = 1 .. Len(next.level)
  BY <1>2, <1>4 DEF Pairs
<1>7. ASSUME NEW i \in 1 .. Len(leaves), NEW k, k = (Slot(tree, i) + 1) \div 2
      PROVE  /\ k \in Pairs(tree) /\ i \in next.members[k]
             /\ \A l \in Pairs(tree) : i \in next.members[l] => l = k
  <2>1. PICK j : j = Slot(tree, i)
    OBVIOUS
  <2>2. /\ j \in 1 .. size /\ i \in tree.members[j]
        /\ \A l \in 1 .. size : i \in tree.members[l] => l = j
    BY <1>2, <1>3, <2>1, SlotIs
  <2>3. /\ k \in Pairs(tree) /\ j \in {2 * k - 1, Right(tree, k)}
    BY <1>2, <1>3, <1>7, <2>1, <2>2, PairIs
  <2>4. i \in next.members[k]
    BY <1>4, <2>2, <2>3
  <2>5. ASSUME NEW l \in Pairs(tree), i \in next.members[l] PROVE l = k
    <3>1. 2 * l - 1 \in 1 .. size /\ Right(tree, l) \in 1 .. size
          /\ l = (2 * l) \div 2 /\ l = (Right(tree, l) + 1) \div 2
      BY <1>2, <1>3, PairOf
    <3>2. j = 2 * l - 1 \/ j = Right(tree, l)
      BY <1>4, <2>2, <2>5, <3>1
    <3> QED
      BY <1>7, <2>1, <2>2, <3>1, <3>2
  <2> QED
    BY <2>3, <2>4, <2>5
<1>8. LeavesPlaced(next, leaves)
  <2>1. ASSUME NEW i \in 1 .. Len(leaves)
        PROVE  /\ \E k \in 1 .. Len(next.level) : i \in next.members[k]
               /\ \A k, l \in 1 .. Len(next.level) :
                    i \in next.members[k] /\ i \in next.members[l] => k = l
    BY <1>6, <1>7
  <2> QED
    BY <2>1 DEF LeavesPlaced
<1>9. ASSUME NEW i \in 1 .. Len(leaves)
      PROVE  Lead(next.paths[i], leaves[i], next.level[Slot(next, i)])
  <2>1. PICK j : j = Slot(tree, i)
    OBVIOUS
  <2>2. PICK k : k = (j + 1) \div 2
    OBVIOUS
  <2>3. j \in 1 .. size
    BY <1>2, <1>3, <2>1, SlotIs
  <2>4. k \in Pairs(tree) /\ Slot(next, i) = k
    BY <1>6, <1>7, <1>8, <2>1, <2>2, SlotIs
  <2>5. PICK steps, step : steps = tree.paths[i] /\ step = Step(tree, i)
    OBVIOUS
  <2>6. Lead(steps, leaves[i], tree.level[j])
    BY <1>3, <2>1, <2>5 DEF PathsLead
  <2>7. next.paths[i] = Append(steps, step)
    BY <1>3, <1>4, <2>5 DEF PathsLead
  <2>8. Combine(Step(tree, i), tree.level[j]) = next.level[k]
    <3>1. next.level[k] = <<tree.level[2 * k - 1], tree.level[Right(tree, k)]>>
      BY <1>4, <2>4
    <3>2. /\ Step(tree, i).side = (IF j % 2 = 0 THEN "left" ELSE "right")
          /\ Step(tree, i).hash = tree.level[Sibling(j, size)]
      BY <1>2, <2>1 DEF Step
    <3>3. /\ j % 2 = 0 => j = Right(tree, k) /\ 2 * k - 1 = Sibling(j, size)
          /\ j % 2 # 0 => j = 2 * k - 1 /\ Right(tree, k) = Sibling(j, size)
      BY <1>2, <1>3, <2>2, <2>3, PairIs
    <3> QED
      BY <3>1, <3>2, <3>3 DEF Combine
  <2>9. Lead(Append(steps, step), leaves[i], Combine(step, tree.level[j]))
    BY <2>6, OneMoreStep
  <2> QED
    BY <2>4, <2>5, <2>7, <2>8, <2>9
<1>10. PathsLead(next, leaves)
  <2>1. DOMAIN next.paths = 1 .. Len(leaves)
    BY <1>3, <1>4 DEF PathsLead
  <2> QED
    BY <1>9, <2>1 DEF PathsLead
<1> QED
  BY <1>1, <1>5, <1>8, <1>10 DEF TreeOK

\* The loop has left one hash at its end.
LEMMA TreeIsOK ==
  ASSUME NEW X, NEW leaves \in Seq(X), leaves # <<>>
  PROVE  TreeOK(Tree(leaves), leaves, Len(leaves)) /\ Len(Tree(leaves).level) = 1
<1>1. PICK n \in Nat \ {0} : n = Len(leaves)
  OBVIOUS
<1>2. PICK g : g = Turns(leaves)
  OBVIOUS
<1>3. /\ g[0] = LeafLevel(leaves) /\ \A turn \in 1 .. n : g[turn] = OneTurn(g[turn - 1])
  BY <1>1, <1>2, TurnsFollow
<1>4. PICK T : T = {turn \in 0 .. n : ~TreeOK(g[turn], leaves, turn)}
  OBVIOUS
<1>5. ASSUME T # {} PROVE FALSE
  <2>1. T \subseteq Nat
    BY <1>4
  <2>2. PICK m \in T : \A k \in T : m <= k
    BY <1>5, <2>1, LeastNumber
  <2>3. m # 0
    BY <1>3, <1>4, <2>2, LeafLevelOK
  <2>4. m \in 1 .. n /\ m - 1 \in 0 .. n /\ m - 1 \in Nat /\ m - 1 \notin T
    BY <1>4, <2>1, <2>2, <2>3
  <2>5. TreeOK(g[m - 1], leaves, m - 1) /\ g[m] = OneTurn(g[m - 1])
    BY <1>3, <1>4, <2>4
  <2>6. TreeOK(g[m], leaves, m)
    <3>1. CASE Len(g[m - 1].level) = 1
      BY <2>5, <3>1 DEF OneTurn, TreeOK
    <3>2. CASE Len(g[m - 1].level) # 1
      <4>1. TreeOK(NextLevel(g[m - 1]), leaves, (m - 1) + 1)
        BY <2>4, <2>5, <3>2, NextLevelOK
      <4>2. (m - 1) + 1 = m
        BY <2>4
      <4> QED
        BY <2>5, <3>2, <4>1, <4>2 DEF OneTurn
    <3> QED
      BY <3>1, <3>2
  <2> QED
    BY <1>4, <2>2, <2>6
<1>6. TreeOK(g[n], leaves, n)
  BY <1>4, <1>5
<1>7. Len(g[n].level) = 1
  BY <1>1, <1>6 DEF TreeOK
<1> QED
  BY <1>1, <1>2, <1>6, <1>7 DEF Tree

\* Every proof that build_merkle_proofs makes is one that verify_merkle_proof
\* accepts: it leads from its leaf to the root, however many leaves there are.
THEOREM ProofsVerify ==
  ASSUME NEW X, NEW leaves \in Seq(X), leaves # <<>>
  PROVE  /\ DOMAIN BuildProofs(leaves) = 1 .. Len(leaves)
         /\ \A i \in 1 .. Len(leaves) :
              /\ BuildProofs(leaves)[i].leaf = leaves[i]
              /\ BuildProofs(leaves)[i].root = RootHash(leaves)
              /\ VerifyProof(BuildProofs(leaves)[i])
<1>1. PICK tree : tree = Tree(leaves)
  OBVIOUS
<1>2. LeavesPlaced(tree, leaves) /\ PathsLead(tree, leaves) /\ Len(tree.level) = 1
  BY <1>1, TreeIsOK DEF TreeOK
<1>3. DOMAIN leaves = 1 .. Len(leaves)
  OBVIOUS
<1>4. ASSUME NEW i \in 1 .. Len(leaves)
      PROVE  /\ BuildProofs(leaves)[i].leaf = leaves[i]
             /\ BuildProofs(leaves)[i].root = RootHash(leaves)
             /\ VerifyProof(BuildProofs(leaves)[i])
  <2>1. PICK q : q = BuildProofs(leaves)[i]
    OBVIOUS
  <2>2. q.leaf = leaves[i] /\ q.root = RootHash(leaves) /\ q.steps = tree.paths[i]
    BY <1>1, <1>3, <2>1 DEF BuildProofs
  <2>3. Lead(q.steps, leaves[i], tree.level[Slot(tree, i)])
    BY <1>2, <2>2 DEF PathsLead
  <2>4. Slot(tree, i) = 1
    <3>1. Slot(tree, i) \in 1 .. Len(tree.level)
      BY <1>2, SlotIs
    <3> QED
      BY <1>2, <3>1
  <2>5. PICK g : /\ Len(q.steps) \in Nat
                 /\ Reaches(g, leaves[i], q.steps) /\ g[Len(q.steps)] = tree.level[Slot(tree, i)]
    BY <2>3 DEF Lead
  <2>6. Climb(q.leaf, q.steps)[Len(q.steps)] = q.root
    BY <1>1, <2>2, <2>4, <2>5, ClimbReaches DEF RootHash
  <2> QED
    BY <2>1, <2>2, <2>6 DEF VerifyProof
<1> QED
  BY <1>3, <1>4 DEF BuildProofs

-----------------------------------------------------------------------------
(***************************************************************************)
(* A proof is of one leaf.                                                 *)
(***************************************************************************)
\* g has the hashes reached along the first n steps.
ReachesFor(g, leaf, steps, n) ==
  /\ g = [turn \in 0 .. n |-> g[turn]]
  /\ g[0] = Commitment(leaf)
  /\ \A turn \in 1 .. n : g[turn] = Combine(steps[turn], g[turn - 1])

\* Steps lead somewhere, from any leaf.
LEMMA StepsLead ==
  ASSUME NEW leaf, NEW steps, NEW n \in Nat
  PROVE  \E g : ReachesFor(g, leaf, steps, n)
<1>1. PICK T : T = {m \in Nat : ~ \E g : ReachesFor(g, leaf, steps, m)}
  OBVIOUS
<1>2. T \subseteq Nat
  BY <1>1
<1>3. SUFFICES ASSUME T # {} PROVE FALSE
  BY <1>1
<1>4. PICK m \in T : \A k \in T : m <= k
  BY <1>2, <1>3, LeastNumber
<1>5. m \in Nat /\ ~ \E g : ReachesFor(g, leaf, steps, m)
  BY <1>1, <1>4
<1>6. CASE m = 0
  <2>1. PICK g : g = [turn \in 0 .. 0 |-> Commitment(leaf)]
    OBVIOUS
  <2>2. ReachesFor(g, leaf, steps, 0)
    BY <2>1 DEF ReachesFor
  <2> QED
    BY <1>5, <1>6, <2>2
<1>7. CASE m # 0
  <2>1. m - 1 \in Nat /\ m - 1 \notin T
    BY <1>4, <1>5, <1>7
  <2>2. PICK g : ReachesFor(g, leaf, steps, m - 1)
    BY <1>1, <2>1
  <2>3. PICK h : h = [turn \in 0 .. m |->
                        IF turn = m THEN Combine(steps[m], g[m - 1]) ELSE g[turn]]
    OBVIOUS
  <2>4. h[0] = Commitment(leaf) /\ \A turn \in 0 .. m - 1 : h[turn] = g[turn]
    BY <1>5, <1>7, <2>2, <2>3 DEF ReachesFor
  <2>5. ASSUME NEW turn \in 1 .. m PROVE h[turn] = Combine(steps[turn], h[turn - 1])
    <3>1. turn - 1 \in 0 .. m - 1
      BY <1>5
    <3>2. CASE turn = m
      BY <2>3, <2>4, <3>1, <3>2
    <3>3. CASE turn # m
      <4>1. turn \in 1 .. m - 1 /\ turn \in 0 .. m - 1
        BY <1>5, <3>3
      <4> QED
        BY <2>2, <2>4, <3>1, <4>1 DEF ReachesFor
    <3> QED
      BY <3>2, <3>3
  <2>6. h = [turn \in 0 .. m |-> h[turn]]
    BY <2>3
  <2>7. ReachesFor(h, leaf, steps, m)
    BY <2>4, <2>5, <2>6 DEF ReachesFor
  <2> QED
    BY <1>5, <2>7
<1> QED
  BY <1>6, <1>7

\* Hashes are collision-free: the same step leads to one hash from one only.
LEMMA CombineApart ==
  ASSUME NEW step, NEW x, NEW y, Combine(step, x) = Combine(step, y)
  PROVE  x = y
BY DEF Combine

\* Where two leaves reach the same hash, they are the same.
LEMMA LeavesApart ==
  ASSUME NEW steps, Len(steps) \in Nat, NEW a, NEW b, NEW g, NEW h,
         Reaches(g, a, steps), Reaches(h, b, steps), g[Len(steps)] = h[Len(steps)]
  PROVE  a = b
<1>1. PICK n \in Nat : n = Len(steps)
  OBVIOUS
<1>2. PICK T : T = {m \in 0 .. n : g[m] = h[m]}
  OBVIOUS
<1>3. T \subseteq Nat /\ n \in T
  BY <1>1, <1>2
<1>4. PICK m \in T : \A k \in T : m <= k
  BY <1>3, LeastNumber
<1>5. ASSUME m # 0 PROVE FALSE
  <2>1. m \in 1 .. n /\ m - 1 \in 0 .. n /\ m - 1 \notin T
    BY <1>2, <1>3, <1>4, <1>5
  <2>2. Combine(steps[m], g[m - 1]) = Combine(steps[m], h[m - 1])
    BY <1>1, <1>2, <1>4, <2>1 DEF Reaches
  <2> QED
    BY <1>2, <2>1, <2>2, CombineApart
<1>6. g[0] = h[0]
  BY <1>2, <1>4, <1>5
<1> QED
  BY <1>6 DEF Reaches, Commitment

\* Nobody can show a proof for another leaf than the one it was made for:
\* verify_merkle_proof accepts the same path to the same root for one leaf
\* only, for paths of any length.
THEOREM ProofsBind ==
  ASSUME NEW p, NEW q, VerifyProof(p), VerifyProof(q),
         p.steps = q.steps, p.root = q.root, Len(p.steps) \in Nat
  PROVE  p.leaf = q.leaf
<1>1. ASSUME NEW x PROVE \E g : Reaches(g, x, p.steps) /\ g[Len(p.steps)] = Climb(x, p.steps)[Len(p.steps)]
  <2>1. PICK g : ReachesFor(g, x, p.steps, Len(p.steps))
    BY StepsLead
  <2>2. Reaches(g, x, p.steps)
    BY <2>1 DEF Reaches, ReachesFor
  <2> QED
    BY <2>2, ClimbReaches
<1>2. PICK g : Reaches(g, p.leaf, p.steps) /\ g[Len(p.steps)] = p.root
  BY <1>1 DEF VerifyProof
<1>3. PICK h : Reaches(h, q.leaf, p.steps) /\ h[Len(p.steps)] = p.root
  BY <1>1 DEF VerifyProof
<1> QED
  BY <1>2, <1>3, LeavesApart
=============================================================================
