----------------------------- MODULE MerkleTree -----------------------------
(***************************************************************************)
(* The Merkle tree of a batch (proofs.py).  Hashes are collision-free and  *)
(* salts never repeat: a commitment is the 1-tuple of what it commits to   *)
(* and an inner hash the pair of its children, which keeps the prefixes    *)
(* 0x00 and 0x01 of the code apart.                                        *)
(***************************************************************************)
EXTENDS Naturals, Sequences

Commitment(leaf) == <<leaf>>

\* The state of the loop of build_merkle_proofs: the hashes of a level, the
\* leaves under each of them, and the path of each leaf so far.
LeafLevel(leaves) ==
  [level   |-> [i \in DOMAIN leaves |-> Commitment(leaves[i])],
   members |-> [i \in DOMAIN leaves |-> {i}],
   paths   |-> [i \in DOMAIN leaves |-> <<>>]]

\* The other half of j's pair; the last of an odd level is paired with itself.
Sibling(j, size) == IF j % 2 = 0 THEN j - 1 ELSE IF j < size THEN j + 1 ELSE j

\* Where leaf i is under, and the step its path takes there.
Slot(tree, i) == CHOOSE j \in 1 .. Len(tree.level) : i \in tree.members[j]
Step(tree, i) ==
  [side |-> IF Slot(tree, i) % 2 = 0 THEN "left" ELSE "right",
   hash |-> tree.level[Sibling(Slot(tree, i), Len(tree.level))]]

\* One turn of the loop.
NextLevel(tree) ==
  LET size  == Len(tree.level)
      pairs == 1 .. (size + 1) \div 2
      Right(k) == Sibling(2 * k - 1, size)
  IN  [level   |-> [k \in pairs |-> <<tree.level[2 * k - 1], tree.level[Right(k)]>>],
       members |-> [k \in pairs |-> tree.members[2 * k - 1] \cup tree.members[Right(k)]],
       paths   |-> [i \in DOMAIN tree.paths |-> Append(tree.paths[i], Step(tree, i))]]

\* The loop goes on until one hash is left: for fewer turns than leaves.
OneTurn(tree) == IF Len(tree.level) = 1 THEN tree ELSE NextLevel(tree)

Turns(leaves) ==
  LET After[turn \in 0 .. Len(leaves)] ==
        IF turn = 0 THEN LeafLevel(leaves) ELSE OneTurn(After[turn - 1])
  IN  After

Tree(leaves) == Turns(leaves)[Len(leaves)]

\* build_merkle_proofs: the root, and a proof for each leaf in its order.
RootHash(leaves) == Tree(leaves).level[1]

BuildProofs(leaves) ==
  [i \in DOMAIN leaves |-> [leaf  |-> leaves[i], root |-> RootHash(leaves),
                            steps |-> Tree(leaves).paths[i]]]

\* verify_merkle_proof: the hash after each step of the path.
Combine(step, hash) ==
  IF step.side = "left" THEN <<step.hash, hash>> ELSE <<hash, step.hash>>

Climb(leaf, steps) ==
  LET Reached[turn \in 0 .. Len(steps)] ==
        IF turn = 0 THEN Commitment(leaf) ELSE Combine(steps[turn], Reached[turn - 1])
  IN  Reached

VerifyProof(proof) == Climb(proof.leaf, proof.steps)[Len(proof.steps)] = proof.root

=============================================================================
