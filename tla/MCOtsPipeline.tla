--------------------------- MODULE MCOtsPipeline ---------------------------
(***************************************************************************)
(* Instances of OtsPipeline for TLC.                                       *)
(***************************************************************************)
EXTENDS OtsPipeline, TLC

CONSTANTS p1, p2, p3

Untouched == [s \in Sessions |-> "none"]

StampedScene(r1, r2, r3, S, stamps, a, f) ==
  [role |-> (p1 :> r1) @@ (p2 :> r2) @@ (p3 :> r3), sessions |-> S, stamping |-> stamps,
   anchors |-> a, faults |-> f]

Scene(r1, r2, r3, S, a, f) == StampedScene(r1, r2, r3, S, Untouched, a, f)

\* Loops and operators, cleanups and timestamps, two or three at a time.
AllScenes ==
  {Scene("loop", "cleanup", "absent", {1, 3}, 0, 0),
   Scene("loop", "absent", "absent", {1, 3}, 1, 1),
   Scene("loop", "loop", "absent", {2}, 1, 1),
   Scene("loop", "loop", "absent", {2}, 2, 0),
   Scene("loop", "cleanup", "absent", {2}, 1, 1),
   Scene("loop", "operator", "absent", {1}, 2, 0),
   Scene("loop", "operator", "cleanup", {1}, 1, 0),
   Scene("operator", "cleanup", "cleanup", {1, 3}, 0, 0),
   Scene("operator", "cleanup", "absent", {1, 3}, 0, 1),
   StampedScene("operator", "cleanup", "absent", {1}, <<"asked", "none", "none">>, 0, 0),
   StampedScene("cleanup", "cleanup", "absent", {1}, <<"queued", "none", "none">>, 0, 1),
   StampedScene("cleanup", "cleanup", "absent", {1}, <<"asked", "none", "none">>, 0, 1),
   StampedScene("loop", "cleanup", "absent", {2}, <<"none", "queued", "none">>, 0, 0)}

-----------------------------------------------------------------------------
\* A Merkle tree from its shape alone: at height h, node k covers the pair
\* 2k-1, 2k below it, or 2k-1 twice where there is no 2k.
Width(n, h) == (n + 2 ^ h - 1) \div 2 ^ h

Node(n) ==
  LET At[h \in 0 .. n, k \in 1 .. n] ==
        IF h = 0 THEN Commitment(k)
        ELSE IF k > Width(n, h) THEN <<>>
        ELSE LET right == IF 2 * k <= Width(n, h - 1) THEN 2 * k ELSE 2 * k - 1
             IN  <<At[h - 1, 2 * k - 1], At[h - 1, right]>>
  IN  At

Height(n) == CHOOSE h \in 0 .. n : Width(n, h) = 1 /\ \A g \in 0 .. h - 1 : Width(n, g) > 1

\* The tree of the code is that tree, its proofs have a step for each level,
\* each verifies, and none verifies for another leaf.
ASSUME ProofsAreSound ==
  \A n \in 1 .. 9 :
    LET leaves == [i \in 1 .. n |-> i]
        proofs == BuildProofs(leaves)
    IN  /\ RootHash(leaves) = Node(n)[Height(n), 1]
        /\ \A i \in 1 .. n :
             /\ proofs[i].leaf = i /\ Len(proofs[i].steps) = Height(n)
             /\ VerifyProof(proofs[i])
             /\ \A j \in 1 .. n \ {i} : ~VerifyProof([proofs[i] EXCEPT !.leaf = j])

=============================================================================
