--------------------------- MODULE MCCaptureServer ---------------------------
(***************************************************************************)
(* Instances of CaptureServer for TLC.                                     *)
(***************************************************************************)
EXTENDS CaptureServer, TLC

\* The keys the server derives for the first part and the result of an artifact.
DerivedKeys ==
  {EntryKey(PartKey(a, 0)) : a \in Artifacts} \cup {CompleteKey(a) : a \in Artifacts}

Symmetry == Permutations(Clocks) \cup Permutations(Contents)

=============================================================================
