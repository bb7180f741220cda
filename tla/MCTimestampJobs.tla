-------------------------- MODULE MCTimestampJobs --------------------------
(***************************************************************************)
(* Instances of TimestampJobs for TLC.                                     *)
(***************************************************************************)
EXTENDS TimestampJobs, TLC

CONSTANT Posted   \* the job of the synchronous requests

SameKey == [r \in Requests |-> Posted]

FailedOrValid ==
  {[status |-> "failed", response |-> FALSE], [status |-> "valid", response |-> TRUE]}

ValidOutcome == {[status |-> "valid", response |-> TRUE]}

Symmetry == Permutations(Workers)

=============================================================================
