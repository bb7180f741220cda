------------------------------ MODULE SealedLog ------------------------------
(***************************************************************************)
(* What a capture session promises: a log that only grows at its end, one  *)
(* fact at a time, until it is sealed once and for all (SPEC.md 8.4: the   *)
(* signed manifest becomes immutable).                                     *)
(***************************************************************************)
EXTENDS Naturals, Sequences

VARIABLES log, sealed

Init == log = <<>> /\ sealed = FALSE

Extend ==
  /\ ~sealed
  /\ Len(log') = Len(log) + 1
  /\ SubSeq(log', 1, Len(log)) = log
  /\ UNCHANGED sealed

Seal ==
  /\ ~sealed
  /\ log # <<>>
  /\ sealed' = TRUE
  /\ UNCHANGED log

Spec == Init /\ [][Extend \/ Seal]_<<log, sealed>>

=============================================================================
