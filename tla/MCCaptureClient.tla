--------------------------- MODULE MCCaptureClient ---------------------------
(***************************************************************************)
(* Instance of CaptureClient for TLC: the artifacts of a tab capture whose *)
(* screenshots are taken at any sequence number; a tab is captured on a     *)
(* server that keeps the evidence, a desktop on one that keeps hashes.     *)
(***************************************************************************)
EXTENDS CaptureClient

MCArtifacts == {Recording, Page, Context} \cup {Shot(n) : n \in 0 .. MaxEntries - 1}

MCCaptures == {<<"tab", "remote">>, <<"desktop", "hash_only">>}

=============================================================================
