------------------------- MODULE MCOffloadPipeline -------------------------
(***************************************************************************)
(* Instances of OffloadPipeline for TLC.                                   *)
(***************************************************************************)
EXTENDS OffloadPipeline, TLC

\* Two adjacent offloadable elements that share device buffers: the task of the
\* first is reused by the second, which releases the buffers.
MCOffloadable == {1, 2}
MCFin == {2}

\* Batches, tasks and io_bases are interchangeable.
Symmetry == Permutations(Batches) \cup Permutations(Tasks) \cup Permutations(IoBases)

=============================================================================
