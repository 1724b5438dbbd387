---------------------------- MODULE MCIoBuffers ----------------------------
(***************************************************************************)
(* Instances of IoBuffers for TLC.                                         *)
(***************************************************************************)
EXTENDS IoBuffers

\* A field of packets as in IP lookup, whole packets as in IPsec, and results.
MCKind == 1 :> "partial" @@ 2 :> "whole" @@ 3 :> "result"

=============================================================================
