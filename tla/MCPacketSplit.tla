--------------------------- MODULE MCPacketSplit ---------------------------
(* Graphs for TLC.                                                            *)
EXTENDS PacketSplit

CONSTANTS classify, crypt, match, check, discard

\* Two offloadable elements behind a branch: crypt transmits, match is an
\* intrusion detector in front of a sink.
BranchFirst == (classify :> <<crypt, match>>) @@ (crypt :> <<Out>>)
                 @@ (match :> <<discard>>) @@ (discard :> <<>>)

\* An offloadable element in front of two branches, which transmit directly.
OffloadFirst == (crypt :> <<classify>>) @@ (classify :> <<check, Out>>)
                  @@ (check :> <<discard, Out>>) @@ (discard :> <<>>)
=============================================================================
