-------------------------- MODULE MCTransferSession --------------------------
(* Small instances of TransferSession for TLC. *)
EXTENDS TransferSession, TLC

CONSTANTS f1, f2

\* One file in each direction, of two chunks and of one.
CrossSource == f1 :> A @@ f2 :> B
\* Two files in the same direction.
SameSource == f1 :> A @@ f2 :> A
TwoOneChunks == f1 :> 2 @@ f2 :> 1
OneOneChunks == f1 :> 1 @@ f2 :> 1
=============================================================================
