------------------------ MODULE MCDirectConnection ------------------------
(* Concrete devices and sends for TLC. *)
EXTENDS DirectConnection, TLC

CONSTANTS A, B, s1, s2, s3

\* One send each way.
OneEach == s1 :> A @@ s2 :> B

\* Two sends from the lower device, one from the other.
TwoOne == s1 :> A @@ s2 :> A @@ s3 :> B
=============================================================================
