---------------------------- MODULE MCRelayMailbox ----------------------------
(* Small instances of RelayMailbox for TLC. *)
EXTENDS RelayMailbox, TLC

CONSTANTS f1, f2

TwoOneParts == f1 :> 2 @@ f2 :> 1
OneOneParts == f1 :> 1 @@ f2 :> 1
TwoParts == f1 :> 2
OnePart == f1 :> 1

=============================================================================
