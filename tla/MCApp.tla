-------------------------------- MODULE MCApp --------------------------------
(* The values App is checked with. *)
EXTENDS App

\* Two files, which a chunk boundary and a resumed download cut differently.
TwoSizes == <<3, 2>>
=============================================================================
