-------------------------------- MODULE MCSrd --------------------------------
(* An instance of Srd for TLC. *)
EXTENDS Srd

\* A client asks for one more, or for two less.
MCRequests == {-2, 1}
=============================================================================
