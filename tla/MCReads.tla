-------------------------------- MODULE MCReads -------------------------------
(***************************************************************************)
(* Each kind of contract object, with a pool that changes hands.           *)
(***************************************************************************)
EXTENDS AdaptorReads

MCOwners == <<"a", "b">>

=============================================================================
