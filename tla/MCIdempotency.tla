--------------------------- MODULE MCIdempotency ---------------------------
(***************************************************************************)
(* Instance of Idempotency: three requests with one key, two of them may   *)
(* ask for something else.                                                 *)
(***************************************************************************)
EXTENDS Idempotency
=============================================================================
