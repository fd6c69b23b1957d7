------------------------------- MODULE Portal -------------------------------
(***************************************************************************)
(* What the modules about requests of the portal share: the requests that  *)
(* run at once, one transaction each, and the absence of a value.          *)
(***************************************************************************)
CONSTANTS
    Requests,
    None
=============================================================================
