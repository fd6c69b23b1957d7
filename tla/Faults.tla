------------------------------- MODULE Faults -------------------------------
(***************************************************************************)
(* What the modules about crashes, lost answers and retries share: the     *)
(* absence of a value, and how many things may go wrong in a behaviour.    *)
(***************************************************************************)
EXTENDS Naturals

CONSTANTS
    None,
    MaxFaults  \* bound: crashes, restarts, failed calls, lost messages and answers together

ASSUME FaultsAreCounted == MaxFaults \in Nat

VARIABLE faults

Fault == faults < MaxFaults /\ faults' = faults + 1
=============================================================================
