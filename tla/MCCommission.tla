----------------------------- MODULE MCCommission -----------------------------
(***************************************************************************)
(* Instance of Commission.  A worker stands for whoever can run its        *)
(* operations at that time: the referrer's requests, the hourly round, the *)
(* settlement of an order, an administrator.                               *)
(***************************************************************************)
EXTENDS Commission

MCAmount == <<1, 2>>

UserOps == {"withdraw", "transfer"}
RoundOps == {"settle", "auto"}

(* Two requests of the referrer against the round and an administrator. *)
Desk ==
  [duties |-> <<UserOps, {"transfer"}, RoundOps, {"judge", "pay", "accrue"}>>,
   orders |-> {1, 2}, asked |-> {1}, failures |-> 0,
   accounts |-> <<"revenue", "balance", "pending", "available">>]

(* The deletion against everything that does not take the user's lock. *)
Deletion ==
  [duties |-> <<{"delete"}, RoundOps, {"accrue", "entryReview"}, UserOps \cup {"judge", "pay"}>>,
   orders |-> {1, 2}, asked |-> {2}, failures |-> 0,
   accounts |-> <<"revenue", "pending", "available", "balance">>]

(* The round against a settlement, a deletion and failing transactions. *)
Round ==
  [duties |-> <<{"delete", "entryReview"}, RoundOps, {"accrue", "transfer"}, {}>>,
   orders |-> {2}, asked |-> {1}, failures |-> 2,
   accounts |-> <<"revenue", "pending", "available", "balance">>]

MCShifts == {Desk, Deletion, Round}
=============================================================================
