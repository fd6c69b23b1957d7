------------------------------- MODULE Panel -------------------------------
(***************************************************************************)
(* The identities the modules of the panel share.  An order, a user and a  *)
(* payment channel are model values.  A payment is named by what           *)
(* identifies it at the channel: the order it is for, the payment intent   *)
(* (the n-th intent of the order owns the out_trade_no <order_no>-n) and   *)
(* which of the captures of that intent it is.  Intent number 0 stands for *)
(* money collected offline, which has no intent.                           *)
(***************************************************************************)
EXTENDS Integers, FiniteSets

CONSTANTS
  Orders,       \* order ids
  Users,        \* user ids
  NoUser,       \* "no user"
  Providers,    \* codes of the payment channels, the offline one included
  Offline,      \* the code of the built-in offline channel
  MaxIntents,   \* bound: how many intents an order may get
  MaxCaptures   \* bound: how often one intent may be paid at the channel

ASSUME PanelConstants ==
  /\ IsFiniteSet(Orders)
  /\ NoUser \notin Users
  /\ Offline \in Providers
  /\ MaxIntents \in Nat
  /\ MaxCaptures \in Nat

Payments == Orders \X (0..MaxIntents) \X (1..MaxCaptures)
=============================================================================
