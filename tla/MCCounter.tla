------------------------------ MODULE MCCounter ------------------------------
(***************************************************************************)
(* What a user does at the counter: small instances of PurchaseLimits,     *)
(* Checkout, GiftCard and Placement.  They share nothing here; focus says  *)
(* which one is looked at; the others do not move.                         *)
(***************************************************************************)
EXTENDS PurchaseLimits, Checkout, GiftCard, TLC

CONSTANTS r1, r2, r3, u1, u2, k1, k2

VARIABLES focus, subs, card, choice, read, outcome, drift

placementVars == <<subs, card, choice, read, outcome, drift>>

Symmetric ==
    Permutations({r1, r2}) \cup Permutations({u1, u2}) \cup Permutations({k1, k2})

\* A subscription that ends has a period end and a cap; a permanent one is of
\* the last rank.
CardShapes ==
    {s \in [plan : {"same", "other"}, state : {"live", "revivable", "dead"}, end : 1..3,
            permanent : BOOLEAN, unlimited : BOOLEAN, used : {0, 7}] :
        /\ s.permanent <=> s.end = 3
        /\ s.permanent => s.state = "live"
        /\ s.unlimited => s.used = 0
        /\ s.state # "live" => s.end = 1}

General(r) == [type |-> "general", rewards |-> {r}]

CardKinds ==
    {[type |-> "plan", kind |-> k, rewards |-> {}] : k \in {"subscription", "one_time"}}
    \cup {General(r) : r \in SUBSET {"balance", "days", "reset", "traffic"} \ {{}}}
    \cup {[type |-> "mystery", rewards |-> p] :
            p \in {q \in SUBSET {{"balance"}, {"days"}, {"traffic"}, {"days", "traffic"}} : Cardinality(q) = 2}}

\* Two subscriptions of every shape, every kind of card, one change on the way.
Land == INSTANCE Placement
        WITH Subs <- {1, 2}, Cards <- CardKinds, Shapes <- CardShapes, MaxDrift <- 1

ASSUME Land!PlacementAssumption

MCInit ==
    /\ focus \in {"limits", "checkout", "cards", "placement"}
    /\ LimitsInit
    /\ CheckoutInit
    /\ focus # "checkout" => balance = 0 /\ minPay = 0 /\ total = 0 /\ ~waive
    /\ CardInit
    /\ focus # "cards" => template = [status |-> "active", limit |-> 0, placed |-> FALSE]
    /\ IF focus = "placement" THEN Land!Init
       ELSE /\ subs = None /\ card = None /\ choice = None
            /\ read = None /\ outcome = None /\ drift = None

MCNext ==
    \/ /\ focus = "limits" /\ LimitsNext
       /\ UNCHANGED <<focus, checkoutVars, cardVars, placementVars>>
    \/ /\ focus = "checkout" /\ CheckoutNext
       /\ UNCHANGED <<focus, limitVars, cardVars, placementVars>>
    \/ /\ focus = "cards" /\ CardNext
       /\ UNCHANGED <<focus, limitVars, checkoutVars, placementVars>>
    \/ /\ focus = "placement" /\ Land!Next
       /\ UNCHANGED <<focus, limitVars, checkoutVars, cardVars>>

MCSpec == MCInit /\ [][MCNext]_<<focus, limitVars, checkoutVars, cardVars, placementVars>>

\* placementOptions offers only what the locked operations accept, replaces no
\* live subscription by default, and a card lands where its user chose.
PlacementInv ==
    focus = "placement" =>
        /\ Land!TypeOK
        /\ Land!OfferedIsAccepted
        /\ Land!DefaultIsHarmless
        /\ Land!LandsAsChosen
=============================================================================
