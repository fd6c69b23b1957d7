----------------------------- MODULE Placement ------------------------------
(***************************************************************************)
(* Where a gift card lands: the options offered for a card over the user's *)
(* subscriptions and the one preselected, and the redemption that resolves *)
(* the user's choice against a fresh unlocked read (Resolve) and applies   *)
(* it under the lock of the subscription (Apply), while the subscriptions  *)
(* change between preview, read and lock (Drift).                          *)
(*                                                                         *)
(* A subscription is [plan, state, end, permanent, unlimited, used]: plan  *)
(* says whether it is on the card's plan, end is the rank of its period    *)
(* end, used the tenths of its traffic that are consumed, all of them of   *)
(* the same cap.  An option is [kind, sub].                                *)
(***************************************************************************)
EXTENDS Integers, Sequences, FiniteSets, SequencesExt

CONSTANTS
    Subs,         \* subscription ids, a set of naturals
    Cards,        \* the cards looked at
    Shapes,       \* what a subscription may look like
    MaxDrift,     \* bound on the changes of subscriptions
    None

\* What the bounds and settings of an instance satisfy.
PlacementAssumption == Subs \subseteq Nat /\ MaxDrift \in Nat

VARIABLES
    subs,         \* the user's subscriptions
    card,         \* the card in hand
    choice,       \* the option the user picked in the preview, None for none
    read,         \* what the redemption resolved: [option, permanent], None before
    outcome,      \* [option, skipped], None before the end
    drift         \* changes so far, against MaxDrift

vars == <<subs, card, choice, read, outcome, drift>>

-----------------------------------------------------------------------------
\* Cards

\* A plan card is [type, kind]; the others carry the set of reward sets that
\* may be drawn: one for a general card, the pool for a mystery card.
PlanCard(c) == c.type = "plan"
Mystery(c) == c.type = "mystery"

\* offerOf: what the card may ask of a subscription.
Asks(c) == UNION c.rewards \ {"balance"}
NeedsPlacement(c) == PlanCard(c) \/ Asks(c) # {}

-----------------------------------------------------------------------------
\* Options

\* A redemption that is rolled back lands nowhere.
Refused == [option |-> None, skipped |-> {}]

New == [kind |-> "new", sub |-> None]

\* byEndAsc, byEndDesc: the order does not depend on the input's.
ByEndAsc(s) ==
    SetToSortSeq(s, LAMBDA i, j : subs[i].end < subs[j].end \/ (subs[i].end = subs[j].end /\ i < j))
ByEndDesc(s) == Reverse(ByEndAsc(s))

\* optionFor each of a sequence of subscriptions.
OptionsFor(kind, seq) == [i \in DOMAIN seq |-> [kind |-> kind, sub |-> seq[i]]]

In(state, s) == {i \in s : subs[i].state = state}

Chosen(opts, default) == [options |-> opts, default |-> default]
NoOptions == Chosen(<<>>, None)

\* Mutant: with no subscription of the plan the first option is preselected.
PlanOptionsFirst(kind) ==
    LET alive == {i \in DOMAIN subs : subs[i].state # "dead"}
        other == {i \in alive : subs[i].plan = "other"}
        opts == OptionsFor("change", ByEndAsc(In("live", other))) \o <<New>>
    IN  Chosen(opts, opts[1])

\* planOptions
PlanOptions(kind) ==
    LET alive == {i \in DOMAIN subs : subs[i].state # "dead"}
        same == {i \in alive : subs[i].plan = "same"}
        other == alive \ same
        keeps == IF kind = "one_time"
                 THEN OptionsFor("stack", ByEndAsc(In("live", same)))
                 ELSE OptionsFor("renew", ByEndAsc(In("live", same)) \o ByEndDesc(In("revivable", same)))
        opts == keeps \o OptionsFor("change", ByEndDesc(In("revivable", other)))
                      \o <<New>> \o OptionsFor("change", ByEndAsc(In("live", other)))
    IN  IF kind # "one_time" /\ Cardinality(alive) = 1 /\ Len(keeps) = 1 THEN Chosen(keeps, keeps[1])
        ELSE IF keeps # <<>> \/ Len(opts) = 1 THEN Chosen(opts, opts[1])
        ELSE Chosen(opts, None)

\* daysOptions
DaysOptions(s) ==
    LET opts == OptionsFor("extend_days", ByEndAsc(In("live", s)) \o ByEndAsc(In("revivable", s)))
    IN  IF opts = <<>> THEN NoOptions ELSE Chosen(opts, opts[1])

\* usedMore: an unlimited subscription counts as unused.
Ratio(i) == IF subs[i].unlimited THEN 0 ELSE subs[i].used

\* remaining: an unlimited subscription has the most left.
Remaining(i) == IF subs[i].unlimited THEN 11 ELSE 10 - subs[i].used

\* The scan for the best of a sequence: the first that no later one beats.
BestOf(seq, Better(_, _)) ==
    CHOOSE k \in DOMAIN seq :
        /\ \A j \in DOMAIN seq : ~Better(seq[j], seq[k])
        /\ \A j \in 1..k - 1 : Better(seq[k], seq[j])

BestOptions(kind, s, Better(_, _)) ==
    LET live == ByEndAsc(In("live", s))
        opts == OptionsFor(kind, live)
    IN  IF opts = <<>> THEN NoOptions ELSE Chosen(opts, opts[BestOf(live, Better)])

\* resetOptions
ResetOptions(s) == BestOptions("reset_traffic", s, LAMBDA i, j : Ratio(i) > Ratio(j))

\* trafficOptions
TrafficOptions(s) == BestOptions("add_traffic", s, LAMBDA i, j : Remaining(i) < Remaining(j))

\* placementOptions
PlacementOptions(c) ==
    IF PlanCard(c) THEN PlanOptions(c.kind)
    ELSE LET fit == {i \in DOMAIN subs : Mystery(c) \/
                        /\ "days" \in Asks(c) => ~subs[i].permanent
                        /\ "traffic" \in Asks(c) => ~subs[i].unlimited}
         IN  IF Asks(c) = {"days"} THEN DaysOptions(fit)
             ELSE IF "days" \in Asks(c) THEN DaysOptions(In("live", fit))
             ELSE IF "reset" \in Asks(c) THEN ResetOptions(fit)
             ELSE TrafficOptions(fit)

Offered(c) == Range(PlacementOptions(c).options)

-----------------------------------------------------------------------------
\* What the locked operations accept

\* preparePlanTarget and the operations behind it
PlanAccepts(c, opt) ==
    CASE opt.kind = "new" -> TRUE
      [] opt.kind = "renew" -> subs[opt.sub].plan = "same" /\ c.kind = "subscription" /\ subs[opt.sub].state # "dead"
      [] opt.kind = "stack" -> subs[opt.sub].plan = "same" /\ c.kind = "one_time" /\ subs[opt.sub].state # "dead"
      [] opt.kind = "change" -> subs[opt.sub].plan = "other" /\ subs[opt.sub].state # "dead"
      [] OTHER -> FALSE

\* A mystery card skips what the subscription cannot use: days on one that
\* was permanent when it was read, traffic on an unlimited one.
Skipped(c, opt, reward, permanent) ==
    IF PlanCard(c) THEN {}
    ELSE {x \in reward : \/ x = "days" /\ permanent
                         \/ x = "traffic" /\ subs[opt.sub].unlimited /\ Mystery(c)}

\* grant: Extend takes a lapsed subscription, ResetTraffic and GrantBonus only
\* a live one, GrantBonus only a limited one.
Accepts(c, opt, reward, permanent) ==
    IF PlanCard(c) THEN PlanAccepts(c, opt)
    ELSE \A x \in reward \ ({"balance"} \cup Skipped(c, opt, reward, permanent)) :
            /\ subs[opt.sub].state # "dead"
            /\ x # "days" => subs[opt.sub].state = "live"
            /\ x = "traffic" => ~subs[opt.sub].unlimited

Rewards(c) == IF PlanCard(c) THEN {{}} ELSE c.rewards

-----------------------------------------------------------------------------
Init ==
    /\ \E held \in SUBSET Subs : subs \in [held -> Shapes]
    /\ card \in {c \in Cards : NeedsPlacement(c)}
    /\ choice = None /\ read = None /\ outcome = None /\ drift = 0

\* The user picks an option of the preview, or sends none.
Choose(opt) ==
    /\ choice = None /\ read = None /\ outcome = None /\ drift = 0
    /\ opt \in Offered(card)
    /\ choice' = opt
    /\ UNCHANGED <<subs, card, read, outcome, drift>>

\* resolveChoice over a fresh read; permanentIn is read with it.
Resolve ==
    LET opts == PlacementOptions(card).options
        opt == IF choice # None THEN (IF choice \in Offered(card) THEN choice ELSE None)
               ELSE IF Len(opts) = 1 THEN opts[1] ELSE None
    IN  /\ read = None /\ outcome = None
        /\ IF opt = None
           THEN outcome' = Refused /\ UNCHANGED read
           ELSE /\ read' = [option |-> opt, permanent |-> opt.sub # None /\ subs[opt.sub].permanent]
                /\ UNCHANGED outcome
        /\ UNCHANGED <<subs, card, choice, drift>>

\* preparePlan and grant under the lock of the subscription; a refusal rolls
\* the redemption back.
Apply(reward) ==
    /\ read # None /\ outcome = None
    /\ outcome' = IF Accepts(card, read.option, reward, read.permanent)
                  THEN [option |-> read.option,
                        skipped |-> Skipped(card, read.option, reward, read.permanent)]
                  ELSE Refused
    /\ UNCHANGED <<subs, card, choice, read, drift>>

\* Somebody renews, changes, stacks or ends a subscription meanwhile.
Drift(i, shape) ==
    /\ outcome = None /\ drift < MaxDrift /\ i \in DOMAIN subs
    /\ subs[i].state # "dead" /\ subs[i] # shape
    /\ subs' = [subs EXCEPT ![i] = shape]
    /\ drift' = drift + 1
    /\ UNCHANGED <<card, choice, read, outcome>>

Next ==
    \/ \E opt \in Offered(card) : Choose(opt)
    \/ Resolve
    \/ \E reward \in Rewards(card) : Apply(reward)
    \/ \E i \in Subs, shape \in Shapes : Drift(i, shape)

Spec == Init /\ [][Next]_vars

-----------------------------------------------------------------------------
Options(c) == [kind : {"new"}, sub : {None}] \cup
              [kind : {"renew", "stack", "change", "extend_days", "reset_traffic", "add_traffic"}, sub : Subs]

\* The type invariant: what was read, chosen and answered is an option of the card.
TypeOK ==
    /\ DOMAIN subs \subseteq Subs /\ \A i \in DOMAIN subs : subs[i] \in Shapes
    /\ card \in Cards /\ choice \in Options(card) \cup {None}
    /\ read \in {None} \cup [option : Options(card), permanent : BOOLEAN]
    /\ outcome \in {None, Refused} \cup [option : Options(card), skipped : SUBSET {"days", "traffic"}]
    /\ drift \in 0..MaxDrift

\* Every option placementOptions offers is one the locked operations accept
\* if nothing changes, whatever a mystery card draws afterwards.
OfferedIsAccepted ==
    \A opt \in Offered(card), reward \in Rewards(card) :
        Accepts(card, opt, reward, opt.sub # None /\ subs[opt.sub].permanent)

\* The comment on placementOptions: a live subscription is never replaced by
\* default, and what is preselected is among the options.
DefaultIsHarmless ==
    LET d == PlacementOptions(card).default
    IN  d # None => /\ d \in Offered(card)
                    /\ d.kind = "change" => subs[d.sub].state # "live"

\* A card lands on the option its user picked or nowhere, and a general card
\* is never used up with a part of it left out, however the subscriptions
\* changed between the preview, the read and the lock.
LandsAsChosen ==
    outcome \notin {None, Refused} =>
        /\ choice # None => outcome.option = choice
        /\ ~Mystery(card) => outcome.skipped = {}
=============================================================================
