------------------------------ MODULE GiftCard ------------------------------
(***************************************************************************)
(* Gift card codes of one template: generating codes, redeeming them,      *)
(* disabling and restoring them, editing the template, and the deletion    *)
(* of the accounts that redeem.                                            *)
(*                                                                         *)
(* A redemption is one transaction under READ COMMITTED that stops at each *)
(* statement where another transaction can come between: the shared lock   *)
(* on the user row (BeginRedeem), the lock on the code row (LockCode), the *)
(* unlocked read of the template (ReadTemplate), the advisory lock on      *)
(* (user, template) and the count under it (LockLimit), the unlocked       *)
(* choice of the subscription (Place), and the writes with the commit      *)
(* (Grant).  Every lock is held to the end of the transaction.  The admin  *)
(* operations take one lock each and are one step.                         *)
(***************************************************************************)
EXTENDS Portal, Integers, Sequences, FiniteSets

CONSTANTS
    Users, Codes,
    Limits,       \* values max_use_per_user may be edited to; 0 is no limit
    MaxEdits      \* bound on admin operations

VARIABLES
    user,         \* account: "active" | "deleted"
    target,       \* the user's subscription: "live" | "ended"
    code,         \* gift_card_codes: [status, usedBy]
    late,         \* codes whose expires_at has passed
    template,     \* gift_card_templates: [status, limit, placed]; a balance card is not placed
    redemptions,  \* gift_card_redemptions in commit order: [code, user, limit]
    paid,         \* how often the reward of a code was handed out
    redeeming,    \* redemptions in flight, by request: [user, code, limit, step]
    edits         \* admin operations spent, against MaxEdits

cardVars == <<user, target, code, late, template, redemptions, paid, redeeming, edits>>

CodeStatuses == {"absent", "unused", "used", "disabled", "expired"}
TemplateStatuses == {"active", "paused", "archived"}
RedeemSteps == {"lock", "template", "limit", "place", "grant"}
Redeemings == [user : Users, code : Codes, limit : Limits \cup {0}, step : RedeemSteps]

ASSUME GiftCardAssumption == Limits \subseteq Nat /\ MaxEdits \in Nat /\ None \notin Redeemings

CardInit ==
    /\ user = [u \in Users |-> "active"] /\ target = [u \in Users |-> "live"]
    /\ code = [c \in Codes |-> [status |-> "absent", usedBy |-> None]]
    /\ late = {}
    /\ template \in [status : {"active"}, limit : Limits, placed : BOOLEAN]
    /\ redemptions = <<>>
    /\ paid = [c \in Codes |-> 0]
    /\ redeeming = [r \in Requests |-> None]
    /\ edits = 0

-----------------------------------------------------------------------------
\* Locks

\* r has locked the row of code c (CodeByHash with FOR UPDATE).
HoldsCode(r, c) == redeeming[r] # None /\ redeeming[r].code = c /\ redeeming[r].step # "lock"

\* r has the advisory lock of (u, template) (LockUserTemplate).
HoldsLimit(r, u) ==
    redeeming[r] # None /\ redeeming[r].user = u /\ redeeming[r].limit > 0 /\ redeeming[r].step \in {"place", "grant"}

CodeFree(c) == \A r \in Requests : ~HoldsCode(r, c)

\* UserTemplateUsage: committed rows only.
UserTemplateUsage(u) ==
    Cardinality({i \in 1..Len(redemptions) : redemptions[i].user = u})

-----------------------------------------------------------------------------
\* Redeem

\* Mutant: the account is not looked at.
BeginUnlocked(r, u, c) ==
    /\ redeeming[r] = None /\ code[c].status # "absent"
    /\ redeeming' = [redeeming EXCEPT ![r] = [user |-> u, code |-> c, limit |-> 0, step |-> "lock"]]
    /\ UNCHANGED <<user, target, code, late, template, redemptions, paid, edits>>

\* IsDeleted: the user row stays share-locked.
BeginRedeem(r, u, c) ==
    /\ redeeming[r] = None /\ user[u] = "active" /\ code[c].status # "absent"
    /\ redeeming' = [redeeming EXCEPT ![r] = [user |-> u, code |-> c, limit |-> 0, step |-> "lock"]]
    /\ UNCHANGED <<user, target, code, late, template, redemptions, paid, edits>>

\* CodeByHash: a code that is not unused ends the request; an expired one is
\* marked so, and that is committed.
LockCode(r) ==
    LET c == redeeming[r].code
        refused == code[c].status # "unused"
        lapsed == ~refused /\ c \in late
    IN  /\ redeeming[r] # None /\ redeeming[r].step = "lock" /\ CodeFree(c)
        /\ redeeming' = [redeeming EXCEPT ![r] = IF refused \/ lapsed THEN None
                                   ELSE [@ EXCEPT !.step = "template"]]
        /\ code' = IF lapsed THEN [code EXCEPT ![c].status = "expired"] ELSE code
        /\ UNCHANGED <<user, target, late, template, redemptions, paid, edits>>

\* loadTemplate and the test of its status; the limit read here is the one
\* the request goes by.
ReadTemplate(r) ==
    /\ redeeming[r] # None /\ redeeming[r].step = "template"
    /\ redeeming' = [redeeming EXCEPT ![r] =
                 IF template.status # "active" THEN None
                 ELSE [@ EXCEPT !.limit = template.limit,
                                !.step = IF template.limit > 0 THEN "limit" ELSE "place"]]
    /\ UNCHANGED <<user, target, code, late, template, redemptions, paid, edits>>

\* Mutant: the usage is counted without the advisory lock.
CountUnlocked(r) ==
    /\ redeeming[r] # None /\ redeeming[r].step = "limit"
    /\ redeeming' = [redeeming EXCEPT ![r] = IF UserTemplateUsage(@.user) >= @.limit THEN None
                               ELSE [@ EXCEPT !.step = "place"]]
    /\ UNCHANGED <<user, target, code, late, template, redemptions, paid, edits>>

\* LockUserTemplate, then checkLimits.
LockLimit(r) ==
    /\ redeeming[r] # None /\ redeeming[r].step = "limit"
    /\ \A o \in Requests : ~HoldsLimit(o, redeeming[r].user)
    /\ redeeming' = [redeeming EXCEPT ![r] = IF UserTemplateUsage(@.user) >= @.limit THEN None
                               ELSE [@ EXCEPT !.step = "place"]]
    /\ UNCHANGED <<user, target, code, late, template, redemptions, paid, edits>>

\* The reward of the card can land for user u.
Lands(u) == template.placed => target[u] = "live"

\* placementOptions and resolveChoice over an unlocked read of the user's
\* subscriptions; a card that needs one has nowhere to go without it.
Place(r) ==
    /\ redeeming[r] # None /\ redeeming[r].step = "place"
    /\ redeeming' = [redeeming EXCEPT ![r] = IF ~Lands(@.user) THEN None
                               ELSE [@ EXCEPT !.step = "grant"]]
    /\ UNCHANGED <<user, target, code, late, template, redemptions, paid, edits>>

\* UpdateCodeStatus, grant and InsertRedemption.  The grant locks the
\* subscription: one that ended after it was chosen fails the grant, and the
\* code goes back with the transaction.
Grant(r) ==
    LET c == redeeming[r].code
        u == redeeming[r].user
        ok == code[c].status = "unused" /\ Lands(u)
    IN  /\ redeeming[r] # None /\ redeeming[r].step = "grant"
        /\ redeeming' = [redeeming EXCEPT ![r] = None]
        /\ IF ok THEN /\ code' = [code EXCEPT ![c] = [status |-> "used", usedBy |-> u]]
                      /\ redemptions' = Append(redemptions, [code |-> c, user |-> u, limit |-> redeeming[r].limit])
                      /\ paid' = [paid EXCEPT ![c] = @ + 1]
                 ELSE UNCHANGED <<code, redemptions, paid>>
        /\ UNCHANGED <<user, target, late, template, edits>>

\* The connection is lost or a statement fails: the transaction rolls back.
Abort(r) ==
    /\ redeeming[r] # None
    /\ redeeming' = [redeeming EXCEPT ![r] = None]
    /\ UNCHANGED <<user, target, code, late, template, redemptions, paid, edits>>

-----------------------------------------------------------------------------
\* Admins, deletion and time

Edit == edits < MaxEdits /\ edits' = edits + 1

\* GenerateCodes: a batch of codes that do not exist yet, of a template that
\* is not archived.
GenerateCodes(batch) ==
    /\ Edit /\ template.status # "archived"
    /\ batch # {} /\ \A c \in batch : code[c].status = "absent"
    /\ code' = [c \in Codes |-> IF c \in batch THEN [code[c] EXCEPT !.status = "unused"] ELSE code[c]]
    /\ UNCHANGED <<user, target, late, template, redemptions, paid, redeeming>>

\* ToggleCode: locks the row; used and expired codes stay as they are.
ToggleCode(c, disabled) ==
    LET from == IF disabled THEN "unused" ELSE "disabled"
        to == IF disabled THEN "disabled" ELSE "unused"
    IN  /\ Edit /\ CodeFree(c)
        /\ code[c].status = from
        /\ code' = [code EXCEPT ![c] = [status |-> to, usedBy |-> None]]
        /\ UNCHANGED <<user, target, late, template, redemptions, paid, redeeming>>

\* SaveTemplate: the type of a card stays.  It locks the template row, which
\* the redemptions read unlocked.
SaveTemplate(status, limit) ==
    /\ Edit
    /\ template' = [template EXCEPT !.status = status, !.limit = limit]
    /\ UNCHANGED <<user, target, code, late, redemptions, paid, redeeming>>

\* The deletion of an account locks its row first and closes its
\* subscriptions.
DeleteAccount(u) ==
    /\ Edit /\ user[u] = "active"
    /\ {r \in Requests : redeeming[r] # None /\ redeeming[r].user = u} = {}
    /\ user' = [user EXCEPT ![u] = "deleted"]
    /\ target' = [target EXCEPT ![u] = "ended"]
    /\ UNCHANGED <<code, late, template, redemptions, paid, redeeming>>

\* The subscription's renewal window closes.
EndTarget(u) ==
    /\ Edit /\ target[u] = "live"
    /\ target' = [target EXCEPT ![u] = "ended"]
    /\ UNCHANGED <<user, code, late, template, redemptions, paid, redeeming>>

\* The deadline of a code passes.
LapseCode(c) ==
    /\ Edit /\ c \notin late
    /\ late' = late \cup {c}
    /\ UNCHANGED <<user, target, code, template, redemptions, paid, redeeming>>

CardNext ==
    \/ \E r \in Requests :
          \/ \E u \in Users, c \in Codes : BeginRedeem(r, u, c)
          \/ LockCode(r) \/ ReadTemplate(r) \/ LockLimit(r) \/ Place(r) \/ Grant(r)
          \/ Abort(r)
    \/ \E batch \in SUBSET Codes : GenerateCodes(batch)
    \/ \E c \in Codes : LapseCode(c) \/ \E disabled \in BOOLEAN : ToggleCode(c, disabled)
    \/ \E status \in TemplateStatuses, limit \in Limits : SaveTemplate(status, limit)
    \/ \E u \in Users : DeleteAccount(u) \/ EndTarget(u)

CardSpec == CardInit /\ [][CardNext]_cardVars

-----------------------------------------------------------------------------
\* The type invariant: statuses of codes, templates and users, and the steps of Redeem.
CardTypeOK ==
    /\ user \in [Users -> {"active", "deleted"}]
    /\ target \in [Users -> {"live", "ended"}]
    /\ code \in [Codes -> [status : CodeStatuses, usedBy : Users \cup {None}]]
    /\ late \subseteq Codes
    /\ template \in [status : TemplateStatuses, limit : Limits, placed : BOOLEAN]
    /\ redemptions \in Seq([code : Codes, user : Users, limit : Limits])
    /\ paid \in [Codes -> Nat]
    /\ redeeming \in [Requests -> {None} \cup Redeemings]
    /\ edits \in 0..MaxEdits

\* What CheckRedemptions looks for, and the reward with it: a code is used
\* exactly when one redemption names it and its user, and its reward was
\* handed out exactly then and exactly once.
UsedIffRedeemed ==
    \A c \in Codes :
        LET by == {i \in 1..Len(redemptions) : redemptions[i].code = c}
        IN  IF code[c].status = "used"
            THEN /\ paid[c] = 1 /\ Cardinality(by) = 1
                 /\ \A i \in by : redemptions[i].user = code[c].usedBy
            ELSE by = {} /\ paid[c] = 0 /\ code[c].usedBy = None

\* Concurrent redemptions of different codes by one user never exceed the
\* limit: a redemption made under a limit is at most the limit-th limited
\* redemption of its user, whatever the admins change the limit to meanwhile.
\* (One that read "no limit" takes no lock, so it is not counted in time by a
\* limited one running beside it.)
LimitKept ==
    \A i \in 1..Len(redemptions) : redemptions[i].limit > 0 =>
        Cardinality({j \in 1..i : redemptions[j].user = redemptions[i].user /\ redemptions[j].limit > 0})
            <= redemptions[i].limit

\* The comment on IsDeleted in Redeem: nothing is redeemed for an account
\* once its deletion has committed.
RedeemedByActive ==
    \A i \in Len(redemptions) + 1..Len(redemptions') : user[redemptions'[i].user] = "active"

\* codeTransitions: used and expired are final, and only a code nobody has
\* redeemed can be disabled.
FinalCodesKept ==
    \A c \in Codes : code[c].status \in {"used", "expired"} => code'[c] = code[c]

\* Redeem: a code is used exactly when one redemption names it and its reward
\* was handed out once, and no limit is exceeded by concurrent redemptions.
CardInv == CardTypeOK /\ UsedIffRedeemed /\ LimitKept

\* Nothing is redeemed for an account once it is deleted (IsDeleted), and used
\* and expired codes are final (codeTransitions).
CardSteps == [][RedeemedByActive /\ FinalCodesKept]_cardVars
=============================================================================
