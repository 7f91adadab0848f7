--------------------------- MODULE AdmissionLedger ---------------------------
(***************************************************************************)
(* AdmissionPolicyV2 (cact/protocol_v2.py): the online CAP admission       *)
(* policy with its per-episode, no-credit risk ledger, run with a policy   *)
(* that was calibrated and audited before.  Budgets and charges are        *)
(* counted in the unit of CapDraws, so that they are compared exactly.     *)
(***************************************************************************)
EXTENDS PolicyCalibration

CONSTANTS
    Episodes,       \* episode ids
    Opportunities,  \* the opportunities that may be offered (see OpportunityType)
    FutureClip,     \* future_opportunity_clip
    MaxAdmits       \* bound of the model: admissions per episode

Levels == 1..4   \* g0 (most specific) .. g3

\* keys: the group the opportunity belongs to at each level.
OpportunityType == [eligible: BOOLEAN, applicable: BOOLEAN,
                    remaining: Int, keys: [Levels -> Keys]]

ASSUME LedgerAssumption == FutureClip \in Nat /\ MaxAdmits \in Nat

ASSUME OpportunityAssumption == \A o \in Opportunities : o \in OpportunityType

VARIABLES
    policy,     \* the controller this process runs and the calibrated policy it has loaded
    budget,     \* _budget_by_episode
    cert,       \* last certificate returned in each episode
    charged,    \* history: sum of the risk charges admitted in each episode
    admits,     \* history: number of admissions in each episode
    exhausted   \* history: charges refused with "budget_exhausted" in each episode

vars == <<policy, budget, cert, charged, admits, exhausted>>

-----------------------------------------------------------------------------
\* The controllers CactMemory constructs from the method name.
Controllers == {[variant |-> "full", ledger |-> TRUE],
                [variant |-> "full", ledger |-> FALSE],   \* C-ACT-Pointwise
                [variant |-> "hard_backoff", ledger |-> TRUE],
                [variant |-> "myopic_reserve", ledger |-> TRUE],
                [variant |-> "independent_margins", ledger |-> TRUE]}

\* A policy of some calibration, with its own price or, in the rollouts that
\* compare prices (lambda_override), with any other.
Policies ==
    UNION {{[variant |-> v.variant, ledger |-> v.ledger,
             calibration |-> c, lambda |-> l, keys |-> p.keys] :
                v \in Controllers, l \in Lambdas, p \in Written[c]} : c \in Calibrations}

\* Mutant: the ledger forgets the episode between decisions.
BudgetBeforeForgets(e) == InitialBudget

\* _budget_before: setdefault(episode_id, initial_budget).
BudgetBefore(e) == IF e \in DOMAIN budget THEN budget[e] ELSE InitialBudget

SetBudget(e, b) ==
    budget' = [d \in DOMAIN budget \cup {e} |-> IF d = e THEN b ELSE budget[d]]

\* _remaining_opportunities, and its override by the myopic variant.
Reserve(o) ==
    IF policy.variant = "myopic_reserve" \/ o.remaining < 0 THEN 0
    ELSE IF o.remaining > FutureClip THEN FutureClip ELSE o.remaining

\* What the draws of a group say of it, whatever the balance.
DrawStats ==
    [c \in Calibrations |-> [k \in Keys |->
        LET draws == SelectEstimates[c][k].draws
        IN  [benefit |-> Quantile([d \in 1..Draws |-> draws[d].y], AlphaNum),
             inc     |-> RiskIncUcb(draws),
             abs     |-> RiskAbsUcb(draws)]]]

\* The estimate of a group in the policy that is loaded.
Row(k) == SelectEstimates[policy.calibration][k]

\* What is read off the draws of a group, or off its independent margins.
Stats(k) ==
    LET margin == Row(k).margin
    IN  IF policy.variant = "independent_margins"
        THEN [benefit |-> margin.y - policy.lambda * margin.seY,
              inc     |-> margin.inc + policy.lambda * margin.seInc,
              abs     |-> margin.abs + policy.lambda * margin.seAbs]
        ELSE DrawStats[policy.calibration][k]

\* Mutant: a risk-reducing row is credited.
RiskChargeCredits(st) == st.inc

\* max(0, quantile(inc)): a row expected to reduce risk earns no credit.
RiskCharge(st) == Pos(st.inc)

\* The CAP is positive for a balance b shared with n more opportunities.
CapAllows(k, b, n) ==
    IF policy.variant = "independent_margins"
    THEN CapDraw([y |-> Stats(k).benefit, inc |-> Stats(k).inc], policy.lambda, b, n) > 0
    ELSE CapPositive(Row(k).draws, policy.lambda, b, n)

\* Mutant: the charge is compared with the episode's allowance, not its balance.
OverBudgetAllowance(st, b) == RiskCharge(st) > InitialBudget + CapEpsilon

\* risk_charge > budget_before + cap_epsilon.
OverBudget(st, b) == RiskCharge(st) > b + CapEpsilon

\* The refusals, in the order of the early returns; "admit" when none applies.
Reason(k, b, n) ==
    LET st     == Stats(k)
        margin == policy.variant = "independent_margins"
    IN  IF st.abs > EpsAbs THEN "absolute_risk"
        ELSE IF margin /\ st.benefit < Delta0 THEN "benefit_too_low"
        ELSE IF margin /\ st.inc > EpsInc THEN "incremental_risk"
        ELSE IF OverBudget(st, b) THEN "budget_exhausted"
        ELSE IF ~CapAllows(k, b, n) THEN "cap_nonpositive"
        ELSE "admit"

\* Levels the backoff loop may stop at: a group that was not admitted when the policy
\* was selected is not in it.
SupportedLevels(o) == {i \in Levels : /\ o.keys[i] \in policy.keys
                                      /\ policy.variant = "hard_backoff" => i = 1}

DecidingLevels(o) == {i \in SupportedLevels(o) : \A j \in SupportedLevels(o) : i <= j}

\* The fields of a returned certificate that later decisions and logs depend on.
Certificate(reason, b, charge, after) ==
    [reason |-> reason, before |-> b, charge |-> charge, after |-> after]

NoCertificate == Certificate("none", 0, 0, 0)

-----------------------------------------------------------------------------
Init ==
    /\ policy \in Policies
    /\ budget = [e \in {} |-> 0]
    /\ cert = [e \in Episodes |-> NoCertificate]
    /\ charged = [e \in Episodes |-> 0]
    /\ admits = [e \in Episodes |-> 0]
    /\ exhausted = [e \in Episodes |-> {}]

\* A certificate that returns the budget it was given.
FallBack(e, reason, charge) ==
    /\ SetBudget(e, BudgetBefore(e))
    /\ cert' = [cert EXCEPT ![e] = Certificate(reason, BudgetBefore(e), charge, BudgetBefore(e))]
    /\ UNCHANGED <<policy, charged, admits>>

\* decide: the opportunity is not eligible or the knowledge not applicable.
Ineligible(e, o) ==
    /\ ~(o.eligible /\ o.applicable)
    /\ FallBack(e, "ineligible_or_inapplicable", 0)
    /\ UNCHANGED exhausted

\* decide: no level of the backoff chain is supported.
Unsupported(e, o) ==
    /\ o.eligible /\ o.applicable
    /\ SupportedLevels(o) = {}
    /\ FallBack(e, "unsupported", 0)
    /\ UNCHANGED exhausted

\* decide: the first supported row is refused.
Refuse(e, o) ==
    /\ o.eligible /\ o.applicable
    /\ \E i \in DecidingLevels(o) :
         LET charge == RiskCharge(Stats(o.keys[i]))
             reason == Reason(o.keys[i], BudgetBefore(e), Reserve(o))
         IN /\ reason # "admit"
            /\ FallBack(e, reason, charge)
            /\ exhausted' = [exhausted EXCEPT ![e] =
                    IF reason = "budget_exhausted" THEN @ \cup {charge} ELSE @]

\* Mutant: the balance is not clamped at zero.
DebitUnclamped(b, charge) == IF policy.ledger THEN b - charge ELSE b

\* What an admission leaves in the ledger: max(0, budget_before - risk_charge).
Debit(b, charge) == IF policy.ledger THEN Pos(b - charge) ELSE b

\* decide: the first supported row is admitted and its risk charged.
Admit(e, o) ==
    /\ o.eligible /\ o.applicable
    /\ admits[e] < MaxAdmits
    /\ \E i \in DecidingLevels(o) :
         LET b == BudgetBefore(e)
             charge == RiskCharge(Stats(o.keys[i]))
         IN /\ Reason(o.keys[i], b, Reserve(o)) = "admit"
            /\ SetBudget(e, Debit(b, charge))
            /\ cert' = [cert EXCEPT ![e] = Certificate("admit", b, charge,
                                            IF policy.ledger THEN b - charge ELSE b)]
            /\ charged' = [charged EXCEPT ![e] = @ + charge]
            /\ admits' = [admits EXCEPT ![e] = @ + 1]
            /\ UNCHANGED <<policy, exhausted>>

Next == \E e \in Episodes, o \in Opportunities :
            \/ Ineligible(e, o)
            \/ Unsupported(e, o)
            \/ Refuse(e, o)
            \/ Admit(e, o)

Spec == Init /\ [][Next]_vars

-----------------------------------------------------------------------------
Reasons == {"none", "ineligible_or_inapplicable", "unsupported", "absolute_risk",
            "benefit_too_low", "incremental_risk", "budget_exhausted",
            "cap_nonpositive", "admit"}

CertificateType == [reason: Reasons, before: Nat, charge: Nat, after: Int]

\* The ledger's state is well typed: in particular a stored budget is never negative.
TypeOK ==
    /\ policy \in Policies
    /\ DOMAIN budget \subseteq Episodes /\ budget \in [DOMAIN budget -> Nat]
    /\ cert \in [Episodes -> CertificateType]
    /\ charged \in [Episodes -> Nat] /\ admits \in [Episodes -> Nat]
    /\ exhausted \in [Episodes -> SUBSET Nat]

\* The risk an episode has accepted is accounted for: with the ledger, what was
\* charged is what left the budget, up to one cap_epsilon of slack per admission
\* (the tolerance of the exhaustion test), and nothing left the budget uncharged.
\* In particular total charge <= initial_budget + cap_epsilon * admissions.
SpendAccounted ==
    policy.ledger =>
        \A e \in Episodes :
            /\ charged[e] + BudgetBefore(e) <= InitialBudget + CapEpsilon * admits[e]
            /\ charged[e] + BudgetBefore(e) >= InitialBudget

\* Within an episode the certificates form a chain, whatever other episodes do in
\* between: each starts from the (clamped) balance the previous one ended with, and
\* the first from initial_budget.
CertificateChain ==
    [][\A e \in Episodes : cert'[e] # cert[e] =>
         cert'[e].before = IF cert[e].reason = "none" THEN InitialBudget
                           ELSE Pos(cert[e].after)]_vars

\* A charge refused for lack of budget is never admitted later in the same episode:
\* the ledger gives no credit, so waiting or a risk-reducing admission in between
\* cannot buy it back.
NoSecondChance ==
    [][\A e \in Episodes : admits'[e] # admits[e] =>
          cert'[e].charge \notin exhausted[e]]_vars

\* Reserving budget for the remaining opportunities only restricts: whatever the
\* policy admits while reserving, it would have admitted with nothing to reserve for.
ReserveOnlyRestricts ==
    \A e \in Episodes, o \in Opportunities : \A i \in DecidingLevels(o) :
        Reason(o.keys[i], BudgetBefore(e), Reserve(o)) = "admit"
            => Reason(o.keys[i], BudgetBefore(e), 0) = "admit"

\* With the price selection has chosen, a group of the policy is refused online for
\* lack of budget only: neither the price nor the reserve for later opportunities ever
\* refuses what was selected.  (Selection takes the best coverage and, of equals, the
\* least price, which is the price 0: see SelectsLeastPrice in the proofs.)
OnlyBudgetRefuses ==
    /\ policy.variant # "independent_margins"
    /\ [lambda |-> policy.lambda, keys |-> policy.keys] = Selected[policy.calibration]
    => \A e \in Episodes, o \in Opportunities : \A i \in DecidingLevels(o) :
          Reason(o.keys[i], BudgetBefore(e), Reserve(o)) \in {"admit", "budget_exhausted"}
=============================================================================
