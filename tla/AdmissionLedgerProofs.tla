------------------------ MODULE AdmissionLedgerProofs ------------------------
(***************************************************************************)
(* Proofs about AdmissionLedger for every set of episodes, opportunities,  *)
(* groups and calibrations and every value of the policy's parameters.     *)
(***************************************************************************)
EXTENDS AdmissionLedger, CapDrawsProofs

\* The last certificate of an episode ends with the balance the ledger holds.
CertMatchesBudget ==
    \A e \in Episodes :
        BudgetBefore(e) = IF cert[e].reason = "none" THEN InitialBudget
                          ELSE Pos(cert[e].after)

\* A charge once refused for lack of budget still exceeds the budget.
ExhaustedStays ==
    \A e \in Episodes : \A c \in exhausted[e] : c > BudgetBefore(e) + CapEpsilon

\* The inductive invariant.
LedgerInv == TypeOK /\ SpendAccounted /\ CertMatchesBudget /\ ExhaustedStays

-----------------------------------------------------------------------------
\* A loaded policy belongs to a calibration and has one of the prices.
LEMMA PolicyType ==
    ASSUME policy \in Policies
    PROVE  policy.calibration \in Calibrations /\ policy.lambda \in Nat
<1> DEFINE Of(c) == {[variant |-> v.variant, ledger |-> v.ledger,
                      calibration |-> c, lambda |-> l, keys |-> p.keys] :
                         v \in Controllers, l \in Lambdas, p \in Written[c]}
<1>1. PICK c \in Calibrations : policy \in Of(c)
  <2>1. policy \in UNION {Of(c) : c \in Calibrations}
    BY DEF Policies
  <2> HIDE DEF Of
  <2> QED BY <2>1
<1>2. PICK v \in Controllers, l \in Lambdas, p \in Written[c] :
        policy = [variant |-> v.variant, ledger |-> v.ledger,
                  calibration |-> c, lambda |-> l, keys |-> p.keys]
  BY <1>1
<1> QED BY <1>2, CalibrationAssumption

\* A group's estimate is a set of draws and a record of margins.
LEMMA RowType ==
    ASSUME policy \in Policies, NEW k \in Keys
    PROVE  /\ Row(k).draws \in JointDraws
           /\ Row(k).margin \in [y : Int, seY : Nat, inc : Int, seInc : Nat, abs : Int, seAbs : Nat]
<1>1. SelectEstimates[policy.calibration][k] \in Estimate
  BY PolicyType, CalibrationAssumption
<1> QED BY <1>1 DEF Row, Estimate

\* What is read off a group's draws is an integer.
LEMMA DrawStatsType ==
    ASSUME NEW draws \in JointDraws
    PROVE  /\ Quantile([d \in 1..Draws |-> draws[d].y], AlphaNum) \in Int
           /\ RiskIncUcb(draws) \in Int /\ RiskAbsUcb(draws) \in Int
<1>1. /\ [d \in 1..Draws |-> draws[d].y] \in Sample
      /\ [d \in 1..Draws |-> draws[d].inc] \in Sample
      /\ [d \in 1..Draws |-> draws[d].abs] \in Sample
  BY DEF JointDraws, Sample
<1>2. AlphaNum \in 0..AlphaDen /\ AlphaDen - AlphaNum \in 0..AlphaDen
  BY DrawsAssumption
<1> QED BY <1>1, <1>2, QuantileType DEF RiskIncUcb, RiskAbsUcb

\* The statistics of a group are integers and its charge a natural number.
LEMMA StatsType ==
    ASSUME policy \in Policies, NEW k \in Keys
    PROVE  /\ Stats(k) \in [benefit: Int, inc: Int, abs: Int]
           /\ RiskCharge(Stats(k)) \in Nat
<1>1. policy.calibration \in Calibrations /\ policy.lambda \in Nat
  BY PolicyType
<1>2. CASE policy.variant = "independent_margins"
  <2> DEFINE margin == Row(k).margin
  <2>1. margin \in [y : Int, seY : Nat, inc : Int, seInc : Nat, abs : Int, seAbs : Nat]
    BY RowType
  <2> HIDE DEF margin
  <2>2. /\ margin.y - policy.lambda * margin.seY \in Int
        /\ margin.inc + policy.lambda * margin.seInc \in Int
        /\ margin.abs + policy.lambda * margin.seAbs \in Int
    BY <1>1, <2>1
  <2>3. Stats(k) = [benefit |-> margin.y - policy.lambda * margin.seY,
                    inc     |-> margin.inc + policy.lambda * margin.seInc,
                    abs     |-> margin.abs + policy.lambda * margin.seAbs]
    BY <1>2 DEF Stats, margin
  <2>4. Stats(k) \in [benefit: Int, inc: Int, abs: Int]
    BY <2>2, <2>3
  <2> QED BY <2>4, PosType DEF RiskCharge
<1>3. CASE policy.variant # "independent_margins"
  <2> DEFINE draws == SelectEstimates[policy.calibration][k].draws
  <2>1. draws \in JointDraws
    BY RowType DEF Row
  <2>2. Stats(k) = [benefit |-> Quantile([d \in 1..Draws |-> draws[d].y], AlphaNum),
                    inc     |-> RiskIncUcb(draws),
                    abs     |-> RiskAbsUcb(draws)]
    BY <1>1, <1>3 DEF Stats, DrawStats
  <2> HIDE DEF draws
  <2>3. Stats(k) \in [benefit: Int, inc: Int, abs: Int]
    BY <2>1, <2>2, DrawStatsType
  <2> QED BY <2>3, PosType DEF RiskCharge
<1> QED BY <1>2, <1>3

\* The group of an opportunity at a level is one of the groups.
LEMMA KeyType ==
    ASSUME NEW o \in Opportunities, NEW i \in DecidingLevels(o)
    PROVE  i \in Levels /\ o.keys[i] \in Keys /\ o.keys[i] \in policy.keys
BY OpportunityAssumption DEF OpportunityType, DecidingLevels, SupportedLevels

\* What a debit leaves: a natural number, never more than before.
LEMMA DebitType ==
    ASSUME NEW b \in Nat, NEW c \in Nat
    PROVE  /\ Debit(b, c) \in Nat /\ Debit(b, c) <= b
           /\ policy.ledger => Debit(b, c) = Pos(b - c)
BY DEF Debit, Pos

\* The balance every decision starts from is a natural number.
LEMMA BudgetType ==
    ASSUME TypeOK, NEW e \in Episodes
    PROVE  BudgetBefore(e) \in Nat
BY LedgerAssumption, CalibrationAssumption, DrawsAssumption DEF TypeOK, BudgetBefore

\* Writing one episode's entry changes that episode's balance and no other.
LEMMA SetBudgetEffect ==
    ASSUME TypeOK, NEW e \in Episodes, NEW b \in Nat, SetBudget(e, b)
    PROVE  /\ DOMAIN budget' \subseteq Episodes /\ budget' \in [DOMAIN budget' -> Nat]
           /\ BudgetBefore(e)' = b
           /\ \A d \in Episodes \ {e} : BudgetBefore(d)' = BudgetBefore(d)
<1>1. DOMAIN budget' = DOMAIN budget \cup {e}
  BY DEF SetBudget
<1>2. budget'[e] = b /\ \A d \in DOMAIN budget : d # e => budget'[d] = budget[d]
  BY DEF SetBudget
<1>3. budget' \in [DOMAIN budget' -> Nat]
  BY DEF SetBudget, TypeOK
<1> QED BY <1>1, <1>2, <1>3 DEF BudgetBefore, TypeOK

-----------------------------------------------------------------------------
\* Every refusal leaves the balance alone and adds at most a charge that exceeds it.
LEMMA FallBackStep ==
    ASSUME LedgerInv, NEW e \in Episodes, NEW reason \in Reasons \ {"none"}, NEW c \in Nat,
           FallBack(e, reason, c),
           \/ UNCHANGED exhausted
           \/ /\ exhausted' = [exhausted EXCEPT ![e] = @ \cup {c}]
              /\ c > BudgetBefore(e) + CapEpsilon
    PROVE  LedgerInv'
<1>1. BudgetBefore(e) \in Nat
  BY BudgetType DEF LedgerInv
<1>2. /\ DOMAIN budget' \subseteq Episodes /\ budget' \in [DOMAIN budget' -> Nat]
      /\ \A d \in Episodes : BudgetBefore(d)' = BudgetBefore(d)
  BY <1>1, SetBudgetEffect DEF LedgerInv, FallBack
<1>3. Certificate(reason, BudgetBefore(e), c, BudgetBefore(e)) \in CertificateType
  BY <1>1 DEF Certificate, CertificateType
<1>4. TypeOK'
  BY <1>1, <1>2, <1>3 DEF LedgerInv, TypeOK, FallBack
<1>5. SpendAccounted'
  BY <1>2 DEF LedgerInv, SpendAccounted, FallBack
<1>6. CertMatchesBudget'
  BY <1>1, <1>2, PosType DEF LedgerInv, CertMatchesBudget, FallBack, Certificate, TypeOK
<1>7. ExhaustedStays'
  BY <1>2 DEF LedgerInv, ExhaustedStays, TypeOK
<1> QED BY <1>4, <1>5, <1>6, <1>7 DEF LedgerInv

\* An admission spends its charge, within cap_epsilon of the balance.
LEMMA AdmitStep ==
    ASSUME LedgerInv, NEW e \in Episodes, NEW o \in Opportunities, Admit(e, o)
    PROVE  LedgerInv'
<1>1. PICK i \in DecidingLevels(o) :
        /\ Reason(o.keys[i], BudgetBefore(e), Reserve(o)) = "admit"
        /\ SetBudget(e, Debit(BudgetBefore(e), RiskCharge(Stats(o.keys[i]))))
        /\ cert' = [cert EXCEPT ![e] =
              Certificate("admit", BudgetBefore(e), RiskCharge(Stats(o.keys[i])),
                          IF policy.ledger THEN BudgetBefore(e) - RiskCharge(Stats(o.keys[i]))
                          ELSE BudgetBefore(e))]
        /\ charged' = [charged EXCEPT ![e] = @ + RiskCharge(Stats(o.keys[i]))]
        /\ admits' = [admits EXCEPT ![e] = @ + 1]
        /\ UNCHANGED <<policy, exhausted>>
  BY DEF Admit
<1> DEFINE b == BudgetBefore(e)
           c == RiskCharge(Stats(o.keys[i]))
<1>2. o.keys[i] \in Keys /\ policy \in Policies
  BY <1>1, KeyType DEF LedgerInv, TypeOK
<1>3. b \in Nat /\ c \in Nat
  BY <1>2, BudgetType, StatsType DEF LedgerInv
<1>4. c <= b + CapEpsilon
  <2>1. ~OverBudget(Stats(o.keys[i]), b)
    BY <1>1 DEF Reason
  <2> QED BY <2>1, <1>3, LedgerAssumption, CalibrationAssumption, DrawsAssumption DEF OverBudget
<1> HIDE DEF b, c
<1>5. /\ Debit(b, c) \in Nat /\ Debit(b, c) <= b
      /\ policy.ledger => Debit(b, c) = Pos(b - c)
  BY <1>3, DebitType
<1>6. /\ DOMAIN budget' \subseteq Episodes /\ budget' \in [DOMAIN budget' -> Nat]
      /\ BudgetBefore(e)' = Debit(b, c)
      /\ \A d \in Episodes \ {e} : BudgetBefore(d)' = BudgetBefore(d)
  BY <1>1, <1>5, SetBudgetEffect DEF LedgerInv, b, c
<1>7. TypeOK'
  <2>1. Certificate("admit", b, c, IF policy.ledger THEN b - c ELSE b) \in CertificateType
    BY <1>3 DEF Certificate, CertificateType, Reasons
  <2>2. cert' = [cert EXCEPT ![e] = Certificate("admit", b, c, IF policy.ledger THEN b - c ELSE b)]
    BY <1>1 DEF b, c
  <2>3. charged' = [charged EXCEPT ![e] = @ + c]
    BY <1>1 DEF c
  <2> QED BY <1>1, <1>3, <1>6, <2>1, <2>2, <2>3 DEF LedgerInv, TypeOK
<1>8. SpendAccounted'
  <2> SUFFICES ASSUME policy.ledger, NEW d \in Episodes
               PROVE  /\ charged'[d] + BudgetBefore(d)' <= InitialBudget + CapEpsilon * admits'[d]
                      /\ charged'[d] + BudgetBefore(d)' >= InitialBudget
    BY <1>1 DEF SpendAccounted
  <2>1. /\ charged[d] + BudgetBefore(d) <= InitialBudget + CapEpsilon * admits[d]
        /\ charged[d] + BudgetBefore(d) >= InitialBudget
    BY DEF LedgerInv, SpendAccounted
  <2>2. charged[d] \in Nat /\ admits[d] \in Nat /\ BudgetBefore(d) \in Nat
    BY BudgetType DEF LedgerInv, TypeOK
  <2>3. CASE d # e
    BY <1>1, <1>6, <2>1, <2>3 DEF LedgerInv, TypeOK
  <2>4. CASE d = e
    <3>1. charged'[e] = charged[e] + c /\ admits'[e] = admits[e] + 1
      BY <1>1 DEF LedgerInv, TypeOK, c
    <3>2. CapEpsilon * (admits[e] + 1) = CapEpsilon * admits[e] + CapEpsilon
      BY <2>2, <2>4, LedgerAssumption, CalibrationAssumption, DrawsAssumption
    <3>3. CapEpsilon * admits[e] \in Nat
      BY <2>2, <2>4, LedgerAssumption, CalibrationAssumption, DrawsAssumption
    <3>4. BudgetBefore(e)' = Pos(b - c) /\ BudgetBefore(e) = b
      BY <1>5, <1>6 DEF b
    <3>5. /\ charged[e] + c + Pos(b - c) <= InitialBudget + CapEpsilon * admits[e] + CapEpsilon
          /\ charged[e] + c + Pos(b - c) >= InitialBudget
      BY <1>3, <1>4, <2>1, <2>2, <2>4, <3>3, <3>4, LedgerAssumption, CalibrationAssumption, DrawsAssumption DEF Pos
    <3>6. InitialBudget + CapEpsilon * (admits[e] + 1)
              = InitialBudget + CapEpsilon * admits[e] + CapEpsilon
      BY <3>2, <3>3, LedgerAssumption, CalibrationAssumption, DrawsAssumption
    <3>7. /\ charged[e] + c + Pos(b - c) <= InitialBudget + CapEpsilon * (admits[e] + 1)
          /\ charged[e] + c + Pos(b - c) >= InitialBudget
      BY <3>5, <3>6
    <3>8. /\ charged'[e] + BudgetBefore(e)' <= InitialBudget + CapEpsilon * admits'[e]
          /\ charged'[e] + BudgetBefore(e)' >= InitialBudget
      BY <3>1, <3>4, <3>7, Zenon
    <3> QED BY <2>4, <3>8, Zenon
  <2> QED BY <2>3, <2>4
<1>9. CertMatchesBudget'
  <2> SUFFICES ASSUME NEW d \in Episodes
               PROVE  BudgetBefore(d)' = IF cert'[d].reason = "none" THEN InitialBudget
                                         ELSE Pos(cert'[d].after)
    BY DEF CertMatchesBudget
  <2>1. CASE d # e
    BY <1>1, <1>6, <2>1 DEF LedgerInv, CertMatchesBudget, TypeOK
  <2>2. CASE d = e
    <3>1. cert'[e] = Certificate("admit", b, c, IF policy.ledger THEN b - c ELSE b)
      BY <1>1 DEF LedgerInv, TypeOK, b, c
    <3>2. cert'[e].reason = "admit" /\ cert'[e].after = IF policy.ledger THEN b - c ELSE b
      BY <3>1 DEF Certificate
    <3>3. Debit(b, c) = Pos(cert'[e].after)
      BY <3>2, <1>3, <1>5, PosType DEF Debit
    <3> QED BY <2>2, <3>2, <3>3, <1>6
  <2> QED BY <2>1, <2>2
<1>10. ExhaustedStays'
  <2> SUFFICES ASSUME NEW d \in Episodes, NEW x \in exhausted[d]
               PROVE  x > BudgetBefore(d)' + CapEpsilon
    BY <1>1 DEF ExhaustedStays
  <2>1. x > BudgetBefore(d) + CapEpsilon /\ x \in Nat
    BY DEF LedgerInv, ExhaustedStays, TypeOK
  <2>2. BudgetBefore(d)' <= BudgetBefore(d) /\ BudgetBefore(d)' \in Nat /\ BudgetBefore(d) \in Nat
    BY <1>3, <1>5, <1>6, BudgetType DEF LedgerInv, b
  <2> QED BY <2>1, <2>2, LedgerAssumption, CalibrationAssumption, DrawsAssumption
<1> QED BY <1>7, <1>8, <1>9, <1>10 DEF LedgerInv

\* A refusal of the first supported row.
LEMMA RefuseStep ==
    ASSUME LedgerInv, NEW e \in Episodes, NEW o \in Opportunities, Refuse(e, o)
    PROVE  LedgerInv'
<1>1. PICK i \in DecidingLevels(o) :
        /\ Reason(o.keys[i], BudgetBefore(e), Reserve(o)) # "admit"
        /\ FallBack(e, Reason(o.keys[i], BudgetBefore(e), Reserve(o)),
                    RiskCharge(Stats(o.keys[i])))
        /\ exhausted' = [exhausted EXCEPT ![e] =
             IF Reason(o.keys[i], BudgetBefore(e), Reserve(o)) = "budget_exhausted"
             THEN @ \cup {RiskCharge(Stats(o.keys[i]))} ELSE @]
  BY DEF Refuse
<1> DEFINE st == Stats(o.keys[i])
           reason == Reason(o.keys[i], BudgetBefore(e), Reserve(o))
<1>2. RiskCharge(st) \in Nat
  BY <1>1, KeyType, StatsType DEF LedgerInv, TypeOK
<1>3. reason \in Reasons \ {"none"}
  BY DEF Reason, Reasons
<1>4. reason = "budget_exhausted" => RiskCharge(st) > BudgetBefore(e) + CapEpsilon
  BY DEF Reason, OverBudget
<1>5. \/ UNCHANGED exhausted
      \/ /\ exhausted' = [exhausted EXCEPT ![e] = @ \cup {RiskCharge(st)}]
         /\ RiskCharge(st) > BudgetBefore(e) + CapEpsilon
  <2>1. CASE reason = "budget_exhausted"
    BY <1>1, <1>4, <2>1
  <2>2. CASE reason # "budget_exhausted"
    BY <1>1, <2>2 DEF LedgerInv, TypeOK
  <2> QED BY <2>1, <2>2
<1> HIDE DEF st, reason
<1>6. FallBack(e, reason, RiskCharge(st))
  BY <1>1 DEF st, reason
<1> QED BY <1>2, <1>3, <1>5, <1>6, FallBackStep

\* LedgerInv is inductive: every decision of every controller preserves it.
LEMMA LedgerInvariant == Spec => []LedgerInv
<1>1. Init => LedgerInv
  <2> SUFFICES ASSUME Init PROVE LedgerInv
    OBVIOUS
  <2>1. \A e \in Episodes : BudgetBefore(e) = InitialBudget
    BY DEF Init, BudgetBefore
  <2>2. NoCertificate \in CertificateType /\ NoCertificate.reason = "none"
    BY DEF NoCertificate, Certificate, CertificateType, Reasons
  <2>3. TypeOK
    BY <2>2 DEF Init, TypeOK
  <2>4. SpendAccounted
    <3>1. \A e \in Episodes : charged[e] = 0 /\ admits[e] = 0
      BY DEF Init
    <3>2. CapEpsilon * 0 = 0
      BY LedgerAssumption, CalibrationAssumption, DrawsAssumption
    <3>3. 0 + InitialBudget <= InitialBudget + 0 /\ 0 + InitialBudget >= InitialBudget
      BY LedgerAssumption, CalibrationAssumption, DrawsAssumption
    <3> QED BY <2>1, <3>1, <3>2, <3>3, Zenon DEF SpendAccounted
  <2> QED BY <2>1, <2>2, <2>3, <2>4 DEF Init, LedgerInv, CertMatchesBudget, ExhaustedStays
<1>2. LedgerInv /\ [Next]_vars => LedgerInv'
  <2> SUFFICES ASSUME LedgerInv, [Next]_vars PROVE LedgerInv'
    OBVIOUS
  <2>1. CASE UNCHANGED vars
    BY <2>1 DEF LedgerInv, TypeOK, SpendAccounted, CertMatchesBudget, ExhaustedStays,
                BudgetBefore, vars
  <2>2. CASE Next
    <3>1. PICK e \in Episodes, o \in Opportunities :
            Ineligible(e, o) \/ Unsupported(e, o) \/ Refuse(e, o) \/ Admit(e, o)
      BY <2>2 DEF Next
    <3>2. CASE Ineligible(e, o)
      BY <3>2, FallBackStep DEF Ineligible, Reasons
    <3>3. CASE Unsupported(e, o)
      BY <3>3, FallBackStep DEF Unsupported, Reasons
    <3>4. CASE Refuse(e, o)
      BY <3>4, RefuseStep
    <3>5. CASE Admit(e, o)
      BY <3>5, AdmitStep
    <3> QED BY <3>1, <3>2, <3>3, <3>4, <3>5
  <2> QED BY <2>1, <2>2
<1> QED BY <1>1, <1>2, PTL DEF Spec

\* The stored budgets and the certificates keep their types; no balance is negative.
THEOREM LedgerTypeOK == Spec => []TypeOK
BY LedgerInvariant, PTL DEF LedgerInv

\* What an episode has been charged is bounded by the initial budget plus one
\* cap_epsilon per admission, for every policy parameter and stream of opportunities.
THEOREM LedgerSpendAccounted == Spec => []SpendAccounted
BY LedgerInvariant, PTL DEF LedgerInv

-----------------------------------------------------------------------------
\* Every decision writes one certificate, and it starts from the balance held.
LEMMA DecisionCertificate ==
    ASSUME LedgerInv, NEW e \in Episodes, NEW o \in Opportunities,
           Ineligible(e, o) \/ Unsupported(e, o) \/ Refuse(e, o) \/ Admit(e, o)
    PROVE  /\ cert'[e].before = BudgetBefore(e)
           /\ \A d \in Episodes \ {e} : cert'[d] = cert[d]
<1>1. PICK r, c, a : cert' = [cert EXCEPT ![e] = Certificate(r, BudgetBefore(e), c, a)]
  BY DEF Ineligible, Unsupported, Refuse, Admit, FallBack
<1> QED BY <1>1 DEF LedgerInv, TypeOK, Certificate

\* An admitted charge is within cap_epsilon of the balance it was decided against,
\* and only an admission changes an episode's count of admissions.
LEMMA AdmittedCharge ==
    ASSUME LedgerInv, NEW e \in Episodes, NEW o \in Opportunities, Admit(e, o)
    PROVE  /\ cert'[e].charge <= BudgetBefore(e) + CapEpsilon /\ cert'[e].charge \in Nat
           /\ \A d \in Episodes \ {e} : admits'[d] = admits[d]
<1>1. PICK i \in DecidingLevels(o) :
        /\ Reason(o.keys[i], BudgetBefore(e), Reserve(o)) = "admit"
        /\ cert'[e].charge = RiskCharge(Stats(o.keys[i]))
        /\ admits' = [admits EXCEPT ![e] = @ + 1]
  BY DEF Admit, Certificate, LedgerInv, TypeOK
<1>2. RiskCharge(Stats(o.keys[i])) \in Nat
  BY <1>1, KeyType, StatsType DEF LedgerInv, TypeOK
<1>3. ~OverBudget(Stats(o.keys[i]), BudgetBefore(e))
  BY <1>1 DEF Reason
<1>4. BudgetBefore(e) \in Nat
  BY BudgetType DEF LedgerInv
<1> QED BY <1>1, <1>2, <1>3, <1>4, LedgerAssumption, CalibrationAssumption, DrawsAssumption DEF OverBudget, LedgerInv, TypeOK

\* The certificates of an episode form a chain: each starts where the last one ended.
THEOREM LedgerCertificateChain == Spec => CertificateChain
<1> DEFINE A == \A e \in Episodes : cert'[e] # cert[e] =>
                  cert'[e].before = IF cert[e].reason = "none" THEN InitialBudget
                                    ELSE Pos(cert[e].after)
<1>1. LedgerInv /\ [Next]_vars => [A]_vars
  <2> SUFFICES ASSUME LedgerInv, Next PROVE A
    OBVIOUS
  <2>1. PICK e \in Episodes, o \in Opportunities :
          Ineligible(e, o) \/ Unsupported(e, o) \/ Refuse(e, o) \/ Admit(e, o)
    BY DEF Next
  <2> QED BY <2>1, DecisionCertificate DEF LedgerInv, CertMatchesBudget
<1> QED BY <1>1, LedgerInvariant, PTL DEF Spec, CertificateChain

\* A charge refused for lack of budget is never admitted later in the same episode.
THEOREM LedgerNoSecondChance == Spec => NoSecondChance
<1> DEFINE A == \A e \in Episodes : admits'[e] # admits[e] => cert'[e].charge \notin exhausted[e]
<1>1. LedgerInv /\ [Next]_vars => [A]_vars
  <2> SUFFICES ASSUME LedgerInv, Next PROVE A
    OBVIOUS
  <2>1. PICK e \in Episodes, o \in Opportunities :
          Ineligible(e, o) \/ Unsupported(e, o) \/ Refuse(e, o) \/ Admit(e, o)
    BY DEF Next
  <2>2. CASE Ineligible(e, o) \/ Unsupported(e, o) \/ Refuse(e, o)
    BY <2>2 DEF Ineligible, Unsupported, Refuse, FallBack
  <2>3. CASE Admit(e, o)
    <3>1. /\ cert'[e].charge <= BudgetBefore(e) + CapEpsilon /\ cert'[e].charge \in Nat
          /\ \A d \in Episodes \ {e} : admits'[d] = admits[d]
      BY <2>3, AdmittedCharge
    <3>2. \A x \in exhausted[e] : x \in Nat /\ x > BudgetBefore(e) + CapEpsilon
      BY DEF LedgerInv, ExhaustedStays, TypeOK
    <3>3. BudgetBefore(e) \in Nat
      BY BudgetType DEF LedgerInv
    <3>4. cert'[e].charge \notin exhausted[e]
      BY <3>1, <3>2, <3>3, LedgerAssumption, CalibrationAssumption, DrawsAssumption
    <3> QED BY <3>1, <3>4
  <2> QED BY <2>1, <2>2, <2>3
<1> QED BY <1>1, LedgerInvariant, PTL DEF Spec, NoSecondChance

-----------------------------------------------------------------------------
\* Dividing the budget by the opportunities still expected can only lower q_t + epsilon.
LEMMA ReserveLowersCap ==
    ASSUME NEW y \in Int, NEW b \in Nat, NEW eps \in Nat, NEW risk \in Nat, NEW n \in Nat,
           y * (b + eps * (1 + n)) > risk * (1 + n)
    PROVE  y * (b + eps * (1 + 0)) > risk * (1 + 0)
<1> DEFINE k == 1 + n
<1>1. k \in Nat /\ k >= 1
  OBVIOUS
<1>2. y * (b + eps * k) > risk * k
  OBVIOUS
<1> HIDE DEF k
<1>3. risk * k \in Nat /\ eps * k \in Nat /\ y * b \in Int /\ eps * y \in Int
  BY <1>1
<1>4. y > 0
  <2> SUFFICES ASSUME y <= 0 PROVE FALSE
    OBVIOUS
  <2>1. b + eps * k \in Nat
    BY <1>3
  <2>2. \A m \in Nat : y * m <= 0
    OBVIOUS
  <2>3. y * (b + eps * k) <= 0 /\ y * (b + eps * k) \in Int
    BY <2>1, <2>2
  <2> QED BY <1>2, <1>3, <2>3
<1>5. SUFFICES ASSUME y * (b + eps) <= risk PROVE FALSE
  <2>1. eps * (1 + 0) = eps /\ risk * (1 + 0) = risk /\ y * (b + eps) \in Int
    OBVIOUS
  <2> QED BY <1>5, <2>1
<1>6. (y * (b + eps)) * k <= risk * k
  BY <1>1, <1>5
<1>7. (y * (b + eps)) * k = (y * b) * k + (y * (eps * k))
  BY <1>1
<1>8. y * (b + eps * k) = y * b + y * (eps * k)
  BY <1>3
<1>9. (y * b) * k >= y * b
  <2>1. y * b \in Nat
    BY <1>4
  <2>2. \A m \in Nat : m * k >= m
    BY <1>1
  <2> QED BY <2>1, <2>2
<1>10. y * (eps * k) \in Int /\ (y * b) * k \in Int
  BY <1>1, <1>3
<1> QED BY <1>2, <1>3, <1>6, <1>7, <1>8, <1>9, <1>10

\* Whatever the policy admits while reserving budget for later opportunities it would
\* also have admitted with none expected, for every group, budget and parameter.
THEOREM LedgerReserveOnlyRestricts == Spec => []ReserveOnlyRestricts
<1>1. LedgerInv => ReserveOnlyRestricts
  <2> SUFFICES ASSUME LedgerInv, NEW e \in Episodes, NEW o \in Opportunities,
                      NEW i \in DecidingLevels(o),
                      Reason(o.keys[i], BudgetBefore(e), Reserve(o)) = "admit"
               PROVE  Reason(o.keys[i], BudgetBefore(e), 0) = "admit"
    BY DEF ReserveOnlyRestricts
  <2> DEFINE k == o.keys[i]
             b == BudgetBefore(e)
             n == Reserve(o)
  <2>1. k \in Keys /\ policy \in Policies
    BY KeyType DEF LedgerInv, TypeOK
  <2>2. b \in Nat
    BY BudgetType DEF LedgerInv
  <2>3. n \in Nat
    BY LedgerAssumption, OpportunityAssumption DEF Reserve, OpportunityType
  <2>4. CapAllows(k, b, n)
    BY DEF Reason
  <2>5. CapAllows(k, b, 0)
    <3> HIDE DEF k, b, n
    <3>1. policy.lambda \in Nat
      BY <2>1, PolicyType
    <3>2. CASE policy.variant = "independent_margins"
      <4> DEFINE y == Stats(k).benefit
                 risk == policy.lambda * Delta0 * Pos(Stats(k).inc)
      <4>1. Stats(k).benefit \in Int /\ Stats(k).inc \in Int
        BY <2>1, StatsType
      <4>2. y \in Int /\ risk \in Nat
        <5>1. Pos(Stats(k).inc) \in Nat
          BY <4>1, PosType
        <5> QED BY <3>1, <4>1, <5>1, DrawsAssumption
      <4>3. /\ CapAllows(k, b, n) <=> y * (b + CapEpsilon * (1 + n)) - risk * (1 + n) > 0
            /\ CapAllows(k, b, 0) <=> y * (b + CapEpsilon * (1 + 0)) - risk * (1 + 0) > 0
        BY <3>2 DEF CapAllows, CapDraw
      <4> HIDE DEF y, risk
      <4>4. /\ y * (b + CapEpsilon * (1 + n)) \in Int /\ risk * (1 + n) \in Int
            /\ y * (b + CapEpsilon * (1 + 0)) \in Int /\ risk * (1 + 0) \in Int
        BY <2>2, <2>3, <4>2, DrawsAssumption
      <4>5. y * (b + CapEpsilon * (1 + n)) > risk * (1 + n)
        BY <2>4, <4>3, <4>4
      <4>6. y * (b + CapEpsilon * (1 + 0)) > risk * (1 + 0)
        BY <2>2, <2>3, <4>2, <4>5, ReserveLowersCap, DrawsAssumption
      <4> QED BY <4>3, <4>4, <4>6
    <3>3. CASE policy.variant # "independent_margins"
      <4>1. Row(k).draws \in JointDraws
        BY <2>1, RowType
      <4>2. CapPositive(Row(k).draws, policy.lambda, b, n)
        BY <2>4, <3>3 DEF CapAllows
      <4>3. CapPositive(Row(k).draws, policy.lambda, b, 0)
        BY <2>2, <2>3, <3>1, <4>1, <4>2, ReserveRestrictsCap
      <4> QED BY <3>3, <4>3 DEF CapAllows
    <3> QED BY <3>2, <3>3
  <2> QED BY <2>5 DEF Reason
<1> QED BY <1>1, LedgerInvariant, PTL

-----------------------------------------------------------------------------
\* A higher price admits no group that a lower one does not.
LEMMA PriceShrinksPolicy ==
    ASSUME NEW est \in [Keys -> Estimate], NEW l \in Nat, NEW m \in Nat, l <= m
    PROVE  Admitted(est, m) \subseteq Admitted(est, l)
<1> SUFFICES ASSUME NEW k \in Admitted(est, m) PROVE k \in Admitted(est, l)
  OBVIOUS
<1>1. k \in Keys /\ Passes(est[k], m) /\ est[k].draws \in JointDraws
  BY DEF Admitted, Estimate
<1>2. InitialBudget \in Nat /\ 0 \in Nat
  BY CalibrationAssumption
<1>3. CapPositive(est[k].draws, l, InitialBudget, 0)
  BY <1>1, <1>2, PriceOnlyRestricts DEF Passes
<1> QED BY <1>1, <1>3 DEF Passes, Admitted

\* Selection among prices that contain 0 always chooses the price 0: it takes the best
\* coverage, no price covers more than 0, and of equals the least is taken.  With
\* DEFAULT_LAMBDAS, which start at 0.0, the incremental-risk price never has any effect.
THEOREM SelectsLeastPrice ==
    ASSUME NEW c \in Calibrations
    PROVE  Selected[c] = Policy(SelectEstimates[c], 0)
<1> DEFINE est == SelectEstimates[c]
           best == CHOOSE l \in Lambdas : \A m \in Lambdas : Better(est, l, m)
<1>1. est \in [Keys -> Estimate] /\ 0 \in Lambdas /\ Lambdas \subseteq Nat /\ IsFiniteSet(Keys)
  BY CalibrationAssumption
<1> HIDE DEF est
<1>2. ASSUME NEW m \in Lambdas
      PROVE  /\ Coverage(est, m) \in Nat /\ Coverage(est, 0) \in Nat
             /\ Coverage(est, m) <= Coverage(est, 0)
  <2>1. Admitted(est, m) \subseteq Admitted(est, 0)
    <3>1. m \in Nat /\ 0 \in Nat /\ 0 <= m
      BY <1>1
    <3> QED BY <1>1, <3>1, PriceShrinksPolicy
  <2>2. IsFiniteSet(Admitted(est, 0))
    BY <1>1, FS_Subset DEF Admitted
  <2> QED BY <2>1, <2>2, FS_Subset, FS_CardinalityType DEF Coverage
<1>3. \A m \in Lambdas : Better(est, 0, m)
  BY <1>1, <1>2 DEF Better
<1>4. best \in Lambdas /\ \A m \in Lambdas : Better(est, best, m)
  BY <1>1, <1>3
<1>5. best = 0
  <2> HIDE DEF best
  <2>1. Better(est, best, 0) /\ Coverage(est, best) <= Coverage(est, 0) /\ best \in Nat
    BY <1>1, <1>2, <1>4
  <2> QED BY <1>1, <1>2, <1>4, <2>1 DEF Better
<1> QED BY <1>5 DEF Selected, Select, est

\* With the price that selection chose, only lack of budget refuses a group of the
\* policy, whatever the calibration, the opportunities and the decisions before.
THEOREM LedgerOnlyBudgetRefuses == Spec => []OnlyBudgetRefuses
<1>1. LedgerInv => OnlyBudgetRefuses
  <2> SUFFICES ASSUME LedgerInv, policy.variant # "independent_margins",
                      [lambda |-> policy.lambda, keys |-> policy.keys]
                          = Selected[policy.calibration],
                      NEW e \in Episodes, NEW o \in Opportunities,
                      NEW i \in DecidingLevels(o)
               PROVE  Reason(o.keys[i], BudgetBefore(e), Reserve(o))
                          \in {"admit", "budget_exhausted"}
    BY DEF OnlyBudgetRefuses
  <2> DEFINE k == o.keys[i]
             b == BudgetBefore(e)
             n == Reserve(o)
             est == SelectEstimates[policy.calibration]
  <2>1. k \in Keys /\ k \in policy.keys /\ policy \in Policies
    BY KeyType DEF LedgerInv, TypeOK
  <2>2. b \in Nat
    BY BudgetType DEF LedgerInv
  <2>3. n \in Nat
    BY LedgerAssumption, OpportunityAssumption DEF Reserve, OpportunityType
  <2>4. policy.lambda = 0 /\ policy.keys = Admitted(est, 0)
    <3>1. [lambda |-> policy.lambda, keys |-> policy.keys] = Policy(est, 0)
      BY <2>1, PolicyType, SelectsLeastPrice
    <3> QED BY <3>1 DEF Policy
  <2>5. Passes(est[k], 0) /\ Row(k) = est[k]
    BY <2>1, <2>4 DEF Admitted, Row
  <2>6. Stats(k).abs <= EpsAbs
    <3>1. policy.calibration \in Calibrations
      BY <2>1, PolicyType
    <3>2. Stats(k).abs = RiskAbsUcb(est[k].draws)
      BY <2>1, <3>1 DEF Stats, DrawStats
    <3> QED BY <2>5, <3>2 DEF Passes
  <2>7. CapAllows(k, b, n)
    <3>1. CapPositive(Row(k).draws, 0, InitialBudget, 0) /\ Row(k).draws \in JointDraws
      BY <2>1, <2>5, RowType DEF Passes
    <3>2. InitialBudget \in Nat /\ 0 \in Nat
      BY CalibrationAssumption
    <3>3. CapPositive(Row(k).draws, 0, b, n)
      BY <2>2, <2>3, <3>1, <3>2, FreeCapIgnoresBalance
    <3> QED BY <2>4, <3>3 DEF CapAllows
  <2>8. Stats(k).abs \in Int /\ EpsAbs \in Int
    BY <2>1, StatsType, CalibrationAssumption
  <2> HIDE DEF k, b, n
  <2>9. Reason(k, b, n) \in {"admit", "budget_exhausted"}
    BY <2>6, <2>7, <2>8 DEF Reason
  <2> QED BY <2>9 DEF k, b, n
<1> QED BY <1>1, LedgerInvariant, PTL
=============================================================================
