------------------------- MODULE PolicyCalibration -------------------------
(***************************************************************************)
(* PolicyCalibrator (cact/protocol_v2.py) as calibrate_v2.py uses it: for  *)
(* each price the groups a policy with that price would admit, the choice  *)
(* of a price on one set of episodes and the audit of the chosen policy on *)
(* another.  The groups' estimates are constants; how they are computed    *)
(* from episodes (AIPW, bootstrap, shrinkage) is not modelled.             *)
(***************************************************************************)
EXTENDS CapDraws

CONSTANTS
    Keys,            \* the groups, of all four levels
    Lambdas,         \* DEFAULT_LAMBDAS
    EpsAbs, EpsInc,  \* absolute and incremental risk limits
    InitialBudget,   \* DEFAULT_BUDGET
    Calibrations,    \* the calibrations that may have been carried out
    SelectEstimates, \* the estimates of each from D_select ...
    AuditEstimates   \* ... and from D_audit

(* A group's estimate.  "margin" holds the point estimates and standard    *)
(* errors that only the independent_margins ablation uses.                 *)
Estimate == [supported : BOOLEAN, draws : JointDraws,
             margin : [y : Int, seY : Nat, inc : Int, seInc : Nat, abs : Int, seAbs : Nat]]

ASSUME CalibrationAssumption ==
    /\ IsFiniteSet(Keys)
    /\ Lambdas \subseteq Nat /\ 0 \in Lambdas
    /\ EpsAbs \in Int /\ EpsInc \in Int /\ InitialBudget \in Nat
    /\ SelectEstimates \in [Calibrations -> [Keys -> Estimate]]
    /\ AuditEstimates \in [Calibrations -> [Keys -> Estimate]]

(* _candidate                                                              *)
Passes(row, lambda) ==
    /\ row.supported
    /\ RiskAbsUcb(row.draws) <= EpsAbs
    /\ CapPositive(row.draws, lambda, InitialBudget, 0)

Admitted(est, lambda) == {k \in Keys : Passes(est[k], lambda)}

Coverage(est, lambda) == Cardinality(Admitted(est, lambda))

(* Mutant: of equally good prices the highest is kept.                     *)
BetterOrHigher(est, l, m) ==
    \/ Coverage(est, l) > Coverage(est, m)
    \/ Coverage(est, l) = Coverage(est, m) /\ l >= m

(* The number of supported groups is the same for every price.             *)
Better(est, l, m) ==
    \/ Coverage(est, l) > Coverage(est, m)
    \/ Coverage(est, l) = Coverage(est, m) /\ l <= m

(* select: the policy keeps the groups it admits, and only these.          *)
Policy(est, lambda) == [lambda |-> lambda, keys |-> Admitted(est, lambda)]
Select(est, lambdas) ==
    Policy(est, CHOOSE l \in lambdas : \A m \in lambdas : Better(est, l, m))

Audit(p, est) == p.keys # {} /\ p.keys \subseteq Admitted(est, p.lambda)

(* calibrate_v2 writes a policy only if the audit of the selected one      *)
(* passes; with a price chosen by direct rollouts it selects and audits    *)
(* once more, with that price alone.                                       *)
Selected == [c \in Calibrations |-> Select(SelectEstimates[c], Lambdas)]

Direct(c) == {Select(SelectEstimates[c], {l}) : l \in Lambdas}

Written ==
    [c \in Calibrations |->
        IF ~Audit(Selected[c], AuditEstimates[c]) THEN {}
        ELSE {p \in {Selected[c]} \union Direct(c) : Audit(p, AuditEstimates[c])}]
=============================================================================
