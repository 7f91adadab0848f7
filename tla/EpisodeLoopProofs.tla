-------------------------- MODULE EpisodeLoopProofs --------------------------
(***************************************************************************)
(* Proofs about EpisodeLoop, for every set of waypoints, every kind of     *)
(* process and any number of decisions and trials.                         *)
(***************************************************************************)
EXTENDS EpisodeLoop, TLAPS

USE LoopAssumption

Busy == pc \in {"craft", "act", "end"}

(* While a subgoal is carried out, a pending opportunity is the one of its *)
(* decision; it bears the number the next outcome will have.               *)
Pending ==
    opportunity # None =>
        /\ Busy => opportunity.waypoint = waypoint /\ (Used <=> opportunity.reuse)
        /\ opportunity.id[2] = uses + fallbacks + 1
        /\ opportunity.decision <= decided
        /\ \A i \in 1..Len(rows) :
              rows[i].opportunity.decision < opportunity.decision

(* The rows a process has logged are numbered by outcomes and decisions    *)
(* that have been.                                                         *)
Numbered ==
    \A i \in 1..Len(rows) :
        /\ rows[i].opportunity.id[2] <= uses + fallbacks
        /\ rows[i].opportunity.decision <= decided

(* A process never leaves its mode: a frozen one knows no waypoint and has *)
(* no opportunity, nor has one without the protocol, and with the protocol *)
(* nothing is supervised.                                                  *)
Mode ==
    /\ config.frozen => kids = {} /\ opportunity = None
    /\ ~config.protocol => opportunity = None
    /\ config.protocol => ~supervising /\ ~blocked

(* No outcome is recorded before its decision, none while the subgoal is   *)
(* carried out, and one already at the end only for a waypoint given up.   *)
Recorded ==
    /\ \A n \in 1..MaxDecisions : n > decided => times[n] = 0
    /\ pc \in {"craft", "act"} => times[decided] = 0
    /\ pc = "end" => \/ times[decided] = 0
                     \/ times[decided] = 1 /\ failed[waypoint] = 3

LoopInv ==
    /\ TypeOK
    /\ CreditMatchesDecision
    /\ TrialsDoNotOverlap
    /\ RowsAreConsistent
    /\ OpportunitiesDistinct
    /\ Pending
    /\ Numbered
    /\ Mode
    /\ Recorded

-----------------------------------------------------------------------------
LEMMA LoopInit == Init => LoopInv
<1> SUFFICES ASSUME Init PROVE LoopInv
    OBVIOUS
<1>1. TypeOK
  <2>1. /\ rows \in Seq([opportunity : Opportunities, outcomeOf : Waypoints,
                         used : BOOLEAN])
        /\ failed \in [Waypoints -> 0..3]
      BY DEF Init
  <2>2. times \in [1..MaxDecisions -> 0..2] /\ 0 \in 0..MaxDecisions
      BY DEF Init
  <2>3. trials \in 1..MaxTrials
      BY DEF Init
  <2>4. /\ config \in Configs /\ pc = "plan" /\ main = "waiting" /\ waypoint = None
        /\ recorded = FALSE /\ last = None /\ opportunity = None /\ supervising = FALSE
        /\ blocked = FALSE /\ uses = 0 /\ fallbacks = 0 /\ kids = {} /\ contracts = {}
        /\ learned = {} /\ decays = 0 /\ decided = 0 /\ trusts = FALSE
      BY DEF Init
  <2>5. /\ recorded \in BOOLEAN /\ supervising \in BOOLEAN /\ blocked \in BOOLEAN
        /\ trusts \in BOOLEAN
      BY <2>4
  <2>6. main \in {"waiting", "joining", "idle"}
      BY <2>4
  <2>7. pc \in {"plan", "craft", "act", "end", "over"} /\ ~Busy
      BY <2>4 DEF Busy
  <2>8. decided \in 0..MaxDecisions /\ decays \in 0..1
      BY <2>4
  <2>9. waypoint \in Waypoints \union {None} /\ last \in Decisions \union {None}
        /\ opportunity \in Opportunities \union {None}
      BY <2>4
  <2>10. kids \subseteq contracts /\ contracts \subseteq Waypoints /\ learned \subseteq Waypoints
      BY <2>4
  <2>11. uses \in Nat /\ fallbacks \in Nat
      BY <2>4
  <2> QED
      BY <2>1, <2>2, <2>3, <2>4, <2>5, <2>6, <2>7, <2>8, <2>9, <2>10, <2>11 DEF TypeOK, Busy
<1>2. CreditMatchesDecision /\ TrialsDoNotOverlap /\ Pending /\ Mode
    BY DEF Init, CreditMatchesDecision, TrialsDoNotOverlap, Pending, Mode
<1>3. RowsAreConsistent /\ OpportunitiesDistinct /\ Numbered
    BY DEF Init, RowsAreConsistent, OpportunitiesDistinct, Numbered
<1>4. Recorded
    BY DEF Init, Recorded
<1> QED
    BY <1>1, <1>2, <1>3, <1>4 DEF LoopInv

-----------------------------------------------------------------------------
(* The decisions.                                                          *)

LEMMA OpportunityType ==
    ASSUME NEW o \in Opportunities
    PROVE  /\ o.id[2] \in Nat /\ o.decision \in Nat /\ o.waypoint \in Waypoints
           /\ o.reuse \in BOOLEAN
BY DEF Opportunities

LEMMA RowsType ==
    ASSUME TypeOK, NEW i \in 1..Len(rows)
    PROVE  rows[i].opportunity.id[2] \in Nat /\ rows[i].opportunity.decision \in Nat
<1> DEFINE Rows == [opportunity : Opportunities, outcomeOf : Waypoints, used : BOOLEAN]
<1>1. rows \in Seq(Rows)
    BY DEF TypeOK
<1>2. rows[i] \in Rows
  <2> HIDE DEF Rows
  <2> QED
      BY <1>1
<1>3. rows[i].opportunity \in Opportunities
    BY <1>2
<1> QED
    BY <1>3, OpportunityType

LEMMA OpportunityMade ==
    ASSUME LoopInv, NEW w \in Waypoints, NEW eligible \in BOOLEAN,
           NEW reuse \in BOOLEAN, decided < MaxDecisions
    PROVE  /\ Opportunity(w, eligible, reuse) \in Opportunities
           /\ Opportunity(w, eligible, reuse).waypoint = w
           /\ Opportunity(w, eligible, reuse).reuse = reuse
           /\ Opportunity(w, eligible, reuse).id[2] = uses + fallbacks + 1
           /\ Opportunity(w, eligible, reuse).decision = decided + 1
<1>1. uses + fallbacks + 1 \in Nat /\ decided + 1 \in 1..MaxDecisions
    BY DEF LoopInv, TypeOK
<1> QED
    BY <1>1 DEF Opportunity, OpportunityId, Opportunities

LEMMA Registered ==
    ASSUME LoopInv, NEW w \in Waypoints, Register(w)
    PROVE  /\ kids' \subseteq contracts' /\ contracts' \subseteq Waypoints
           /\ Known(w) => kids' = kids /\ contracts' = contracts
BY DEF Register, Registers, LoopInv, TypeOK

(* What each way through the gate leaves in the fields of CactMemory.      *)
LEMMA DecisionMade ==
    ASSUME LoopInv, NEW w \in Waypoints, decided < MaxDecisions,
           \/ NothingKnown(w)
           \/ Blocked(w)
           \/ DecideByProtocol(w)
           \/ DecideByController(w)
    PROVE  /\ last' \in Decisions \union {None}
           /\ supervising' \in BOOLEAN /\ trusts' \in BOOLEAN
           /\ kids' \subseteq contracts' /\ contracts' \subseteq Waypoints
           /\ learned' = learned /\ decays' \in 0..1
           /\ ~blocked => (last' # None /\ last'.trusted <=> trusts')
           /\ config.protocol => ~supervising'
           /\ config.frozen => kids' = {}
           /\ \/ opportunity' = None
              \/ /\ opportunity' \in Opportunities
                 /\ ~config.frozen /\ config.protocol
                 /\ opportunity'.waypoint = w
                 /\ last' # None /\ last'.trusted <=> opportunity'.reuse
                 /\ opportunity'.id[2] = uses + fallbacks + 1
                 /\ opportunity'.decision = decided + 1
<1>1. CASE NothingKnown(w)
  <2>1. /\ last' = None /\ trusts' = FALSE /\ opportunity' = opportunity
        /\ supervising' = supervising /\ kids' = kids /\ contracts' = contracts
        /\ learned' = learned /\ decays' = decays
      BY <1>1 DEF NothingKnown, store
  <2>2. config.frozen \/ config.base
      BY <1>1 DEF NothingKnown, MayDecide
  <2>3. opportunity = None
      BY <2>2 DEF LoopInv, Mode, TypeOK, ConfigType
  <2> QED
      BY <2>1, <2>3 DEF LoopInv, TypeOK, Mode
<1>2. CASE Blocked(w)
  <2>1. /\ blocked /\ MayDecide(w) /\ Register(w) /\ trusts' = FALSE
        /\ last' = last /\ opportunity' = opportunity /\ supervising' = supervising
        /\ learned' = learned /\ decays' = decays
      BY <1>2 DEF Blocked, decisionVars
  <2>2. ~config.frozen /\ opportunity = None
      BY <2>1 DEF LoopInv, Mode, MayDecide, Known
  <2> QED
      BY <2>1, <2>2, Registered DEF LoopInv, TypeOK, Mode
<1>3. CASE DecideByProtocol(w)
  <2>1. PICK eligible \in BOOLEAN, reuse \in BOOLEAN :
            /\ last' = [trusted |-> reuse]
            /\ opportunity' = Opportunity(w, eligible, reuse)
            /\ trusts' = reuse
      BY <1>3 DEF DecideByProtocol
  <2>2. /\ supervising' = FALSE /\ Register(w) /\ learned' = learned /\ decays' = decays
        /\ config.protocol /\ MayDecide(w)
      BY <1>3 DEF DecideByProtocol
  <2>3. ~config.frozen
      BY <2>2 DEF LoopInv, Mode, MayDecide, Known
  <2>4. last' \in Decisions /\ last' # None /\ (last'.trusted <=> reuse)
      BY <2>1 DEF Decisions
  <2>5. /\ opportunity' \in Opportunities /\ opportunity'.waypoint = w
        /\ opportunity'.reuse = reuse
        /\ opportunity'.id[2] = uses + fallbacks + 1
        /\ opportunity'.decision = decided + 1
      BY <2>1, OpportunityMade
  <2>6. (last' # None /\ last'.trusted <=> opportunity'.reuse)
          /\ (last' # None /\ last'.trusted <=> trusts') /\ trusts' \in BOOLEAN
      BY <2>1, <2>4, <2>5
  <2>7. /\ kids' \subseteq contracts' /\ contracts' \subseteq Waypoints
        /\ learned' = learned /\ decays' \in 0..1 /\ supervising' = FALSE
      BY <2>2, Registered DEF LoopInv, TypeOK
  <2> QED
      BY <2>2, <2>3, <2>4, <2>5, <2>6, <2>7
<1>4. CASE DecideByController(w)
  <2>1. PICK valid \in BOOLEAN, reuse \in BOOLEAN, supervised \in BOOLEAN :
            /\ last' = [trusted |-> reuse] /\ trusts' = reuse
            /\ supervising' = supervised
            /\ decays' = IF valid THEN 1 - decays ELSE decays
      BY <1>4 DEF DecideByController
  <2>2. /\ Register(w) /\ opportunity' = opportunity /\ learned' = learned
        /\ ~config.protocol /\ MayDecide(w)
      BY <1>4 DEF DecideByController
  <2>3. ~config.frozen /\ opportunity = None
      BY <2>2 DEF LoopInv, Mode, MayDecide, Known
  <2>4. last' \in Decisions /\ last' # None /\ (last'.trusted <=> reuse)
      BY <2>1 DEF Decisions
  <2>5. decays' \in 0..1
      BY <2>1 DEF LoopInv, TypeOK
  <2> QED
      BY <2>1, <2>2, <2>3, <2>4, <2>5, Registered
<1> QED
    BY <1>1, <1>2, <1>3, <1>4

LEMMA MakePlanKeeps ==
    ASSUME LoopInv, NEW w \in Waypoints, MakePlan(w)
    PROVE  LoopInv'
<1>1. /\ pc = "plan" /\ decided < MaxDecisions /\ decided' = decided + 1
      /\ waypoint' = w
      /\ \/ pc' \in {"craft", "act"} /\ recorded' = FALSE
         \/ pc' = "end" /\ recorded' = recorded
      /\ UNCHANGED <<config, main, failed, blocked, uses, fallbacks, rows, times, trials>>
    BY DEF MakePlan, counters
<1>2. /\ last' \in Decisions \union {None}
      /\ supervising' \in BOOLEAN /\ trusts' \in BOOLEAN
      /\ kids' \subseteq contracts' /\ contracts' \subseteq Waypoints
      /\ learned' = learned /\ decays' \in 0..1
      /\ ~blocked => (last' # None /\ last'.trusted <=> trusts')
      /\ config.protocol => ~supervising'
      /\ config.frozen => kids' = {}
      /\ \/ opportunity' = None
         \/ /\ opportunity' \in Opportunities
            /\ ~config.frozen /\ config.protocol
            /\ opportunity'.waypoint = w
            /\ last' # None /\ last'.trusted <=> opportunity'.reuse
            /\ opportunity'.id[2] = uses + fallbacks + 1
            /\ opportunity'.decision = decided + 1
    BY <1>1, DecisionMade DEF MakePlan
<1>3. decided' \in 0..MaxDecisions /\ decided' # 0
    BY <1>1 DEF LoopInv, TypeOK
<1>4. TypeOK'
  <2>1. recorded' \in BOOLEAN
      BY <1>1 DEF LoopInv, TypeOK
  <2>2. pc' \in {"craft", "act", "end"} /\ waypoint' \in Waypoints /\ waypoint' # None
      BY <1>1
  <2>3. opportunity' \in Opportunities \union {None}
      BY <1>2
  <2> QED
      BY <1>1, <1>2, <1>3, <2>1, <2>2, <2>3 DEF LoopInv, TypeOK
<1>5. CreditMatchesDecision'
    BY <1>1, <1>2 DEF CreditMatchesDecision, Used
<1>6. TrialsDoNotOverlap'
    BY <1>1 DEF LoopInv, TrialsDoNotOverlap
<1>7. RowsAreConsistent' /\ OpportunitiesDistinct'
    BY <1>1 DEF LoopInv, RowsAreConsistent, OpportunitiesDistinct
<1>8. Numbered'
  <2>1. \A i \in 1..Len(rows) : rows[i].opportunity.decision <= decided + 1
    <3>1. SUFFICES ASSUME NEW i \in 1..Len(rows)
                   PROVE  rows[i].opportunity.decision <= decided + 1
        OBVIOUS
    <3>2. rows[i].opportunity.decision <= decided
        BY DEF LoopInv, Numbered
    <3>3. rows[i].opportunity.decision \in Nat /\ decided \in Nat
        BY RowsType DEF LoopInv, TypeOK
    <3> QED
        BY <3>2, <3>3
  <2> QED
      BY <1>1, <2>1 DEF LoopInv, Numbered
<1>9. Pending'
  <2>1. SUFFICES ASSUME opportunity' # None PROVE Pending'
      BY DEF Pending
  <2>2. \A i \in 1..Len(rows) : rows[i].opportunity.decision < decided + 1
    <3>1. SUFFICES ASSUME NEW i \in 1..Len(rows)
                   PROVE  rows[i].opportunity.decision < decided + 1
        OBVIOUS
    <3>2. rows[i].opportunity.decision <= decided
        BY DEF LoopInv, Numbered
    <3>3. rows[i].opportunity.decision \in Nat /\ decided \in Nat
        BY RowsType DEF LoopInv, TypeOK
    <3> QED
        BY <3>2, <3>3
  <2> QED
      BY <1>1, <1>2, <1>3, <2>1, <2>2 DEF Pending, Used
<1>10. Mode'
    BY <1>1, <1>2 DEF LoopInv, Mode
<1>11. Recorded'
    BY <1>1, <1>3 DEF LoopInv, TypeOK, Recorded
<1> QED
    BY <1>4, <1>5, <1>6, <1>7, <1>8, <1>9, <1>10, <1>11 DEF LoopInv

-----------------------------------------------------------------------------
(* The outcomes.                                                           *)

(* An outcome joins the pending opportunity of its own decision, and gives *)
(* the next one a number of its own.                                       *)
LEMMA SaveKeeps ==
    ASSUME LoopInv, Busy, Save, config' = config
    PROVE  /\ uses' \in Nat /\ fallbacks' \in Nat
           /\ rows' \in Seq([opportunity : Opportunities, outcomeOf : Waypoints,
                             used : BOOLEAN])
           /\ opportunity' = None
           /\ learned' \subseteq Waypoints /\ decays' \in 0..1
           /\ RowsAreConsistent' /\ OpportunitiesDistinct' /\ Numbered'
           /\ Pending' /\ Mode'
           /\ times[decided] \in 0..1
           /\ times' = [times EXCEPT ![decided] = @ + 1]
           /\ times' \in [1..MaxDecisions -> 0..2]
           /\ decided' = decided /\ decided \in 1..MaxDecisions
           /\ UNCHANGED <<last, supervising, blocked, kids, contracts, trusts>>
<1>1. /\ times' = [times EXCEPT ![decided] = @ + 1] /\ opportunity' = None
      /\ UNCHANGED <<last, supervising, blocked, kids, contracts, decided, trusts>>
      /\ uses' = IF Used THEN uses + 1 ELSE uses
      /\ fallbacks' = IF Used THEN fallbacks ELSE fallbacks + 1
    BY DEF Save
<1>2. uses' \in Nat /\ fallbacks' \in Nat /\ uses' + fallbacks' = uses + fallbacks + 1
    BY <1>1 DEF LoopInv, TypeOK
<1>3. decided \in 1..MaxDecisions /\ waypoint \in Waypoints
    BY DEF LoopInv, TypeOK, Busy
<1>4. times[decided] \in 0..1
    BY DEF LoopInv, Recorded, Busy
<1>5. times' \in [1..MaxDecisions -> 0..2]
    BY <1>1, <1>3, <1>4 DEF LoopInv, TypeOK
<1>6. learned' \subseteq Waypoints /\ decays' \in 0..1
  <2>1. PICK counted \in BOOLEAN :
            learned' = IF Learns(counted) THEN learned \union {waypoint} ELSE learned
      BY DEF Save
  <2>2. PICK twentieth \in BOOLEAN :
            decays' = IF Learns(twentieth) THEN 1 - decays ELSE decays
      BY DEF Save
  <2> QED
      BY <1>3, <2>1, <2>2 DEF LoopInv, TypeOK
<1>7. Pending' /\ Mode'
    BY <1>1 DEF LoopInv, Pending, Mode
<1>8. \A i \in 1..Len(rows) :
          /\ rows[i].opportunity.id[2] < uses' + fallbacks'
          /\ rows[i].opportunity.decision <= decided
  <2>1. SUFFICES ASSUME NEW i \in 1..Len(rows)
                 PROVE  /\ rows[i].opportunity.id[2] < uses' + fallbacks'
                        /\ rows[i].opportunity.decision <= decided
      OBVIOUS
  <2>2. rows[i].opportunity.id[2] <= uses + fallbacks
          /\ rows[i].opportunity.decision <= decided
      BY DEF LoopInv, Numbered
  <2>3. rows[i].opportunity.id[2] \in Nat
      BY RowsType DEF LoopInv
  <2>4. uses + fallbacks \in Nat
      BY DEF LoopInv, TypeOK
  <2> QED
      BY <1>2, <2>2, <2>3, <2>4
<1>9. CASE opportunity = None
  <2>1. rows' = rows
      BY <1>9 DEF Save
  <2>2. RowsAreConsistent' /\ OpportunitiesDistinct'
      BY <2>1 DEF LoopInv, RowsAreConsistent, OpportunitiesDistinct
  <2>3. Numbered'
    <3>1. \A i \in 1..Len(rows) : rows[i].opportunity.id[2] <= uses' + fallbacks'
        BY <1>2, <1>8, RowsType DEF LoopInv
    <3> QED
        BY <1>1, <1>8, <2>1, <3>1 DEF Numbered
  <2> QED
      BY <1>1, <1>2, <1>3, <1>4, <1>5, <1>6, <1>7, <2>1, <2>2, <2>3 DEF LoopInv, TypeOK
<1>10. CASE opportunity # None
  <2> DEFINE row == [opportunity |-> opportunity, outcomeOf |-> waypoint, used |-> Used]
  <2>1. rows' = Append(rows, row)
      BY <1>10 DEF Save
  <2>2. opportunity \in Opportunities
      BY <1>10 DEF LoopInv, TypeOK
  <2>3. /\ opportunity.waypoint = waypoint /\ (Used <=> opportunity.reuse)
        /\ opportunity.id[2] = uses + fallbacks + 1
        /\ opportunity.decision <= decided
        /\ \A i \in 1..Len(rows) : rows[i].opportunity.decision < opportunity.decision
      BY <1>10 DEF LoopInv, Pending
  <2>4. Used \in BOOLEAN /\ Used = opportunity.reuse
      BY <2>2, <2>3, OpportunityType DEF Used
  <2>5. row \in [opportunity : Opportunities, outcomeOf : Waypoints, used : BOOLEAN]
      BY <1>3, <2>2, <2>4
  <2>6. rows \in Seq([opportunity : Opportunities, outcomeOf : Waypoints, used : BOOLEAN])
      BY DEF LoopInv, TypeOK
  <2> HIDE DEF row
  <2>7. /\ rows' \in Seq([opportunity : Opportunities, outcomeOf : Waypoints,
                          used : BOOLEAN])
        /\ Len(rows') = Len(rows) + 1 /\ Len(rows) \in Nat
        /\ rows'[Len(rows) + 1] = row
        /\ \A i \in 1..Len(rows) : rows'[i] = rows[i]
      BY <2>1, <2>5, <2>6
  <2>8. /\ row.opportunity = opportunity /\ row.outcomeOf = waypoint /\ row.used = Used
      BY DEF row
  <2>9. \A i \in 1..Len(rows') : i \in 1..Len(rows) \/ i = Len(rows) + 1
      BY <2>7
  <2>10. RowsAreConsistent'
    <3>1. SUFFICES ASSUME NEW i \in 1..Len(rows')
                   PROVE  /\ rows'[i].outcomeOf = rows'[i].opportunity.waypoint
                          /\ rows'[i].used = rows'[i].opportunity.reuse
        BY DEF RowsAreConsistent
    <3>2. CASE i \in 1..Len(rows)
        BY <2>7, <3>2 DEF LoopInv, RowsAreConsistent
    <3>3. CASE i = Len(rows) + 1
        BY <2>3, <2>4, <2>7, <2>8, <3>3
    <3> QED
        BY <2>9, <3>2, <3>3
  <2>11. \A i \in 1..Len(rows) :
            /\ rows'[i].opportunity.id # opportunity.id
            /\ rows'[i].opportunity.decision # opportunity.decision
    <3>1. SUFFICES ASSUME NEW i \in 1..Len(rows)
                   PROVE  /\ rows[i].opportunity.id # opportunity.id
                          /\ rows[i].opportunity.decision # opportunity.decision
        BY <2>7
    <3>2. rows[i].opportunity.id[2] < opportunity.id[2]
        BY <1>2, <1>8, <2>3
    <3>3. rows[i].opportunity.id[2] \in Nat /\ opportunity.id[2] \in Nat
            /\ rows[i].opportunity.decision \in Nat /\ opportunity.decision \in Nat
        BY <2>2, RowsType, OpportunityType DEF LoopInv
    <3>4. rows[i].opportunity.id[2] # opportunity.id[2]
        BY <3>2, <3>3
    <3>5. rows[i].opportunity.decision < opportunity.decision
        BY <2>3
    <3> QED
        BY <3>3, <3>4, <3>5
  <2>12. OpportunitiesDistinct'
    <3>1. SUFFICES ASSUME NEW i \in 1..Len(rows'), NEW j \in 1..Len(rows'), i # j
                   PROVE  /\ rows'[i].opportunity.id # rows'[j].opportunity.id
                          /\ rows'[i].opportunity.decision # rows'[j].opportunity.decision
        BY DEF OpportunitiesDistinct
    <3>2. CASE i \in 1..Len(rows) /\ j \in 1..Len(rows)
        BY <2>7, <3>1, <3>2 DEF LoopInv, OpportunitiesDistinct
    <3>3. CASE i \in 1..Len(rows) /\ j = Len(rows) + 1
        BY <2>7, <2>8, <2>11, <3>3
    <3>4. CASE i = Len(rows) + 1 /\ j \in 1..Len(rows)
        BY <2>7, <2>8, <2>11, <3>4
    <3> QED
        BY <2>9, <3>1, <3>2, <3>3, <3>4
  <2>13. Numbered'
    <3>1. SUFFICES ASSUME NEW i \in 1..Len(rows')
                   PROVE  /\ rows'[i].opportunity.id[2] <= uses' + fallbacks'
                          /\ rows'[i].opportunity.decision <= decided
        BY <1>1 DEF Numbered
    <3>2. CASE i \in 1..Len(rows)
      <4>1. rows[i].opportunity.id[2] \in Nat
          BY <3>2, RowsType DEF LoopInv
      <4> QED
          BY <1>2, <1>8, <2>7, <3>2, <4>1
    <3>3. CASE i = Len(rows) + 1
        BY <1>2, <2>3, <2>7, <2>8, <3>3
    <3> QED
        BY <2>9, <3>2, <3>3
  <2> QED
      BY <1>1, <1>2, <1>3, <1>4, <1>5, <1>6, <1>7, <2>7, <2>10, <2>12, <2>13
<1> QED
    BY <1>9, <1>10

(* A craft that fails is planned again, or given up after three failures;  *)
(* the outcome is the first of its decision.                               *)
LEMMA CraftFailsKeeps ==
    ASSUME LoopInv, CraftFails
    PROVE  LoopInv'
<1>1. /\ pc = "craft" /\ Save /\ failed' = FailOnce(waypoint)
      /\ pc' = IF GivesUp(failed'[waypoint]) THEN "end" ELSE "plan"
      /\ UNCHANGED <<config, main, waypoint, recorded, trials>>
    BY DEF CraftFails
<1>2. Busy /\ waypoint \in Waypoints /\ waypoint # None
    BY <1>1 DEF LoopInv, TypeOK, Busy
<1>3. /\ uses' \in Nat /\ fallbacks' \in Nat
      /\ rows' \in Seq([opportunity : Opportunities, outcomeOf : Waypoints,
                        used : BOOLEAN])
      /\ opportunity' = None
      /\ learned' \subseteq Waypoints /\ decays' \in 0..1
      /\ RowsAreConsistent' /\ OpportunitiesDistinct' /\ Numbered'
      /\ Pending' /\ Mode'
      /\ times' = [times EXCEPT ![decided] = @ + 1]
      /\ times' \in [1..MaxDecisions -> 0..2]
      /\ decided' = decided /\ decided \in 1..MaxDecisions
      /\ UNCHANGED <<last, supervising, blocked, kids, contracts, trusts>>
    BY <1>1, <1>2, SaveKeeps
<1>4. failed' \in [Waypoints -> 0..3] /\ failed'[waypoint] \in 0..3
    BY <1>1, <1>2 DEF FailOnce, LoopInv, TypeOK
<1>5. pc' \in {"plan", "end"} /\ (pc' = "end" => failed'[waypoint] = 3)
    BY <1>1, <1>4 DEF GivesUp
<1>6. TypeOK'
    BY <1>1, <1>2, <1>3, <1>4, <1>5 DEF LoopInv, TypeOK
<1>7. CreditMatchesDecision' /\ TrialsDoNotOverlap'
    BY <1>1, <1>3 DEF LoopInv, CreditMatchesDecision, TrialsDoNotOverlap, Used
<1>8. Recorded'
  <2>1. times[decided] = 0
      BY <1>1 DEF LoopInv, Recorded
  <2>2. times'[decided] = 1 /\ \A n \in 1..MaxDecisions : n # decided => times'[n] = times[n]
      BY <1>3, <2>1 DEF LoopInv, TypeOK
  <2> QED
      BY <1>1, <1>3, <1>5, <2>2 DEF LoopInv, Recorded
<1> QED
    BY <1>3, <1>6, <1>7, <1>8 DEF LoopInv

LEMMA FinishKeeps ==
    ASSUME LoopInv, Finish
    PROVE  LoopInv'
<1>1. /\ pc \in {"craft", "act"} /\ Save /\ recorded' = TRUE /\ pc' = "plan"
      /\ UNCHANGED <<config, main, waypoint, trials>>
    BY DEF Finish, AfterFinish
<1>2. Busy /\ waypoint \in Waypoints
    BY <1>1 DEF LoopInv, TypeOK, Busy
<1>3. /\ uses' \in Nat /\ fallbacks' \in Nat
      /\ rows' \in Seq([opportunity : Opportunities, outcomeOf : Waypoints,
                        used : BOOLEAN])
      /\ opportunity' = None
      /\ learned' \subseteq Waypoints /\ decays' \in 0..1
      /\ RowsAreConsistent' /\ OpportunitiesDistinct' /\ Numbered'
      /\ Pending' /\ Mode'
      /\ times' = [times EXCEPT ![decided] = @ + 1]
      /\ times' \in [1..MaxDecisions -> 0..2]
      /\ decided' = decided /\ decided \in 1..MaxDecisions
      /\ UNCHANGED <<last, supervising, blocked, kids, contracts, trusts>>
    BY <1>1, <1>2, SaveKeeps
<1>4. failed' \in [Waypoints -> 0..3]
  <2>1. PICK success \in BOOLEAN :
            failed' = IF success THEN failed ELSE FailOnce(waypoint)
      BY DEF Finish
  <2> QED
      BY <1>2, <2>1 DEF FailOnce, LoopInv, TypeOK
<1>5. TypeOK'
    BY <1>1, <1>2, <1>3, <1>4 DEF LoopInv, TypeOK
<1>6. CreditMatchesDecision' /\ TrialsDoNotOverlap'
    BY <1>1, <1>3 DEF LoopInv, CreditMatchesDecision, TrialsDoNotOverlap
<1>7. Recorded'
    BY <1>1, <1>3 DEF LoopInv, TypeOK, Recorded
<1> QED
    BY <1>3, <1>5, <1>6, <1>7 DEF LoopInv

(* A step that records nothing and changes no field of CactMemory.         *)
LEMMA NoSaveKeeps ==
    ASSUME LoopInv, NoSave, UNCHANGED <<config, blocked>>,
           Busy' => Busy /\ waypoint' = waypoint
    PROVE  /\ CreditMatchesDecision' /\ RowsAreConsistent' /\ OpportunitiesDistinct'
           /\ Pending' /\ Numbered' /\ Mode'
<1>1. UNCHANGED <<last, opportunity, supervising, uses, fallbacks, kids, rows, contracts,
                  learned, decays, decided, trusts, times, config, blocked>>
    BY DEF NoSave, decisionVars, counters, store, history
<1>2. CreditMatchesDecision'
    BY <1>1 DEF LoopInv, CreditMatchesDecision, Used, Busy
<1>3. RowsAreConsistent' /\ OpportunitiesDistinct' /\ Numbered' /\ Mode'
    BY <1>1 DEF LoopInv, RowsAreConsistent, OpportunitiesDistinct, Numbered, Mode
<1>4. Pending'
    BY <1>1 DEF LoopInv, Pending, Used
<1> QED
    BY <1>2, <1>3, <1>4

LEMMA GameOverKeeps ==
    ASSUME LoopInv, GameOver
    PROVE  LoopInv'
<1>1. /\ pc \in {"craft", "act"} /\ pc' = "end" /\ failed' = FailOnce(waypoint) /\ NoSave
      /\ UNCHANGED <<config, main, waypoint, recorded, blocked, trials>>
    BY DEF GameOver
<1>2. waypoint \in Waypoints
    BY <1>1 DEF LoopInv, TypeOK
<1>3. failed' \in [Waypoints -> 0..3]
  <2>1. failed \in [Waypoints -> 0..3]
      BY DEF LoopInv, TypeOK
  <2> QED
      BY <1>1, <1>2, <2>1 DEF FailOnce
<1>4. TypeOK'
    BY <1>1, <1>3 DEF LoopInv, TypeOK, NoSave, decisionVars, counters, store, history
<1>5. TrialsDoNotOverlap' /\ Recorded'
    BY <1>1 DEF LoopInv, TrialsDoNotOverlap, Recorded, NoSave, history
<1> QED
    BY <1>1, <1>4, <1>5, NoSaveKeeps DEF LoopInv, Busy

(* The end of the loop records an outcome unless the flag is set: it is    *)
(* the first one, or the second of a waypoint given up.                    *)
LEMMA EndKeeps ==
    ASSUME LoopInv, End
    PROVE  LoopInv'
<1>1. /\ pc = "end" /\ pc' = "over"
      /\ UNCHANGED <<config, main, waypoint, recorded, failed, trials>>
    BY DEF End
<1>2. CASE recorded
  <2>1. NoSave /\ blocked' = blocked
      BY <1>2 DEF End
  <2>2. TypeOK'
      BY <1>1, <2>1 DEF LoopInv, TypeOK, NoSave, decisionVars, counters, store, history
  <2>3. TrialsDoNotOverlap' /\ Recorded'
      BY <1>1, <2>1 DEF LoopInv, TrialsDoNotOverlap, Recorded, NoSave, history
  <2> QED
      BY <1>1, <2>1, <2>2, <2>3, NoSaveKeeps DEF LoopInv, Busy
<1>3. CASE ~recorded
  <2>1. Save /\ Busy
      BY <1>1, <1>3 DEF End, Busy
  <2>2. /\ uses' \in Nat /\ fallbacks' \in Nat
        /\ rows' \in Seq([opportunity : Opportunities, outcomeOf : Waypoints,
                          used : BOOLEAN])
        /\ opportunity' = None
        /\ learned' \subseteq Waypoints /\ decays' \in 0..1
        /\ RowsAreConsistent' /\ OpportunitiesDistinct' /\ Numbered'
        /\ Pending' /\ Mode'
        /\ times' = [times EXCEPT ![decided] = @ + 1]
        /\ times' \in [1..MaxDecisions -> 0..2]
        /\ decided' = decided /\ decided \in 1..MaxDecisions
        /\ UNCHANGED <<last, supervising, blocked, kids, contracts, trusts>>
      BY <1>1, <2>1, SaveKeeps
  <2>3. TypeOK'
      BY <1>1, <2>2 DEF LoopInv, TypeOK
  <2>4. CreditMatchesDecision' /\ TrialsDoNotOverlap'
      BY <1>1, <2>2 DEF LoopInv, CreditMatchesDecision, TrialsDoNotOverlap
  <2>5. Recorded'
      BY <1>1, <2>2 DEF LoopInv, TypeOK, Recorded
  <2> QED
      BY <2>2, <2>3, <2>4, <2>5 DEF LoopInv
<1> QED
    BY <1>2, <1>3

(* A failed reflection: the decision stays, but the process is blocked.    *)
LEMMA EnvStepKeeps ==
    ASSUME LoopInv, EnvStep
    PROVE  LoopInv'
<1>1. /\ pc = "act" /\ supervising /\ supervising' = FALSE /\ blocked' = TRUE
      /\ UNCHANGED <<config, pc, waypoint, recorded, failed, main, last, opportunity,
                     uses, fallbacks, kids, rows, contracts, learned, decays, decided,
                     trusts, times, trials>>
    BY DEF EnvStep, agentVars, counters, store, history
<1>2. TypeOK'
    BY <1>1 DEF LoopInv, TypeOK
<1>3. CreditMatchesDecision' /\ TrialsDoNotOverlap' /\ Recorded' /\ Mode'
    BY <1>1 DEF LoopInv, CreditMatchesDecision, TrialsDoNotOverlap, Recorded, Mode
<1>4. RowsAreConsistent' /\ OpportunitiesDistinct' /\ Numbered'
    BY <1>1 DEF LoopInv, RowsAreConsistent, OpportunitiesDistinct, Numbered
<1>5. Pending'
    BY <1>1 DEF LoopInv, Pending, Busy, Used
<1> QED
    BY <1>2, <1>3, <1>4, <1>5 DEF LoopInv

-----------------------------------------------------------------------------
(* The agent thread returns, and the main thread collects it.              *)

LEMMA ReturnKeeps ==
    ASSUME LoopInv, GoalAchieved \/ Abort
    PROVE  LoopInv'
<1>1. /\ pc' = "over" /\ NoSave
      /\ UNCHANGED <<config, main, waypoint, recorded, failed, blocked, trials>>
    BY DEF GoalAchieved, Abort, NoSave
<1>2. TypeOK'
    BY <1>1 DEF LoopInv, TypeOK, NoSave, decisionVars, counters, store, history
<1>3. TrialsDoNotOverlap' /\ Recorded'
    BY <1>1 DEF LoopInv, TrialsDoNotOverlap, Recorded, NoSave, history
<1> QED
    BY <1>1, <1>2, <1>3, NoSaveKeeps DEF LoopInv, Busy

LEMMA MainKeeps ==
    ASSUME LoopInv, TimeLimit \/ Collect
    PROVE  LoopInv'
<1>1. /\ main' \in {"joining", "idle"} /\ (main' = "idle" => pc = "over") /\ NoSave
      /\ UNCHANGED <<config, pc, waypoint, recorded, failed, blocked, trials>>
    BY DEF TimeLimit, Collect, AfterTimeLimit, NoSave, agentVars
<1>2. TypeOK'
    BY <1>1 DEF LoopInv, TypeOK, NoSave, decisionVars, counters, store, history
<1>3. TrialsDoNotOverlap' /\ Recorded'
    BY <1>1 DEF LoopInv, TrialsDoNotOverlap, Recorded, NoSave, history
<1> QED
    BY <1>1, <1>2, <1>3, NoSaveKeeps DEF LoopInv, Busy

(* A new trial finds the fields of CactMemory as the last one left them.   *)
LEMMA NextTrialKeeps ==
    ASSUME LoopInv, NextTrial
    PROVE  LoopInv'
<1>1. /\ trials < MaxTrials /\ trials' = trials + 1 /\ main' = "waiting" /\ pc' = "plan"
      /\ waypoint' = None /\ recorded' = FALSE
      /\ failed' = [w \in Waypoints |-> 0] /\ NoSave /\ config' = config
    BY DEF NextTrial, Submit
<1>2. blocked' \in BOOLEAN /\ (blocked' => blocked)
    BY DEF NextTrial, LoopInv, TypeOK
<1>3. UNCHANGED <<last, opportunity, supervising, uses, fallbacks, kids, rows, contracts,
                  learned, decays, decided, trusts, times>>
    BY <1>1 DEF NoSave, decisionVars, counters, store, history
<1>4. trials' \in 1..MaxTrials /\ failed' \in [Waypoints -> 0..3]
    BY <1>1 DEF LoopInv, TypeOK
<1>5. TypeOK'
    BY <1>1, <1>2, <1>3, <1>4 DEF LoopInv, TypeOK
<1>6. CreditMatchesDecision' /\ TrialsDoNotOverlap'
    BY <1>1 DEF CreditMatchesDecision, TrialsDoNotOverlap
<1>7. RowsAreConsistent' /\ OpportunitiesDistinct' /\ Numbered'
    BY <1>3 DEF LoopInv, RowsAreConsistent, OpportunitiesDistinct, Numbered
<1>8. Pending' /\ Mode' /\ Recorded'
    BY <1>1, <1>2, <1>3 DEF LoopInv, Pending, Mode, Recorded, Busy
<1> QED
    BY <1>5, <1>6, <1>7, <1>8 DEF LoopInv

(* A new process starts with fresh fields.                                 *)
LEMMA NextProcessKeeps ==
    ASSUME LoopInv, NEW c \in Configs, NextProcess(c)
    PROVE  LoopInv'
<1>1. /\ trials < MaxTrials /\ trials' = trials + 1 /\ main' = "waiting" /\ pc' = "plan"
      /\ waypoint' = None /\ recorded' = FALSE
      /\ failed' = [w \in Waypoints |-> 0] /\ config' = c
      /\ last' = None /\ opportunity' = None
      /\ supervising' = FALSE /\ blocked' = FALSE
      /\ uses' = 0 /\ fallbacks' = 0 /\ kids' = {} /\ rows' = << >> /\ trusts' = FALSE
      /\ UNCHANGED <<contracts, learned, decays, decided, times>>
    BY DEF NextProcess, Submit, store
<1>2. trials' \in 1..MaxTrials /\ failed' \in [Waypoints -> 0..3]
    BY <1>1 DEF LoopInv, TypeOK
<1>3. rows' \in Seq([opportunity : Opportunities, outcomeOf : Waypoints, used : BOOLEAN])
        /\ Len(rows') = 0
    BY <1>1
<1>4. TypeOK'
    BY <1>1, <1>2, <1>3 DEF LoopInv, TypeOK
<1>5. CreditMatchesDecision' /\ TrialsDoNotOverlap' /\ Pending' /\ Mode' /\ Recorded'
    BY <1>1 DEF LoopInv, CreditMatchesDecision, TrialsDoNotOverlap, Pending, Mode, Recorded
<1>6. RowsAreConsistent' /\ OpportunitiesDistinct' /\ Numbered'
    BY <1>3 DEF RowsAreConsistent, OpportunitiesDistinct, Numbered
<1> QED
    BY <1>4, <1>5, <1>6 DEF LoopInv

LEMMA StutterKeeps ==
    ASSUME LoopInv, UNCHANGED vars
    PROVE  LoopInv'
<1>1. NoSave /\ UNCHANGED <<config, pc, main, waypoint, recorded, failed, blocked, trials>>
    BY DEF vars, NoSave, agentVars
<1>2. TypeOK'
    BY <1>1 DEF LoopInv, TypeOK, NoSave, decisionVars, counters, store, history
<1>3. TrialsDoNotOverlap' /\ Recorded'
    BY <1>1 DEF LoopInv, TrialsDoNotOverlap, Recorded, NoSave, history
<1> QED
    BY <1>1, <1>2, <1>3, NoSaveKeeps DEF LoopInv, Busy

LEMMA LoopNext ==
    ASSUME LoopInv, [Next]_vars
    PROVE  LoopInv'
<1>1. CASE Agent
    BY <1>1, MakePlanKeeps, ReturnKeeps, CraftFailsKeeps, EnvStepKeeps, FinishKeeps,
       GameOverKeeps, EndKeeps DEF Agent
<1>2. CASE TimeLimit \/ Collect
    BY <1>2, MainKeeps
<1>3. CASE NextTrial
    BY <1>3, NextTrialKeeps
<1>4. CASE \E c \in Configs : NextProcess(c)
    BY <1>4, NextProcessKeeps
<1>5. CASE UNCHANGED vars
    BY <1>5, StutterKeeps
<1> QED
    BY <1>1, <1>2, <1>3, <1>4, <1>5 DEF Next

-----------------------------------------------------------------------------
(* The strengthened invariant holds of every reachable state.              *)
THEOREM LoopInvariant == Spec => []LoopInv
<1>1. LoopInv /\ [Next]_vars => LoopInv'
    BY LoopNext
<1> QED
    BY LoopInit, <1>1, PTL DEF Spec

(* The fields of CactMemory and the locals of the loop keep their types; in*)
(* particular no outcome is recorded more than twice.                      *)
THEOREM LoopTypeOK == Spec => []TypeOK
<1>1. LoopInv => TypeOK
    BY DEF LoopInv
<1> QED
    BY <1>1, LoopInvariant, PTL

(* No two opportunities a process logs have one identifier.                *)
THEOREM LoopOpportunitiesDistinct == Spec => []OpportunitiesDistinct
<1>1. LoopInv => OpportunitiesDistinct
    BY DEF LoopInv
<1> QED
    BY <1>1, LoopInvariant, PTL

(* A logged opportunity has the outcome and the arm of its own decision.   *)
THEOREM LoopRowsAreConsistent == Spec => []RowsAreConsistent
<1>1. LoopInv => RowsAreConsistent
    BY DEF LoopInv
<1> QED
    BY <1>1, LoopInvariant, PTL

(* An outcome is credited as a reuse exactly if its decision was to reuse, *)
(* unless a reflection has failed.                                         *)
THEOREM LoopCreditMatchesDecision == Spec => []CreditMatchesDecision
<1>1. LoopInv => CreditMatchesDecision
    BY DEF LoopInv
<1> QED
    BY <1>1, LoopInvariant, PTL

(* No agent thread outlives its trial.                                     *)
THEOREM LoopTrialsDoNotOverlap == Spec => []TrialsDoNotOverlap
<1>1. LoopInv => TrialsDoNotOverlap
    BY DEF LoopInv
<1> QED
    BY <1>1, LoopInvariant, PTL

(* Only the three actions that save add to what is recorded, each once, at *)
(* a point where the invariant says what was recorded before.              *)
LEMMA RecordsAsSaved ==
    ASSUME LoopInv, [Next]_vars, NEW n \in DOMAIN times, times'[n] > times[n]
    PROVE  \/ times[n] = 0
           \/ times[n] = 1 /\ pc = "end" /\ failed[waypoint] = 3
<1>1. times' # times /\ times[n] \in 0..2
    BY DEF LoopInv, TypeOK
<1>2. Save /\ Busy
  <2>1. CASE Agent
    <3>1. ~(\E w \in Waypoints : MakePlan(w)) /\ ~GoalAchieved /\ ~EnvStep /\ ~GameOver
            /\ ~Abort
        BY <1>1 DEF MakePlan, GoalAchieved, EnvStep, GameOver, Abort, NoSave, history
    <3> QED
        BY <1>1, <2>1, <3>1 DEF Agent, CraftFails, Finish, End, NoSave, history, Busy
  <2>2. CASE ~Agent
      BY <1>1, <2>2 DEF Next, TimeLimit, Collect, NextTrial, NextProcess, NoSave,
         history, vars
  <2> QED
      BY <2>1, <2>2
<1>3. times' = [times EXCEPT ![decided] = @ + 1]
    BY <1>2 DEF Save
<1>4. n = decided
    BY <1>1, <1>3 DEF LoopInv, TypeOK
<1> QED
    BY <1>2, <1>4 DEF LoopInv, Recorded, Busy

(* The outcome of a decision is recorded once, but for waypoints given up. *)
THEOREM LoopRecordedTwiceOnlyWhenGivenUp == Spec => RecordedTwiceOnlyWhenGivenUp
<1> DEFINE Once == \A n \in DOMAIN times :
                      times'[n] > times[n] =>
                          \/ times[n] = 0
                          \/ times[n] = 1 /\ pc = "end" /\ failed[waypoint] = 3
<1>1. LoopInv /\ [Next]_vars => [Once]_vars
    BY RecordsAsSaved
<1> QED
    BY <1>1, LoopInvariant, PTL DEF Spec, RecordedTwiceOnlyWhenGivenUp

(* Under the protocol a frozen process reads the store it shares and never *)
(* changes it.                                                             *)
THEOREM LoopFrozenReadOnly == Spec => FrozenReadOnly
<1> DEFINE ReadOnly == config.frozen /\ config.protocol => UNCHANGED store
<1>1. ASSUME [Next]_vars, config.frozen, config.protocol
      PROVE  UNCHANGED store
  <2>1. ASSUME NEW w \in Waypoints, MakePlan(w)
        PROVE  UNCHANGED store
    <3>1. ASSUME Register(w), Known(w)
          PROVE  contracts' = contracts
        BY <3>1 DEF Register, Registers
    <3>2. MayDecide(w) => Known(w)
        BY <1>1 DEF MayDecide
    <3>3. CASE NothingKnown(w)
        BY <3>3 DEF NothingKnown
    <3>4. CASE Blocked(w)
        BY <3>1, <3>2, <3>4 DEF Blocked, store
    <3>5. CASE DecideByProtocol(w)
        BY <3>1, <3>2, <3>5 DEF DecideByProtocol, store
    <3>6. CASE DecideByController(w)
        BY <1>1, <3>6 DEF DecideByController
    <3> QED
        BY <2>1, <3>3, <3>4, <3>5, <3>6 DEF MakePlan
  <2>2. ASSUME Save
        PROVE  UNCHANGED store
      BY <1>1, <2>2 DEF Save, Learns, store
  <2>3. CASE Agent
      BY <2>1, <2>2, <2>3 DEF Agent, GoalAchieved, CraftFails, EnvStep, Finish, GameOver,
         End, Abort, NoSave
  <2>4. CASE ~Agent
      BY <1>1, <2>4 DEF Next, TimeLimit, Collect, NextTrial, NextProcess, NoSave, vars
  <2> QED
      BY <2>3, <2>4
<1>2. [Next]_vars => [ReadOnly]_vars
    BY <1>1
<1> QED
    BY <1>2, PTL DEF Spec, FrozenReadOnly
=============================================================================
