----------------------------- MODULE DurableStore -----------------------------
(***************************************************************************)
(* What a process may rely on when it keeps its memory in several files:   *)
(* an operation changes memory at once and then saves it part by part, in  *)
(* one order, each part whole or not at all.  Only the part that is        *)
(* written in place may be found blank.  The process may stop at any       *)
(* point; the next one has what was kept.                                  *)
(***************************************************************************)
EXTENDS Naturals

CONSTANTS
    Parts,     \* the parts are numbered 1..Parts in the order they are saved
    InPlace,   \* the part that is written in place
    Late,      \* the part an operation may still change after it was saved
    Blank      \* what a part that was being written in place is read back as

VARIABLES
    live,      \* memory, part by part
    kept,      \* what a new process would have
    saving,    \* the part to be saved next; Rest between two operations
    up         \* whether a process runs

Rest == 0
AllSaved == Parts + 1
store == <<live, kept, saving, up>>

Init ==
    /\ kept = live
    /\ saving = Rest
    /\ up = TRUE

(* Saving begins with part p: the parts before it have not changed.        *)
Operate(p) ==
    /\ up
    /\ saving = Rest
    /\ \A q \in 1..Parts : q < p => live'[q] = live[q]
    /\ saving' = p
    /\ UNCHANGED <<kept, up>>

Empty ==
    /\ up
    /\ saving = InPlace
    /\ kept' = [kept EXCEPT ![InPlace] = Blank]
    /\ UNCHANGED <<live, saving, up>>

(* The last part ends the operation, or leaves it with a late change.      *)
Save(p) ==
    /\ up
    /\ saving = p
    /\ kept' = [kept EXCEPT ![p] = live[p]]
    /\ saving' \in {p + 1} \union IF p = Parts THEN {Rest} ELSE {}
    /\ UNCHANGED <<live, up>>

ChangeLate ==
    /\ up
    /\ saving = AllSaved
    /\ \A q \in 1..Parts : q # Late => live'[q] = live[q]
    /\ saving' = Rest
    /\ UNCHANGED <<kept, up>>

Stop ==
    /\ up
    /\ up' = FALSE
    /\ saving' = Rest
    /\ UNCHANGED <<live, kept>>

Recover ==
    /\ ~up
    /\ up' = TRUE
    /\ live' = kept
    /\ UNCHANGED <<kept, saving>>

Next ==
    \/ \E p \in 1..Parts : Operate(p) \/ Save(p)
    \/ Empty \/ ChangeLate \/ Stop \/ Recover

Spec == Init /\ [][Next]_store
=============================================================================
