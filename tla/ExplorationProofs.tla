------------------------- MODULE ExplorationProofs -------------------------
(***************************************************************************)
(* What several exploring processes keep, whatever the recipes, the        *)
(* answers of the planner and the number of processes are: an unreadable   *)
(* file is about to be written, no episode is lost from the count, goals   *)
(* are shared out without conflict as long as no update overlaps another,  *)
(* goals are chosen in a graph without cycles, every variable keeps its    *)
(* shape, and nothing unverified is planned with an inadmissible item.     *)
(*                                                                         *)
(* Most steps are alike for these properties: they write at most one       *)
(* recipe or memory file and leave goals, claims and the count alone.      *)
(* OtherStep says so; every action that changes more has a lemma.  The     *)
(* types, in the second half, have an invariant of their own, TypeInv: a   *)
(* call names an item where it needs one, a process with a subgoal has a   *)
(* waypoint, and no item is both verified and hypothesized.                *)
(***************************************************************************)
EXTENDS Exploration, RecipeGraphProofs, FiniteSetTheorems, TLAPS

Counters == {GoalsFile, EpisodesFile}

(* Until a file is disturbed it has at most one writer, and is empty as    *)
(* long as it has one.                                                     *)
FilesInv ==
    /\ disk = [f \in Files |-> disk[f]]
    /\ pending = [p \in Procs |-> pending[p]]
    /\ UnreadableIsPending
    /\ \A f \in Files : f \notin disturbed =>
          /\ Writers(f) # {} => disk[f] = Empty
          /\ \A p, q \in Writers(f) : p = q

(* An undisturbed file that says v, or will.                               *)
Says(f, v) ==
    /\ f \in Files /\ f \notin disturbed
    /\ Arriving(f) = {v}
    /\ Writers(f) = {} => disk[f].state = "whole"

-----------------------------------------------------------------------------
(* The four ways a file changes keep FilesInv.                             *)
LEMMA RewriteKeepsFiles ==
    ASSUME FilesInv, NEW p \in Procs, Quiet(p), NEW f, NEW d, Rewrite(p, f, d)
    PROVE  FilesInv'
<1>1. /\ disk' = [disk EXCEPT ![f] = Empty]
      /\ pending' = [pending EXCEPT ![p] = <<f, d>>]
      /\ disturbed' = IF Garbled(f) THEN disturbed \union {f} ELSE disturbed
  BY DEF Rewrite
<1>2. disk' = [g \in Files |-> disk'[g]] /\ pending' = [q \in Procs |-> pending'[q]]
  BY <1>1 DEF FilesInv
<1>3. pending'[p] = <<f, d>> /\ \A q \in Procs \ {p} : pending'[q] = pending[q]
  BY <1>1 DEF FilesInv
<1>4. \A g : g # f => Writers(g)' = Writers(g)
  BY <1>3 DEF Writers, Quiet
<1>5. Writers(f)' = Writers(f) \union {p}
  BY <1>3 DEF Writers, Quiet
<1>6. \A g \in Files : disk'[g] = IF g = f THEN Empty ELSE disk[g]
  BY <1>1 DEF FilesInv
<1>7. DOMAIN disk = Files /\ DOMAIN disk' = Files
  BY <1>2 DEF FilesInv
<1>8. f \in Files /\ f \notin disturbed' => Writers(f) = {}
  BY <1>1 DEF FilesInv, Garbled, Empty
<1>9. \A g \in Files : g \notin disturbed' =>
          /\ Writers(g)' # {} => disk'[g] = Empty
          /\ \A q, r \in Writers(g)' : q = r
  BY <1>1, <1>4, <1>5, <1>6, <1>8 DEF FilesInv
<1>10. UnreadableIsPending'
  <2> SUFFICES ASSUME NEW g \in Files
               PROVE  /\ disk'[g].state = "empty" => Writers(g)' # {}
                      /\ disk'[g].state = "torn" => g \in disturbed'
    BY <1>7 DEF UnreadableIsPending
  <2>1. CASE g = f
    BY <1>5, <1>6, <2>1 DEF Empty
  <2>2. CASE g # f
    BY <1>1, <1>4, <1>6, <1>7, <2>2 DEF UnreadableIsPending, FilesInv
  <2> QED
    BY <2>1, <2>2
<1> QED
  BY <1>2, <1>9, <1>10 DEF FilesInv

LEMMA ReplaceKeepsFiles ==
    ASSUME FilesInv, NEW f, NEW d, Replace(f, d)
    PROVE  FilesInv'
<1>1. /\ disk' = [disk EXCEPT ![f] = Whole(d)] /\ pending' = pending
      /\ disturbed' = IF Garbled(f) THEN disturbed \union {f} ELSE disturbed
  BY DEF Replace
<1>2. disk' = [g \in Files |-> disk'[g]] /\ pending' = [q \in Procs |-> pending'[q]]
  BY <1>1 DEF FilesInv
<1>3. \A g : Writers(g)' = Writers(g)
  BY <1>1 DEF Writers, Quiet
<1>4. \A g \in Files : disk'[g] = IF g = f THEN Whole(d) ELSE disk[g]
  BY <1>1 DEF FilesInv
<1>5. DOMAIN disk = Files /\ DOMAIN disk' = Files
  BY <1>2 DEF FilesInv
<1>6. f \in Files /\ f \notin disturbed' => Writers(f) = {}
  BY <1>1 DEF FilesInv, Garbled, Empty
<1>7. UnreadableIsPending'
  BY <1>1, <1>3, <1>4, <1>5 DEF UnreadableIsPending, FilesInv, Whole
<1>8. \A g \in Files : g \notin disturbed' =>
          /\ Writers(g)' # {} => disk'[g] = Empty
          /\ \A q, r \in Writers(g)' : q = r
  BY <1>1, <1>3, <1>4, <1>6 DEF FilesInv
<1> QED
  BY <1>2, <1>7, <1>8 DEF FilesInv

LEMMA RemoveKeepsFiles ==
    ASSUME FilesInv, NEW f, RemoveFile(f)
    PROVE  FilesInv'
<1>1. /\ disk' = [disk EXCEPT ![f] = Missing]
      /\ pending' = [q \in Procs |-> IF q \in Writers(f) THEN <<>> ELSE pending[q]]
      /\ disturbed' = disturbed
  BY DEF RemoveFile, AbandonedOnRemoval
<1>2. disk' = [g \in Files |-> disk'[g]] /\ pending' = [q \in Procs |-> pending'[q]]
  BY <1>1 DEF FilesInv
<1>3. \A q \in Procs : pending'[q] = IF q \in Writers(f) THEN <<>> ELSE pending[q]
  BY <1>1
<1>4. Writers(f)' = {}
  BY <1>3 DEF Writers, Quiet
<1>5. \A g : g # f => Writers(g)' = Writers(g)
  BY <1>3 DEF Writers, Quiet
<1>6. \A g \in Files : disk'[g] = IF g = f THEN Missing ELSE disk[g]
  BY <1>1 DEF FilesInv
<1>7. DOMAIN disk = Files /\ DOMAIN disk' = Files
  BY <1>2 DEF FilesInv
<1>8. UnreadableIsPending'
  BY <1>1, <1>5, <1>6, <1>7 DEF UnreadableIsPending, FilesInv, Missing
<1>9. \A g \in Files : g \notin disturbed' =>
          /\ Writers(g)' # {} => disk'[g] = Empty
          /\ \A q, r \in Writers(g)' : q = r
  BY <1>1, <1>4, <1>5, <1>6 DEF FilesInv
<1> QED
  BY <1>2, <1>8, <1>9 DEF FilesInv

LEMMA CloseKeepsFiles ==
    ASSUME FilesInv, NEW p \in Procs, CloseFile(p)
    PROVE  /\ FilesInv'
           /\ \A c \in Files : \A v : Says(c, v) => Says(c, v)'
<1>0. PICK f, d : f = pending[p][1] /\ d = Dumped(p)
  OBVIOUS
<1>1. /\ p \in Writers(f)
      /\ pending' = [pending EXCEPT ![p] = <<>>]
      /\ disturbed' = disturbed
  BY <1>0 DEF CloseFile, Writers
<1>2. \/ disk' = [disk EXCEPT ![f] = Whole(d)]
      \/ disk[f] # Empty /\ disk' = [disk EXCEPT ![f] = Torn]
  BY <1>0 DEF CloseFile
<1>3. disk' = [g \in Files |-> disk'[g]] /\ pending' = [q \in Procs |-> pending'[q]]
  BY <1>1, <1>2 DEF FilesInv
<1>4. pending'[p] = <<>> /\ \A q \in Procs \ {p} : pending'[q] = pending[q]
  BY <1>1 DEF FilesInv
<1>5. \A g : g # f => Writers(g)' = Writers(g)
  BY <1>0, <1>4 DEF Writers, Quiet
<1>6. Writers(f)' = Writers(f) \ {p}
  BY <1>4 DEF Writers, Quiet
<1>7. \A g \in Files : g # f => disk'[g] = disk[g]
  BY <1>2 DEF FilesInv
<1>8. f \in Files => disk'[f] = Whole(d) \/ (disk[f] # Empty /\ disk'[f] = Torn)
  BY <1>2 DEF FilesInv
<1>9. DOMAIN disk = Files /\ DOMAIN disk' = Files
  BY <1>3 DEF FilesInv
<1>10. f \in Files /\ f \notin disturbed =>
           Writers(f) = {p} /\ Writers(f)' = {} /\ disk'[f] = Whole(d)
  BY <1>1, <1>6, <1>8 DEF FilesInv
<1>11. UnreadableIsPending'
  <2> SUFFICES ASSUME NEW g \in Files
               PROVE  /\ disk'[g].state = "empty" => Writers(g)' # {}
                      /\ disk'[g].state = "torn" => g \in disturbed'
    BY <1>9 DEF UnreadableIsPending
  <2>1. CASE g = f
    BY <1>1, <1>8, <1>10, <2>1 DEF Whole, Torn
  <2>2. CASE g # f
    BY <1>1, <1>5, <1>7, <1>9, <2>2 DEF UnreadableIsPending, FilesInv
  <2> QED
    BY <2>1, <2>2
<1>12. \A g \in Files : g \notin disturbed' =>
          /\ Writers(g)' # {} => disk'[g] = Empty
          /\ \A q, r \in Writers(g)' : q = r
  BY <1>1, <1>5, <1>7, <1>10 DEF FilesInv
<1>13. ASSUME NEW c \in Files, NEW v, Says(c, v)
       PROVE  Says(c, v)'
  <2>1. c \notin disturbed /\ Arriving(c) = {v}
    BY <1>13 DEF Says
  <2>2. CASE c = f
    <3>1. Writers(c)' = {} /\ disk'[c] = Whole(d) /\ Writers(c) = {p}
      BY <1>10, <2>1, <2>2
    <3>2. v = Dumped(p)
      BY <2>1, <3>1 DEF Arriving
    <3> QED
      BY <1>0, <1>1, <2>1, <3>1, <3>2 DEF Says, Arriving, Contents, Whole
  <2>3. CASE c # f
    <3>1. Writers(c)' = Writers(c) /\ disk'[c] = disk[c]
      BY <1>5, <1>7, <2>3
    <3>2. \A q \in Writers(c) : Dumped(q)' = Dumped(q)
      BY <1>0, <1>1, <1>4, <2>3 DEF Writers, Dumped
    <3>3. Arriving(c)' = Arriving(c)
      BY <3>1, <3>2 DEF Arriving, Contents
    <3> QED
      BY <1>1, <1>13, <3>1, <3>3 DEF Says
  <2> QED
    BY <2>2, <2>3
<1> QED
  BY <1>3, <1>11, <1>12, <1>13 DEF FilesInv

(* Writing or removing a file leaves what the others say.                  *)
LEMMA OthersKeepSaying ==
    ASSUME FilesInv, NEW p \in Procs, NEW f, NEW d,
           (Quiet(p) /\ Rewrite(p, f, d)) \/ RemoveFile(f) \/ Replace(f, d),
           NEW c \in Files, c # f, NEW v, Says(c, v)
    PROVE  Says(c, v)'
<1>1. CASE Quiet(p) /\ Rewrite(p, f, d)
  <2>1. \A q \in Procs \ {p} : pending'[q] = pending[q]
    BY <1>1 DEF Rewrite, FilesInv
  <2>2. pending'[p] = <<f, d>>
    BY <1>1 DEF Rewrite, FilesInv
  <2>3. disk'[c] = disk[c] /\ c \notin disturbed'
    BY <1>1 DEF Rewrite, FilesInv, Says
  <2>4. Writers(c)' = Writers(c) /\ p \notin Writers(c)
    BY <1>1, <2>1, <2>2 DEF Writers, Quiet
  <2>5. \A q \in Writers(c) : Dumped(q)' = Dumped(q)
    BY <2>1, <2>4 DEF Writers, Dumped
  <2>6. Arriving(c)' = Arriving(c)
    BY <2>3, <2>4, <2>5 DEF Arriving, Contents
  <2> QED
    BY <2>3, <2>4, <2>6 DEF Says
<1>2. CASE RemoveFile(f)
  <2>1. \A q \in Procs : pending'[q] = IF q \in Writers(f) THEN <<>> ELSE pending[q]
    BY <1>2 DEF RemoveFile, AbandonedOnRemoval
  <2>2. disk'[c] = disk[c] /\ c \notin disturbed'
    BY <1>2 DEF RemoveFile, FilesInv, Says
  <2>3. Writers(c)' = Writers(c)
    BY <2>1 DEF Writers, Quiet
  <2>4. \A q \in Writers(c) : Dumped(q)' = Dumped(q)
    BY <2>1 DEF Writers, Dumped
  <2>5. Arriving(c)' = Arriving(c)
    BY <2>2, <2>3, <2>4 DEF Arriving, Contents
  <2> QED
    BY <2>2, <2>3, <2>5 DEF Says
<1>3. CASE Replace(f, d)
  <2>1. pending' = pending
    BY <1>3 DEF Replace
  <2>2. disk'[c] = disk[c] /\ c \notin disturbed'
    BY <1>3 DEF Replace, FilesInv, Says
  <2>3. Writers(c)' = Writers(c)
    BY <2>1 DEF Writers, Quiet
  <2>4. Arriving(c)' = Arriving(c)
    BY <2>1, <2>2, <2>3 DEF Arriving, Contents, Dumped
  <2> QED
    BY <2>2, <2>3, <2>4 DEF Says
<1> QED
  BY <1>1, <1>2, <1>3

(* A file rewritten undisturbed says what is written.                      *)
LEMMA RewrittenSays ==
    ASSUME FilesInv, NEW p \in Procs, Quiet(p), NEW f \in Files, NEW d,
           Rewrite(p, f, d), f \notin disturbed'
    PROVE  Says(f, d)'
<1>1. f \notin disturbed /\ ~Garbled(f)
  BY DEF Rewrite
<1>2. Writers(f) = {}
  BY <1>1 DEF FilesInv, Garbled, Empty
<1>3. pending'[p] = <<f, d>> /\ \A q \in Procs \ {p} : pending'[q] = pending[q]
  BY DEF Rewrite, FilesInv
<1>4. Writers(f)' = {p}
  BY <1>2, <1>3 DEF Writers, Quiet
<1>5. Dumped(p)' = d
  BY <1>3 DEF Dumped
<1> QED
  BY <1>4, <1>5 DEF Says, Arriving

LEMMA ReplacedSays ==
    ASSUME FilesInv, NEW f \in Files, NEW d, Replace(f, d), f \notin disturbed'
    PROVE  Says(f, d)'
<1>1. f \notin disturbed /\ ~Garbled(f) /\ pending' = pending
  BY DEF Replace
<1>2. Writers(f)' = {}
  BY <1>1 DEF FilesInv, Garbled, Empty, Writers, Quiet
<1>3. disk'[f] = Whole(d)
  BY DEF Replace, FilesInv
<1> QED
  BY <1>2, <1>3 DEF Says, Arriving, Contents, Whole

(* What can be read is what the file says.                                 *)
LEMMA ReadableSays ==
    ASSUME FilesInv, NEW f, NEW v, Says(f, v), Readable(f)
    PROVE  Contents(f) = v
BY DEF FilesInv, Says, Readable, Arriving, Empty

-----------------------------------------------------------------------------
(* The inductive invariant.                                                *)
Acyclic(g) == \A i \in g.hypothesized : ~OnCycle(g.needs, i)

ProgInv ==
    /\ pc = [p \in Procs |-> pc[p]]
    /\ todo = [p \in Procs |-> todo[p]]
    /\ graph = [p \in Procs |-> graph[p]]
    /\ goal = [p \in Procs |-> goal[p]]
    /\ forced = [p \in Procs |-> forced[p]]
    /\ \A p \in Procs :
          /\ todo[p] # <<>> => pc[p] \in {"loop", "over", "selecting", "leaving"}
          /\ pc[p] = "selecting" => \/ todo[p] = <<Op("load", 0)>>
                                    \/ todo[p] = <<>> /\ Acyclic(graph[p])
          /\ pc[p] = "leaving" => \/ todo[p] = <<Op("free", 0)>>
                                  \/ todo[p] = <<>> /\ goal[p] = 0

Ended == {p \in Procs : pc[p] = "ended"}

EpisodesInv == Says(EpisodesFile, Cardinality(Ended))

(* The claims agree with the goals.                                        *)
Agrees(claims) ==
    /\ claims = [p \in Procs |-> claims[p]]
    /\ \A p \in Procs : Alive(p) => claims[p] = goal[p]

ClaimsInv ==
    GoalsFile \notin disturbed =>
        /\ \E claims : Says(GoalsFile, claims) /\ Agrees(claims)
        /\ NoConflict

IInv == FilesInv /\ ProgInv /\ EpisodesInv /\ ClaimsInv

-----------------------------------------------------------------------------
(* A step of p that concerns no goal, claim or count.                      *)
Elsewhere(p) ==
    \/ UNCHANGED fileVars
    \/ \E f, d : f \notin Counters /\ Rewrite(p, f, d)
    \/ \E f : f \notin Counters /\ RemoveFile(f)

OtherStep(p) ==
    /\ Quiet(p)
    /\ pc[p] \in {"loop", "over"}
    /\ \E c \in {"loop", "over"} : pc' = [pc EXCEPT ![p] = c]
    /\ \E t : todo' = [todo EXCEPT ![p] = t]
    /\ \E g : graph' = [graph EXCEPT ![p] = g]
    /\ UNCHANGED <<goal, forced>>
    /\ Elsewhere(p)

LEMMA FileNames ==
    /\ GoalsFile \in Files /\ EpisodesFile \in Files
    /\ GoalsFile # EpisodesFile
    /\ \A i : Verified(i) \notin Counters
    /\ \A i : Hypothesized(i) \notin Counters
    /\ \A i : Memory(i) \notin Counters
BY DEF Files, Counters, GoalsFile, EpisodesFile, Verified, Hypothesized, Memory

LEMMA SameFiles ==
    ASSUME UNCHANGED fileVars
    PROVE  /\ FilesInv => FilesInv'
           /\ \A c, v : Says(c, v) => Says(c, v)'
           /\ disturbed \subseteq disturbed'
<1>1. disk' = disk /\ pending' = pending /\ disturbed' = disturbed
  BY DEF fileVars
<1>2. \A f : Writers(f)' = Writers(f)
  BY <1>1 DEF Writers, Quiet
<1>3. \A f : Arriving(f)' = Arriving(f)
  BY <1>1, <1>2 DEF Arriving, Contents, Dumped
<1>4. \A c, v : Says(c, v) => Says(c, v)'
  BY <1>1, <1>2, <1>3 DEF Says
<1>5. FilesInv => FilesInv'
  BY <1>1, <1>2 DEF FilesInv, UnreadableIsPending
<1> QED
  BY <1>1, <1>4, <1>5

(* What the counters say survives such a step.                             *)
LEMMA ElsewhereKeeps ==
    ASSUME FilesInv, NEW p \in Procs, Quiet(p), Elsewhere(p)
    PROVE  /\ FilesInv'
           /\ \A c \in Counters : \A v : Says(c, v) => Says(c, v)'
           /\ disturbed \subseteq disturbed'
<1>1. CASE UNCHANGED fileVars
  BY <1>1, SameFiles
<1>2. CASE \E f, d : f \notin Counters /\ Rewrite(p, f, d)
  <2>1. PICK f, d : f \notin Counters /\ Rewrite(p, f, d)
    BY <1>2
  <2>2. FilesInv'
    BY <2>1, RewriteKeepsFiles
  <2>3. \A c \in Counters : \A v : Says(c, v) => Says(c, v)'
    BY <2>1, OthersKeepSaying DEF Says
  <2> QED
    BY <2>1, <2>2, <2>3 DEF Rewrite
<1>3. CASE \E f : f \notin Counters /\ RemoveFile(f)
  <2>1. PICK f : f \notin Counters /\ RemoveFile(f)
    BY <1>3
  <2>2. FilesInv'
    BY <2>1, RemoveKeepsFiles
  <2>3. \A c \in Counters : \A v : Says(c, v) => Says(c, v)'
    BY <2>1, OthersKeepSaying DEF Says
  <2> QED
    BY <2>1, <2>2, <2>3 DEF RemoveFile
<1> QED
  BY <1>1, <1>2, <1>3 DEF Elsewhere

LEMMA OtherStepKeeps ==
    ASSUME IInv, NEW p \in Procs, OtherStep(p)
    PROVE  IInv'
<1>1. PICK c \in {"loop", "over"} : pc' = [pc EXCEPT ![p] = c]
  BY DEF OtherStep
<1>2. PICK t : todo' = [todo EXCEPT ![p] = t]
  BY DEF OtherStep
<1>3. PICK g : graph' = [graph EXCEPT ![p] = g]
  BY DEF OtherStep
<1>4. goal' = goal /\ forced' = forced /\ pc[p] \in {"loop", "over"}
  BY DEF OtherStep
<1>5. FilesInv' /\ (\A d \in Counters : \A v : Says(d, v) => Says(d, v)')
        /\ disturbed \subseteq disturbed'
  BY ElsewhereKeeps DEF OtherStep, IInv
<1>6. \A q \in Procs : (Alive(q) <=> Alive(q)') /\ (pc[q] = "ended" <=> pc'[q] = "ended")
  BY <1>1, <1>4 DEF Alive, IInv, ProgInv
<1>7. ProgInv'
  <2>1. /\ pc' = [q \in Procs |-> pc'[q]]
        /\ todo' = [q \in Procs |-> todo'[q]]
        /\ graph' = [q \in Procs |-> graph'[q]]
        /\ goal' = [q \in Procs |-> goal'[q]]
        /\ forced' = [q \in Procs |-> forced'[q]]
    BY <1>1, <1>2, <1>3, <1>4 DEF IInv, ProgInv
  <2>2. \A q \in Procs \ {p} : pc'[q] = pc[q] /\ todo'[q] = todo[q] /\ graph'[q] = graph[q]
    BY <1>1, <1>2, <1>3 DEF IInv, ProgInv
  <2>3. pc'[p] \in {"loop", "over"}
    BY <1>1 DEF IInv, ProgInv
  <2> QED
    BY <1>4, <2>1, <2>2, <2>3 DEF IInv, ProgInv, Acyclic
<1>8. EpisodesInv'
  <2>1. Ended' = Ended
    BY <1>6 DEF Ended
  <2> QED
    BY <1>5, <2>1 DEF IInv, EpisodesInv, Counters
<1>9. ClaimsInv'
  <2> SUFFICES ASSUME GoalsFile \notin disturbed'
               PROVE  /\ \E claims : Says(GoalsFile, claims)' /\ Agrees(claims)'
                      /\ NoConflict'
    BY DEF ClaimsInv
  <2>1. PICK claims : Says(GoalsFile, claims) /\ Agrees(claims)
    BY <1>5 DEF IInv, ClaimsInv
  <2>2. Agrees(claims)'
    BY <1>4, <1>6, <2>1 DEF Agrees
  <2>3. NoConflict'
    BY <1>4, <1>5, <1>6 DEF IInv, ClaimsInv, NoConflict
  <2> QED
    BY <1>5, <2>1, <2>2, <2>3 DEF Counters
<1> QED
  BY <1>5, <1>7, <1>8, <1>9 DEF IInv

(* A process that dies takes its goal with it and leaves its claim.        *)
LEMMA DieKeeps ==
    ASSUME IInv, NEW p \in Procs, pc[p] # "ended", Die(p)
    PROVE  IInv'
<1>1. /\ pc' = [pc EXCEPT ![p] = "dead"] /\ todo' = [todo EXCEPT ![p] = <<>>]
      /\ graph' = [graph EXCEPT ![p] = NoGraph] /\ goal' = [goal EXCEPT ![p] = 0]
      /\ forced' = [forced EXCEPT ![p] = FALSE] /\ UNCHANGED fileVars
  BY DEF Die, Forget
<1>2. FilesInv' /\ (\A c, v : Says(c, v) => Says(c, v)') /\ disturbed \subseteq disturbed'
  BY <1>1, SameFiles DEF IInv
<1>3. ~Alive(p)' /\ \A q \in Procs \ {p} : /\ pc'[q] = pc[q] /\ todo'[q] = todo[q]
                                          /\ graph'[q] = graph[q] /\ goal'[q] = goal[q]
                                          /\ forced'[q] = forced[q]
  BY <1>1 DEF IInv, ProgInv, Alive
<1>4. ProgInv'
  <2>1. /\ pc' = [q \in Procs |-> pc'[q]]
        /\ todo' = [q \in Procs |-> todo'[q]]
        /\ graph' = [q \in Procs |-> graph'[q]]
        /\ goal' = [q \in Procs |-> goal'[q]]
        /\ forced' = [q \in Procs |-> forced'[q]]
    BY <1>1 DEF IInv, ProgInv
  <2>2. pc'[p] = "dead" /\ todo'[p] = <<>>
    BY <1>1 DEF IInv, ProgInv
  <2> QED
    BY <1>3, <2>1, <2>2 DEF IInv, ProgInv, Acyclic
<1>5. EpisodesInv'
  <2>1. Ended' = Ended
    BY <1>1, <1>3 DEF Ended, Alive, IInv, ProgInv
  <2> QED
    BY <1>2, <2>1 DEF IInv, EpisodesInv
<1>6. ClaimsInv'
  BY <1>2, <1>3 DEF IInv, ClaimsInv, Agrees, NoConflict, Alive
<1> QED
  BY <1>2, <1>4, <1>5, <1>6 DEF IInv

-----------------------------------------------------------------------------
(* Most actions are such steps, or end the process.                        *)
Mild(p) == OtherStep(p) \/ (pc[p] # "ended" /\ Die(p))

LEMMA MildKeeps ==
    ASSUME IInv, NEW p \in Procs, Mild(p)
    PROVE  IInv'
BY OtherStepKeeps, DieKeeps DEF Mild

LEMMA DoingWhere ==
    ASSUME IInv, NEW p \in Procs, NEW name, Doing(p, name)
    PROVE  /\ Quiet(p) /\ pc[p] # "ended"
           /\ name \notin {"load", "free"} => pc[p] \in {"loop", "over"}
<1>1. Quiet(p) /\ todo[p] # <<>> /\ Head(todo[p]).do = name
  BY DEF Doing
<1>2. pc[p] \in {"loop", "over", "selecting", "leaving"}
  BY <1>1 DEF IInv, ProgInv
<1>3. pc[p] = "selecting" => name = "load"
  BY <1>1 DEF IInv, ProgInv, Op
<1>4. pc[p] = "leaving" => name = "free"
  BY <1>1 DEF IInv, ProgInv, Op
<1> QED
  BY <1>1, <1>2, <1>3, <1>4

(* The form most of them have.                                             *)
LEMMA ThenIsMild ==
    ASSUME IInv, NEW p \in Procs, Quiet(p), pc[p] \in {"loop", "over"},
           NEW ops, Then(p, ops), pc' = pc,
           (\E g : graph' = [graph EXCEPT ![p] = g]) \/ graph' = graph,
           goal' = goal, forced' = forced, Elsewhere(p)
    PROVE  Mild(p)
<1>1. pc' = [pc EXCEPT ![p] = pc[p]]
  BY DEF IInv, ProgInv
<1>2. \E t : todo' = [todo EXCEPT ![p] = t]
  BY DEF Then
<1>3. \E g : graph' = [graph EXCEPT ![p] = g]
  <2>1. graph = [graph EXCEPT ![p] = graph[p]]
    BY DEF IInv, ProgInv
  <2> QED
    BY <2>1
<1> QED
  BY <1>1, <1>2, <1>3 DEF Mild, OtherStep

LEMMA RecipeStepsAreMild ==
    ASSUME IInv, NEW p \in Procs
    PROVE  /\ Ready(p) => Mild(p)
           /\ SaveVerified(p) => Mild(p)
           /\ StoreVerified(p) => Mild(p)
           /\ CreateVerified(p) => Mild(p)
           /\ MergeVerified(p) => Mild(p)
           /\ MarkResource(p) => Mild(p)
           /\ WriteHypothesis(p) => Mild(p)
           /\ Fail(p) => Mild(p)
           /\ Increment(p) => Mild(p)
           /\ CountUp(p) => Mild(p)
<1>1. Ready(p) => Mild(p)
  BY DoingWhere, ThenIsMild DEF Ready, Done, Elsewhere, Mild, localVars
<1>2. SaveVerified(p) => Mild(p)
  BY DoingWhere, ThenIsMild DEF SaveVerified, Elsewhere, localVars
<1>3. StoreVerified(p) => Mild(p)
  BY DoingWhere, ThenIsMild DEF StoreVerified, Elsewhere, localVars
<1>4. CreateVerified(p) => Mild(p)
  BY DoingWhere, ThenIsMild, FileNames DEF CreateVerified, Done, Elsewhere, localVars
<1>5. MergeVerified(p) => Mild(p)
  BY DoingWhere, ThenIsMild, FileNames DEF MergeVerified, Done, Elsewhere, Mild, localVars
<1>6. MarkResource(p) => Mild(p)
  BY DoingWhere, ThenIsMild, FileNames DEF MarkResource, Done, Elsewhere, Mild, localVars
<1>7. WriteHypothesis(p) => Mild(p)
  BY DoingWhere, ThenIsMild, FileNames DEF WriteHypothesis, Done, Elsewhere, Mild, localVars
<1>8. Fail(p) => Mild(p)
  BY DoingWhere DEF Fail, Mild
<1>9. ASSUME Increment(p) PROVE Mild(p)
  <2>0. Doing(p, "increment")
    BY <1>9 DEF Increment
  <2>1. Quiet(p) /\ pc[p] \in {"loop", "over"}
    BY <2>0, DoingWhere
  <2>2. UNCHANGED <<pc, graph, localVars>> /\ \E ops : Then(p, ops)
    BY <1>9 DEF Increment
  <2>3. Elsewhere(p)
    BY <1>9, FileNames DEF Increment, Elsewhere
  <2> QED
    BY <2>1, <2>2, <2>3, ThenIsMild DEF localVars
<1>10. ASSUME CountUp(p) PROVE Mild(p)
  <2>0. Doing(p, "count")
    BY <1>10 DEF CountUp
  <2>1. Quiet(p) /\ pc[p] \in {"loop", "over"}
    BY <2>0, DoingWhere
  <2>2. CASE Die(p)
    BY <2>1, <2>2 DEF Mild
  <2>3. CASE ~Die(p)
    <3>1. /\ \E g : graph' = [graph EXCEPT ![p] = g]
          /\ \E ops : Then(p, ops)
          /\ UNCHANGED <<pc, localVars, fileVars>>
      BY <1>10, <2>3 DEF CountUp
    <3> QED
      BY <2>1, <3>1, ThenIsMild DEF localVars, Elsewhere
  <2> QED
    BY <2>2, <2>3
<1> QED
  BY <1>1, <1>2, <1>3, <1>4, <1>5, <1>6, <1>7, <1>8, <1>9, <1>10

LEMMA MemoryStepsAreMild ==
    ASSUME IInv, NEW p \in Procs
    PROVE  /\ Scan(p) => Mild(p)
           /\ Record(p) => Mild(p)
           /\ RecordFirst(p) => Mild(p)
           /\ RecordMore(p) => Mild(p)
           /\ Judge(p) => Mild(p)
           /\ ResetRevised(p) => Mild(p)
           /\ Reset(p) => Mild(p)
           /\ Clear(p) => Mild(p)
           /\ ReviseGoal(p) => Mild(p)
<1>1. ASSUME Scan(p) PROVE Mild(p)
  <2>1. Quiet(p) /\ pc[p] \in {"loop", "over"}
    <3>1. CASE Doing(p, "scan")
      BY <3>1, DoingWhere
    <3>2. CASE Doing(p, "encode")
      BY <3>2, DoingWhere
    <3> QED
      BY <1>1, <3>1, <3>2 DEF Scan
  <2>2. \/ Die(p)
        \/ /\ Then(p, <<>>)
           /\ UNCHANGED <<pc, graph, goal, forced, fileVars>>
    BY <1>1 DEF Scan, Done
  <2> QED
    BY <2>1, <2>2, ThenIsMild DEF Elsewhere, Mild
<1>2. ASSUME Record(p) PROVE Mild(p)
  <2>1. PICK ok \in BOOLEAN :
          /\ Doing(p, IF ok THEN "succeeded" ELSE "failed")
          /\ \E ops : Then(p, ops)
    BY <1>2 DEF Record
  <2>2. Quiet(p) /\ pc[p] \in {"loop", "over"}
    <3> DEFINE name == IF ok THEN "succeeded" ELSE "failed"
    <3>1. Doing(p, name) /\ name \notin {"load", "free"}
      BY <2>1
    <3> HIDE DEF name
    <3> QED
      BY <3>1, DoingWhere
  <2> QED
    BY <1>2, <2>1, <2>2, ThenIsMild DEF Record, localVars, Elsewhere
<1>3. ASSUME RecordFirst(p) PROVE Mild(p)
  <2>1. PICK ok \in BOOLEAN :
          /\ Doing(p, IF ok THEN "first success" ELSE "first failure")
          /\ Rewrite(p, Memory(It(p)), Recorded(NoHistory, key[p], ok))
          /\ \E ops : Then(p, ops)
    BY <1>3 DEF RecordFirst
  <2>2. Quiet(p) /\ pc[p] \in {"loop", "over"}
    <3> DEFINE name == IF ok THEN "first success" ELSE "first failure"
    <3>1. Doing(p, name) /\ name \notin {"load", "free"}
      BY <2>1
    <3> HIDE DEF name
    <3> QED
      BY <3>1, DoingWhere
  <2>3. Elsewhere(p)
    BY <2>1, FileNames DEF Elsewhere
  <2> QED
    BY <1>3, <2>1, <2>2, <2>3, ThenIsMild DEF RecordFirst, localVars
<1>4. ASSUME RecordMore(p) PROVE Mild(p)
  <2>1. PICK ok \in BOOLEAN :
          /\ Doing(p, IF ok THEN "add success" ELSE "add failure")
          /\ \/ Die(p)
             \/ /\ \E d : Rewrite(p, Memory(It(p)), d)
                /\ \E ops : Then(p, ops)
                /\ UNCHANGED <<pc, graph, localVars>>
    BY <1>4 DEF RecordMore
  <2>2. Quiet(p) /\ pc[p] \in {"loop", "over"}
    <3> DEFINE name == IF ok THEN "add success" ELSE "add failure"
    <3>1. Doing(p, name) /\ name \notin {"load", "free"}
      BY <2>1
    <3> HIDE DEF name
    <3> QED
      BY <3>1, DoingWhere
  <2>3. (\E d : Rewrite(p, Memory(It(p)), d)) => Elsewhere(p)
    BY FileNames DEF Elsewhere
  <2> QED
    BY <2>1, <2>2, <2>3, ThenIsMild DEF Mild, localVars
<1>5. Judge(p) => Mild(p)
  BY DoingWhere, ThenIsMild DEF Judge, Elsewhere, Mild, localVars
<1>6. ASSUME ResetRevised(p) PROVE Mild(p)
  <2>1. Quiet(p) /\ pc[p] \in {"loop", "over"}
    BY <1>6, DoingWhere DEF ResetRevised
  <2>2. /\ \E g : graph' = [graph EXCEPT ![p] = g]
        /\ \E ops : Then(p, ops)
        /\ UNCHANGED <<pc, localVars, fileVars>>
    BY <1>6 DEF ResetRevised
  <2> QED
    BY <2>1, <2>2, ThenIsMild DEF localVars, Elsewhere
<1>7. Reset(p) => Mild(p)
  BY DoingWhere, ThenIsMild DEF Reset, Elsewhere, Mild, localVars
<1>8. Clear(p) => Mild(p)
  BY DoingWhere, ThenIsMild, FileNames DEF Clear, Done, Elsewhere, Mild, localVars
<1>9. ASSUME ReviseGoal(p) PROVE Mild(p)
  <2>1. Quiet(p) /\ pc[p] \in {"loop", "over"}
    BY <1>9, DoingWhere DEF ReviseGoal
  <2>2. /\ \E g : graph' = [graph EXCEPT ![p] = g]
        /\ \E ops : Then(p, ops)
        /\ UNCHANGED <<pc, localVars, fileVars>>
    BY <1>9 DEF ReviseGoal
  <2> QED
    BY <2>1, <2>2, ThenIsMild DEF localVars, Elsewhere
<1> QED
  BY <1>1, <1>2, <1>3, <1>4, <1>5, <1>6, <1>7, <1>8, <1>9

LEMMA ActionsAreMild ==
    ASSUME IInv, NEW p \in Procs
    PROVE  /\ Plan(p) => Mild(p)
           /\ Craft(p) => Mild(p)
           /\ CraftFails(p) => Mild(p)
           /\ Collect(p) => Mild(p)
           /\ Mine(p) => Mild(p)
           /\ TimeOut(p) => Mild(p)
           /\ MalmoError(p) => Mild(p)
<1>0. ASSUME InLoop(p)
      PROVE  Quiet(p) /\ pc[p] = "loop" /\ pc = [pc EXCEPT ![p] = "loop"]
  BY <1>0 DEF InLoop, Idle, IInv, ProgInv
<1>1. graph = [graph EXCEPT ![p] = graph[p]] /\ todo = [todo EXCEPT ![p] = todo[p]]
  BY DEF IInv, ProgInv
<1> DEFINE Loops == /\ pc' = pc \/ pc' = [pc EXCEPT ![p] = "over"]
                    /\ \E t : todo' = [todo EXCEPT ![p] = t]
                    /\ UNCHANGED <<graph, goal, forced, fileVars>>
<1>2. ASSUME InLoop(p), Loops PROVE Mild(p)
  <2>1. Quiet(p) /\ pc[p] \in {"loop", "over"} /\ Elsewhere(p)
    BY <1>0, <1>2 DEF Elsewhere
  <2>2. \E c \in {"loop", "over"} : pc' = [pc EXCEPT ![p] = c]
    BY <1>0, <1>2
  <2>3. \E g : graph' = [graph EXCEPT ![p] = g]
    BY <1>1, <1>2
  <2> QED
    BY <1>2, <2>1, <2>2, <2>3 DEF Mild, OtherStep
<1>3. Craft(p) => Mild(p)
  <2>1. Craft(p) => InLoop(p) /\ Loops
    BY DEF Craft, Acting
  <2> QED
    BY <1>2, <2>1
<1>4. CraftFails(p) => Mild(p)
  <2>1. CraftFails(p) => InLoop(p) /\ Loops
    BY <1>0 DEF CraftFails, Acting
  <2> QED
    BY <1>2, <2>1
<1>5. Collect(p) => Mild(p)
  <2>1. Collect(p) => InLoop(p) /\ Loops
    BY DEF Collect, Acting
  <2> QED
    BY <1>2, <2>1
<1>6. Mine(p) => Mild(p)
  <2>1. Mine(p) => InLoop(p) /\ Loops
    BY DEF Mine, Acting
  <2> QED
    BY <1>2, <2>1
<1>7. TimeOut(p) => Mild(p)
  <2>1. TimeOut(p) => InLoop(p) /\ Loops
    BY DEF TimeOut, Acting
  <2> QED
    BY <1>2, <2>1
<1>8. Plan(p) => Mild(p)
  <2>1. Plan(p) => InLoop(p) /\ (Die(p) \/ Loops)
    BY <1>1 DEF Plan
  <2> QED
    BY <1>0, <1>2, <2>1 DEF Mild
<1>9. MalmoError(p) => Mild(p)
  BY DEF MalmoError, Acting, InLoop, Mild
<1> QED
  BY <1>3, <1>4, <1>5, <1>6, <1>7, <1>8, <1>9

-----------------------------------------------------------------------------
(* The actions that are not.                                               *)

(* A step of p that changes only where p is and what it has in memory.     *)
LEMMA QuietStepKeeps ==
    ASSUME IInv, NEW p \in Procs,
           NEW c, pc' = [pc EXCEPT ![p] = c],
           pc[p] \notin {"ended", "dead"}, c \notin {"ended", "dead"},
           NEW t, todo' = [todo EXCEPT ![p] = t],
           NEW g, graph' = [graph EXCEPT ![p] = g],
           UNCHANGED <<goal, forced, fileVars>>,
           t # <<>> => c \in {"loop", "over", "selecting", "leaving"},
           c = "selecting" => t = <<Op("load", 0)>> \/ (t = <<>> /\ Acyclic(g)),
           c = "leaving" => t = <<Op("free", 0)>>
    PROVE  IInv'
<1>1. FilesInv' /\ (\A f, v : Says(f, v) => Says(f, v)') /\ disturbed \subseteq disturbed'
  BY SameFiles DEF IInv
<1>2. \A q \in Procs \ {p} : pc'[q] = pc[q] /\ todo'[q] = todo[q] /\ graph'[q] = graph[q]
  BY DEF IInv, ProgInv
<1>3. pc'[p] = c /\ todo'[p] = t /\ graph'[p] = g
  BY DEF IInv, ProgInv
<1>4. /\ pc' = [q \in Procs |-> pc'[q]]
      /\ todo' = [q \in Procs |-> todo'[q]]
      /\ graph' = [q \in Procs |-> graph'[q]]
      /\ goal' = [q \in Procs |-> goal'[q]]
      /\ forced' = [q \in Procs |-> forced'[q]]
  BY DEF IInv, ProgInv
<1>5. ProgInv'
  BY <1>2, <1>3, <1>4 DEF IInv, ProgInv, Acyclic
<1>6. \A q \in Procs : (Alive(q) <=> Alive(q)') /\ (pc[q] = "ended" <=> pc'[q] = "ended")
  BY <1>2, <1>3 DEF Alive
<1>7. EpisodesInv'
  <2>1. Ended' = Ended
    BY <1>6 DEF Ended
  <2> QED
    BY <1>1, <2>1 DEF IInv, EpisodesInv
<1>8. ClaimsInv'
  BY <1>1, <1>6 DEF IInv, ClaimsInv, Agrees, NoConflict
<1> QED
  BY <1>1, <1>5, <1>7, <1>8 DEF IInv

LEMMA LoadKeeps ==
    ASSUME IInv, NEW p \in Procs, Load(p)
    PROVE  IInv'
<1>1. Doing(p, "load")
  BY DEF Load
<1>2. Quiet(p) /\ pc[p] # "ended" /\ todo[p] # <<>>
  BY <1>1, DoingWhere DEF Doing
<1>3. CASE Die(p)
  BY <1>2, <1>3, DieKeeps
<1>4. CASE ~Die(p)
  <2> DEFINE g == Loaded(VerifiedFiles, ResourceFiles, NeedsVerified,
                         HypothesizedFiles, NeedsHypothesized, CountsIn)
  <2>1. /\ graph' = [graph EXCEPT ![p] = g] /\ Done(p)
        /\ UNCHANGED <<pc, localVars, fileVars>>
    BY <1>4 DEF Load
  <2>2. Acyclic(g)
    BY LoadedIsAcyclic DEF Acyclic, VerifiedFiles, HypothesizedFiles
  <2> HIDE DEF g
  <2>3. pc' = [pc EXCEPT ![p] = pc[p]]
    BY <2>1 DEF IInv, ProgInv
  <2>4. pc[p] \in {"loop", "over", "selecting", "leaving"}
    BY <1>2 DEF IInv, ProgInv
  <2>5. todo' = [todo EXCEPT ![p] = <<>> \o Tail(todo[p])]
    BY <2>1 DEF Done, Then
  <2>6. pc[p] = "selecting" => <<>> \o Tail(todo[p]) = <<>>
    <3>1. <<>> \o Tail(<<Op("load", 0)>>) = <<>>
      OBVIOUS
    <3>2. pc[p] = "selecting" => todo[p] = <<Op("load", 0)>>
      BY <1>2 DEF IInv, ProgInv
    <3> QED
      BY <3>1, <3>2
  <2>7. pc[p] # "leaving"
    BY <1>1 DEF Doing, IInv, ProgInv, Op
  <2> QED
    BY <2>1, <2>2, <2>3, <2>4, <2>5, <2>6, <2>7, QuietStepKeeps DEF localVars
<1> QED
  BY <1>3, <1>4

LEMMA PhaseStepsKeep ==
    ASSUME IInv, NEW p \in Procs, Start(p) \/ Select(p) \/ Finish(p)
    PROVE  IInv'
<1>0. graph = [graph EXCEPT ![p] = graph[p]]
  BY DEF IInv, ProgInv
<1>1. CASE Start(p)
  <2>1. PICK t : todo' = [todo EXCEPT ![p] = t]
    BY <1>1 DEF Start
  <2>2. /\ pc[p] = "off" /\ pc' = [pc EXCEPT ![p] = "loop"]
        /\ graph' = [graph EXCEPT ![p] = graph[p]]
        /\ UNCHANGED <<goal, forced, fileVars>>
    BY <1>0, <1>1 DEF Start, localVars
  <2>3. PICK c : c = "loop" /\ pc' = [pc EXCEPT ![p] = c]
    BY <2>2
  <2>4. PICK g : graph' = [graph EXCEPT ![p] = g]
    BY <2>2
  <2>5. /\ pc[p] \notin {"ended", "dead"} /\ c \notin {"ended", "dead"}
        /\ c \in {"loop", "over", "selecting", "leaving"}
        /\ c # "selecting" /\ c # "leaving"
    BY <2>2, <2>3
  <2> QED
    BY <2>1, <2>2, <2>3, <2>4, <2>5, QuietStepKeeps
<1>2. CASE Select(p)
  <2>1. /\ pc[p] = "loop" /\ pc' = [pc EXCEPT ![p] = "selecting"]
        /\ todo' = [todo EXCEPT ![p] = <<Op("load", 0)>>]
        /\ graph' = [graph EXCEPT ![p] = graph[p]]
        /\ UNCHANGED <<goal, forced, fileVars>>
    BY <1>0, <1>2 DEF Select, InLoop
  <2>2. PICK c : c = "selecting" /\ pc' = [pc EXCEPT ![p] = c]
    BY <2>1
  <2>3. PICK t : t = <<Op("load", 0)>> /\ todo' = [todo EXCEPT ![p] = t]
    BY <2>1
  <2> QED
    BY <2>1, <2>2, <2>3, QuietStepKeeps
<1>3. CASE Finish(p)
  BY <1>0, <1>3, QuietStepKeeps DEF Finish, localVars
<1> QED
  BY <1>1, <1>2, <1>3

LEMMA CloseKeeps ==
    ASSUME IInv, NEW p \in Procs, Close(p)
    PROVE  IInv'
<1>1. CloseFile(p) /\ UNCHANGED <<pc, todo, graph, goal, forced>>
  BY DEF Close, progVars
<1>2. FilesInv' /\ \A c \in Files : \A v : Says(c, v) => Says(c, v)'
  BY <1>1, CloseKeepsFiles DEF IInv
<1>3. disturbed' = disturbed
  BY <1>1 DEF CloseFile
<1>4. ProgInv'
  BY <1>1 DEF IInv, ProgInv
<1>5. EpisodesInv'
  BY <1>1, <1>2, FileNames DEF IInv, EpisodesInv, Ended
<1>6. ClaimsInv'
  BY <1>1, <1>2, <1>3, FileNames DEF IInv, ClaimsInv, Agrees, NoConflict, Alive
<1> QED
  BY <1>2, <1>4, <1>5, <1>6 DEF IInv

(* A step of p that rewrites a counter keeps the files and the other one.  *)
LEMMA CounterStep ==
    ASSUME FilesInv, NEW p \in Procs, Quiet(p), NEW f \in Counters, NEW d,
           Rewrite(p, f, d)
    PROVE  /\ FilesInv'
           /\ \A c \in Counters \ {f} : \A v : Says(c, v) => Says(c, v)'
           /\ f \notin disturbed' => Says(f, d)' /\ f \notin disturbed
           /\ \A c \in Counters : c \notin disturbed' => c \notin disturbed
           /\ Readable(f) /\ f \notin disturbed => f \notin disturbed'
<1>1. FilesInv'
  BY RewriteKeepsFiles
<1>2. \A c \in Counters \ {f} : \A v : Says(c, v) => Says(c, v)'
  BY OthersKeepSaying DEF Says
<1>3. f \notin disturbed' => Says(f, d)'
  BY RewrittenSays, FileNames DEF Counters
<1> QED
  BY <1>1, <1>2, <1>3 DEF Rewrite, Readable, Garbled

LEMMA FreeKeeps ==
    ASSUME IInv, NEW p \in Procs, Free(p)
    PROVE  IInv'
<1>1. Doing(p, "free")
  BY DEF Free
<1>2. Quiet(p) /\ pc[p] # "ended" /\ todo[p] # <<>> /\ Head(todo[p]).do = "free"
  BY <1>1, DoingWhere DEF Doing
<1>3. CASE Die(p)
  BY <1>2, <1>3, DieKeeps
<1>4. CASE ~Die(p)
  <2>1. /\ Readable(GoalsFile)
        /\ Rewrite(p, GoalsFile, WithoutClaim(p))
        /\ goal' = [goal EXCEPT ![p] = 0]
        /\ todo' = [todo EXCEPT ![p] = <<>> \o Tail(todo[p])]
        /\ UNCHANGED <<pc, graph, forced>>
    BY <1>4 DEF Free, Done, Then
  <2>2. /\ FilesInv'
        /\ \A v : Says(EpisodesFile, v) => Says(EpisodesFile, v)'
        /\ GoalsFile \notin disturbed' => GoalsFile \notin disturbed
    <3>1. PICK e : e = WithoutClaim(p)
      OBVIOUS
    <3>2. Rewrite(p, GoalsFile, e)
      BY <2>1, <3>1
    <3> QED
      BY <1>2, <3>2, CounterStep, FileNames DEF IInv, Counters
  <2>3. ProgInv'
    <3>1. /\ pc' = [q \in Procs |-> pc'[q]]
          /\ todo' = [q \in Procs |-> todo'[q]]
          /\ graph' = [q \in Procs |-> graph'[q]]
          /\ goal' = [q \in Procs |-> goal'[q]]
          /\ forced' = [q \in Procs |-> forced'[q]]
      BY <2>1 DEF IInv, ProgInv
    <3>2. \A q \in Procs \ {p} : todo'[q] = todo[q] /\ goal'[q] = goal[q]
      BY <2>1 DEF IInv, ProgInv
    <3>3. goal'[p] = 0 /\ todo'[p] = <<>> \o Tail(todo[p])
      BY <2>1 DEF IInv, ProgInv
    <3>4. pc[p] \in {"loop", "over", "selecting", "leaving"} /\ pc[p] # "selecting"
      BY <1>2 DEF IInv, ProgInv, Op
    <3>5. pc[p] = "leaving" => todo'[p] = <<>>
      <4>1. <<>> \o Tail(<<Op("free", 0)>>) = <<>>
        OBVIOUS
      <4>2. pc[p] = "leaving" => todo[p] = <<Op("free", 0)>>
        BY <1>2 DEF IInv, ProgInv
      <4> QED
        BY <3>3, <4>1, <4>2
    <3> QED
      BY <2>1, <3>1, <3>2, <3>3, <3>4, <3>5 DEF IInv, ProgInv, Acyclic
  <2>4. EpisodesInv'
    BY <2>1, <2>2 DEF IInv, EpisodesInv, Ended
  <2>5. ClaimsInv'
    <3> SUFFICES ASSUME GoalsFile \notin disturbed'
                 PROVE  (\E claims : Says(GoalsFile, claims)' /\ Agrees(claims)') /\ NoConflict'
      BY DEF ClaimsInv
    <3>1. PICK claims : Says(GoalsFile, claims) /\ Agrees(claims)
      BY <2>2 DEF IInv, ClaimsInv
    <3>2. Contents(GoalsFile) = claims
      BY <2>1, <3>1, ReadableSays DEF IInv
    <3>3. PICK rest : rest = [claims EXCEPT ![p] = 0]
      OBVIOUS
    <3>4. \A q \in Procs : goal'[q] = IF q = p THEN 0 ELSE goal[q]
      BY <2>1 DEF IInv, ProgInv
    <3>5. Agrees(rest)'
      BY <2>1, <3>1, <3>3, <3>4 DEF Agrees, Alive
    <3>6. Says(GoalsFile, rest)'
      <4>1. Rewrite(p, GoalsFile, rest)
        BY <2>1, <3>2, <3>3 DEF WithoutClaim
      <4> QED
        BY <4>1, <1>2, CounterStep DEF Counters, IInv
    <3>7. NoConflict'
      BY <2>1, <2>2, <3>4 DEF IInv, ClaimsInv, NoConflict, Alive
    <3> QED
      BY <3>5, <3>6, <3>7
  <2> QED
    BY <2>2, <2>3, <2>4, <2>5 DEF IInv
<1> QED
  BY <1>3, <1>4

(* A claim of the dead is nobody's goal.                                   *)
LEMMA ClearClaimKeeps ==
    ASSUME IInv, NEW p \in Procs, ClearClaim(p)
    PROVE  IInv'
<1>1. PICK new : new = [Claims EXCEPT ![p] = 0]
  OBVIOUS
<1>2. /\ pc[p] = "dead" /\ Replace(GoalsFile, new)
      /\ UNCHANGED <<pc, todo, graph, goal, forced>>
  BY <1>1 DEF ClearClaim, progVars
<1>4. FilesInv'
  BY <1>2, ReplaceKeepsFiles DEF IInv
<1>5. \A v : Says(EpisodesFile, v) => Says(EpisodesFile, v)'
  BY <1>2, OthersKeepSaying, FileNames DEF IInv
<1>6. ProgInv'
  BY <1>2 DEF IInv, ProgInv
<1>7. EpisodesInv'
  BY <1>2, <1>5 DEF IInv, EpisodesInv, Ended
<1>8. ClaimsInv'
  <2> SUFFICES ASSUME GoalsFile \notin disturbed'
               PROVE  (\E claims : Says(GoalsFile, claims)' /\ Agrees(claims)') /\ NoConflict'
    BY DEF ClaimsInv
  <2>1. GoalsFile \notin disturbed /\ ~Garbled(GoalsFile)
    BY <1>2 DEF Replace
  <2>2. PICK claims : Says(GoalsFile, claims) /\ Agrees(claims)
    BY <2>1 DEF IInv, ClaimsInv
  <2>3. Readable(GoalsFile)
    <3>1. Writers(GoalsFile) = {}
      BY <2>1, FileNames DEF IInv, FilesInv, Garbled, Empty
    <3> QED
      BY <2>2, <3>1 DEF Says, Readable
  <2>4. Claims = claims
    BY <2>2, <2>3, ReadableSays DEF IInv, Claims
  <2>5. Agrees(new)'
    BY <1>1, <1>2, <2>2, <2>4 DEF Agrees, Alive
  <2>6. Says(GoalsFile, new)'
    BY <1>2, ReplacedSays, FileNames DEF IInv
  <2>7. NoConflict'
    BY <1>2, <2>1 DEF IInv, ClaimsInv, NoConflict, Alive
  <2> QED
    BY <2>5, <2>6, <2>7
<1> QED
  BY <1>4, <1>6, <1>7, <1>8 DEF IInv

(* A goal is taken that no other process has, unless all are taken.        *)
LEMMA ChoiceIsFree ==
    ASSUME NEW g, NEW taken, NEW i \in FirstChoices(g, Frontier(g) \ taken),
           Frontier(g) \ taken # {}
    PROVE  i \notin taken
BY DEF FirstChoices

LEMMA ClaimKeeps ==
    ASSUME IInv, NEW p \in Procs, Claim(p)
    PROVE  IInv'
<1>1. pc[p] = "selecting" /\ Quiet(p) /\ todo[p] = <<>>
  BY DEF Claim, Idle
<1>2. CASE Die(p)
  BY <1>1, <1>2, DieKeeps
<1>3. CASE ~Die(p)
  <2> DEFINE free == Frontier(graph[p]) \ Taken
  <2>1. PICK i \in FirstChoices(graph[p], free) :
          /\ goal' = [goal EXCEPT ![p] = i]
          /\ Rewrite(p, GoalsFile, [Claims EXCEPT ![p] = i])
          /\ \E t : todo' = [todo EXCEPT ![p] = t]
          /\ forced' = [forced EXCEPT ![p] = free = {}]
          /\ pc' = [pc EXCEPT ![p] = "loop"]
          /\ UNCHANGED graph
    BY <1>3 DEF Claim
  <2>2. PICK new : new = [Claims EXCEPT ![p] = i]
    OBVIOUS
  <2>3. Rewrite(p, GoalsFile, new)
    BY <2>1, <2>2
  <2>4. i \notin Taken \/ free = {}
    BY ChoiceIsFree
  <2> HIDE DEF free
  <2>5. /\ FilesInv'
        /\ \A v : Says(EpisodesFile, v) => Says(EpisodesFile, v)'
        /\ GoalsFile \notin disturbed' =>
              Says(GoalsFile, new)' /\ GoalsFile \notin disturbed
    BY <1>1, <2>3, CounterStep, FileNames DEF IInv, Counters
  <2>6. \A q \in Procs : /\ goal'[q] = IF q = p THEN i ELSE goal[q]
                         /\ forced'[q] = IF q = p THEN free = {} ELSE forced[q]
                         /\ pc'[q] = IF q = p THEN "loop" ELSE pc[q]
                         /\ q # p => todo'[q] = todo[q]
    BY <2>1 DEF IInv, ProgInv
  <2>7. ProgInv'
    <3>1. /\ pc' = [q \in Procs |-> pc'[q]]
          /\ todo' = [q \in Procs |-> todo'[q]]
          /\ graph' = [q \in Procs |-> graph'[q]]
          /\ goal' = [q \in Procs |-> goal'[q]]
          /\ forced' = [q \in Procs |-> forced'[q]]
      BY <2>1 DEF IInv, ProgInv
    <3> QED
      BY <2>1, <2>6, <3>1 DEF IInv, ProgInv, Acyclic
  <2>8. EpisodesInv'
    <3>1. Ended' = Ended
      BY <1>1, <2>6 DEF Ended
    <3> QED
      BY <2>5, <3>1 DEF IInv, EpisodesInv
  <2>9. ClaimsInv'
    <3> SUFFICES ASSUME GoalsFile \notin disturbed'
                 PROVE  (\E claims : Says(GoalsFile, claims)' /\ Agrees(claims)') /\ NoConflict'
      BY DEF ClaimsInv
    <3>1. PICK claims : Says(GoalsFile, claims) /\ Agrees(claims)
      BY <2>5 DEF IInv, ClaimsInv
    <3>2. Readable(GoalsFile)
      <4>1. ~Garbled(GoalsFile) /\ GoalsFile \notin disturbed
        BY <2>3 DEF Rewrite
      <4>2. Writers(GoalsFile) = {}
        BY <4>1, FileNames DEF IInv, FilesInv, Garbled, Empty
      <4> QED
        BY <3>1, <4>2 DEF Says, Readable
    <3>3. Claims = claims
      BY <3>1, <3>2, ReadableSays DEF IInv, Claims
    <3>4. Agrees(new)'
      BY <2>2, <2>6, <3>1, <3>3 DEF Agrees, Alive
    <3>5. \A q \in Procs : Alive(q) => goal[q] \in Taken
      BY <3>1, <3>3 DEF Agrees, Taken
    <3>6. \A q \in Procs : Alive(q)' => Alive(q)
      BY <1>1, <2>6 DEF Alive
    <3>7. \A q \in Procs \ {p} : Alive(q) /\ goal[q] = i => free = {}
      BY <2>4, <3>5
    <3>8. NoConflict
      BY <2>5 DEF IInv, ClaimsInv
    <3>9. NoConflict'
      <4> SUFFICES ASSUME NEW q \in Procs, NEW r \in Procs, q # r,
                          Alive(q)', Alive(r)', goal'[q] # 0, goal'[q] = goal'[r]
                   PROVE  forced'[q] \/ forced'[r]
        BY DEF NoConflict
      <4>1. CASE q = p
        BY <2>6, <3>6, <3>7, <4>1
      <4>2. CASE r = p
        BY <2>6, <3>6, <3>7, <4>2
      <4>3. CASE q # p /\ r # p
        BY <2>6, <3>6, <3>8, <4>3 DEF NoConflict
      <4> QED
        BY <4>1, <4>2, <4>3
    <3> QED
      BY <2>5, <3>4, <3>9
  <2> QED
    BY <2>5, <2>7, <2>8, <2>9 DEF IInv
<1> QED
  BY <1>2, <1>3

LEMMA CountEpisodeKeeps ==
    ASSUME IInv, NEW p \in Procs, CountEpisode(p)
    PROVE  IInv'
<1>1. pc[p] = "leaving" /\ Quiet(p) /\ todo[p] = <<>>
  BY DEF CountEpisode, Idle
<1>2. CASE Die(p)
  BY <1>1, <1>2, DieKeeps
<1>3. CASE ~Die(p)
  <2>1. PICK n \in EpisodesRead : Rewrite(p, EpisodesFile, n + 1)
    BY <1>3 DEF CountEpisode
  <2>2. /\ pc' = [pc EXCEPT ![p] = "ended"]
        /\ graph' = [graph EXCEPT ![p] = NoGraph]
        /\ goal' = [goal EXCEPT ![p] = 0]
        /\ forced' = [forced EXCEPT ![p] = FALSE]
        /\ todo' = todo
    BY <1>3 DEF CountEpisode, Forget
  <2>3. Readable(EpisodesFile) /\ n = Contents(EpisodesFile)
    BY DEF EpisodesRead
  <2>4. n = Cardinality(Ended)
    BY <2>3, ReadableSays DEF IInv, EpisodesInv
  <2>5. PICK m : m = n + 1
    OBVIOUS
  <2>6. Rewrite(p, EpisodesFile, m)
    BY <2>1, <2>5
  <2>7. EpisodesFile \notin disturbed'
    BY <1>1, <2>3, <2>6, CounterStep DEF IInv, Counters, EpisodesInv, Says
  <2>8. /\ FilesInv'
        /\ \A v : Says(GoalsFile, v) => Says(GoalsFile, v)'
        /\ Says(EpisodesFile, m)'
        /\ GoalsFile \notin disturbed' => GoalsFile \notin disturbed
    BY <1>1, <2>6, <2>7, CounterStep, FileNames DEF IInv, Counters
  <2>9. goal[p] = 0
    <3>1. <<Op("free", 0)>> # <<>>
      OBVIOUS
    <3> QED
      BY <1>1, <3>1 DEF IInv, ProgInv
  <2>10. goal' = goal /\ pc'[p] = "ended"
    BY <2>2, <2>9 DEF IInv, ProgInv
  <2>11. \A q \in Procs \ {p} :
            forced'[q] = forced[q] /\ pc'[q] = pc[q] /\ graph'[q] = graph[q]
    BY <2>2 DEF IInv, ProgInv
  <2>12. ProgInv'
    <3>1. /\ pc' = [q \in Procs |-> pc'[q]]
          /\ todo' = [q \in Procs |-> todo'[q]]
          /\ graph' = [q \in Procs |-> graph'[q]]
          /\ goal' = [q \in Procs |-> goal'[q]]
          /\ forced' = [q \in Procs |-> forced'[q]]
      BY <2>2 DEF IInv, ProgInv
    <3> QED
      BY <1>1, <2>2, <2>10, <2>11, <3>1 DEF IInv, ProgInv, Acyclic
  <2>13. EpisodesInv'
    <3>1. Ended' = Ended \union {p} /\ p \notin Ended
      BY <1>1, <2>10, <2>11 DEF Ended, IInv, ProgInv
    <3>2. IsFiniteSet(Ended)
      BY ExplorationAssumption, FS_Subset DEF Ended
    <3>3. Cardinality(Ended \union {p}) = Cardinality(Ended) + 1
      BY <3>1, <3>2, FS_AddElement
    <3>4. PICK k : k = Cardinality(Ended \union {p})
      OBVIOUS
    <3>5. m = k /\ Cardinality(Ended') = k
      BY <2>4, <2>5, <3>1, <3>3, <3>4
    <3> QED
      BY <2>8, <3>5 DEF EpisodesInv
  <2>14. ClaimsInv'
    BY <1>1, <2>8, <2>9, <2>10, <2>11 DEF IInv, ClaimsInv, Agrees, NoConflict, Alive
  <2> QED
    BY <2>8, <2>12, <2>13, <2>14 DEF IInv
<1> QED
  BY <1>2, <1>3

-----------------------------------------------------------------------------
LEMMA InitIInv == Init => IInv
<1> SUFFICES ASSUME Init PROVE IInv
  OBVIOUS
<1>1. PICK s \in Starts : disk = s.disk
  BY DEF Init
<1>2. /\ disk = [f \in Files |-> disk[f]]
      /\ \A f \in Files : disk[f].state \in {"missing", "whole"}
      /\ disk[GoalsFile] = Whole(NoClaims)
      /\ disk[EpisodesFile] = Whole(0)
  BY <1>1, StartsAssumption DEF Missing
<1>3. /\ pending = [p \in Procs |-> <<>>] /\ disturbed = {}
      /\ \A f : Writers(f) = {}
  BY DEF Init, Writers, Quiet
<1>4. FilesInv
  BY <1>2, <1>3 DEF FilesInv, UnreadableIsPending
<1>5. ProgInv
  BY DEF Init, ProgInv
<1>6. Ended = {}
  BY DEF Init, Ended
<1>7. EpisodesInv
  <2>1. Cardinality(Ended) = 0
    BY <1>6, FS_EmptySet
  <2>2. Contents(EpisodesFile) = 0 /\ disk[EpisodesFile].state = "whole"
    BY <1>2 DEF Contents, Whole
  <2> QED
    BY <1>3, <2>1, <2>2, FileNames DEF EpisodesInv, Says, Arriving
<1>8. ClaimsInv
  <2>1. Contents(GoalsFile) = NoClaims /\ disk[GoalsFile].state = "whole"
    BY <1>2 DEF Contents, Whole
  <2>2. Says(GoalsFile, NoClaims)
    BY <1>3, <2>1, FileNames DEF Says, Arriving
  <2>3. \A p \in Procs : goal[p] = 0
    BY DEF Init
  <2>4. Agrees(NoClaims)
    BY <2>3 DEF Agrees, NoClaims
  <2> QED
    BY <2>2, <2>3, <2>4 DEF ClaimsInv, NoConflict
<1> QED
  BY <1>4, <1>5, <1>7, <1>8 DEF IInv

LEMMA StutterKeeps ==
    ASSUME IInv, UNCHANGED vars
    PROVE  IInv'
<1>1. UNCHANGED <<pc, todo, graph, goal, forced>> /\ UNCHANGED fileVars
  BY DEF vars, progVars
<1>2. FilesInv' /\ \A f, v : Says(f, v) => Says(f, v)'
  BY <1>1, SameFiles DEF IInv
<1>3. ProgInv'
  BY <1>1 DEF IInv, ProgInv
<1>4. EpisodesInv'
  BY <1>1, <1>2 DEF IInv, EpisodesInv, Ended
<1>5. ClaimsInv'
  BY <1>1, <1>2 DEF IInv, ClaimsInv, Agrees, NoConflict, Alive, fileVars
<1> QED
  BY <1>2, <1>3, <1>4, <1>5 DEF IInv

LEMMA NextKeeps == IInv /\ [Next]_vars => IInv'
<1> SUFFICES ASSUME IInv, [Next]_vars PROVE IInv'
  OBVIOUS
<1>1. CASE UNCHANGED vars
  BY <1>1, StutterKeeps
<1>2. ASSUME NEW p \in Procs, Close(p)
      PROVE  IInv'
  BY <1>2, CloseKeeps
<1>3. ASSUME NEW p \in Procs, RecipeStep(p)
      PROVE  IInv'
  BY <1>3, RecipeStepsAreMild, LoadKeeps, MildKeeps DEF RecipeStep
<1>4. ASSUME NEW p \in Procs, MemoryStep(p)
      PROVE  IInv'
  BY <1>4, MemoryStepsAreMild, MildKeeps DEF MemoryStep
<1>5. ASSUME NEW p \in Procs, GoalStep(p)
      PROVE  IInv'
  BY <1>5, ClaimKeeps, FreeKeeps, ClearClaimKeeps, CountEpisodeKeeps,
     MemoryStepsAreMild, MildKeeps DEF GoalStep
<1>6. ASSUME NEW p \in Procs, EpisodeStep(p)
      PROVE  IInv'
  BY <1>6, PhaseStepsKeep, ActionsAreMild, MildKeeps DEF EpisodeStep
<1> QED
  BY <1>1, <1>2, <1>3, <1>4, <1>5, <1>6 DEF Next

LEMMA Invariance == Spec => []IInv
BY InitIInv, NextKeeps, PTL DEF Spec

(* A file nobody can read is one that somebody is writing: a reader that   *)
(* dies of it was between the unlock and the flush of another.             *)
THEOREM FilesRecover == Spec => []UnreadableIsPending
<1>1. IInv => UnreadableIsPending
  BY DEF IInv, FilesInv
<1> QED
  BY <1>1, Invariance, PTL

(* As long as no update of the claims overlaps another, they are the goals *)
(* of the living processes, and two share a goal only without a choice.    *)
THEOREM ClaimsAreKept == Spec => []ClaimsKept
<1>1. IInv => ClaimsKept
  BY DEF IInv, ClaimsInv, ClaimsKept, ClaimsHeld, Says, Agrees
<1> QED
  BY <1>1, Invariance, PTL

(* Every process that ends its episode is counted once.                    *)
THEOREM EpisodesAreCounted == Spec => []EpisodesCounted
<1>1. IInv => EpisodesCounted
  BY DEF IInv, EpisodesInv, EpisodesCounted, Says, Ended
<1> QED
  BY <1>1, Invariance, PTL

(* Goals are chosen in a graph where no hypothesis depends on itself.      *)
THEOREM ChoosesAcyclic == Spec => []CandidatesAcyclic
<1>1. IInv => CandidatesAcyclic
  <2>1. <<Op("load", 0)>> # <<>>
    OBVIOUS
  <2> QED
    BY <2>1 DEF IInv, ProgInv, CandidatesAcyclic, Acyclic, Idle
<1> QED
  BY <1>1, Invariance, PTL
-----------------------------------------------------------------------------
(* Operations that concern no item.                                        *)
Itemless == {"load", "ready", "scan", "encode", "fail", "resets", "free"}

(* What a process has still to do names an item where it needs one.        *)
TodoOps == {o \in Ops : o.do \notin Itemless => o.item \in Items}

ProperGraph == {g \in Graph : g.verified \intersect g.hypothesized = {}}

FilesTyped ==
    /\ disk = [f \in Files |-> disk[f]]
    /\ pending = [p \in Procs |-> pending[p]]
    /\ \A f \in Files : disk[f] \in {Missing, Empty, Torn}
                                        \union [state : {"whole"}, data : DataOf(f)]
    /\ \A p \in Procs : Quiet(p) \/ \E f \in Files : pending[p] \in {f} \X DataOf(f)
    /\ disturbed \subseteq Files

TodoTyped == todo \in [Procs -> Seq(TodoOps)]

GraphTyped == graph \in [Procs -> ProperGraph]

(* A process that has a subgoal has a waypoint, too.                       *)
LocalsTyped ==
    /\ pc \in [Procs -> {"off", "loop", "selecting", "over", "leaving", "ended", "dead"}]
    /\ goal \in [Procs -> Items \union {0}]
    /\ way \in [Procs -> Items \union {0}]
    /\ key \in [Procs -> Keys]
    /\ subgoal \in [Procs -> Items \union {0}] /\ timeout \in [Procs -> BOOLEAN]
    /\ have \in [Procs -> SUBSET Items] /\ succeeded \in [Procs -> SUBSET Items]
    /\ fails \in [Procs -> [Items -> 0..FailLimit]]
    /\ acts \in Nat
    /\ forced \in [Procs -> BOOLEAN]
    /\ \A p \in Procs : subgoal[p] # 0 => way[p] \in Items

TypeInv == FilesTyped /\ TodoTyped /\ GraphTyped /\ LocalsTyped

-----------------------------------------------------------------------------
(* Files.                                                                  *)
LEMMA FileData ==
    /\ GoalsFile \in Files /\ DataOf(GoalsFile) = ClaimData
    /\ EpisodesFile \in Files /\ DataOf(EpisodesFile) = Nat
    /\ \A i \in Items : /\ Verified(i) \in Files /\ DataOf(Verified(i)) = RecipeData
                        /\ Hypothesized(i) \in Files /\ DataOf(Hypothesized(i)) = HypothesisData
                        /\ Memory(i) \in Files /\ DataOf(Memory(i)) = MemoryData
<1>1. GoalsFile \in Files /\ EpisodesFile \in Files
  BY DEF Files
<1>2. /\ GoalsFile[1] = "goals" /\ EpisodesFile[1] = "episodes"
      /\ \A i : /\ Verified(i)[1] = "verified" /\ Hypothesized(i)[1] = "hypothesized"
                /\ Memory(i)[1] = "memory"
  BY DEF GoalsFile, EpisodesFile, Verified, Hypothesized, Memory
<1>3. \A i \in Items : /\ Verified(i) \in Files /\ Hypothesized(i) \in Files
                        /\ Memory(i) \in Files
  BY DEF Files, Verified, Hypothesized, Memory
<1> QED
  BY <1>1, <1>2, <1>3 DEF DataOf

LEMMA ReadTyped ==
    ASSUME FilesTyped, NEW f \in Files, Readable(f)
    PROVE  Contents(f) \in DataOf(f)
BY DEF FilesTyped, Readable, Contents, Missing, Empty, Torn

LEMMA RewriteTyped ==
    ASSUME FilesTyped, NEW p \in Procs, NEW f \in Files, NEW d \in DataOf(f),
           Rewrite(p, f, d)
    PROVE  FilesTyped'
<1>1. /\ disk' = [disk EXCEPT ![f] = Empty]
      /\ pending' = [pending EXCEPT ![p] = <<f, d>>]
      /\ disturbed' \subseteq disturbed \union {f}
  BY DEF Rewrite
<1>2. \A g \in Files : disk'[g] = IF g = f THEN Empty ELSE disk[g]
  BY <1>1 DEF FilesTyped
<1>3. \A q \in Procs : pending'[q] = IF q = p THEN <<f, d>> ELSE pending[q]
  BY <1>1 DEF FilesTyped
<1>4. disk' = [g \in Files |-> disk'[g]] /\ pending' = [q \in Procs |-> pending'[q]]
  BY <1>1 DEF FilesTyped
<1>5. ASSUME NEW q \in Procs
      PROVE  Quiet(q)' \/ \E g \in Files : pending'[q] \in {g} \X DataOf(g)
  <2>1. CASE q = p
    BY <1>3, <2>1
  <2>2. CASE q # p
    BY <1>3, <2>2 DEF FilesTyped, Quiet
  <2> QED
    BY <2>1, <2>2
<1> QED
  BY <1>1, <1>2, <1>4, <1>5 DEF FilesTyped

LEMMA ReplaceTyped ==
    ASSUME FilesTyped, NEW f \in Files, NEW d \in DataOf(f), Replace(f, d)
    PROVE  FilesTyped'
<1>1. /\ disk' = [disk EXCEPT ![f] = Whole(d)] /\ pending' = pending
      /\ disturbed' \subseteq disturbed \union {f}
  BY DEF Replace
<1>2. Whole(d) \in [state : {"whole"}, data : DataOf(f)]
  BY DEF Whole
<1>3. \A g \in Files : disk'[g] = IF g = f THEN Whole(d) ELSE disk[g]
  BY <1>1 DEF FilesTyped
<1>4. disk' = [g \in Files |-> disk'[g]]
  BY <1>1 DEF FilesTyped
<1> QED
  BY <1>1, <1>2, <1>3, <1>4 DEF FilesTyped, Quiet

LEMMA RemoveTyped ==
    ASSUME FilesTyped, NEW f \in Files, RemoveFile(f)
    PROVE  FilesTyped'
<1>1. /\ disk' = [disk EXCEPT ![f] = Missing]
      /\ pending' = [q \in Procs |-> IF q \in Writers(f) THEN <<>> ELSE pending[q]]
      /\ disturbed' = disturbed
  BY DEF RemoveFile, AbandonedOnRemoval
<1>2. \A g \in Files : disk'[g] = IF g = f THEN Missing ELSE disk[g]
  BY <1>1 DEF FilesTyped
<1>3. disk' = [g \in Files |-> disk'[g]] /\ pending' = [q \in Procs |-> pending'[q]]
  BY <1>1 DEF FilesTyped
<1>4. \A q \in Procs : pending'[q] = <<>> \/ pending'[q] = pending[q]
  BY <1>1
<1> QED
  BY <1>1, <1>2, <1>3, <1>4 DEF FilesTyped, Quiet

LEMMA CloseTyped ==
    ASSUME FilesTyped, NEW p \in Procs, CloseFile(p)
    PROVE  FilesTyped'
<1>1. PICK f \in Files : pending[p] \in {f} \X DataOf(f)
  BY DEF CloseFile, FilesTyped
<1>2. pending[p][1] = f /\ Dumped(p) \in DataOf(f)
  BY <1>1 DEF Dumped
<1>3. /\ \/ disk' = [disk EXCEPT ![f] = Whole(Dumped(p))]
         \/ disk' = [disk EXCEPT ![f] = Torn]
      /\ pending' = [pending EXCEPT ![p] = <<>>]
      /\ disturbed' = disturbed
  BY <1>2 DEF CloseFile
<1>4. Whole(Dumped(p)) \in [state : {"whole"}, data : DataOf(f)]
  BY <1>2 DEF Whole
<1>5. /\ \A g \in Files : g # f => disk'[g] = disk[g]
      /\ disk'[f] \in {Torn} \union [state : {"whole"}, data : DataOf(f)]
      /\ disk' = [g \in Files |-> disk'[g]]
  BY <1>3, <1>4 DEF FilesTyped
<1>6. /\ \A q \in Procs : pending'[q] = IF q = p THEN <<>> ELSE pending[q]
      /\ pending' = [q \in Procs |-> pending'[q]]
  BY <1>3 DEF FilesTyped
<1> QED
  BY <1>3, <1>5, <1>6 DEF FilesTyped, Quiet

LEMMA SameFilesTyped ==
    ASSUME FilesTyped, UNCHANGED fileVars
    PROVE  FilesTyped'
BY DEF FilesTyped, fileVars, Quiet

-----------------------------------------------------------------------------
(* Operations.                                                             *)
LEMMA OpTyped ==
    /\ \A name \in Itemless : Op(name, 0) \in TodoOps
    /\ \A name \in OpNames, i \in Items : Op(name, i) \in TodoOps
BY DEF Op, TodoOps, Ops, Itemless, OpNames

LEMMA Short ==
    ASSUME NEW S
    PROVE  /\ <<>> \in Seq(S)
           /\ \A a \in S : <<a>> \in Seq(S)
           /\ \A s, t \in Seq(S) : s \o t \in Seq(S)
           /\ \A s \in Seq(S) : s # <<>> => Head(s) \in S /\ Tail(s) \in Seq(S)
<1>1. <<>> \in Seq(S) /\ \A a \in S : <<a>> \in Seq(S)
  OBVIOUS
<1>2. \A s, t \in Seq(S) : s \o t \in Seq(S)
  OBVIOUS
<1>3. \A s \in Seq(S) : s # <<>> => Head(s) \in S /\ Tail(s) \in Seq(S)
  OBVIOUS
<1> QED
  BY <1>1, <1>2, <1>3

(* Whatever the order, Each goes through a set.                            *)
LEMMA EachTyped ==
    ASSUME NEW name \in OpNames, NEW S \in SUBSET Items
    PROVE  Each(name, S) \in Seq(TodoOps)
<1> DEFINE T == {Op(name, i) : i \in S}
<1>1. T \subseteq TodoOps
  BY OpTyped
<1>2. IsFiniteSet(T)
  <2>1. IsFiniteSet(S)
    BY ItemsFinite
  <2>2. [i \in S |-> Op(name, i)] \in Surjection(S, T)
    BY DEF Surjection
  <2> QED
    BY <2>1, <2>2, FS_Surjection
<1> HIDE DEF T
<1>3. SetToSeq(T) \in [1..Cardinality(T) -> T]
  <2>1. PICK f \in [1..Cardinality(T) -> T] : IsInjective(f)
    BY <1>2, FS_NatBijection, FS_CountingElements
       DEF ExistsBijection, Bijection, Injection, IsInjective
  <2> QED
    BY <2>1 DEF SetToSeq
<1>4. Cardinality(T) \in Nat
  BY <1>2, FS_CardinalityType
<1>5. SetToSeq(T) \in Seq(T)
  BY <1>3, <1>4
<1>6. SetToSeq(T) \in Seq(TodoOps)
  BY <1>1, <1>5
<1> QED
  BY <1>6 DEF Each, T

LEMMA ThenTyped ==
    ASSUME TodoTyped, NEW p \in Procs, todo[p] # <<>>,
           NEW ops \in Seq(TodoOps), Then(p, ops)
    PROVE  TodoTyped'
<1>1. todo[p] \in Seq(TodoOps)
  BY DEF TodoTyped
<1>2. ops \o Tail(todo[p]) \in Seq(TodoOps)
  BY <1>1, Short
<1>3. todo' = [todo EXCEPT ![p] = ops \o Tail(todo[p])]
  BY DEF Then
<1> QED
  BY <1>2, <1>3 DEF TodoTyped

LEMMA DoneTyped ==
    ASSUME TodoTyped, NEW p \in Procs, todo[p] # <<>>, Done(p)
    PROVE  TodoTyped'
BY Short, ThenTyped DEF Done

LEMMA DoingTyped ==
    ASSUME TodoTyped, NEW p \in Procs, NEW name, Doing(p, name)
    PROVE  /\ todo[p] # <<>> /\ Head(todo[p]) \in TodoOps
           /\ Head(todo[p]).do = name /\ Head(todo[p]).needs \in SUBSET Items
           /\ name \notin Itemless => It(p) \in Items
<1>1. Head(todo[p]) \in TodoOps /\ todo[p] # <<>> /\ Head(todo[p]).do = name
  BY Short DEF Doing, TodoTyped
<1> QED
  BY <1>1 DEF TodoOps, Ops, It

(* An operation may be put off under another name.                         *)
LEMMA RenamedTyped ==
    ASSUME NEW o \in TodoOps, o.item \in Items, NEW name \in OpNames
    PROVE  [o EXCEPT !.do = name] \in TodoOps
BY DEF TodoOps, Ops

-----------------------------------------------------------------------------
(* The graph, and the rest of a process.                                   *)
LEMMA GraphStepTyped ==
    ASSUME GraphTyped, NEW p \in Procs, NEW g \in ProperGraph,
           graph' = [graph EXCEPT ![p] = g]
    PROVE  GraphTyped'
BY DEF GraphTyped

LEMMA NoGraphTyped == NoGraph \in ProperGraph
<1>1. CountCap \in Nat
  BY GraphAssumption
<1> QED
  BY <1>1 DEF NoGraph, ProperGraph, Graph, Needs

LEMMA DieTyped ==
    ASSUME TypeInv, NEW p \in Procs, Die(p)
    PROVE  TypeInv'
<1>1. FilesTyped'
  BY SameFilesTyped DEF Die, TypeInv
<1>2. TodoTyped'
  BY Short DEF Die, TypeInv, TodoTyped
<1>3. GraphTyped'
  BY NoGraphTyped, GraphStepTyped DEF Die, Forget, TypeInv
<1>4. LocalsTyped'
  <2>1. NoPlan \in Keys /\ FailLimit \in Nat
    BY ExplorationAssumption DEF NoPlan, Keys
  <2>2. [i \in Items |-> 0] \in [Items -> 0..FailLimit]
    BY <2>1
  <2> QED
    BY <2>1, <2>2 DEF Die, Forget, TypeInv, LocalsTyped
<1> QED
  BY <1>1, <1>2, <1>3, <1>4 DEF TypeInv

LEMMA SameLocalsTyped ==
    ASSUME LocalsTyped, UNCHANGED <<pc, localVars>>
    PROVE  LocalsTyped'
BY DEF LocalsTyped, localVars

LEMMA SameGraphTyped ==
    ASSUME GraphTyped, UNCHANGED graph
    PROVE  GraphTyped'
BY DEF GraphTyped
(* What the recipe files give when they are read, readable or not.         *)
LEMMA RecipesTyped ==
    ASSUME FilesTyped
    PROVE  /\ NeedsVerified \in Needs /\ NeedsHypothesized \in Needs
           /\ CountsIn \in [Items -> 0..CountCap]
           /\ VerifiedFiles \in SUBSET Items /\ HypothesizedFiles \in SUBSET Items
           /\ ResourceFiles \in SUBSET Items
<1>1. ASSUME NEW i \in Items
      PROVE  /\ Readable(Verified(i)) => Contents(Verified(i)) \in RecipeData
             /\ Readable(Hypothesized(i)) => Contents(Hypothesized(i)) \in HypothesisData
  BY FileData, ReadTyped
<1>2. CountCap \in Nat
  BY GraphAssumption
<1>3. NeedsVerified \in Needs
  BY <1>1 DEF NeedsVerified, Needs, RecipeData
<1>4. NeedsHypothesized \in Needs
  BY <1>1 DEF NeedsHypothesized, Needs, HypothesisData
<1>5. CountsIn \in [Items -> 0..CountCap]
  BY <1>1, <1>2 DEF CountsIn, HypothesisData
<1> QED
  BY <1>3, <1>4, <1>5 DEF VerifiedFiles, HypothesizedFiles, ResourceFiles

LEMMA WithoutTyped ==
    ASSUME NEW needs \in Needs, NEW C
    PROVE  Without(needs, C) \in Needs
BY DEF Without, Needs

LEMMA LoadedTyped ==
    ASSUME NEW verified \in SUBSET Items, NEW resources \in SUBSET Items,
           NEW needsV \in Needs, NEW hypothesized \in SUBSET Items,
           NEW needsH \in Needs, NEW countH \in [Items -> 0..CountCap]
    PROVE  Loaded(verified, resources, needsV, hypothesized, needsH, countH) \in ProperGraph
<1> DEFINE open == hypothesized \ verified
           needs == [i \in Items |-> IF i \in verified THEN needsV[i]
                                     ELSE IF i \in open THEN needsH[i] ELSE {}]
           left == Without(needs, Cleared(needs, open))
           count == [i \in Items |-> IF i \in open THEN countH[i] ELSE 0]
<1>1. needs \in Needs
  BY DEF Needs
<1>2. left \in Needs
  BY <1>1, WithoutTyped
<1>3. CountCap \in Nat
  BY GraphAssumption
<1>4. count \in [Items -> 0..CountCap]
  BY <1>3
<1>5. Loaded(verified, resources, needsV, hypothesized, needsH, countH) =
        [verified |-> verified, hypothesized |-> open, resources |-> resources,
         needs |-> left, count |-> count, revised |-> {}, broken |-> FALSE]
  BY DEF Loaded
<1> HIDE DEF left, count
<1> QED
  BY <1>2, <1>4, <1>5 DEF ProperGraph, Graph

LEMMA ReloadedTyped ==
    ASSUME NEW g \in ProperGraph, NEW hypothesized \in SUBSET Items,
           NEW needsH \in Needs, NEW countH \in [Items -> 0..CountCap]
    PROVE  Reloaded(g, hypothesized, needsH, countH) \in ProperGraph
<1> DEFINE fresh == hypothesized \ g.verified
           needs == [i \in Items |-> IF i \in fresh THEN needsH[i] ELSE g.needs[i]]
           count == [i \in Items |-> IF i \in fresh THEN countH[i] ELSE g.count[i]]
           all == g.hypothesized \union fresh
<1>1. g \in Graph /\ g.verified \intersect g.hypothesized = {}
  BY DEF ProperGraph
<1>2. needs \in Needs
  BY <1>1 DEF Needs, Graph
<1>3. count \in [Items -> 0..CountCap]
  BY <1>1 DEF Graph
<1>4. all \in SUBSET Items /\ g.verified \intersect all = {}
  BY <1>1 DEF Graph
<1>5. Reloaded(g, hypothesized, needsH, countH) =
        [g EXCEPT !.hypothesized = all, !.needs = needs, !.count = count]
  BY <1>1 DEF Reloaded, Graph
<1> HIDE DEF needs, count, all
<1> QED
  BY <1>1, <1>2, <1>3, <1>4, <1>5 DEF ProperGraph, Graph

LEMMA ReloadedKeepsVerified ==
    ASSUME NEW g \in Graph, NEW hypothesized, NEW needsH, NEW countH,
           NEW h, h = Reloaded(g, hypothesized, needsH, countH)
    PROVE  /\ h.verified = g.verified /\ h.resources = g.resources
           /\ \A v \in g.verified : h.needs[v] = g.needs[v]
BY DEF Reloaded, Graph

LEMMA KeepsProper ==
    ASSUME NEW g \in ProperGraph, NEW h, Keeps(g, h)
    PROVE  h \in ProperGraph
BY DEF ProperGraph, Keeps

LEMMA WritesTyped ==
    ASSUME NEW g \in Graph
    PROVE  Writes(g) \in Seq(TodoOps)
<1>1. Each("write", g.revised) \in Seq(TodoOps)
  BY EachTyped DEF Graph, OpNames
<1>2. <<Op("fail", 0)>> \in Seq(TodoOps) /\ <<>> \in Seq(TodoOps)
  BY OpTyped, Short DEF Itemless
<1> QED
  BY <1>1, <1>2, Short DEF Writes

-----------------------------------------------------------------------------
(* Every step keeps the types.                                             *)
LEMMA Names ==
    /\ {"mark", "store", "create", "merge", "load", "count", "increment", "reset",
        "resets", "free", "clear", "scan", "verify", "revise", "succeeded",
        "failed", "judge"} \subseteq OpNames
    /\ \A ok, there \in BOOLEAN :
          (IF there THEN IF ok THEN "add success" ELSE "add failure"
           ELSE IF ok THEN "first success" ELSE "first failure") \in OpNames \ Itemless
BY Zenon DEF OpNames, Itemless

(* A step within a call: what changes is the files, the graph and what is  *)
(* left to do.                                                             *)
LEMMA CallStepTyped ==
    ASSUME TypeInv, NEW p \in Procs, todo[p] # <<>>,
           NEW ops \in Seq(TodoOps), Then(p, ops),
           FilesTyped', GraphTyped', UNCHANGED <<pc, localVars>>
    PROVE  TypeInv'
BY ThenTyped, SameLocalsTyped DEF TypeInv

LEMMA ReadingStepTyped ==
    ASSUME TypeInv, NEW p \in Procs, todo[p] # <<>>,
           NEW ops \in Seq(TodoOps), Then(p, ops),
           UNCHANGED <<pc, graph, localVars, fileVars>>
    PROVE  TypeInv'
BY CallStepTyped, SameFilesTyped, SameGraphTyped DEF TypeInv

LEMMA GraphCallTyped ==
    ASSUME TypeInv, NEW p \in Procs, todo[p] # <<>>,
           NEW ops \in Seq(TodoOps), Then(p, ops),
           NEW g \in ProperGraph, graph' = [graph EXCEPT ![p] = g],
           UNCHANGED <<pc, localVars, fileVars>>
    PROVE  TypeInv'
BY CallStepTyped, SameFilesTyped, GraphStepTyped DEF TypeInv

LEMMA WritingStepTyped ==
    ASSUME TypeInv, NEW p \in Procs, todo[p] # <<>>, Done(p),
           NEW f \in Files, NEW d \in DataOf(f), Rewrite(p, f, d),
           UNCHANGED <<pc, graph, localVars>>
    PROVE  TypeInv'
<1>1. <<>> \in Seq(TodoOps)
  BY Short
<1> QED
  BY <1>1, CallStepTyped, RewriteTyped, SameGraphTyped DEF TypeInv, Done

(* A step that writes a file and has more to do.                           *)
LEMMA WritingOnTyped ==
    ASSUME TypeInv, NEW p \in Procs, todo[p] # <<>>,
           NEW ops \in Seq(TodoOps), Then(p, ops),
           NEW f \in Files, NEW d \in DataOf(f), Rewrite(p, f, d),
           UNCHANGED <<pc, graph, localVars>>
    PROVE  TypeInv'
BY CallStepTyped, RewriteTyped, SameGraphTyped DEF TypeInv

LEMMA LoadTyped ==
    ASSUME TypeInv, NEW p \in Procs, Load(p)
    PROVE  TypeInv'
<1>1. todo[p] # <<>>
  BY DoingTyped DEF Load, TypeInv
<1>2. CASE Die(p)
  BY <1>2, DieTyped
<1>3. CASE ~Die(p)
  <2> DEFINE g == Loaded(VerifiedFiles, ResourceFiles, NeedsVerified,
                         HypothesizedFiles, NeedsHypothesized, CountsIn)
  <2>1. g \in ProperGraph
    BY RecipesTyped, LoadedTyped DEF TypeInv
  <2>2. /\ graph' = [graph EXCEPT ![p] = g] /\ Done(p)
        /\ UNCHANGED <<pc, localVars, fileVars>>
    BY <1>3 DEF Load
  <2>3. <<>> \in Seq(TodoOps)
    BY Short
  <2> HIDE DEF g
  <2> QED
    BY <1>1, <2>1, <2>2, <2>3, GraphCallTyped DEF Done
<1> QED
  BY <1>2, <1>3

LEMMA SaveVerifiedTyped ==
    ASSUME TypeInv, NEW p \in Procs, SaveVerified(p)
    PROVE  TypeInv'
<1> DEFINE o == Head(todo[p])
           lacking == o.needs \ (Stations \union graph[p].resources)
           marks == IF Oracle[It(p)].verb # "craft" THEN <<>> ELSE Each("mark", lacking)
           stored == <<[o EXCEPT !.do = "store"]>>
           loaded == <<Op("load", 0)>>
<1>1. /\ todo[p] # <<>> /\ o \in TodoOps /\ o.do = "verify"
      /\ o.needs \in SUBSET Items /\ o.item \in Items
  <2>1. Doing(p, "verify") /\ "verify" \notin Itemless
    BY DEF SaveVerified, Itemless
  <2> QED
    BY <2>1, DoingTyped DEF TypeInv, It
<1>2. marks \in Seq(TodoOps)
  <2>1. lacking \in SUBSET Items
    BY <1>1
  <2>2. Each("mark", lacking) \in Seq(TodoOps)
    BY <2>1, Names, EachTyped
  <2> QED
    BY <2>2, Short
<1>3. stored \in Seq(TodoOps)
  <2>1. [o EXCEPT !.do = "store"] \in TodoOps
    BY <1>1, Names, RenamedTyped
  <2> QED
    BY <2>1, Short
<1>4. loaded \in Seq(TodoOps)
  BY OpTyped, Short DEF Itemless
<1>5. Then(p, marks) \/ Then(p, stored \o marks \o loaded)
  BY DEF SaveVerified
<1>6. UNCHANGED <<pc, graph, localVars, fileVars>>
  BY DEF SaveVerified
<1> HIDE DEF o, lacking, marks, stored, loaded
<1>7. stored \o marks \o loaded \in Seq(TodoOps)
  BY <1>2, <1>3, <1>4, Short
<1> QED
  BY <1>1, <1>2, <1>5, <1>6, <1>7, ReadingStepTyped

LEMMA StoreVerifiedTyped ==
    ASSUME TypeInv, NEW p \in Procs, StoreVerified(p)
    PROVE  TypeInv'
<1> DEFINE name == IF Exists(Verified(It(p))) THEN "merge" ELSE "create"
           ops == <<[Head(todo[p]) EXCEPT !.do = name]>>
<1>1. todo[p] # <<>> /\ Head(todo[p]) \in TodoOps /\ Head(todo[p]).item \in Items
  <2>1. Doing(p, "store") /\ "store" \notin Itemless
    BY DEF StoreVerified, Itemless
  <2> QED
    BY <2>1, DoingTyped DEF TypeInv, It
<1>2. name \in OpNames
  BY Names
<1>3. Then(p, ops) /\ UNCHANGED <<pc, graph, localVars, fileVars>>
  BY DEF StoreVerified
<1> HIDE DEF name
<1>4. ops \in Seq(TodoOps)
  BY <1>1, <1>2, RenamedTyped, Short
<1> QED
  BY <1>1, <1>3, <1>4, ReadingStepTyped

LEMMA RecipeWritesTyped ==
    ASSUME TypeInv, NEW p \in Procs,
           CreateVerified(p) \/ MergeVerified(p) \/ MarkResource(p)
    PROVE  TypeInv'
<1> DEFINE i == It(p)
           made == [needs |-> Head(todo[p]).needs, resource |-> FALSE]
<1>1. /\ todo[p] # <<>> /\ i \in Items
      /\ Head(todo[p]).needs \in SUBSET Items
  <2>1. \E name \in {"create", "merge", "mark"} : Doing(p, name) /\ name \notin Itemless
    BY DEF CreateVerified, MergeVerified, MarkResource, Itemless
  <2> QED
    BY <2>1, DoingTyped DEF TypeInv
<1>2. made \in RecipeData
  BY <1>1 DEF RecipeData
<1>3. Verified(i) \in Files /\ DataOf(Verified(i)) = RecipeData
  BY <1>1, FileData
<1>4. Readable(Verified(i)) => Contents(Verified(i)) \in RecipeData
  BY <1>3, ReadTyped DEF TypeInv
<1>5. Readable(Verified(i)) => [Contents(Verified(i)) EXCEPT !.resource = TRUE] \in RecipeData
  BY <1>4 DEF RecipeData
<1>6. CASE Die(p)
  BY <1>6, DieTyped
<1>7. CASE ~Die(p)
  <2>1. \E d \in RecipeData : Rewrite(p, Verified(i), d)
    <3>1. CASE CreateVerified(p)
      BY <1>2, <3>1 DEF CreateVerified
    <3>2. CASE MergeVerified(p)
      BY <1>2, <1>4, <1>7, <3>2 DEF MergeVerified
    <3>3. CASE MarkResource(p)
      BY <1>5, <1>7, <3>3 DEF MarkResource
    <3> QED
      BY <3>1, <3>2, <3>3
  <2>2. Done(p) /\ UNCHANGED <<pc, graph, localVars>>
    BY <1>7 DEF CreateVerified, MergeVerified, MarkResource
  <2> QED
    BY <1>1, <1>3, <2>1, <2>2, WritingStepTyped
<1> QED
  BY <1>6, <1>7

LEMMA WriteHypothesisTyped ==
    ASSUME TypeInv, NEW p \in Procs, WriteHypothesis(p)
    PROVE  TypeInv'
<1> DEFINE i == It(p)
           d == [needs |-> graph[p].needs[i], count |-> graph[p].count[i]]
<1>1. todo[p] # <<>> /\ i \in Items
  BY DoingTyped DEF WriteHypothesis, TypeInv, Itemless
<1>2. graph[p] \in Graph
  BY DEF TypeInv, GraphTyped, ProperGraph
<1>3. d \in HypothesisData
  BY <1>1, <1>2 DEF HypothesisData, Graph, Needs
<1>4. Hypothesized(i) \in Files /\ DataOf(Hypothesized(i)) = HypothesisData
  BY <1>1, FileData
<1>5. CASE Die(p)
  BY <1>5, DieTyped
<1>6. CASE ~Die(p)
  <2>1. /\ Rewrite(p, Hypothesized(i), d) /\ Done(p)
        /\ UNCHANGED <<pc, graph, localVars>>
    BY <1>6 DEF WriteHypothesis
  <2> HIDE DEF d, i
  <2> QED
    BY <1>1, <1>3, <1>4, <2>1, WritingStepTyped
<1> QED
  BY <1>5, <1>6

LEMMA IncrementTyped ==
    ASSUME TypeInv, NEW p \in Procs, Increment(p)
    PROVE  TypeInv'
<1> DEFINE i == It(p)
           read == <<Op("load", 0), Op("count", i)>>
           next == <<Op("count", i)>>
<1>1. todo[p] # <<>> /\ i \in Items
  BY DoingTyped DEF Increment, TypeInv, Itemless
<1>2. Op("load", 0) \in TodoOps /\ Op("count", i) \in TodoOps
  BY <1>1, OpTyped, Names DEF Itemless
<1>3. next \in Seq(TodoOps) /\ read \in Seq(TodoOps)
  <2> DEFINE a == Op("load", 0)
             b == Op("count", i)
  <2>1. a \in TodoOps /\ b \in TodoOps
    BY <1>2
  <2> HIDE DEF a, b
  <2>2. <<b>> \in Seq(TodoOps) /\ <<a, b>> \in Seq(TodoOps)
    BY <2>1
  <2> QED
    BY <2>2 DEF a, b
<1>4. Verified(i) \in Files
  BY <1>1, FileData
<1>5. UNCHANGED <<pc, graph, localVars>>
  BY DEF Increment
<1>6. (RemoveFile(Verified(i)) /\ Then(p, read)) \/ (Then(p, next) /\ UNCHANGED fileVars)
  BY DEF Increment
<1> HIDE DEF read, next
<1>7. FilesTyped'
  BY <1>4, <1>6, RemoveTyped, SameFilesTyped DEF TypeInv
<1> QED
  BY <1>1, <1>3, <1>5, <1>6, <1>7, CallStepTyped, SameGraphTyped DEF TypeInv

(* What increment_count makes of the graph it has read again.              *)
LEMMA CountUpCounts ==
    ASSUME TypeInv, NEW p \in Procs, CountUp(p), ~Die(p)
    PROVE  \E g \in ProperGraph :
              LET h == Incremented(g, It(p))
              IN  /\ It(p) \in Items /\ h \in ProperGraph /\ Keeps(g, h)
                  /\ \/ h.broken \/ h.count[It(p)] <= Threshold \/ It(p) \in Stock(h)
                     \/ Children(h, It(p)) = {}
                  /\ graph' = [graph EXCEPT ![p] = h]
                  /\ Then(p, Writes(h))
                  /\ UNCHANGED <<pc, localVars, fileVars>>
<1> DEFINE g == Reloaded(graph[p], HypothesizedFiles, NeedsHypothesized, CountsIn)
           h == Incremented(g, It(p))
<1>1. It(p) \in Items
  BY DoingTyped DEF CountUp, TypeInv, Itemless
<1>2. g \in ProperGraph
  BY RecipesTyped, ReloadedTyped DEF TypeInv, GraphTyped
<1>3. /\ graph' = [graph EXCEPT ![p] = h]
      /\ Then(p, Writes(h))
      /\ UNCHANGED <<pc, localVars, fileVars>>
  BY DEF CountUp
<1> HIDE DEF g
<1>4. g \in Graph /\ g.verified \intersect g.hypothesized = {}
  BY <1>2 DEF ProperGraph
<1>5. /\ Keeps(g, h)
      /\ \/ h.broken \/ h.count[It(p)] <= Threshold \/ It(p) \in Stock(h)
         \/ Children(h, It(p)) = {}
  BY <1>1, <1>4, InadmissibleIsCutOff
<1>6. h \in ProperGraph
  BY <1>2, <1>5, KeepsProper
<1> QED
  BY <1>1, <1>2, <1>3, <1>5, <1>6

LEMMA CountUpTyped ==
    ASSUME TypeInv, NEW p \in Procs, CountUp(p)
    PROVE  TypeInv'
<1>1. CASE Die(p)
  BY <1>1, DieTyped
<1>2. CASE ~Die(p)
  <2>1. PICK h \in ProperGraph :
               /\ graph' = [graph EXCEPT ![p] = h]
               /\ Then(p, Writes(h))
               /\ UNCHANGED <<pc, localVars, fileVars>>
    BY <1>2, CountUpCounts
  <2>2. Writes(h) \in Seq(TodoOps)
    BY WritesTyped DEF ProperGraph
  <2>3. todo[p] # <<>>
    BY DoingTyped DEF CountUp, TypeInv
  <2> QED
    BY <2>1, <2>2, <2>3, GraphCallTyped
<1> QED
  BY <1>1, <1>2

LEMMA RecipeStepsTyped ==
    ASSUME TypeInv, NEW p \in Procs, RecipeStep(p)
    PROVE  TypeInv'
<1>1. <<>> \in Seq(TodoOps)
  BY Short
<1>2. CASE Ready(p)
  <2>1. todo[p] # <<>>
    BY <1>2, DoingTyped DEF Ready, TypeInv
  <2>2. Die(p) \/ (Then(p, <<>>) /\ UNCHANGED <<pc, graph, localVars, fileVars>>)
    BY <1>2 DEF Ready, Done
  <2> QED
    BY <1>1, <2>1, <2>2, DieTyped, ReadingStepTyped
<1>3. CASE Fail(p)
  BY <1>3, DieTyped DEF Fail
<1> QED
  BY <1>2, <1>3, LoadTyped, SaveVerifiedTyped, StoreVerifiedTyped, RecipeWritesTyped,
     WriteHypothesisTyped, IncrementTyped, CountUpTyped DEF RecipeStep

-----------------------------------------------------------------------------
LEMMA HistoryTyped ==
    /\ NoHistory \in MemoryData
    /\ \A h \in MemoryData, k \in Keys, ok \in BOOLEAN : Recorded(h, k, ok) \in MemoryData
<1>1. NoHistory \in MemoryData
  BY DEF NoHistory, Zero, MemoryData
<1>2. ASSUME NEW h \in MemoryData, NEW k \in Keys, NEW ok \in BOOLEAN
      PROVE  Recorded(h, k, ok) \in MemoryData
  <2>1. h[k] \in [success : Nat, failure : Nat]
    BY DEF MemoryData
  <2> DEFINE won == [h EXCEPT ![k].success = @ + 1]
             lost == [h EXCEPT ![k].failure = @ + 1]
  <2>2. won \in MemoryData
    BY <2>1 DEF MemoryData
  <2>3. lost \in MemoryData
    BY <2>1 DEF MemoryData
  <2> QED
    BY <2>2, <2>3 DEF Recorded
<1> QED
  BY <1>1, <1>2

LEMMA RecordTyped ==
    ASSUME TypeInv, NEW p \in Procs, Record(p)
    PROVE  TypeInv'
<1>1. PICK ok \in BOOLEAN :
          /\ Doing(p, IF ok THEN "succeeded" ELSE "failed")
          /\ Then(p, <<Op(IF Exists(Memory(It(p)))
                          THEN IF ok THEN "add success" ELSE "add failure"
                          ELSE IF ok THEN "first success" ELSE "first failure", It(p))>>)
  BY DEF Record
<1> DEFINE there == Exists(Memory(It(p)))
           name == IF there THEN IF ok THEN "add success" ELSE "add failure"
                   ELSE IF ok THEN "first success" ELSE "first failure"
           a == Op(name, It(p))
<1>2. todo[p] # <<>> /\ It(p) \in Items
  <2> DEFINE asked == IF ok THEN "succeeded" ELSE "failed"
  <2>1. Doing(p, asked)
    BY <1>1
  <2>2. asked \notin Itemless
    BY DEF Itemless
  <2> HIDE DEF asked
  <2> QED
    BY <2>1, <2>2, DoingTyped DEF TypeInv
<1>3. name \in OpNames
  BY Names DEF Exists
<1>4. Then(p, <<a>>)
  BY <1>1
<1>5. UNCHANGED <<pc, graph, localVars, fileVars>>
  BY DEF Record
<1> HIDE DEF name
<1>6. a \in TodoOps
  BY <1>2, <1>3, OpTyped
<1> HIDE DEF a
<1>7. <<a>> \in Seq(TodoOps)
  BY <1>6
<1> QED
  BY <1>2, <1>4, <1>5, <1>7, ReadingStepTyped

LEMMA RecordsTyped ==
    ASSUME TypeInv, NEW p \in Procs, RecordFirst(p) \/ RecordMore(p)
    PROVE  TypeInv'
<1> DEFINE f == Memory(It(p))
<1>1. PICK ok \in BOOLEAN : \E name \in OpNames \ Itemless :
          /\ Doing(p, name)
          /\ \/ Die(p)
             \/ /\ \E h \in {NoHistory} \union (IF Readable(f) THEN {Contents(f)} ELSE {}) :
                        Rewrite(p, f, Recorded(h, key[p], ok))
                /\ \E n \in {"scan", "encode"}, i \in {0, It(p)} : Then(p, <<Op(n, i)>>)
                /\ UNCHANGED <<pc, graph, localVars>>
  <2>1. CASE RecordFirst(p)
    <3>1. PICK ok \in BOOLEAN :
              /\ Doing(p, IF ok THEN "first success" ELSE "first failure")
              /\ Rewrite(p, f, Recorded(NoHistory, key[p], ok))
              /\ \E n \in {"scan", "encode"}, i \in {0, It(p)} : Then(p, <<Op(n, i)>>)
      BY <2>1 DEF RecordFirst
    <3>2. UNCHANGED <<pc, graph, localVars>>
      BY <2>1 DEF RecordFirst
    <3> DEFINE name == IF ok THEN "first success" ELSE "first failure"
    <3>3. name \in OpNames \ Itemless
      BY Zenon DEF OpNames, Itemless
    <3>4. Doing(p, name)
      BY <3>1
    <3> HIDE DEF name
    <3> QED
      BY <3>1, <3>2, <3>3, <3>4
  <2>2. CASE RecordMore(p)
    <3>1. PICK ok \in BOOLEAN :
              /\ Doing(p, IF ok THEN "add success" ELSE "add failure")
              /\ \/ Die(p)
                 \/ /\ Readable(f) /\ Rewrite(p, f, Recorded(Contents(f), key[p], ok))
                    /\ \E n \in {"scan", "encode"}, i \in {0, It(p)} : Then(p, <<Op(n, i)>>)
                    /\ UNCHANGED <<pc, graph, localVars>>
      BY <2>2 DEF RecordMore
    <3> DEFINE name == IF ok THEN "add success" ELSE "add failure"
    <3>2. name \in OpNames \ Itemless
      BY Zenon DEF OpNames, Itemless
    <3>3. Doing(p, name)
      BY <3>1
    <3> HIDE DEF name
    <3> QED
      BY <3>1, <3>2, <3>3
  <2> QED
    BY <2>1, <2>2
<1>2. todo[p] # <<>> /\ It(p) \in Items
  BY <1>1, DoingTyped DEF TypeInv
<1>3. f \in Files /\ DataOf(f) = MemoryData
  BY <1>2, FileData
<1>4. key[p] \in Keys
  BY DEF TypeInv, LocalsTyped
<1>5. \A h \in {NoHistory} \union (IF Readable(f) THEN {Contents(f)} ELSE {}) :
          Recorded(h, key[p], ok) \in DataOf(f)
  BY <1>3, <1>4, HistoryTyped, ReadTyped DEF TypeInv
<1>6. \A n \in {"scan", "encode"}, i \in {0, It(p)} : <<Op(n, i)>> \in Seq(TodoOps)
  BY <1>2, OpTyped, Short DEF Itemless, OpNames
<1> HIDE DEF f
<1> QED
  BY <1>1, <1>2, <1>3, <1>5, <1>6, DieTyped, WritingOnTyped

LEMMA JudgeTyped ==
    ASSUME TypeInv, NEW p \in Procs, Judge(p)
    PROVE  TypeInv'
<1> DEFINE w == It(p)
           again == IF timeout[p] THEN <<Op("reset", w)>> ELSE <<>>
           free == IF timeout[p] THEN <<>> ELSE <<Op("free", 0)>>
           counted == <<Op("increment", w)>> \o again \o <<Op("resets", 0)>> \o free
<1>1. todo[p] # <<>> /\ w \in Items
  BY DoingTyped DEF Judge, TypeInv, Itemless
<1>2. /\ Op("reset", w) \in TodoOps /\ Op("free", 0) \in TodoOps
      /\ Op("increment", w) \in TodoOps /\ Op("resets", 0) \in TodoOps
  BY <1>1, Names, OpTyped DEF Itemless
<1>3. /\ <<Op("increment", w)>> \in Seq(TodoOps) /\ <<Op("resets", 0)>> \in Seq(TodoOps)
      /\ again \in Seq(TodoOps) /\ free \in Seq(TodoOps)
  BY <1>2, Short
<1>4. \/ Die(p)
      \/ \E ops \in {counted, <<>>} :
            Then(p, ops) /\ UNCHANGED <<pc, graph, localVars, fileVars>>
  BY DEF Judge
<1>5. <<>> \in Seq(TodoOps)
  BY Short
<1> HIDE DEF again, free
<1>6. counted \in Seq(TodoOps)
  BY <1>3, Short
<1> HIDE DEF counted
<1> QED
  BY <1>1, <1>4, <1>5, <1>6, DieTyped, ReadingStepTyped

LEMMA ResetRevisedTyped ==
    ASSUME TypeInv, NEW p \in Procs, ResetRevised(p)
    PROVE  TypeInv'
<1> DEFINE g == [graph[p] EXCEPT !.revised = {}]
<1>1. todo[p] # <<>>
  BY DoingTyped DEF ResetRevised, TypeInv
<1>2. graph[p] \in ProperGraph
  BY DEF TypeInv, GraphTyped
<1>3. g \in ProperGraph
  BY <1>2 DEF ProperGraph, Graph
<1>4. Each("reset", graph[p].revised) \in Seq(TodoOps)
  <2>1. graph[p].revised \in SUBSET Items
    BY <1>2 DEF ProperGraph, Graph
  <2> QED
    BY <2>1, Names, EachTyped
<1>5. /\ Then(p, Each("reset", graph[p].revised))
      /\ graph' = [graph EXCEPT ![p] = g]
      /\ UNCHANGED <<pc, localVars, fileVars>>
  BY DEF ResetRevised
<1> HIDE DEF g
<1> QED
  BY <1>1, <1>3, <1>4, <1>5, GraphCallTyped

LEMMA ResetTyped ==
    ASSUME TypeInv, NEW p \in Procs, Reset(p)
    PROVE  TypeInv'
<1> DEFINE clear == <<Op("clear", It(p))>>
<1>1. todo[p] # <<>> /\ It(p) \in Items
  BY DoingTyped DEF Reset, TypeInv, Itemless
<1>2. clear \in Seq(TodoOps) /\ <<>> \in Seq(TodoOps)
  BY <1>1, Names, OpTyped, Short
<1>3. \/ Die(p)
      \/ \E ops \in {clear, <<>>} :
            Then(p, ops) /\ UNCHANGED <<pc, graph, localVars, fileVars>>
  BY DEF Reset
<1> HIDE DEF clear
<1> QED
  BY <1>1, <1>2, <1>3, DieTyped, ReadingStepTyped

LEMMA MemoryStepsTyped ==
    ASSUME TypeInv, NEW p \in Procs, MemoryStep(p)
    PROVE  TypeInv'
<1>1. <<>> \in Seq(TodoOps)
  BY Short
<1>2. CASE Scan(p)
  <2>1. todo[p] # <<>>
    BY <1>2, DoingTyped DEF Scan, TypeInv
  <2>2. CASE Die(p)
    BY <2>2, DieTyped
  <2>3. CASE ~Die(p)
    <3>1. /\ Then(p, <<>>)
          /\ succeeded' = [succeeded EXCEPT ![p] = {i \in Items : Succeeded(i) # {}}]
          /\ UNCHANGED <<pc, graph, goal, way, key, subgoal, timeout, have, fails,
                         acts, forced, fileVars>>
      BY <1>2, <2>3 DEF Scan, Done
    <3>2. succeeded' \in [Procs -> SUBSET Items]
      BY <3>1 DEF TypeInv, LocalsTyped
    <3>3. LocalsTyped'
      BY <3>1, <3>2 DEF TypeInv, LocalsTyped
    <3> QED
      BY <1>1, <2>1, <3>1, <3>3, ThenTyped, SameFilesTyped, SameGraphTyped DEF TypeInv
  <2> QED
    BY <2>2, <2>3
<1>3. CASE Clear(p)
  <2>1. todo[p] # <<>> /\ It(p) \in Items
    BY <1>3, DoingTyped DEF Clear, TypeInv, Itemless
  <2>2. /\ Memory(It(p)) \in Files /\ NoHistory \in DataOf(Memory(It(p)))
    BY <2>1, FileData, HistoryTyped
  <2>3. \/ Die(p)
        \/ /\ Rewrite(p, Memory(It(p)), NoHistory) /\ Done(p)
           /\ UNCHANGED <<pc, graph, localVars>>
    BY <1>3 DEF Clear
  <2> QED
    BY <2>1, <2>2, <2>3, DieTyped, WritingStepTyped
<1> QED
  BY <1>2, <1>3, RecordTyped, RecordsTyped, JudgeTyped, ResetRevisedTyped, ResetTyped
     DEF MemoryStep

-----------------------------------------------------------------------------
LEMMA SetTodoTyped ==
    ASSUME TodoTyped, NEW p \in Procs, NEW ops \in Seq(TodoOps),
           todo' = [todo EXCEPT ![p] = ops]
    PROVE  TodoTyped'
BY DEF TodoTyped

LEMMA ClaimsTyped ==
    ASSUME TypeInv, NEW p \in Procs, NEW i \in Items \union {0}
    PROVE  /\ [Claims EXCEPT ![p] = i] \in ClaimData
           /\ Readable(GoalsFile) => WithoutClaim(p) \in ClaimData
<1>1. GoalsFile \in Files /\ DataOf(GoalsFile) = ClaimData
  BY FileData
<1>2. Readable(GoalsFile) => Contents(GoalsFile) \in ClaimData
  BY <1>1, ReadTyped DEF TypeInv
<1>3. Claims \in ClaimData
  BY <1>2 DEF Claims, NoClaims, ClaimData
<1> QED
  BY <1>2, <1>3 DEF ClaimData, WithoutClaim

LEMMA ClaimTyped ==
    ASSUME TypeInv, NEW p \in Procs, Claim(p)
    PROVE  TypeInv'
<1> DEFINE g == graph[p]
           free == Frontier(g) \ Taken
           revise(i) == IF CountOf(g, i) > 1 THEN <<Op("revise", i)>> ELSE <<>>
<1>1. CASE Die(p)
  BY <1>1, DieTyped
<1>2. CASE ~Die(p)
  <2>1. PICK i \in FirstChoices(g, free) :
           /\ goal' = [goal EXCEPT ![p] = i]
           /\ Rewrite(p, GoalsFile, [Claims EXCEPT ![p] = i])
           /\ todo' = [todo EXCEPT ![p] = revise(i)]
    BY <1>2 DEF Claim
  <2>2. /\ pc' = [pc EXCEPT ![p] = "loop"]
        /\ forced' = [forced EXCEPT ![p] = free = {}]
        /\ UNCHANGED <<graph, way, key, subgoal, timeout, have, succeeded, fails, acts>>
    BY <1>2 DEF Claim
  <2>3. i \in Items
    <3>1. g \in Graph
      BY DEF TypeInv, GraphTyped, ProperGraph
    <3>2. Frontier(g) \subseteq Items
      BY <3>1 DEF Frontier, Graph
    <3>3. FirstChoices(g, free) \subseteq Frontier(g)
      BY DEF FirstChoices
    <3> QED
      BY <2>1, <3>2, <3>3
  <2>4. FilesTyped'
    BY <2>1, <2>3, FileData, ClaimsTyped, RewriteTyped DEF TypeInv
  <2>5. TodoTyped'
    <3>1. revise(i) \in Seq(TodoOps)
      BY <2>3, Names, OpTyped, Short
    <3> HIDE DEF revise
    <3> QED
      BY <2>1, <3>1, SetTodoTyped DEF TypeInv
  <2>6. LocalsTyped'
    <3> DEFINE none == free = {}
    <3>1. none \in BOOLEAN /\ forced' = [forced EXCEPT ![p] = none]
      BY <2>2
    <3> HIDE DEF none
    <3> QED
      BY <2>1, <2>2, <2>3, <3>1 DEF TypeInv, LocalsTyped
  <2> QED
    BY <2>2, <2>4, <2>5, <2>6, SameGraphTyped DEF TypeInv
<1> QED
  BY <1>1, <1>2

LEMMA ReviseGoalTyped ==
    ASSUME TypeInv, NEW p \in Procs, ReviseGoal(p)
    PROVE  TypeInv'
<1> DEFINE g == Revise(graph[p], It(p))
<1>1. todo[p] # <<>> /\ It(p) \in Items
  BY DoingTyped DEF ReviseGoal, TypeInv, Itemless
<1>2. graph[p] \in ProperGraph /\ graph[p] \in Graph
  BY DEF TypeInv, GraphTyped, ProperGraph
<1>3. g \in ProperGraph
  BY <1>1, <1>2, ReviseKeeps, KeepsProper
<1>4. /\ graph' = [graph EXCEPT ![p] = g] /\ Then(p, Writes(g))
      /\ UNCHANGED <<pc, localVars, fileVars>>
  BY DEF ReviseGoal
<1> HIDE DEF g
<1>5. Writes(g) \in Seq(TodoOps)
  BY <1>3, WritesTyped DEF ProperGraph
<1> QED
  BY <1>1, <1>3, <1>4, <1>5, GraphCallTyped

LEMMA FreeTyped ==
    ASSUME TypeInv, NEW p \in Procs, Free(p)
    PROVE  TypeInv'
<1>1. todo[p] # <<>>
  BY DoingTyped DEF Free, TypeInv
<1>2. CASE Die(p)
  BY <1>2, DieTyped
<1>3. CASE ~Die(p)
  <2>1. /\ Readable(GoalsFile) /\ Rewrite(p, GoalsFile, WithoutClaim(p))
        /\ goal' = [goal EXCEPT ![p] = 0] /\ Done(p)
        /\ UNCHANGED <<pc, graph, way, key, subgoal, timeout, have, succeeded, fails, acts, forced>>
    BY <1>3 DEF Free
  <2>2. FilesTyped'
    BY <2>1, FileData, ClaimsTyped, RewriteTyped DEF TypeInv
  <2>3. LocalsTyped'
    BY <2>1 DEF TypeInv, LocalsTyped
  <2> QED
    BY <1>1, <2>1, <2>2, <2>3, DoneTyped, SameGraphTyped DEF TypeInv
<1> QED
  BY <1>2, <1>3

LEMMA ClearClaimTyped ==
    ASSUME TypeInv, NEW p \in Procs, ClearClaim(p)
    PROVE  TypeInv'
<1>1. Replace(GoalsFile, [Claims EXCEPT ![p] = 0]) /\ UNCHANGED progVars
  BY DEF ClearClaim
<1>2. [Claims EXCEPT ![p] = 0] \in ClaimData
  BY ClaimsTyped DEF TypeInv, ClaimData
<1>3. FilesTyped'
  BY <1>1, <1>2, FileData, ReplaceTyped DEF TypeInv
<1>4. UNCHANGED <<pc, todo, graph, localVars>>
  BY <1>1 DEF progVars, localVars
<1> QED
  BY <1>3, <1>4, SameGraphTyped, SameLocalsTyped DEF TypeInv, TodoTyped

LEMMA CountEpisodeTyped ==
    ASSUME TypeInv, NEW p \in Procs, CountEpisode(p)
    PROVE  TypeInv'
<1>1. CASE Die(p)
  BY <1>1, DieTyped
<1>2. CASE ~Die(p)
  <2>1. PICK n \in EpisodesRead : Rewrite(p, EpisodesFile, n + 1)
    BY <1>2 DEF CountEpisode
  <2>2. /\ pc' = [pc EXCEPT ![p] = "ended"] /\ Forget(p)
        /\ UNCHANGED <<todo, acts>>
    BY <1>2 DEF CountEpisode
  <2>3. FilesTyped'
    <3>1. n \in Nat
      BY <2>1, FileData, ReadTyped DEF TypeInv, EpisodesRead
    <3>2. n + 1 \in Nat
      BY <3>1
    <3> QED
      BY <2>1, <3>2, FileData, RewriteTyped DEF TypeInv
  <2>4. GraphTyped'
    BY <2>2, NoGraphTyped, GraphStepTyped DEF Forget, TypeInv
  <2>5. LocalsTyped'
    <3>1. NoPlan \in Keys /\ FailLimit \in Nat
      BY ExplorationAssumption DEF NoPlan, Keys
    <3>2. [i \in Items |-> 0] \in [Items -> 0..FailLimit]
      BY <3>1
    <3> QED
      BY <2>2, <3>1, <3>2 DEF Forget, TypeInv, LocalsTyped
  <2>6. TodoTyped'
    BY <2>2 DEF TypeInv, TodoTyped
  <2> QED
    BY <2>3, <2>4, <2>5, <2>6 DEF TypeInv
<1> QED
  BY <1>1, <1>2

-----------------------------------------------------------------------------
(* A step of the episode changes no file and no graph.                     *)
LEMMA EpisodeTyped ==
    ASSUME TypeInv, NEW p \in Procs, NEW ops \in Seq(TodoOps),
           todo' = [todo EXCEPT ![p] = ops], LocalsTyped', UNCHANGED <<graph, fileVars>>
    PROVE  TypeInv'
BY SetTodoTyped, SameFilesTyped, SameGraphTyped DEF TypeInv

LEMMA ActingTyped ==
    ASSUME TypeInv, NEW p \in Procs, NEW verbs, Acting(p, verbs)
    PROVE  /\ way[p] \in Items /\ have[p] \in SUBSET Items /\ key[p] \in Keys
           /\ Achieve(p) \in Seq(TodoOps)
           /\ <<Op("failed", way[p])>> \in Seq(TodoOps)
           /\ <<Op("failed", way[p]), Op("judge", way[p])>> \in Seq(TodoOps)
           /\ \A i \in Items, needs \in SUBSET Items : Obtain(p, i, needs) \in Seq(TodoOps)
<1>1. /\ way[p] \in Items /\ have[p] \in SUBSET Items /\ key[p] \in Keys
  BY DEF Acting, TypeInv, LocalsTyped
<1> DEFINE a == Op("succeeded", way[p])
           b == Op("free", 0)
           c == Op("failed", way[p])
           d == Op("judge", way[p])
<1>2. a \in TodoOps /\ b \in TodoOps /\ c \in TodoOps /\ d \in TodoOps
  BY <1>1, Names, OpTyped DEF Itemless
<1>3. ASSUME NEW i \in Items, NEW needs \in SUBSET Items
      PROVE  Obtain(p, i, needs) \in Seq(TodoOps)
  <2> DEFINE o == [do |-> "verify", item |-> i, needs |-> needs]
  <2>1. o \in TodoOps
    BY Names DEF TodoOps, Ops, Itemless
  <2>2. Obtain(p, i, needs) \in {<<>>, <<o>>}
    BY DEF Obtain
  <2> HIDE DEF o
  <2> QED
    BY <2>1, <2>2, Short
<1>4. Achieve(p) = <<a>> \o (IF way[p] = goal[p] THEN <<b>> ELSE <<>>)
  BY DEF Achieve
<1> HIDE DEF a, b, c, d
<1>5. /\ <<a>> \in Seq(TodoOps) /\ <<b>> \in Seq(TodoOps) /\ <<>> \in Seq(TodoOps)
      /\ <<c>> \in Seq(TodoOps) /\ <<c, d>> \in Seq(TodoOps)
  BY <1>2
<1>6. Achieve(p) \in Seq(TodoOps)
  BY <1>4, <1>5, Short
<1> QED
  BY <1>1, <1>3, <1>5, <1>6 DEF c, d

LEMMA StartSelectTyped ==
    ASSUME TypeInv, NEW p \in Procs, Start(p) \/ Select(p) \/ Finish(p)
    PROVE  TypeInv'
<1> DEFINE a == Op("load", 0)
           b == Op("ready", 0)
           c == Op("encode", 0)
           d == Op("free", 0)
<1>1. a \in TodoOps /\ b \in TodoOps /\ c \in TodoOps /\ d \in TodoOps
  BY OpTyped DEF Itemless
<1>2. /\ \E ops \in {<<a, b, c>>, <<a>>, <<d>>} : todo' = [todo EXCEPT ![p] = ops]
      /\ UNCHANGED <<graph, fileVars>>
  BY DEF Start, Select, Finish
<1>3. LocalsTyped'
  <2>1. CASE Start(p)
    BY <2>1 DEF Start, localVars, TypeInv, LocalsTyped
  <2>2. CASE Select(p)
    BY <2>2 DEF Select, TypeInv, LocalsTyped
  <2>3. CASE Finish(p)
    BY <2>3 DEF Finish, localVars, TypeInv, LocalsTyped
  <2> QED
    BY <2>1, <2>2, <2>3
<1> HIDE DEF a, b, c, d
<1>4. /\ <<a, b, c>> \in Seq(TodoOps) /\ <<a>> \in Seq(TodoOps) /\ <<d>> \in Seq(TodoOps)
  BY <1>1
<1> QED
  BY <1>2, <1>3, <1>4, EpisodeTyped

LEMMA PlanTyped ==
    ASSUME TypeInv, NEW p \in Procs, Plan(p)
    PROVE  TypeInv'
<1>1. CASE Die(p)
  BY <1>1, DieTyped
<1>2. CASE ~Die(p)
  <2>1. PICK enough \in SUBSET (have[p] \ {goal[p]}) :
          \E w \in FirstWaypoints(graph[p], goal[p], enough) :
             \E k \in IF Succeeded(w) # {} THEN BestActions(w)
                      ELSE PlannerAnswers(w) \union {NoPlan} :
                /\ way' = [way EXCEPT ![p] = w]
                /\ key' = [key EXCEPT ![p] = k]
                /\ IF k = NoPlan
                   THEN /\ pc' = [pc EXCEPT ![p] = "over"]
                        /\ todo' = [todo EXCEPT ![p] = <<Op("failed", w)>>]
                        /\ UNCHANGED subgoal
                   ELSE /\ \E i \in Aims(w) : subgoal' = [subgoal EXCEPT ![p] = i]
                        /\ UNCHANGED <<pc, todo>>
                /\ UNCHANGED <<graph, goal, timeout, have, succeeded, fails, acts, forced, fileVars>>
    BY <1>2 DEF Plan
  <2>2. PICK w \in FirstWaypoints(graph[p], goal[p], enough) :
             \E k \in IF Succeeded(w) # {} THEN BestActions(w)
                      ELSE PlannerAnswers(w) \union {NoPlan} :
                /\ way' = [way EXCEPT ![p] = w]
                /\ key' = [key EXCEPT ![p] = k]
                /\ \/ /\ pc' = [pc EXCEPT ![p] = "over"]
                      /\ todo' = [todo EXCEPT ![p] = <<Op("failed", w)>>]
                      /\ UNCHANGED subgoal
                   \/ /\ \E i \in Aims(w) : subgoal' = [subgoal EXCEPT ![p] = i]
                      /\ UNCHANGED <<pc, todo>>
                /\ UNCHANGED <<graph, goal, timeout, have, succeeded, fails, acts, forced, fileVars>>
    BY <2>1
  <2>3. PICK k \in IF Succeeded(w) # {} THEN BestActions(w)
                   ELSE PlannerAnswers(w) \union {NoPlan} :
                /\ way' = [way EXCEPT ![p] = w]
                /\ key' = [key EXCEPT ![p] = k]
                /\ \/ /\ pc' = [pc EXCEPT ![p] = "over"]
                      /\ todo' = [todo EXCEPT ![p] = <<Op("failed", w)>>]
                      /\ UNCHANGED subgoal
                   \/ /\ \E i \in Aims(w) : subgoal' = [subgoal EXCEPT ![p] = i]
                      /\ UNCHANGED <<pc, todo>>
                /\ UNCHANGED <<graph, goal, timeout, have, succeeded, fails, acts, forced, fileVars>>
    BY <2>2
  <2>4. w \in Items
    BY DEF FirstWaypoints, ItemsBelow
  <2>5. k \in Keys
    <3>1. BestActions(w) \subseteq Keys
      BY DEF BestActions, Succeeded
    <3>2. PlannerAnswers(w) \subseteq Keys
      <4>1. OptionVerbs(w) \subseteq Verbs
        BY DEF OptionVerbs
      <4>2. [verb : OptionVerbs(w), bare : {FALSE}] \subseteq [verb : Verbs, bare : BOOLEAN]
        BY <4>1
      <4>3. [verb : OptionVerbs(w), bare : {FALSE}] \subseteq Keys
        BY <4>2 DEF Keys
      <4> QED
        BY <4>3, ExplorationAssumption DEF PlannerAnswers
    <3>3. NoPlan \in Keys
      BY DEF NoPlan, Keys
    <3> QED
      BY <2>3, <3>1, <3>2, <3>3
  <2>6. LocalsTyped'
    <3>1. way' \in [Procs -> Items \union {0}] /\ key' \in [Procs -> Keys]
      BY <2>3, <2>4, <2>5 DEF TypeInv, LocalsTyped
    <3>2. /\ pc' \in [Procs -> {"off", "loop", "selecting", "over", "leaving", "ended", "dead"}]
          /\ subgoal' \in [Procs -> Items \union {0}]
          /\ \A q \in Procs \ {p} : subgoal'[q] = subgoal[q]
      <4>1. Aims(w) \subseteq Items
        BY <2>4, ExplorationAssumption DEF Aims
      <4>2. subgoal' = subgoal \/ \E i \in Items : subgoal' = [subgoal EXCEPT ![p] = i]
        BY <2>3, <4>1
      <4>3. pc' = pc \/ pc' = [pc EXCEPT ![p] = "over"]
        BY <2>3
      <4>4. pc' \in [Procs -> {"off", "loop", "selecting", "over", "leaving", "ended", "dead"}]
        BY <4>3 DEF TypeInv, LocalsTyped
      <4>5. subgoal \in [Procs -> Items \union {0}]
        BY DEF TypeInv, LocalsTyped
      <4>6. /\ subgoal' \in [Procs -> Items \union {0}]
            /\ \A q \in Procs \ {p} : subgoal'[q] = subgoal[q]
        BY <4>2, <4>5
      <4> QED
        BY <4>4, <4>6
    <3>3. \A q \in Procs : subgoal'[q] # 0 => way'[q] \in Items
      <4> SUFFICES ASSUME NEW q \in Procs, subgoal'[q] # 0 PROVE way'[q] \in Items
        OBVIOUS
      <4>1. CASE q = p
        BY <2>3, <2>4, <4>1 DEF TypeInv, LocalsTyped
      <4>2. CASE q # p
        <5>1. subgoal'[q] = subgoal[q] /\ way'[q] = way[q]
          BY <2>3, <3>2, <4>2 DEF TypeInv, LocalsTyped
        <5> QED
          BY <5>1 DEF TypeInv, LocalsTyped
      <4> QED
        BY <4>1, <4>2
    <3> QED
      BY <2>3, <3>1, <3>2, <3>3 DEF TypeInv, LocalsTyped
  <2>7. TodoTyped'
    <3>1. <<Op("failed", w)>> \in Seq(TodoOps)
      BY <2>4, Names, OpTyped, Short
    <3>2. CASE todo' = [todo EXCEPT ![p] = <<Op("failed", w)>>]
      BY <3>1, <3>2, SetTodoTyped DEF TypeInv
    <3>3. CASE UNCHANGED todo
      BY <3>3 DEF TypeInv, TodoTyped
    <3> QED
      BY <2>3, <3>2, <3>3
  <2> QED
    BY <2>3, <2>6, <2>7, SameFilesTyped, SameGraphTyped DEF TypeInv
<1> QED
  BY <1>1, <1>2

LEMMA MoreFailsTyped ==
    ASSUME TypeInv, NEW p \in Procs, way[p] \in Items
    PROVE  MoreFails(p) \in [Procs -> [Items -> 0..FailLimit]]
<1>1. FailLimit \in Nat
  BY ExplorationAssumption
<1>2. fails \in [Procs -> [Items -> 0..FailLimit]]
  BY DEF TypeInv, LocalsTyped
<1>3. fails[p][way[p]] \in 0..FailLimit
  BY <1>2
<1> DEFINE n == IF fails[p][way[p]] < FailLimit THEN fails[p][way[p]] + 1 ELSE fails[p][way[p]]
<1>4. n \in 0..FailLimit
  BY <1>1, <1>3
<1>5. MoreFails(p) = [fails EXCEPT ![p][way[p]] = n]
  BY DEF MoreFails
<1> HIDE DEF n
<1> QED
  BY <1>2, <1>4, <1>5

LEMMA CraftTyped ==
    ASSUME TypeInv, NEW p \in Procs, Craft(p)
    PROVE  TypeInv'
<1> DEFINE i == subgoal[p]
           new == Obtain(p, i, Oracle[i].needs)
<1>1. /\ way[p] \in Items /\ Achieve(p) \in Seq(TodoOps) /\ new \in Seq(TodoOps)
      /\ <<Op("failed", way[p])>> \in Seq(TodoOps) /\ i \in Items
  <2>1. Acting(p, {"craft", "smelt"})
    BY DEF Craft
  <2>2. way[p] \in Items /\ Achieve(p) \in Seq(TodoOps) /\ <<Op("failed", way[p])>> \in Seq(TodoOps)
    BY <2>1, ActingTyped
  <2>3. i \in Items
    BY <2>1 DEF Acting, TypeInv, LocalsTyped
  <2>4. Oracle[i].needs \in SUBSET Items
    BY <2>3, ExplorationAssumption
  <2> QED
    BY <2>1, <2>2, <2>3, <2>4, ActingTyped
<1>2. new \o Achieve(p) \in Seq(TodoOps) /\ new \o <<Op("failed", way[p])>> \in Seq(TodoOps)
  BY <1>1, Short
<1>3. /\ \E ops \in {new \o Achieve(p), new \o <<Op("failed", way[p])>>} :
             todo' = [todo EXCEPT ![p] = ops]
      /\ have' = [have EXCEPT ![p] = have[p] \union {i}]
      /\ fails' = fails \/ fails' = MoreFails(p)
      /\ subgoal' = [subgoal EXCEPT ![p] = 0]
      /\ acts > 0 /\ acts' = acts - 1
      /\ UNCHANGED <<pc, graph, goal, way, key, timeout, succeeded, forced, fileVars>>
  BY DEF Craft, Act
<1> HIDE DEF new
<1>4. fails' \in [Procs -> [Items -> 0..FailLimit]]
  BY <1>1, <1>3, MoreFailsTyped DEF TypeInv, LocalsTyped
<1>5. acts' \in Nat /\ subgoal' \in [Procs -> Items \union {0}]
      /\ have' \in [Procs -> SUBSET Items]
      /\ \A q \in Procs : subgoal'[q] # 0 => subgoal[q] # 0
  BY <1>1, <1>3 DEF TypeInv, LocalsTyped
<1>6. UNCHANGED <<pc, goal, way, key, timeout, succeeded, forced>>
  BY <1>3
<1>7. LocalsTyped'
  BY <1>4, <1>5, <1>6 DEF TypeInv, LocalsTyped
<1> QED
  BY <1>2, <1>3, <1>7, EpisodeTyped

LEMMA CraftFailsTyped ==
    ASSUME TypeInv, NEW p \in Procs, CraftFails(p)
    PROVE  TypeInv'
<1> DEFINE ops == <<Op("failed", way[p]), Op("judge", way[p])>>
           c == IF fails'[p][way[p]] >= FailLimit THEN "over" ELSE pc[p]
<1>1. way[p] \in Items /\ ops \in Seq(TodoOps)
  BY ActingTyped DEF CraftFails
<1>2. /\ todo' = [todo EXCEPT ![p] = ops]
      /\ subgoal' = [subgoal EXCEPT ![p] = 0]
      /\ fails' = MoreFails(p)
      /\ pc' = [pc EXCEPT ![p] = c]
      /\ acts > 0 /\ acts' = acts - 1
      /\ UNCHANGED <<graph, goal, way, key, timeout, have, succeeded, forced, fileVars>>
  BY DEF CraftFails, Act
<1>3. fails' \in [Procs -> [Items -> 0..FailLimit]]
  BY <1>1, <1>2, MoreFailsTyped
<1>4. pc' = [pc EXCEPT ![p] = "over"] \/ pc' = [pc EXCEPT ![p] = pc[p]]
  BY <1>2
<1> HIDE DEF ops, c
<1>5. acts' \in Nat /\ subgoal' \in [Procs -> Items \union {0}]
      /\ \A q \in Procs : subgoal'[q] # 0 => subgoal[q] # 0
  BY <1>2 DEF TypeInv, LocalsTyped
<1>6. pc' \in [Procs -> {"off", "loop", "selecting", "over", "leaving", "ended", "dead"}]
  BY <1>4 DEF TypeInv, LocalsTyped
<1>7. UNCHANGED <<goal, way, key, timeout, have, succeeded, forced>>
  BY <1>2
<1>8. LocalsTyped'
  BY <1>3, <1>5, <1>6, <1>7 DEF TypeInv, LocalsTyped
<1> QED
  BY <1>1, <1>2, <1>8, EpisodeTyped

LEMMA CollectTyped ==
    ASSUME TypeInv, NEW p \in Procs, Collect(p)
    PROVE  TypeInv'
<1>1. PICK i \in Items \ have[p] :
          /\ \E tool \in SUBSET (have[p] \intersect Pickaxes) :
                todo' = [todo EXCEPT ![p] = Obtain(p, i, tool)]
          /\ have' = [have EXCEPT ![p] = have[p] \union {i}]
  BY DEF Collect
<1>2. PICK tool \in SUBSET (have[p] \intersect Pickaxes) :
                todo' = [todo EXCEPT ![p] = Obtain(p, i, tool)]
  BY <1>1
<1>3. Acting(p, {"mine"}) /\
      UNCHANGED <<pc, graph, goal, way, key, subgoal, timeout, succeeded, fails, acts, forced, fileVars>>
  BY DEF Collect
<1>4. Obtain(p, i, tool) \in Seq(TodoOps)
  BY <1>3, ActingTyped
<1>5. LocalsTyped'
  BY <1>1, <1>3 DEF TypeInv, LocalsTyped
<1> QED
  BY <1>2, <1>3, <1>4, <1>5, EpisodeTyped

LEMMA MineTyped ==
    ASSUME TypeInv, NEW p \in Procs, Mine(p)
    PROVE  TypeInv'
<1>1. /\ way[p] \in Items /\ Achieve(p) \in Seq(TodoOps)
      /\ <<Op("failed", way[p])>> \in Seq(TodoOps)
  BY ActingTyped DEF Mine
<1>2. /\ \E ops \in {Achieve(p), <<Op("failed", way[p])>>} : todo' = [todo EXCEPT ![p] = ops]
      /\ fails' = fails \/ fails' = MoreFails(p)
      /\ subgoal' = [subgoal EXCEPT ![p] = 0]
      /\ acts > 0 /\ acts' = acts - 1
      /\ UNCHANGED <<pc, graph, goal, way, key, timeout, have, succeeded, forced, fileVars>>
  BY DEF Mine, Act
<1>3. fails' \in [Procs -> [Items -> 0..FailLimit]]
  BY <1>1, <1>2, MoreFailsTyped DEF TypeInv, LocalsTyped
<1>4. acts' \in Nat /\ subgoal' \in [Procs -> Items \union {0}]
      /\ \A q \in Procs : subgoal'[q] # 0 => subgoal[q] # 0
  BY <1>2 DEF TypeInv, LocalsTyped
<1>5. UNCHANGED <<pc, goal, way, key, timeout, have, succeeded, forced>>
  BY <1>2
<1>6. LocalsTyped'
  BY <1>3, <1>4, <1>5 DEF TypeInv, LocalsTyped
<1> QED
  BY <1>1, <1>2, <1>6, EpisodeTyped

LEMMA TimeOutTyped ==
    ASSUME TypeInv, NEW p \in Procs, TimeOut(p)
    PROVE  TypeInv'
<1> DEFINE ops == <<Op("failed", way[p]), Op("judge", way[p])>>
<1>1. ops \in Seq(TodoOps)
  BY ActingTyped DEF TimeOut
<1>2. /\ pc' = [pc EXCEPT ![p] = "over"]
      /\ timeout' = [timeout EXCEPT ![p] = TRUE]
      /\ todo' = [todo EXCEPT ![p] = ops]
      /\ UNCHANGED <<graph, goal, way, key, subgoal, have, succeeded, fails, acts, forced, fileVars>>
  BY DEF TimeOut
<1> HIDE DEF ops
<1>3. LocalsTyped'
  BY <1>2 DEF TypeInv, LocalsTyped
<1> QED
  BY <1>1, <1>2, <1>3, EpisodeTyped

LEMMA InitTypeInv == Init => TypeInv
<1> SUFFICES ASSUME Init PROVE TypeInv
  OBVIOUS
<1>1. PICK s \in Starts : disk = s.disk /\ acts = s.acts
  BY DEF Init
<1>2. /\ disk = [f \in Files |-> disk[f]]
      /\ \A f \in Files : disk[f] = Missing \/ disk[f] \in [state : {"whole"}, data : DataOf(f)]
      /\ acts \in Nat
  BY <1>1, StartsAssumption
<1>3. FilesTyped
  BY <1>2 DEF Init, FilesTyped, Quiet
<1>4. TodoTyped
  BY Short DEF Init, TodoTyped
<1>5. GraphTyped
  BY NoGraphTyped DEF Init, GraphTyped
<1>6. LocalsTyped
  <2>1. NoPlan \in Keys /\ FailLimit \in Nat
    BY ExplorationAssumption DEF NoPlan, Keys
  <2>2. [i \in Items |-> 0] \in [Items -> 0..FailLimit]
    BY <2>1
  <2> QED
    BY <1>2, <2>1, <2>2 DEF Init, LocalsTyped
<1> QED
  BY <1>3, <1>4, <1>5, <1>6 DEF TypeInv

LEMMA NextTyped == TypeInv /\ [Next]_vars => TypeInv'
<1> SUFFICES ASSUME TypeInv, [Next]_vars PROVE TypeInv'
  OBVIOUS
<1>1. CASE UNCHANGED vars
  <2>1. UNCHANGED <<pc, todo, graph, localVars, fileVars>>
    BY <1>1 DEF vars, progVars, localVars
  <2> QED
    BY <2>1, SameFilesTyped, SameGraphTyped, SameLocalsTyped DEF TypeInv, TodoTyped
<1>2. ASSUME NEW p \in Procs, Close(p)
      PROVE  TypeInv'
  <2>1. UNCHANGED <<pc, todo, graph, localVars>>
    BY <1>2 DEF Close, progVars, localVars
  <2> QED
    BY <1>2, <2>1, CloseTyped, SameGraphTyped, SameLocalsTyped DEF Close, TypeInv, TodoTyped
<1>3. ASSUME NEW p \in Procs, RecipeStep(p)
      PROVE  TypeInv'
  BY <1>3, RecipeStepsTyped
<1>4. ASSUME NEW p \in Procs, MemoryStep(p)
      PROVE  TypeInv'
  BY <1>4, MemoryStepsTyped
<1>5. ASSUME NEW p \in Procs, GoalStep(p)
      PROVE  TypeInv'
  BY <1>5, ClaimTyped, ReviseGoalTyped, FreeTyped, ClearClaimTyped, CountEpisodeTyped
     DEF GoalStep
<1>6. ASSUME NEW p \in Procs, EpisodeStep(p)
      PROVE  TypeInv'
  BY <1>6, StartSelectTyped, PlanTyped, CraftTyped, CraftFailsTyped, CollectTyped,
     MineTyped, TimeOutTyped, DieTyped DEF EpisodeStep, MalmoError
<1> QED
  BY <1>1, <1>2, <1>3, <1>4, <1>5, <1>6 DEF Next

LEMMA TypeInvariance == Spec => []TypeInv
BY InitTypeInv, NextTyped, PTL DEF Spec

(* Every variable keeps the shape the code gives it: no file ever holds    *)
(* what its readers do not expect, and no call is made on an item that     *)
(* there is not.                                                           *)
THEOREM ExplorationTypes == Spec => []TypeOK
<1>1. ASSUME TypeInv PROVE TypeOK
  <2>1. \A p \in Procs : todo[p] \in Seq(Ops)
    <3>1. Seq(TodoOps) \subseteq Seq(Ops)
      BY DEF TodoOps
    <3> QED
      BY <1>1, <3>1 DEF TypeInv, TodoTyped
  <2>2. graph \in [Procs -> Graph]
    BY <1>1 DEF TypeInv, GraphTyped, ProperGraph
  <2> QED
    BY <1>1, <2>1, <2>2 DEF TypeInv, FilesTyped, LocalsTyped, TypeOK
<1> QED
  BY <1>1, TypeInvariance, PTL

(* However the recipes depend on each other, counting an item up until it  *)
(* is inadmissible leaves nothing unverified that is planned with it,      *)
(* unless a verified recipe uses it.                                       *)
THEOREM PropagationCutsOff == Spec => InadmissibleCutOff
<1>1. ASSUME TypeInv, NEW p \in Procs, CountUp(p)
      PROVE  CutOff(graph'[p], It(p))
  <2>1. graph \in [Procs -> ProperGraph]
    BY <1>1 DEF TypeInv, GraphTyped
  <2>2. CASE Die(p)
    <3>1. graph'[p] = NoGraph
      BY <2>1, <2>2 DEF Die, Forget
    <3> QED
      BY <3>1 DEF NoGraph, CutOff, Children
  <2>3. CASE ~Die(p)
    <3>1. PICK h \in ProperGraph :
             /\ \/ h.broken \/ h.count[It(p)] <= Threshold \/ It(p) \in Stock(h)
                \/ Children(h, It(p)) = {}
             /\ graph' = [graph EXCEPT ![p] = h]
      BY <1>1, <2>3, CountUpCounts
    <3>2. graph'[p] = h
      BY <2>1, <3>1
    <3> QED
      BY <3>1, <3>2 DEF CutOff, Stock
  <2> QED
    BY <2>2, <2>3
<1>2. TypeInv /\ [Next]_vars => [\A p \in Procs : CountUp(p) => CutOff(graph'[p], It(p))]_vars
  BY <1>1
<1> QED
  BY <1>2, TypeInvariance, PTL DEF Spec, InadmissibleCutOff
-----------------------------------------------------------------------------
(* A candidate is chosen whenever there is one: of those no process        *)
(* explores the least explored, or of all of them when each is taken.      *)
THEOREM LeastExploredFirst ==
    ASSUME NEW g \in Graph, NEW free \in SUBSET Frontier(g), Frontier(g) # {},
           NEW pool, pool = IF free = {} THEN Frontier(g) ELSE free
    PROVE  /\ FirstChoices(g, free) # {}
           /\ \A i \in FirstChoices(g, free) : i \in pool /\ \A j \in pool : Before(g, i, j)
<1> DEFINE best == {i \in Frontier(g) : \A j \in Frontier(g) : Before(g, i, j)}
           front == {i \in free : \A j \in free : Before(g, i, j)}
           alone == {i \in free : \A j \in free :
                        Before(g, i, j) /\ (Before(g, j, i) => i <= j)}
<1>1. Frontier(g) \in SUBSET Items /\ free \in SUBSET Items
  BY DEF Frontier, Graph
<1>2. FirstChoices(g, free) = IF free = {} THEN best
                              ELSE IF free \intersect best # {} THEN free \intersect best
                              ELSE alone
  BY DEF FirstChoices
<1>3. best # {}
  BY <1>1, BeforeIsOrder
<1>4. free # {} => alone # {}
  <2> SUFFICES ASSUME free # {} PROVE alone # {}
    OBVIOUS
  <2>1. front # {} /\ front \in SUBSET Items
    BY <1>1, BeforeIsOrder
  <2>2. PICK i \in front : \A j \in front : i <= j
    BY <2>1, FirstIsOne
  <2>3. ASSUME NEW j \in free, Before(g, j, i)
        PROVE  i <= j
    <3>1. \A k \in free : Before(g, j, k)
      BY <1>1, <2>2, <2>3, BeforeIsOrder
    <3> QED
      BY <2>2, <3>1
  <2>4. i \in alone
    BY <2>2, <2>3
  <2> QED
    BY <2>4
<1> HIDE DEF FirstChoices
<1> QED
  BY <1>2, <1>3, <1>4

(* A process does not find itself without a goal as long as it knows the   *)
(* ingredients of what is left to explore: cycles it has cleared.          *)
AlwaysACandidate ==
    [][\A p \in Procs : Claim(p) /\ pc'[p] = "dead" =>
           \/ graph[p].hypothesized = {}
           \/ \E i \in graph[p].hypothesized :
                 ~(graph[p].needs[i] \subseteq graph[p].verified \union graph[p].hypothesized)]_vars

(* Planning ends a process for three reasons: recipes that need each other *)
(* below its goal, a memory file it cannot read, of an item there or of    *)
(* one that serves as an example for it, wherever that is in the graph, or *)
(* embeddings that another process is writing.                             *)
PlanningFindsAWay ==
    [][\A p \in Procs : Plan(p) /\ pc'[p] = "dead" =>
           \E b \in ItemsBelow(graph[p].needs, goal[p]) :
               \/ OnCycle(graph[p].needs, b)
               \/ \E i \in PlanReads(p, b) : Garbled(Memory(i))
               \/ MayMissEmbedding(p, b)]_vars

(* No revision, made for a goal or spread from an inadmissible item,       *)
(* touches a verified recipe.                                              *)
VerifiedKept ==
    [][\A p \in Procs : (CountUp(p) \/ ReviseGoal(p)) /\ pc'[p] # "dead" =>
           /\ graph'[p].verified = graph[p].verified
           /\ graph'[p].resources = graph[p].resources
           /\ \A v \in graph[p].verified : graph'[p].needs[v] = graph[p].needs[v]]_vars

(* load_and_init_all_recipes clears all cycles, so that only an unknown    *)
(* ingredient keeps a hypothesis from being tried.                         *)
THEOREM GoalsAreFound == Spec => AlwaysACandidate
<1>1. ASSUME IInv, TypeInv, NEW p \in Procs, Claim(p), pc'[p] = "dead",
             \A i \in graph[p].hypothesized :
                 graph[p].needs[i] \subseteq graph[p].verified \union graph[p].hypothesized
      PROVE  graph[p].hypothesized = {}
  <2>1. graph[p] \in Graph
    BY <1>1 DEF TypeInv, GraphTyped, ProperGraph
  <2>2. Acyclic(graph[p])
    <3>1. pc[p] = "selecting" /\ todo[p] = <<>>
      BY <1>1 DEF Claim, Idle
    <3>2. <<Op("load", 0)>> # <<>>
      OBVIOUS
    <3> QED
      BY <1>1, <3>1, <3>2 DEF IInv, ProgInv
  <2>3. Frontier(graph[p]) = {}
    <3> SUFFICES ASSUME Frontier(graph[p]) # {} PROVE FALSE
      OBVIOUS
    <3>1. pc' = [pc EXCEPT ![p] = "loop"]
      BY <1>1 DEF Claim
    <3>2. pc'[p] = "loop"
      BY <1>1, <3>1 DEF IInv, ProgInv
    <3> QED
      BY <1>1, <3>2
  <2> QED
    BY <1>1, <2>1, <2>2, <2>3, FrontierExists DEF Acyclic
<1>2. IInv /\ TypeInv /\ [Next]_vars =>
        [\A p \in Procs : Claim(p) /\ pc'[p] = "dead" =>
             \/ graph[p].hypothesized = {}
             \/ \E i \in graph[p].hypothesized :
                   ~(graph[p].needs[i] \subseteq graph[p].verified \union graph[p].hypothesized)]_vars
  BY <1>1
<1> QED
  BY <1>2, Invariance, TypeInvariance, PTL DEF Spec, AlwaysACandidate

(* retrieve_waypoints answers as long as no recipes below the goal need    *)
(* each other, which increment_count and update_hypothesis do not exclude. *)
THEOREM PlansAreFound == Spec => PlanningFindsAWay
<1>1. ASSUME TypeInv, NEW p \in Procs, Plan(p), pc'[p] = "dead"
      PROVE  \E b \in ItemsBelow(graph[p].needs, goal[p]) :
                 \/ OnCycle(graph[p].needs, b)
                 \/ \E i \in PlanReads(p, b) : Garbled(Memory(i))
                 \/ MayMissEmbedding(p, b)
  <2>1. graph[p] \in Graph
    BY <1>1 DEF TypeInv, GraphTyped, ProperGraph
  <2>2. goal[p] \in Items /\ pc[p] = "loop" /\ pc = [q \in Procs |-> pc[q]]
    BY <1>1 DEF Plan, InLoop, TypeInv, LocalsTyped
  <2>3. PICK enough \in SUBSET (have[p] \ {goal[p]}) :
          \/ FirstWaypoints(graph[p], goal[p], enough) = {}
          \/ \E w \in FirstWaypoints(graph[p], goal[p], enough) :
                \/ \E i \in PlanReads(p, w) : Garbled(Memory(i))
                \/ MayMissEmbedding(p, w)
          \/ pc' = [pc EXCEPT ![p] = "over"]
          \/ UNCHANGED pc
    BY <1>1 DEF Plan
  <2>4. \/ FirstWaypoints(graph[p], goal[p], enough) = {}
        \/ \E w \in FirstWaypoints(graph[p], goal[p], enough) :
              \/ \E i \in PlanReads(p, w) : Garbled(Memory(i))
              \/ MayMissEmbedding(p, w)
    BY <1>1, <2>2, <2>3
  <2>5. FirstWaypoints(graph[p], goal[p], enough) \subseteq ItemsBelow(graph[p].needs, goal[p])
    BY <2>1, <2>2, WaypointsBelow
  <2> QED
    BY <2>1, <2>2, <2>4, <2>5, WaypointExists
<1>2. TypeInv /\ [Next]_vars =>
        [\A p \in Procs : Plan(p) /\ pc'[p] = "dead" =>
             \E b \in ItemsBelow(graph[p].needs, goal[p]) :
                 \/ OnCycle(graph[p].needs, b)
                 \/ \E i \in PlanReads(p, b) : Garbled(Memory(i))
                 \/ MayMissEmbedding(p, b)]_vars
  BY <1>1
<1> QED
  BY <1>2, TypeInvariance, PTL DEF Spec, PlanningFindsAWay

(* A revision gives hypotheses new ingredients; what is verified, and what *)
(* is a resource, is for the actions in the game to say.                   *)
THEOREM VerifiedAreKept == Spec => VerifiedKept
<1>1. ASSUME TypeInv, NEW p \in Procs, CountUp(p) \/ ReviseGoal(p), pc'[p] # "dead"
      PROVE  /\ graph'[p].verified = graph[p].verified
             /\ graph'[p].resources = graph[p].resources
             /\ \A v \in graph[p].verified : graph'[p].needs[v] = graph[p].needs[v]
  <2>1. /\ graph = [q \in Procs |-> graph[q]] /\ graph[p] \in Graph
        /\ pc = [q \in Procs |-> pc[q]]
    BY <1>1 DEF TypeInv, GraphTyped, ProperGraph, LocalsTyped
  <2>2. ~Die(p)
    BY <1>1, <2>1 DEF Die
  <2>3. CASE CountUp(p)
    <3> DEFINE g == Reloaded(graph[p], HypothesizedFiles, NeedsHypothesized, CountsIn)
               h == Incremented(g, It(p))
    <3>1. graph'[p] = h
      <4>1. graph' = [graph EXCEPT ![p] = h]
        BY <2>2, <2>3 DEF CountUp
      <4> HIDE DEF h
      <4> QED
        BY <2>1, <4>1
    <3>2. g \in ProperGraph
      BY <1>1, RecipesTyped, ReloadedTyped DEF TypeInv, GraphTyped
    <3>3. /\ g.verified = graph[p].verified /\ g.resources = graph[p].resources
          /\ \A v \in graph[p].verified : g.needs[v] = graph[p].needs[v]
      BY <2>1, ReloadedKeepsVerified
    <3>4. It(p) \in Items
      BY <1>1, <2>3, DoingTyped DEF CountUp, TypeInv, Itemless
    <3> HIDE DEF g
    <3>5. Keeps(g, h)
      BY <3>2, <3>4, InadmissibleIsCutOff DEF ProperGraph
    <3> HIDE DEF h
    <3> QED
      BY <3>1, <3>3, <3>5 DEF Keeps
  <2>4. CASE ReviseGoal(p)
    <3> DEFINE h == Revise(graph[p], It(p))
    <3>1. It(p) \in Items
      BY <1>1, <2>4, DoingTyped DEF ReviseGoal, TypeInv, Itemless
    <3>2. Keeps(graph[p], h)
      BY <2>1, <3>1, ReviseKeeps
    <3>3. graph' = [graph EXCEPT ![p] = h]
      BY <2>4 DEF ReviseGoal
    <3> HIDE DEF h
    <3> QED
      BY <2>1, <3>2, <3>3 DEF Keeps
  <2> QED
    BY <1>1, <2>3, <2>4
<1>2. TypeInv /\ [Next]_vars =>
        [\A p \in Procs : (CountUp(p) \/ ReviseGoal(p)) /\ pc'[p] # "dead" =>
             /\ graph'[p].verified = graph[p].verified
             /\ graph'[p].resources = graph[p].resources
             /\ \A v \in graph[p].verified : graph'[p].needs[v] = graph[p].needs[v]]_vars
  BY <1>1
<1> QED
  BY <1>2, TypeInvariance, PTL DEF Spec, VerifiedKept
=============================================================================
