---------------------------- MODULE SharedFiles ----------------------------
(***************************************************************************)
(* The JSON files several exploring processes share                        *)
(* (src/src/optimus1/memories/hypothesized_recipe_graph.py and             *)
(* decomposed_memory.py).  Each is updated in place: locked, read,         *)
(* truncated, dumped and unlocked inside one "with open".  The dump stays  *)
(* in the file object's buffer until the with-block closes it, which is    *)
(* after the lock was given back.  An update is therefore two steps, with  *)
(* the file empty on disk and unlocked between them.                       *)
(***************************************************************************)
EXTENDS Integers, FiniteSets, Sequences

CONSTANT Procs  \* the processes

VARIABLES
    disk,       \* what another process would read in each file
    pending,    \* the update a process has dumped and not yet closed, if any
    disturbed   \* history: the files that were rewritten while unreadable

fileVars == <<disk, pending, disturbed>>

Whole(d) == [state |-> "whole", data |-> d]
Missing == [state |-> "missing"]
Empty == [state |-> "empty"]
Torn == [state |-> "torn"]

Exists(f) == disk[f].state # "missing"
Readable(f) == disk[f].state = "whole"
Garbled(f) == disk[f].state \in {"empty", "torn"}

Contents(f) == disk[f].data

(* The update a process has dumped: <<file, contents>>.                    *)
Quiet(p) == pending[p] = <<>>
Dumped(p) == pending[p][2]
Writers(f) == {p \in Procs : ~Quiet(p) /\ pending[p][1] = f}

(* seek, truncate, dump and LOCK_UN; also open("w+") of a new file.        *)
Rewrite(p, f, d) ==
    /\ disk' = [disk EXCEPT ![f] = Empty]
    /\ pending' = [pending EXCEPT ![p] = <<f, d>>]
    /\ disturbed' = IF Garbled(f) THEN disturbed \union {f} ELSE disturbed

CloseUnwritten(p) ==
    /\ ~Quiet(p)
    /\ pending' = [pending EXCEPT ![p] = <<>>]
    /\ UNCHANGED <<disk, disturbed>>

(* The end of the with-block.  The buffer goes to the beginning of the     *)
(* file: into an empty file, or over what another process has put there    *)
(* since, the longer tail of which may remain.                             *)
CloseFile(p) ==
    /\ ~Quiet(p)
    /\ LET f == pending[p][1]
           d == Dumped(p)
       IN  \/ disk' = [disk EXCEPT ![f] = Whole(d)]
           \/ disk[f] # Empty /\ disk' = [disk EXCEPT ![f] = Torn]
    /\ pending' = [pending EXCEPT ![p] = <<>>]
    /\ UNCHANGED disturbed

(* An update that truncates after the dump, and so has its data on disk    *)
(* before it gives the lock back.                                          *)
Replace(f, d) ==
    /\ disk' = [disk EXCEPT ![f] = Whole(d)]
    /\ disturbed' = IF Garbled(f) THEN disturbed \union {f} ELSE disturbed
    /\ UNCHANGED pending

(* What is still to be written to a removed file reaches no reader.        *)
AbandonedOnRemoval(f) ==
    [q \in Procs |-> IF q \in Writers(f) THEN <<>> ELSE pending[q]]

(* os.remove.                                                              *)
RemoveFile(f) ==
    /\ disk' = [disk EXCEPT ![f] = Missing]
    /\ pending' = AbandonedOnRemoval(f)
    /\ UNCHANGED disturbed

(* An unreadable file is one that a process still has to close; only a     *)
(* file that was rewritten while it was unreadable can stay so.  (Every    *)
(* process gives the lock back before its data is written.)                *)
UnreadableIsPending ==
    \A f \in DOMAIN disk :
        /\ disk[f].state = "empty" => Writers(f) # {}
        /\ disk[f].state = "torn" => f \in disturbed
=============================================================================
