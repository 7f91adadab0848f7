----------------------------- MODULE RequestReply -----------------------------
(***************************************************************************)
(* What a worker may rely on when it calls the model server through the    *)
(* batch proxy: every call gets exactly one answer, and that answer is     *)
(* either the server's reply to this very request or an error.  How calls  *)
(* are batched is not visible.                                             *)
(***************************************************************************)
CONSTANTS Requests, Errors   \* a request also names the reply to it

VARIABLES
    call,     \* "idle", "pending" or "answered" for each request
    answer    \* what the caller received; NoAnswer before that

NoAnswer == "none"

Init == /\ call = [r \in Requests |-> "idle"]
        /\ answer = [r \in Requests |-> NoAnswer]

Call(r) == /\ call[r] = "idle"
           /\ call' = [call EXCEPT ![r] = "pending"]
           /\ UNCHANGED answer

Answer(r) == /\ call[r] \in {"idle", "pending"}  \* a malformed request is answered at once
             /\ call' = [call EXCEPT ![r] = "answered"]
             /\ \E v \in Errors \cup {r} : answer' = [answer EXCEPT ![r] = v]

Next == \E r \in Requests : Call(r) \/ Answer(r)

Spec == Init /\ [][Next]_<<call, answer>>
=============================================================================
