---------------------------- MODULE CallContract ----------------------------
(***************************************************************************)
(* What rpc.Conn promises to the callers of Call and CallOn, without       *)
(* saying how: every call returns once, with one of a few outcomes, and    *)
(* each outcome has its cause. RpcConn implements this.                    *)
(***************************************************************************)
CONSTANT Calls

\* "none": not returned. "ok": Chrome's answer to this very request (a result
\* or a protocol error). "rejected" and "closed": the connection was closed.
\* "cancelled": the caller's context. "unsent": marshalling or Send failed.
Outcomes == {"none", "ok", "rejected", "closed", "cancelled", "unsent"}

VARIABLES answered, closed, result

vars == <<answered, closed, result>>

Init == answered = {} /\ closed = FALSE /\ result = [c \in Calls |-> "none"]

Answer(c) ==
    /\ c \notin answered
    /\ answered' = answered \cup {c}
    /\ UNCHANGED <<closed, result>>

Close == ~closed /\ closed' = TRUE /\ UNCHANGED <<answered, result>>

Return(c, outcome) ==
    /\ result[c] = "none" /\ outcome # "none"
    /\ outcome = "ok" => c \in answered
    /\ outcome \in {"rejected", "closed"} => closed
    /\ result' = [result EXCEPT ![c] = outcome]
    /\ UNCHANGED <<answered, closed>>

Next ==
    \/ Close
    \/ \E c \in Calls : Answer(c) \/ \E outcome \in Outcomes : Return(c, outcome)

Spec == Init /\ [][Next]_vars
=============================================================================
