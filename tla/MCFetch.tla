------------------------------ MODULE MCFetch ------------------------------
(* One goroutine that registers; a request that two routes match, and another
   that only the second matches. *)
EXTENDS Fetch

CONSTANTS q1, q2, r1, r2

MCPattern == [r \in {r1, r2} |-> IF r = r1 THEN "p1" ELSE "p2"]
MCMatches == {<<"p1", q1>>, <<"p2", q1>>, <<"p2", q2>>}
=============================================================================
