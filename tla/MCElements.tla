----------------------------- MODULE MCElements -----------------------------
(* One action on a page that changes. *)
EXTENDS Elements
=============================================================================
