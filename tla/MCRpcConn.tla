------------------------------ MODULE MCRpcConn ------------------------------
(* An instance of RpcConn for TLC: one call on the connection itself and one
   on a session. *)
EXTENDS RpcConn, TLC

CONSTANTS c1, c2, s1

MCSessionOf == (c1 :> Root) @@ (c2 :> s1)
=============================================================================
