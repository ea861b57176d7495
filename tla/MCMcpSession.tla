--------------------------- MODULE MCMcpSession ---------------------------
(* Two pages at most, five opened: three evictions, or one and a restart of the
   browser with identifiers of before still in the order. *)
EXTENDS McpSession
===========================================================================
