------------------------------ MODULE MCClient ------------------------------
(***************************************************************************)
(* What a program does with bonk beside the browsers themselves: it         *)
(* reconnects, opens and closes pages, shares them in a pool, and waits for *)
(* loads, the network, downloads and elements. Each module contains as      *)
(* steps of its own what the others do to it, so that TLC goes through one  *)
(* part at a time.                                                          *)
(***************************************************************************)
EXTENDS Reconnection, Contexts, PagePool, LoadWait, NetworkIdle, Downloads, GlobMatch,
        Elements

VARIABLE part

clientVars == <<part, linkVars, ctxVars, poolVars, loadVars, idleVars, dlVars, globVars, elementVars>>

ClientInit ==
    /\ part \in {"connections", "context", "pool", "load", "idle", "downloads", "glob", "element"}
    /\ LinksInit /\ ContextsInit /\ PoolInit /\ LoadInit /\ IdleInit /\ DownloadsInit /\ GlobInit
    /\ ElementsInit
    /\ part # "connections" => launched
    /\ part # "pool" => size = 0
    /\ part # "idle" => early = {}
    /\ part # "element" => act = "fill" /\ kind = "js" /\ used = 0
    /\ hidden = {} \/ barred = {}       \* bound, of the first page only

ClientNext ==
    /\ UNCHANGED part
    /\ \/ /\ part = "connections" /\ LinksNext
          /\ UNCHANGED <<ctxVars, poolVars, loadVars, idleVars, dlVars, globVars, elementVars>>
       \/ /\ part = "context" /\ ContextsNext
          /\ UNCHANGED <<linkVars, poolVars, loadVars, idleVars, dlVars, globVars, elementVars>>
       \/ /\ part = "pool" /\ PoolNext
          /\ UNCHANGED <<linkVars, ctxVars, loadVars, idleVars, dlVars, globVars, elementVars>>
       \/ /\ part = "load" /\ LoadNext
          /\ UNCHANGED <<linkVars, ctxVars, poolVars, idleVars, dlVars, globVars, elementVars>>
       \/ /\ part = "idle" /\ IdleNext
          /\ UNCHANGED <<linkVars, ctxVars, poolVars, loadVars, dlVars, globVars, elementVars>>
       \/ /\ part = "downloads" /\ DownloadsNext
          /\ UNCHANGED <<linkVars, ctxVars, poolVars, loadVars, idleVars, globVars, elementVars>>
       \/ /\ part = "glob" /\ GlobNext
          /\ UNCHANGED <<linkVars, ctxVars, poolVars, loadVars, idleVars, dlVars, elementVars>>
       \/ /\ part = "element" /\ ElementsNext
          /\ UNCHANGED <<linkVars, ctxVars, poolVars, loadVars, idleVars, dlVars, globVars>>

\* In its first state no part has a fair action enabled: the parts that stand
\* still do not forbid the behaviours of the one that moves.
ClientSpec == ClientInit /\ [][ClientNext]_clientVars /\ LinksFairness /\ PoolFairness

\* Patterns and strings for the matcher.
UpTo(chars, n) == UNION {[1..k -> chars] : k \in 0..n}
MCStrings == UpTo({"a", "/"}, 3)
MCGlobs == UpTo({"a", "/", "*"}, 4) \cup UpTo({"a", "*", "?"}, 3)

=============================================================================
