------------------------------ MODULE PagePool ------------------------------
(***************************************************************************)
(* The pool of pages (bonk/pool.go): NewPool makes the pages, Do takes one  *)
(* out of a buffered channel, runs the caller's function and puts it back,  *)
(* Close closes them all.                                                   *)
(***************************************************************************)
EXTENDS Naturals, Sequences, FiniteSets

CONSTANTS
    Workers,        \* the goroutines that call Do, again and again
    MaxSize         \* bound: pages of a pool

VARIABLES
    size,           \* the argument of NewPool
    poolPc,         \* NewPool: "making", "failed", "ready"; then "closed"
    all,            \* how many pages have been made: pages 1..all
    pages,          \* the channel
    work,           \* each worker: "idle", "wait", "run", "put", "dead"
    page,           \* the page it has, or 0
    shut            \* the pages that Close has closed

poolVars == <<size, poolPc, all, pages, work, page, shut>>

PoolTypeOK ==
    /\ size \in 0..MaxSize /\ all \in 0..size
    /\ poolPc \in {"making", "failed", "ready", "closed"}
    /\ pages \in Seq(1..MaxSize)
    /\ work \in [Workers -> {"idle", "wait", "run", "put", "dead"}]
    /\ page \in [Workers -> 0..MaxSize]
    /\ shut \subseteq 1..MaxSize

PoolInit ==
    /\ size \in 0..MaxSize
    /\ poolPc = "making" /\ all = 0 /\ pages = <<>>
    /\ work = [w \in Workers |-> "idle"] /\ page = [w \in Workers |-> 0]
    /\ shut = {}

-----------------------------------------------------------------------------
(* NewPool and Close                                                         *)

MakePage ==
    /\ poolPc = "making" /\ all < size
    /\ all' = all + 1 /\ pages' = Append(pages, all + 1)
    /\ UNCHANGED <<size, poolPc, work, page, shut>>

\* NewPool closes the pages it has and returns an error.
MakeFails ==
    /\ poolPc = "making" /\ all < size
    /\ poolPc' = "failed" /\ shut' = 1..all
    /\ UNCHANGED <<size, all, pages, work, page>>

PoolMade ==
    /\ poolPc = "making" /\ all = size
    /\ poolPc' = "ready"
    /\ UNCHANGED <<size, all, pages, work, page, shut>>

\* Close waits for nobody and leaves the channel as it is.
ClosePool ==
    /\ poolPc = "ready"
    /\ poolPc' = "closed" /\ shut' = 1..all
    /\ UNCHANGED <<size, all, pages, work, page>>

-----------------------------------------------------------------------------
(* Do                                                                        *)

CallDo(w) ==
    /\ poolPc \in {"ready", "closed"} /\ work[w] = "idle"
    /\ work' = [work EXCEPT ![w] = "wait"]
    /\ UNCHANGED <<size, poolPc, all, pages, page, shut>>

CheckOut(w) ==
    /\ work[w] = "wait" /\ pages # <<>>
    /\ work' = [work EXCEPT ![w] = "run"]
    /\ page' = [page EXCEPT ![w] = Head(pages)] /\ pages' = Tail(pages)
    /\ UNCHANGED <<size, poolPc, all, shut>>

\* Variant with a defect: Do returns early on an error.
FnFails(w) ==
    /\ work[w] = "run"
    /\ \/ work' = [work EXCEPT ![w] = "put"] /\ UNCHANGED page
       \/ work' = [work EXCEPT ![w] = "idle"] /\ page' = [page EXCEPT ![w] = 0]
    /\ UNCHANGED <<size, poolPc, all, pages, shut>>

\* With an error or without.
FnReturns(w) ==
    /\ work[w] = "run"
    /\ work' = [work EXCEPT ![w] = "put"]
    /\ UNCHANGED <<size, poolPc, all, pages, page, shut>>

\* A panic, or runtime.Goexit: nothing is deferred, the page stays out.
FnPanics(w) ==
    /\ work[w] = "run"
    /\ work' = [work EXCEPT ![w] = "dead"]
    /\ UNCHANGED <<size, poolPc, all, pages, page, shut>>

CheckIn(w) ==
    /\ work[w] = "put" /\ Len(pages) < size
    /\ pages' = Append(pages, page[w])
    /\ work' = [work EXCEPT ![w] = "idle"] /\ page' = [page EXCEPT ![w] = 0]
    /\ UNCHANGED <<size, poolPc, all, shut>>

PoolNext ==
    \/ MakePage \/ MakeFails \/ PoolMade \/ ClosePool
    \/ \E w \in Workers :
          CallDo(w) \/ CheckOut(w) \/ FnReturns(w) \/ FnPanics(w) \/ CheckIn(w)
    \/ /\ poolPc \in {"failed", "closed"}
       /\ \A w \in Workers : work[w] \in {"idle", "dead"} \/ (work[w] = "wait" /\ pages = <<>>)
       /\ UNCHANGED poolVars

\* Functions return; those who wait for a channel are served in turn.
PoolFairness ==
    \A w \in Workers :
        WF_poolVars(FnReturns(w) \/ CheckIn(w)) /\ SF_poolVars(CheckOut(w))

PoolSpec == PoolInit /\ [][PoolNext]_poolVars /\ PoolFairness

-----------------------------------------------------------------------------
(* Properties                                                                *)

\* Every Do gets a page, also while others keep asking for one and after Close --
\* unless the pool was made with none, or panics have kept as many pages as it had.
PoolServes ==
    \A w \in Workers : work[w] = "wait" ~>
        work[w] = "run" \/ Cardinality({v \in Workers : work[v] = "dead"}) >= size

=============================================================================
