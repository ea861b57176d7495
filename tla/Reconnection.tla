---------------------------- MODULE Reconnection ----------------------------
(***************************************************************************)
(* The connections of one browser (bonk/browser.go: Reconnect, setupOnClose,*)
(* OnDisconnect, Close; bonk/rpc/conn.go: Listen, closeWithError). The      *)
(* program may call Reconnect, and so does the function it has given to     *)
(* OnDisconnect, as the documentation shows it, in the Listen goroutine of  *)
(* the connection that was lost. Close may come at any point of these.      *)
(* What Close does to contexts and to the process is in module Browsers.    *)
(***************************************************************************)
EXTENDS Naturals

CONSTANT MaxConns       \* bound: connections, numbered in the order of their dialling

Links == 1..MaxConns
Callers == {0} \cup Links       \* the program, and the Listen goroutine of each

VARIABLES
    launched,       \* the Chrome is ours and is ended by Close, or it was connected to
    up,             \* Chrome runs
    dialled,        \* connections dialled so far
    socket,         \* each connection: "none", "up", "down"
    rpcClosed,      \* Conn.closed
    hears,          \* Listen: "none", "reading", "callback", "end"
    rpc, fresh,     \* each caller in Reconnect: place, the connection it dialled
    bconn,          \* b.conn
    bClosed, cancelled,     \* b.closed; b.ctx
    kpc             \* Close: "none", "quit", "cancel", "shut", "done"

linkVars == <<launched, up, dialled, socket, rpcClosed, hears, rpc, fresh, bconn,
              bClosed, cancelled, kpc>>
closerVars == <<bClosed, cancelled, kpc>>
rcVars == <<dialled, rpc, fresh, bconn>>

LinksTypeOK ==
    /\ launched \in BOOLEAN /\ up \in BOOLEAN
    /\ dialled \in Links
    /\ socket \in [Links -> {"none", "up", "down"}]
    /\ rpcClosed \in [Links -> BOOLEAN]
    /\ hears \in [Links -> {"none", "reading", "callback", "end"}]
    /\ rpc \in [Callers -> {"idle", "dial", "listen", "set"}]
    /\ fresh \in [Callers -> 0..MaxConns]
    /\ bconn \in Links
    /\ bClosed \in BOOLEAN /\ cancelled \in BOOLEAN
    /\ kpc \in {"none", "quit", "cancel", "shut", "done"}

\* Launch or Connect is over.
LinksInit ==
    /\ launched \in BOOLEAN /\ up = TRUE
    /\ dialled = 1 /\ bconn = 1
    /\ socket = [c \in Links |-> IF c = 1 THEN "up" ELSE "none"]
    /\ rpcClosed = [c \in Links |-> FALSE]
    /\ hears = [c \in Links |-> IF c = 1 THEN "reading" ELSE "none"]
    /\ rpc = [k \in Callers |-> "idle"] /\ fresh = [k \in Callers |-> 0]
    /\ bClosed = FALSE /\ cancelled = FALSE /\ kpc = "none"

In(k, l) == rpc[k] = l
To(k, l) == rpc' = [rpc EXCEPT ![k] = l]

-----------------------------------------------------------------------------
(* Reconnect                                                                 *)

\* Where a caller's Reconnect ends, with an error or without: the callback is over.
Leaves(k) ==
    hears' = IF k \in Links THEN [hears EXCEPT ![k] = "end"] ELSE hears

CheckClosed(k) ==
    /\ In(k, "idle") /\ (k \in Links => hears[k] = "callback")
    /\ IF bClosed THEN Leaves(k) /\ UNCHANGED rpc
                  ELSE To(k, "dial") /\ UNCHANGED hears
    /\ UNCHANGED <<launched, up, dialled, socket, rpcClosed, fresh, bconn, closerVars>>

\* OnDisconnect was given no function, or one that does not reconnect.
NoReconnect(c) ==
    /\ hears[c] = "callback" /\ In(c, "idle") /\ Leaves(c)
    /\ UNCHANGED <<launched, up, socket, rpcClosed, rcVars, closerVars>>

DialAgain(k) ==
    /\ In(k, "dial") /\ up /\ ~cancelled /\ dialled < MaxConns
    /\ dialled' = dialled + 1
    /\ socket' = [socket EXCEPT ![dialled + 1] = "up"]
    /\ fresh' = [fresh EXCEPT ![k] = dialled + 1]
    /\ To(k, "listen")
    /\ UNCHANGED <<launched, up, rpcClosed, hears, bconn, closerVars>>

RedialFails(k) ==
    /\ In(k, "dial") /\ To(k, "idle") /\ Leaves(k)
    /\ UNCHANGED <<launched, up, dialled, socket, rpcClosed, fresh, bconn, closerVars>>

\* Once it listens the new connection tells the same function of its end.
GoListen(k) ==
    /\ In(k, "listen") /\ To(k, "set")
    /\ hears' = [hears EXCEPT ![fresh[k]] = "reading"]
    /\ UNCHANGED <<launched, up, dialled, socket, rpcClosed, fresh, bconn, closerVars>>

SetConn(k) ==
    /\ In(k, "set") /\ To(k, "idle")
    /\ bconn' = fresh[k] /\ fresh' = [fresh EXCEPT ![k] = 0]
    /\ Leaves(k)
    /\ UNCHANGED <<launched, up, dialled, socket, rpcClosed, closerVars>>

-----------------------------------------------------------------------------
(* Listen and the callback                                                   *)

\* Variant with a defect: Listen is given a context of its own.
HearsNothing(c) ==
    /\ hears[c] = "reading" /\ socket[c] = "down"
    /\ rpcClosed' = [rpcClosed EXCEPT ![c] = TRUE]
    /\ hears' = [hears EXCEPT ![c] = IF rpcClosed[c] THEN "end" ELSE "callback"]
    /\ UNCHANGED <<launched, up, socket, rcVars, closerVars>>

\* Recv fails when the socket is down or b.ctx is cancelled, which closes the
\* socket. The one who closes the Conn first runs the callback, if it has an error.
RecvFails(c) ==
    /\ hears[c] = "reading" /\ (socket[c] = "down" \/ cancelled)
    /\ rpcClosed' = [rpcClosed EXCEPT ![c] = TRUE]
    /\ hears' = [hears EXCEPT ![c] = IF rpcClosed[c] THEN "end" ELSE "callback"]
    /\ socket' = [socket EXCEPT ![c] = "down"]
    /\ UNCHANGED <<launched, up, rcVars, closerVars>>

-----------------------------------------------------------------------------
(* Close                                                                     *)

ClaimBrowser ==
    /\ ~bClosed /\ bClosed' = TRUE /\ kpc' = "quit"
    /\ UNCHANGED <<launched, up, socket, rpcClosed, hears, rcVars, cancelled>>

\* Browser.close: answered, refused, or not answered within two seconds.
QuitChrome ==
    /\ kpc = "quit" /\ kpc' = "cancel"
    /\ \/ up' = FALSE /\ socket[bconn] = "up" /\ up
          /\ socket' = [c \in Links |-> IF socket[c] = "up" THEN "down" ELSE socket[c]]
       \/ UNCHANGED <<up, socket>>
    /\ UNCHANGED <<launched, rpcClosed, hears, rcVars, bClosed, cancelled>>

CancelContext ==
    /\ kpc = "cancel" /\ kpc' = "shut"
    /\ cancelled' = TRUE
    /\ UNCHANGED <<launched, up, socket, rpcClosed, hears, rcVars, bClosed>>

\* b.conn.Close(), of the connection that is set just then; then waitForExit.
ShutConn ==
    /\ kpc = "shut" /\ kpc' = "done"
    /\ rpcClosed' = [rpcClosed EXCEPT ![bconn] = TRUE]
    /\ up' = (up /\ ~launched)
    /\ socket' = [c \in Links |-> IF c = bconn \/ (launched /\ socket[c] = "up")
                                  THEN "down" ELSE socket[c]]
    /\ UNCHANGED <<launched, hears, rcVars, bClosed, cancelled>>

\* One connection is lost, or Chrome ends.
SocketDrops(c) ==
    /\ socket[c] = "up" /\ socket' = [socket EXCEPT ![c] = "down"]
    /\ UNCHANGED <<launched, up, rpcClosed, hears, rcVars, closerVars>>

ChromeEnds ==
    /\ up /\ up' = FALSE
    /\ socket' = [c \in Links |-> IF socket[c] = "up" THEN "down" ELSE socket[c]]
    /\ UNCHANGED <<launched, rpcClosed, hears, rcVars, closerVars>>

Reconnect(k) ==
    \/ CheckClosed(k) \/ DialAgain(k) \/ RedialFails(k)
    \/ GoListen(k) \/ SetConn(k)

CloseBrowser == QuitChrome \/ CancelContext \/ ShutConn

LinksNext ==
    \/ \E k \in Callers : Reconnect(k)
    \/ \E c \in Links : RecvFails(c) \/ NoReconnect(c) \/ SocketDrops(c)
    \/ ClaimBrowser \/ CloseBrowser \/ ChromeEnds
    \/ kpc = "done" /\ UNCHANGED linkVars

\* Goroutines that can run do run, and dialling ends. A Listen goroutine has an
\* end, so that all of them together need no more.
LinksFairness ==
    /\ WF_linkVars(rpc[0] # "idle" /\ Reconnect(0))
    /\ WF_linkVars(\E c \in Links : RecvFails(c) \/ Reconnect(c))
    /\ WF_linkVars(CloseBrowser)

LinksSpec == LinksInit /\ [][LinksNext]_linkVars /\ LinksFairness

-----------------------------------------------------------------------------
(* Properties                                                                *)

\* No connection outlives Close, neither one that Reconnect dials meanwhile nor
\* one that it makes b.conn when Close has passed: each Listen ends for good and
\* every socket goes down.
ConnectionsEnd ==
    kpc = "done" ~> [](\A c \in Links : hears[c] \in {"none", "end"} /\ socket[c] # "up")

=============================================================================
