------------------------------ MODULE RpcConn ------------------------------
(***************************************************************************)
(* One CDP connection (bonk/rpc: Conn, pendingMap, sessionMap): goroutines *)
(* that call, the Listen goroutine that routes Chrome's answers back to    *)
(* them, and goroutines that close the connection under them.              *)
(*                                                                         *)
(* A request's id is the call itself: nextID gives every call another one. *)
(* Events, the other thing Listen routes, are in module Fetch.             *)
(***************************************************************************)
EXTENDS Naturals

CONSTANTS
    Calls,          \* the calls made on the connection, one goroutine each
    Sessions,       \* CDP session ids
    Root,           \* no session: the connection's own pending map
    sessionOf,      \* the session each call is for, or Root
    Closers,        \* goroutines that call Conn.Close
    Listener,       \* the goroutine in Listen
    Nobody

ASSUME RpcConnAssumption ==
    /\ Root \notin Sessions \cup (Sessions \X {0, 1})
    /\ sessionOf \in [Calls -> Sessions \cup {Root}]
    /\ Listener \notin Closers
    /\ Nobody \notin Closers \cup {Listener} /\ Nobody \notin Calls

Threads == Closers \cup {Listener}

\* sessions.rejectAll replaces the session map, so that a session id can stand
\* for two Session objects: the one from before (0) and a later one (1).
PendingMaps == {Root} \cup (Sessions \X {0, 1})

VARIABLES
    pc, obj, chan, result,      \* callOn: its place, pm, respCh and what it returns
    pending,                    \* <<call, map>>: the entries of all pending maps
    epoch, attached,            \* the session map's generation; Session objects made
    requests, answered, inbox,  \* at Chrome; answered by it; on their way back
    transport,                  \* "up" or "down"
    tpc, target,                \* Listen and the closers; the call being resolved
    mu, closed, err,            \* Conn.mu's holder, Conn.closed (and done), Conn.err
    toReject, sessionsLeft,     \* what the holder's RejectAll still has to do
    onClose, fn, calledBack     \* the callback, the copy taken, how often it ran

callVars == <<pc, obj, chan, result>>
wireVars == <<requests, answered, inbox, transport>>
mapVars == <<pending, epoch, attached>>
closeVars == <<mu, closed, err, toReject, sessionsLeft, fn, calledBack>>
vars == <<callVars, wireVars, mapVars, closeVars, tpc, target, onClose>>

Outcomes == {"none", "ok", "rejected", "closed", "cancelled", "unsent"}

TypeOK ==
    /\ pc \in [Calls -> {"idle", "attach", "add", "send", "wait", "done"}]
    /\ obj \in [Calls -> PendingMaps]
    /\ chan \in [Calls -> {"empty", "answer", "reject"}]
    /\ result \in [Calls -> Outcomes]
    /\ pending \subseteq Calls \X PendingMaps
    /\ epoch \in {0, 1}
    /\ attached \subseteq Sessions \X {0, 1}
    /\ requests \subseteq Calls /\ answered \subseteq Calls
    /\ inbox \subseteq Calls \X (Sessions \cup {Root})
    /\ transport \in {"up", "down"}
    /\ tpc \in [Threads -> {"run", "deliver", "enter", "root", "send", "swap",
                            "session", "notify", "shut", "end"}]
    /\ target \in Calls \cup {Nobody}
    /\ mu \in Threads \cup {Nobody}
    /\ closed \in BOOLEAN
    /\ err \in {"none", "closed", "dropped"}
    /\ toReject \subseteq Calls
    /\ sessionsLeft \subseteq Sessions
    /\ onClose \in BOOLEAN /\ fn \in BOOLEAN
    /\ calledBack \in Nat

Init ==
    /\ pc = [c \in Calls |-> "idle"]
    /\ obj = [c \in Calls |-> Root]
    /\ chan = [c \in Calls |-> "empty"]
    /\ result = [c \in Calls |-> "none"]
    /\ pending = {} /\ epoch = 0 /\ attached = {}
    /\ requests = {} /\ answered = {} /\ inbox = {} /\ transport = "up"
    /\ tpc = [t \in Threads |-> "run"]
    /\ target = Nobody
    /\ mu = Nobody /\ closed = FALSE /\ err = "none"
    /\ toReject = {} /\ sessionsLeft = {}
    /\ onClose = FALSE /\ fn = FALSE /\ calledBack = 0

-----------------------------------------------------------------------------
(* callOn *)

Step(c, l) == pc' = [pc EXCEPT ![c] = l]

Return(c, outcome) ==
    /\ Step(c, "done")
    /\ result' = [result EXCEPT ![c] = outcome]

\* The id is taken and the message marshalled, or marshalling fails.
Issue(c) ==
    /\ pc[c] = "idle"
    /\ \/ Step(c, "attach") /\ UNCHANGED result
       \/ Return(c, "unsent")
    /\ UNCHANGED <<obj, chan, wireVars, mapVars, closeVars, tpc, target, onClose>>

\* Variant with a defect: session calls register with the connection's own map.
AttachRoot(c) ==
    /\ pc[c] = "attach"
    /\ Step(c, "add")
    /\ UNCHANGED <<obj, chan, result, wireVars, mapVars, closeVars, tpc, target, onClose>>

\* sessions.Attach returns the id's session in the map of now, or makes one.
Attach(c) ==
    /\ pc[c] = "attach"
    /\ LET s == sessionOf[c] IN
       IF s = Root
       THEN obj' = [obj EXCEPT ![c] = Root] /\ UNCHANGED attached
       ELSE /\ obj' = [obj EXCEPT ![c] = <<s, epoch>>]
            /\ attached' = attached \cup {<<s, epoch>>}
    /\ Step(c, "add")
    /\ UNCHANGED <<chan, result, wireVars, pending, epoch, closeVars, tpc, target,
                   onClose>>

Add(c) ==
    /\ pc[c] = "add"
    /\ pending' = pending \cup {<<c, obj[c]>>}
    /\ Step(c, "send")
    /\ UNCHANGED <<obj, chan, result, wireVars, epoch, attached, closeVars, tpc,
                   target, onClose>>

\* A failed Send (dropped transport, cancelled context) leaves the entry behind.
Send(c) ==
    /\ pc[c] = "send"
    /\ \/ /\ transport = "up"
          /\ requests' = requests \cup {c}
          /\ Step(c, "wait") /\ UNCHANGED result
       \/ Return(c, "unsent") /\ UNCHANGED requests
    /\ UNCHANGED <<obj, chan, answered, inbox, transport, mapVars, closeVars, tpc,
                   target, onClose>>

\* Variant with a defect: an error message in the channel passes for a result.
TakeAnything(c) ==
    /\ pc[c] = "wait" /\ chan[c] # "empty"
    /\ Return(c, "ok")
    /\ chan' = [chan EXCEPT ![c] = "empty"]
    /\ UNCHANGED <<obj, wireVars, mapVars, closeVars, tpc, target, onClose>>

\* The three cases of the select; those that are ready race.
TakeResponse(c) ==
    /\ pc[c] = "wait" /\ chan[c] # "empty"
    /\ Return(c, IF chan[c] = "answer" THEN "ok" ELSE "rejected")
    /\ chan' = [chan EXCEPT ![c] = "empty"]
    /\ UNCHANGED <<obj, wireVars, mapVars, closeVars, tpc, target, onClose>>

Cancelled(c) ==
    /\ pc[c] = "wait"
    /\ Return(c, "cancelled")
    /\ UNCHANGED <<obj, chan, wireVars, mapVars, closeVars, tpc, target, onClose>>

\* Variant with a defect: the select has no case for c.done.
NeverSeeDone(c) == FALSE /\ UNCHANGED vars

SeeDone(c) ==
    /\ pc[c] = "wait" /\ closed
    /\ Return(c, "closed")
    /\ UNCHANGED <<obj, chan, wireVars, mapVars, closeVars, tpc, target, onClose>>

-----------------------------------------------------------------------------
(* Chrome and the network *)

\* One answer per request, tagged with the request's session, or with none when
\* Chrome no longer knows that session.
Answer(c, tag) ==
    /\ transport = "up" /\ c \in requests \ answered
    /\ tag \in {sessionOf[c], Root}
    /\ answered' = answered \cup {c}
    /\ inbox' = inbox \cup {<<c, tag>>}
    /\ UNCHANGED <<callVars, requests, transport, mapVars, closeVars, tpc, target,
                   onClose>>

Drop ==
    /\ transport = "up" /\ transport' = "down"
    /\ UNCHANGED <<callVars, requests, answered, inbox, mapVars, closeVars, tpc,
                   target, onClose>>

-----------------------------------------------------------------------------
(* Listen *)

Move(t, l) == tpc' = [tpc EXCEPT ![t] = l]

\* The pending map that a message is looked up in; none for an unknown session.
Routed(tag) ==
    CASE tag = Root -> {Root}
      [] OTHER -> {<<tag, epoch>>} \cap attached

\* Variant with a defect: the message is kept where its id belongs.
ReceiveWhole(m) ==
    /\ tpc[Listener] = "run" /\ m \in inbox
    /\ inbox' = inbox \ {m}
    /\ target' = m /\ Move(Listener, "deliver")
    /\ UNCHANGED <<callVars, requests, answered, transport, mapVars, closeVars, onClose>>

\* Receive a message and take its entry out of the pending map (Resolve, under
\* the map's lock); a message without an entry is dropped.
Receive(m) ==
    /\ tpc[Listener] = "run" /\ m \in inbox
    /\ inbox' = inbox \ {m}
    /\ LET c == m[1]
           entry == {<<c, pm>> : pm \in Routed(m[2])} \cap pending
       IN  /\ pending' = pending \ entry
           /\ IF entry = {} THEN UNCHANGED <<tpc, target>>
                            ELSE Move(Listener, "deliver") /\ target' = c
    /\ UNCHANGED <<callVars, requests, answered, transport, epoch, attached,
                   closeVars, onClose>>

\* ch <- msg, outside the lock: the channel has room for one message.
Deliver ==
    /\ tpc[Listener] = "deliver" /\ chan[target] = "empty"
    /\ chan' = [chan EXCEPT ![target] = "answer"]
    /\ target' = Nobody
    /\ Move(Listener, "run")
    /\ UNCHANGED <<pc, obj, result, wireVars, mapVars, closeVars, onClose>>

ReceiveFails ==
    /\ tpc[Listener] = "run" /\ transport = "down"
    /\ Move(Listener, "enter")
    /\ UNCHANGED <<callVars, wireVars, mapVars, closeVars, target, onClose>>

-----------------------------------------------------------------------------
(* closeWithError, called by Listen with the error of Recv and by Close *)

CallClose(t) ==
    /\ t \in Closers /\ tpc[t] = "run"
    /\ Move(t, "enter")
    /\ UNCHANGED <<callVars, wireVars, mapVars, closeVars, target, onClose>>

\* What follows closeWithError: Listen returns, Close closes the transport.
After(t) == IF t = Listener THEN "end" ELSE "shut"

Enter(t) ==
    /\ tpc[t] = "enter" /\ mu = Nobody
    /\ IF closed
       THEN /\ Move(t, After(t))
            /\ UNCHANGED <<mu, closed, err, fn>>
       ELSE /\ closed' = TRUE
            /\ err' = IF t = Listener THEN "dropped" ELSE "closed"
            /\ fn' = onClose
            /\ mu' = t
            /\ Move(t, "root")
    /\ UNCHANGED <<callVars, wireVars, mapVars, target, toReject, sessionsLeft,
                   onClose, calledBack>>

\* Variant with a defect: the entries are rejected but stay in the map.
TakeCopies(pm) ==
    /\ toReject' = {c \in Calls : <<c, pm>> \in pending}
    /\ UNCHANGED pending

\* RejectAll first takes all entries out of the map, under the map's lock, ...
TakeAll(pm) ==
    /\ toReject' = {c \in Calls : <<c, pm>> \in pending}
    /\ pending' = {e \in pending : e[2] # pm}

RejectRoot(t) ==
    /\ tpc[t] = "root"
    /\ TakeAll(Root)
    /\ Move(t, "send")
    /\ UNCHANGED <<callVars, wireVars, epoch, attached, mu, closed, err,
                   sessionsLeft, fn, calledBack, target, onClose>>

\* ... then sends the error to each of their channels.
RejectOne(t, c) ==
    /\ tpc[t] = "send" /\ c \in toReject /\ chan[c] = "empty"
    /\ chan' = [chan EXCEPT ![c] = "reject"]
    /\ toReject' = toReject \ {c}
    /\ UNCHANGED <<pc, obj, result, wireVars, mapVars, mu, closed, err,
                   sessionsLeft, fn, calledBack, tpc, target, onClose>>

Rejected(t) ==
    /\ tpc[t] = "send" /\ toReject = {}
    /\ Move(t, CASE epoch = 0 -> "swap"
                 [] epoch = 1 /\ sessionsLeft # {} -> "session"
                 [] OTHER -> "notify")
    /\ UNCHANGED <<callVars, wireVars, mapVars, closeVars, target, onClose>>

SwapSessions(t) ==
    /\ tpc[t] = "swap"
    /\ epoch' = 1
    /\ sessionsLeft' = {s \in Sessions : <<s, 0>> \in attached}
    /\ Move(t, "send")
    /\ UNCHANGED <<callVars, wireVars, pending, attached, mu, closed, err,
                   toReject, fn, calledBack, target, onClose>>

RejectSession(t, s) ==
    /\ tpc[t] = "session" /\ s \in sessionsLeft
    /\ TakeAll(<<s, 0>>)
    /\ sessionsLeft' = sessionsLeft \ {s}
    /\ Move(t, "send")
    /\ UNCHANGED <<callVars, wireVars, epoch, attached, mu, closed, err, fn,
                   calledBack, target, onClose>>

\* Variant with a defect: the callback runs for Close too.
NotifyAlways(t) ==
    /\ tpc[t] = "notify"
    /\ mu' = Nobody
    /\ calledBack' = IF fn THEN calledBack + 1 ELSE calledBack
    /\ Move(t, After(t))
    /\ UNCHANGED <<callVars, wireVars, mapVars, closed, err, toReject,
                   sessionsLeft, fn, target, onClose>>

\* c.mu is released before the callback runs.
Notify(t) ==
    /\ tpc[t] = "notify"
    /\ mu' = Nobody
    /\ calledBack' = IF fn /\ t = Listener THEN calledBack + 1 ELSE calledBack
    /\ Move(t, After(t))
    /\ UNCHANGED <<callVars, wireVars, mapVars, closed, err, toReject,
                   sessionsLeft, fn, target, onClose>>

ShutTransport(t) ==
    /\ tpc[t] = "shut"
    /\ transport' = "down"
    /\ Move(t, "end")
    /\ UNCHANGED <<callVars, requests, answered, inbox, mapVars, closeVars, target,
                   onClose>>

SetOnClose ==
    /\ mu = Nobody
    /\ ~onClose /\ onClose' = TRUE
    /\ UNCHANGED <<callVars, wireVars, mapVars, closeVars, tpc, target>>

-----------------------------------------------------------------------------
Select(c) == TakeResponse(c) \/ Cancelled(c) \/ SeeDone(c)
Call(c) == Issue(c) \/ Attach(c) \/ Add(c) \/ Send(c) \/ Select(c)
Listen == (\E m \in inbox : Receive(m)) \/ Deliver \/ ReceiveFails
CloseWithError(t) ==
    \/ Enter(t) \/ RejectRoot(t) \/ Rejected(t) \/ SwapSessions(t)
    \/ Notify(t) \/ ShutTransport(t)
    \/ \E c \in Calls : RejectOne(t, c)
    \/ \E s \in Sessions : RejectSession(t, s)

\* Everyone has returned; without a Close the connection just stays open.
Finished ==
    /\ \A c \in Calls : pc[c] = "done"
    /\ \A t \in Threads : tpc[t] = "end"
    /\ UNCHANGED vars

Next ==
    \/ \E c \in Calls : Call(c) \/ \E tag \in Sessions \cup {Root} : Answer(c, tag)
    \/ \E t \in Threads : CallClose(t) \/ CloseWithError(t)
    \/ Listen
    \/ Drop
    \/ SetOnClose
    \/ Finished

\* Go's scheduler runs every goroutine that can run. Chrome may never answer,
\* and a caller's context may never be cancelled.
Fairness ==
    /\ \A c \in Calls :
        /\ WF_vars(Attach(c)) /\ WF_vars(Add(c)) /\ WF_vars(Send(c))
        /\ WF_vars(TakeResponse(c) \/ SeeDone(c))
    /\ \A t \in Threads : SF_vars(Enter(t)) /\ WF_vars(CloseWithError(t))
    /\ WF_vars(Listen)

Spec == Init /\ [][Next]_vars /\ Fairness

-----------------------------------------------------------------------------
(* Properties *)

\* Whoever is about to send on a response channel finds it empty: Listen, and
\* the closer that holds Conn.mu, are never blocked by a caller that has left.
SendersNeverBlock ==
    /\ target # Nobody => chan[target] = "empty"
    /\ \A c \in toReject : chan[c] = "empty"
    /\ target \notin toReject

\* Conn.Err is the first error, whatever follows, and a closed connection stays
\* closed.
FirstErrorStays == [][closed => closed' /\ err' = err]_vars

\* The callback runs at most once, and only for a connection lost, never for
\* one that Close closed first.
CallbackOnlyOnDrop ==
    /\ calledBack <= 1
    /\ calledBack = 1 => closed /\ err = "dropped"

\* Callers get what rpc.Conn promises, each outcome with its cause.
Contract == INSTANCE CallContract
ImplementsContract == Contract!Spec

\* Once the connection is closed every call returns, those that were about to
\* register with a map already emptied included; and Close returns, whoever else
\* is closing and whatever the callers do.
CallsReturn ==
    /\ \A c \in Calls : closed /\ pc[c] # "idle" ~> pc[c] = "done"
    /\ \A t \in Closers : tpc[t] = "enter" ~> tpc[t] = "end"

\* An answer that Chrome tags with the call's session ends the call, however
\* early it comes and whatever closing does meanwhile: the call was registered,
\* and in that session's map, before it was sent. (An answer without the session,
\* which Chrome no longer knows, ends nothing: the call waits for its context.)
AnswersEndCalls ==
    \A c \in Calls : <<c, sessionOf[c]>> \in inbox ~> pc[c] = "done"

-----------------------------------------------------------------------------
(* The inductive invariant behind them, checked here and proved inductive in *)
(* module RpcConnProofs                                                      *)

\* The entry of a call is in the map of its own session.
MapsOf(c) == IF sessionOf[c] = Root THEN {Root} ELSE {sessionOf[c]} \X {0, 1}
EntriesAreOwn ==
    \A c \in Calls : \A pm \in PendingMaps :
        <<c, pm>> \in pending => pm = obj[c] /\ pm \in MapsOf(c)

HasEntry(c) == \E pm \in PendingMaps : <<c, pm>> \in pending
Holding == {"root", "send", "swap", "session", "notify"}

\* A call's one message is in one place: still to come (an entry in a pending
\* map), in the hands of Listen or of the closer, or in the channel.
NotRegistered ==
    \A c \in Calls : pc[c] \in {"idle", "attach", "add"} =>
        ~HasEntry(c) /\ c \notin toReject /\ target # c /\ chan[c] = "empty"
OnePlace ==
    \A c \in Calls : HasEntry(c) => c \notin toReject /\ target # c /\ chan[c] = "empty"
ObjOfSession ==
    \A c \in Calls : pc[c] = "add" => obj[c] \in MapsOf(c)

\* Whoever is inside closeWithError holds Conn.mu and has closed the connection.
HolderHasClosed ==
    /\ \A t \in Threads : tpc[t] \in Holding =>
        mu = t /\ closed /\ err = (IF t = Listener THEN "dropped" ELSE "closed")
    /\ toReject # {} => closed
    /\ mu # Nobody => closed
ListenState ==
    /\ tpc[Listener] = "deliver" <=> target # Nobody
    /\ calledBack > 0 => calledBack = 1 /\ closed /\ err = "dropped"
                         /\ tpc[Listener] = "end"

\* An answer in hand, or in a channel, is Chrome's; a rejection comes of closing.
Causes ==
    /\ \A m \in inbox : m[1] \in answered
    /\ target # Nobody => target \in answered
    /\ \A c \in Calls : /\ chan[c] = "answer" => c \in answered
                        /\ chan[c] = "reject" => closed
                        /\ pc[c] # "done" => result[c] = "none"

RpcConnInv ==
    /\ SendersNeverBlock /\ EntriesAreOwn
    /\ NotRegistered /\ OnePlace /\ ObjOfSession
    /\ HolderHasClosed /\ ListenState /\ Causes
=============================================================================
