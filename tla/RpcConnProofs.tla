---------------------------- MODULE RpcConnProofs ----------------------------
(***************************************************************************)
(* Proofs about module RpcConn, for every number of calls, sessions and    *)
(* closers.                                                                *)
(***************************************************************************)
EXTENDS RpcConn, TLAPS

\* Every variable keeps its type, through every operation of rpc.Conn.
THEOREM TypeCorrect == Spec => []TypeOK
<1> USE RpcConnAssumption DEF Threads, PendingMaps, Outcomes
<1>1. Init => TypeOK
  <2> SUFFICES ASSUME Init PROVE TypeOK
    OBVIOUS
  <2>1. pc \in [Calls -> {"idle", "attach", "add", "send", "wait", "done"}]
    BY DEF Init
  <2>2. obj \in [Calls -> PendingMaps] /\ result \in [Calls -> Outcomes]
    BY DEF Init
  <2>3. chan \in [Calls -> {"empty", "answer", "reject"}]
    BY DEF Init
  <2>4. tpc \in [Threads -> {"run", "deliver", "enter", "root", "send", "swap",
                             "session", "notify", "shut", "end"}]
    BY DEF Init
  <2> QED BY <2>1, <2>2, <2>3, <2>4 DEF Init, TypeOK
<1>2. TypeOK /\ [Next]_vars => TypeOK'
  <2> SUFFICES ASSUME TypeOK, [Next]_vars PROVE TypeOK'
    OBVIOUS
  <2> USE DEF TypeOK, Step, Move, Return, callVars, wireVars, mapVars, closeVars
  <2>1. CASE UNCHANGED vars
    BY <2>1 DEF vars
  <2>2. ASSUME NEW c \in Calls, Call(c) PROVE TypeOK'
    <3>1. CASE Issue(c)
      BY <3>1 DEF Issue
    <3>2. CASE Attach(c)
      BY <3>2 DEF Attach
    <3>3. CASE Add(c)
      BY <3>3 DEF Add
    <3>4. CASE Send(c)
      BY <3>4 DEF Send
    <3>5. CASE Select(c)
      BY <3>5 DEF Select, TakeResponse, Cancelled, SeeDone
    <3> QED BY <2>2, <3>1, <3>2, <3>3, <3>4, <3>5 DEF Call
  <2>3. ASSUME NEW c \in Calls, NEW tag \in Sessions \cup {Root}, Answer(c, tag)
        PROVE TypeOK'
    BY <2>3 DEF Answer
  <2>4. ASSUME NEW t \in Threads, CallClose(t) PROVE TypeOK'
    BY <2>4 DEF CallClose
  <2>5. ASSUME NEW t \in Threads, CloseWithError(t) PROVE TypeOK'
    <3>1. CASE Enter(t)
      <4>1. tpc' \in [Threads -> {"run", "deliver", "enter", "root", "send", "swap",
                                 "session", "notify", "shut", "end"}]
        BY <3>1 DEF Enter, After
      <4>2. /\ mu' \in Threads \cup {Nobody} /\ closed' \in BOOLEAN
            /\ err' \in {"none", "closed", "dropped"} /\ fn' \in BOOLEAN
        BY <3>1 DEF Enter
      <4> QED BY <3>1, <4>1, <4>2 DEF Enter
    <3>2. CASE RejectRoot(t)
      BY <3>2 DEF RejectRoot, TakeAll
    <3>3. CASE Rejected(t)
      BY <3>3 DEF Rejected
    <3>4. CASE SwapSessions(t)
      BY <3>4 DEF SwapSessions
    <3>5. CASE Notify(t)
      BY <3>5 DEF Notify, After
    <3>6. CASE ShutTransport(t)
      BY <3>6 DEF ShutTransport
    <3>7. ASSUME NEW c \in Calls, RejectOne(t, c) PROVE TypeOK'
      BY <3>7 DEF RejectOne
    <3>8. ASSUME NEW s \in Sessions, RejectSession(t, s) PROVE TypeOK'
      BY <3>8 DEF RejectSession, TakeAll
    <3> QED BY <2>5, <3>1, <3>2, <3>3, <3>4, <3>5, <3>6, <3>7, <3>8 DEF CloseWithError
  <2>6. CASE Listen
    <3>1. ASSUME NEW m \in inbox, Receive(m) PROVE TypeOK'
      BY <3>1 DEF Receive
    <3>2. CASE Deliver
      BY <3>2 DEF Deliver
    <3>3. CASE ReceiveFails
      BY <3>3 DEF ReceiveFails
    <3> QED BY <2>6, <3>1, <3>2, <3>3 DEF Listen
  <2>7. CASE Drop
    BY <2>7 DEF Drop
  <2>8. CASE SetOnClose
    BY <2>8 DEF SetOnClose
  <2>9. CASE Finished
    BY <2>9 DEF Finished, vars
  <2> QED BY <2>1, <2>2, <2>3, <2>4, <2>5, <2>6, <2>7, <2>8, <2>9 DEF Next
<1> QED BY <1>1, <1>2, PTL DEF Spec

-----------------------------------------------------------------------------
LEMMA InitInv == Init => RpcConnInv
  BY RpcConnAssumption DEF Init, RpcConnInv, SendersNeverBlock, EntriesAreOwn,
     NotRegistered, OnePlace, HasEntry, ObjOfSession, HolderHasClosed, Holding,
     ListenState, Causes, Threads

\* The steps of callOn: a call that registers has no message anywhere yet, and
\* one that leaves takes at most the message in its own channel.
LEMMA CallStep ==
  ASSUME TypeOK, RpcConnInv, NEW c \in Calls, Call(c)
  PROVE  RpcConnInv'
<1> USE RpcConnAssumption DEF Threads, Step, Return
<1> USE DEF callVars, wireVars, mapVars, closeVars
<1> USE DEF TypeOK, RpcConnInv
<1>1. CASE Issue(c)
  <2>1. \A k \in Calls : pc'[k] = pc[k] \/ (k = c /\ pc[k] = "idle" /\ pc'[k] \in {"attach", "done"})
    BY <1>1 DEF Issue
  <2>2. SendersNeverBlock' /\ EntriesAreOwn'
    BY <1>1 DEF Issue, SendersNeverBlock, EntriesAreOwn, MapsOf
  <2>3. NotRegistered' /\ OnePlace' /\ ObjOfSession'
    BY <1>1, <2>1 DEF Issue, NotRegistered, OnePlace, HasEntry, ObjOfSession, MapsOf
  <2>4. HolderHasClosed' /\ ListenState'
    BY <1>1 DEF Issue, HolderHasClosed, Holding, ListenState
  <2>5. Causes'
    BY <1>1, <2>1 DEF Issue, Causes
  <2> QED BY <2>2, <2>3, <2>4, <2>5
<1>2. CASE Attach(c)
  <2>1. EntriesAreOwn'
    BY <1>2 DEF Attach, EntriesAreOwn, NotRegistered, HasEntry, MapsOf
  <2>2. obj[c]' \in MapsOf(c)
    BY <1>2 DEF Attach, MapsOf, PendingMaps
  <2>3. ObjOfSession'
    BY <1>2, <2>2 DEF Attach, ObjOfSession, MapsOf
  <2>4. NotRegistered' /\ OnePlace'
    BY <1>2 DEF Attach, NotRegistered, OnePlace, HasEntry
  <2>5. SendersNeverBlock' /\ HolderHasClosed' /\ ListenState' /\ Causes'
    BY <1>2 DEF Attach, SendersNeverBlock, HolderHasClosed, Holding, ListenState, Causes
  <2> QED BY <2>1, <2>3, <2>4, <2>5
<1>3. CASE Add(c)
  <2>1. EntriesAreOwn'
    BY <1>3 DEF Add, EntriesAreOwn, ObjOfSession, MapsOf
  <2>2. \A k \in Calls : HasEntry(k)' => HasEntry(k) \/ k = c
    BY <1>3 DEF Add, HasEntry
  <2>3. NotRegistered' /\ OnePlace'
    BY <1>3, <2>2 DEF Add, NotRegistered, OnePlace
  <2>4. ObjOfSession'
    BY <1>3 DEF Add, ObjOfSession, MapsOf
  <2>5. SendersNeverBlock' /\ HolderHasClosed' /\ ListenState' /\ Causes'
    BY <1>3 DEF Add, SendersNeverBlock, HolderHasClosed, Holding, ListenState, Causes
  <2> QED BY <2>1, <2>3, <2>4, <2>5
<1>4. CASE Send(c)
  <2>1. \A k \in Calls : pc'[k] = pc[k] \/ (k = c /\ pc[k] = "send" /\ pc'[k] \in {"wait", "done"})
    BY <1>4 DEF Send
  <2>2. SendersNeverBlock' /\ EntriesAreOwn'
    BY <1>4 DEF Send, SendersNeverBlock, EntriesAreOwn, MapsOf
  <2>3. NotRegistered' /\ OnePlace' /\ ObjOfSession'
    BY <1>4, <2>1 DEF Send, NotRegistered, OnePlace, HasEntry, ObjOfSession, MapsOf
  <2>4. HolderHasClosed' /\ ListenState'
    BY <1>4 DEF Send, HolderHasClosed, Holding, ListenState
  <2>5. Causes'
    BY <1>4, <2>1 DEF Send, Causes
  <2> QED BY <2>2, <2>3, <2>4, <2>5
<1>5. CASE TakeResponse(c)
  <2>1. \A k \in Calls : chan'[k] = "empty" \/ (chan'[k] = chan[k] /\ k # c)
    BY <1>5 DEF TakeResponse
  <2>2. SendersNeverBlock'
    BY <1>5, <2>1 DEF TakeResponse, SendersNeverBlock
  <2>3. NotRegistered' /\ OnePlace'
    BY <1>5, <2>1 DEF TakeResponse, NotRegistered, OnePlace, HasEntry
  <2>4. EntriesAreOwn' /\ ObjOfSession'
    BY <1>5 DEF TakeResponse, EntriesAreOwn, ObjOfSession, MapsOf
  <2>5. HolderHasClosed' /\ ListenState'
    BY <1>5 DEF TakeResponse, HolderHasClosed, Holding, ListenState
  <2>6. Causes'
    BY <1>5, <2>1 DEF TakeResponse, Causes
  <2> QED BY <2>2, <2>3, <2>4, <2>5, <2>6
<1>6. CASE Cancelled(c)
  BY <1>6 DEF Cancelled, SendersNeverBlock, EntriesAreOwn, NotRegistered,
     OnePlace, HasEntry, ObjOfSession, HolderHasClosed, Holding, ListenState, Causes
<1>7. CASE SeeDone(c)
  BY <1>7 DEF SeeDone, SendersNeverBlock, EntriesAreOwn, NotRegistered,
     OnePlace, HasEntry, ObjOfSession, HolderHasClosed, Holding, ListenState, Causes
<1> QED BY <1>1, <1>2, <1>3, <1>4, <1>5, <1>6, <1>7 DEF Call, Select

\* The steps of Listen: the entry taken is the call's only one, so its channel
\* is empty and nobody else is about to fill it.
LEMMA ListenStep ==
  ASSUME TypeOK, RpcConnInv, Listen
  PROVE  RpcConnInv'
<1> USE RpcConnAssumption DEF Threads, Move
<1> USE DEF callVars, wireVars, mapVars, closeVars
<1> USE DEF TypeOK, RpcConnInv
<1>1. ASSUME NEW m \in inbox, Receive(m) PROVE RpcConnInv'
  <2> DEFINE entry == {<<m[1], pm>> : pm \in Routed(m[2])} \cap pending
  <2>1. m[1] \in Calls /\ m[1] \in answered
    BY DEF Causes
  <2>2. pending' = pending \ entry
    BY <1>1 DEF Receive
  <2>3. EntriesAreOwn' /\ ObjOfSession'
    BY <1>1, <2>2 DEF Receive, EntriesAreOwn, ObjOfSession, MapsOf
  <2>4. HolderHasClosed'
    BY <1>1 DEF Receive, HolderHasClosed, Holding
  <2>5. \A k \in Calls : HasEntry(k)' => HasEntry(k)
    BY <2>2 DEF HasEntry
  <2>6. CASE entry = {}
    <3>1. UNCHANGED <<tpc, target>>
      BY <1>1, <2>6 DEF Receive
    <3>2. SendersNeverBlock' /\ NotRegistered' /\ OnePlace'
      BY <1>1, <2>5, <3>1 DEF Receive, SendersNeverBlock, NotRegistered, OnePlace
    <3>3. ListenState' /\ Causes'
      BY <1>1, <3>1 DEF Receive, ListenState, Causes
    <3> QED BY <2>3, <2>4, <3>2, <3>3
  <2>7. CASE entry # {}
    <3>1. tpc' = [tpc EXCEPT ![Listener] = "deliver"] /\ target' = m[1]
      BY <1>1, <2>7 DEF Receive
    <3>2. PICK pm \in PendingMaps : <<m[1], pm>> \in pending /\ <<m[1], pm>> \in entry
      BY <2>7, <2>1
    <3>3. HasEntry(m[1])
      BY <3>2 DEF HasEntry
    <3>4. ~HasEntry(m[1])'
      <4>1. \A qm \in PendingMaps : <<m[1], qm>> \in pending => qm = pm
        BY <2>1, <3>2 DEF EntriesAreOwn
      <4>2. \A qm \in PendingMaps : <<m[1], qm>> \notin pending'
        BY <2>2, <3>2, <4>1
      <4> QED BY <4>2 DEF HasEntry
    <3>5. SendersNeverBlock'
      BY <1>1, <2>1, <3>1, <3>3 DEF Receive, SendersNeverBlock, OnePlace
    <3>6. NotRegistered' /\ OnePlace'
      BY <1>1, <2>1, <2>5, <3>1, <3>3, <3>4 DEF Receive, NotRegistered, OnePlace
    <3>7. ListenState' /\ Causes'
      BY <1>1, <2>1, <3>1 DEF Receive, ListenState, Causes
    <3> QED BY <2>3, <2>4, <3>5, <3>6, <3>7
  <2> QED BY <2>6, <2>7
<1>2. CASE Deliver
  BY <1>2 DEF Deliver, SendersNeverBlock, EntriesAreOwn, NotRegistered,
     OnePlace, HasEntry, ObjOfSession, HolderHasClosed, Holding, ListenState, Causes
<1>3. CASE ReceiveFails
  BY <1>3 DEF ReceiveFails, SendersNeverBlock, EntriesAreOwn, NotRegistered,
     OnePlace, HasEntry, ObjOfSession, HolderHasClosed, Holding, ListenState, Causes
<1> QED BY <1>1, <1>2, <1>3 DEF Listen

\* RejectAll's swap: the entries of one map move into the holder's hands.
LEMMA TakeAllStep ==
  ASSUME TypeOK, RpcConnInv, NEW pm \in PendingMaps, TakeAll(pm),
         UNCHANGED <<pc, obj, chan, target>>
  PROVE  SendersNeverBlock' /\ EntriesAreOwn' /\ NotRegistered' /\ OnePlace'
<1> USE DEF TypeOK, RpcConnInv, TakeAll
<1>1. \A k \in Calls : k \in toReject' => HasEntry(k)
  BY DEF HasEntry
<1>2. \A k \in Calls : HasEntry(k)' => HasEntry(k) /\ k \notin toReject'
  BY DEF HasEntry, EntriesAreOwn
<1>3. EntriesAreOwn'
  BY DEF EntriesAreOwn, MapsOf
<1>4. SendersNeverBlock'
  BY <1>1 DEF SendersNeverBlock, OnePlace
<1>5. NotRegistered' /\ OnePlace'
  BY <1>1, <1>2 DEF NotRegistered, OnePlace
<1> QED BY <1>3, <1>4, <1>5

\* The steps of closeWithError: an entry moves from its map to the holder's
\* hands and from there to its channel, all under Conn.mu.
LEMMA CloseStep ==
  ASSUME TypeOK, RpcConnInv, NEW t \in Threads, CloseWithError(t)
  PROVE  RpcConnInv'
<1> USE RpcConnAssumption DEF Threads, Move, After
<1> USE DEF callVars, wireVars, mapVars, closeVars
<1> USE DEF TypeOK, RpcConnInv
<1>1. CASE Enter(t)
  <2>1. SendersNeverBlock' /\ EntriesAreOwn' /\ NotRegistered' /\ OnePlace' /\ ObjOfSession'
    BY <1>1 DEF Enter, SendersNeverBlock, EntriesAreOwn, NotRegistered, OnePlace,
       HasEntry, ObjOfSession, MapsOf
  <2>2. HolderHasClosed'
    BY <1>1 DEF Enter, HolderHasClosed, Holding
  <2>3. ListenState' /\ Causes'
    BY <1>1 DEF Enter, ListenState, Causes
  <2> QED BY <2>1, <2>2, <2>3
<1>2. CASE RejectRoot(t)
  <2>1. SendersNeverBlock' /\ EntriesAreOwn' /\ NotRegistered' /\ OnePlace'
    BY <1>2, TakeAllStep DEF RejectRoot, PendingMaps
  <2>2. ObjOfSession' /\ HolderHasClosed' /\ ListenState' /\ Causes'
    BY <1>2 DEF RejectRoot, ObjOfSession, MapsOf, HolderHasClosed, Holding, ListenState,
       Causes
  <2> QED BY <2>1, <2>2
<1>3. CASE Rejected(t)
  BY <1>3 DEF Rejected, SendersNeverBlock, EntriesAreOwn, NotRegistered,
     OnePlace, HasEntry, ObjOfSession, HolderHasClosed, Holding, ListenState, Causes
<1>4. CASE SwapSessions(t)
  BY <1>4 DEF SwapSessions, SendersNeverBlock, EntriesAreOwn, NotRegistered,
     OnePlace, HasEntry, ObjOfSession, HolderHasClosed, Holding, ListenState, Causes
<1>5. CASE Notify(t)
  <2>1. SendersNeverBlock' /\ EntriesAreOwn' /\ NotRegistered' /\ OnePlace' /\ ObjOfSession'
    BY <1>5 DEF Notify, SendersNeverBlock, EntriesAreOwn, NotRegistered, OnePlace,
       HasEntry, ObjOfSession, MapsOf
  <2>2. HolderHasClosed'
    BY <1>5 DEF Notify, HolderHasClosed, Holding
  <2>3. ListenState' /\ Causes'
    BY <1>5 DEF Notify, ListenState, Causes, HolderHasClosed, Holding
  <2> QED BY <2>1, <2>2, <2>3
<1>6. CASE ShutTransport(t)
  BY <1>6 DEF ShutTransport, SendersNeverBlock, EntriesAreOwn, NotRegistered,
     OnePlace, HasEntry, ObjOfSession, HolderHasClosed, Holding, ListenState, Causes
<1>7. ASSUME NEW c \in Calls, RejectOne(t, c) PROVE RpcConnInv'
  <2>1. \A k \in Calls : chan'[k] = IF k = c THEN "reject" ELSE chan[k]
    BY <1>7 DEF RejectOne
  <2>2. c \in toReject /\ toReject' = toReject \ {c} /\ closed
    BY <1>7 DEF RejectOne, HolderHasClosed
  <2>3. SendersNeverBlock'
    BY <1>7, <2>1, <2>2 DEF RejectOne, SendersNeverBlock
  <2>4. EntriesAreOwn' /\ ObjOfSession'
    BY <1>7 DEF RejectOne, EntriesAreOwn, ObjOfSession, MapsOf
  <2>5. NotRegistered' /\ OnePlace'
    BY <1>7, <2>1, <2>2 DEF RejectOne, NotRegistered, OnePlace, HasEntry
  <2>6. HolderHasClosed' /\ ListenState'
    BY <1>7, <2>2 DEF RejectOne, HolderHasClosed, Holding, ListenState
  <2>7. Causes'
    BY <1>7, <2>1, <2>2 DEF RejectOne, Causes
  <2> QED BY <2>3, <2>4, <2>5, <2>6, <2>7
<1>8. ASSUME NEW s \in Sessions, RejectSession(t, s) PROVE RpcConnInv'
  <2>1. SendersNeverBlock' /\ EntriesAreOwn' /\ NotRegistered' /\ OnePlace'
    BY <1>8, TakeAllStep DEF RejectSession, PendingMaps
  <2>2. ObjOfSession' /\ HolderHasClosed' /\ ListenState' /\ Causes'
    BY <1>8 DEF RejectSession, ObjOfSession, MapsOf, HolderHasClosed, Holding,
       ListenState, Causes
  <2> QED BY <2>1, <2>2
<1> QED BY <1>1, <1>2, <1>3, <1>4, <1>5, <1>6, <1>7, <1>8 DEF CloseWithError

LEMMA NextInv == TypeOK /\ RpcConnInv /\ [Next]_vars => RpcConnInv'
<1> SUFFICES ASSUME TypeOK, RpcConnInv, [Next]_vars PROVE RpcConnInv'
  OBVIOUS
<1> USE DEF callVars, wireVars, mapVars, closeVars
<1>1. CASE UNCHANGED vars
  BY <1>1 DEF vars, RpcConnInv, SendersNeverBlock, EntriesAreOwn, NotRegistered,
     OnePlace, HasEntry, ObjOfSession, MapsOf, HolderHasClosed, Holding, ListenState,
     Causes
<1>2. ASSUME NEW c \in Calls, Call(c) PROVE RpcConnInv'
  BY <1>2, CallStep
<1>3. ASSUME NEW c \in Calls, NEW tag \in Sessions \cup {Root}, Answer(c, tag)
      PROVE RpcConnInv'
  <2>1. SendersNeverBlock' /\ EntriesAreOwn' /\ NotRegistered' /\ OnePlace' /\ ObjOfSession'
    BY <1>3 DEF Answer, RpcConnInv, SendersNeverBlock, EntriesAreOwn, NotRegistered,
       OnePlace, HasEntry, ObjOfSession, MapsOf
  <2>2. HolderHasClosed' /\ ListenState' /\ Causes'
    BY <1>3 DEF Answer, RpcConnInv, HolderHasClosed, Holding, ListenState, Causes
  <2> QED BY <2>1, <2>2 DEF RpcConnInv
<1>4. ASSUME NEW t \in Threads, CallClose(t) PROVE RpcConnInv'
  <2>1. SendersNeverBlock' /\ EntriesAreOwn' /\ NotRegistered' /\ OnePlace' /\ ObjOfSession'
    BY <1>4 DEF CallClose, RpcConnInv, SendersNeverBlock, EntriesAreOwn, NotRegistered,
       OnePlace, HasEntry, ObjOfSession, MapsOf
  <2>2. HolderHasClosed' /\ ListenState' /\ Causes'
    BY <1>4, RpcConnAssumption DEF CallClose, Move, TypeOK, Threads, RpcConnInv,
       HolderHasClosed, Holding, ListenState, Causes
  <2> QED BY <2>1, <2>2 DEF RpcConnInv
<1>5. ASSUME NEW t \in Threads, CloseWithError(t) PROVE RpcConnInv'
  BY <1>5, CloseStep
<1>6. CASE Listen
  BY <1>6, ListenStep
<1>7. CASE Drop \/ SetOnClose
  BY <1>7 DEF Drop, SetOnClose, RpcConnInv, SendersNeverBlock, EntriesAreOwn,
     NotRegistered, OnePlace, HasEntry, ObjOfSession, MapsOf, HolderHasClosed, Holding,
     ListenState, Causes
<1>8. CASE Finished
  BY <1>1, <1>8 DEF Finished
<1> QED BY <1>1, <1>2, <1>3, <1>4, <1>5, <1>6, <1>7, <1>8 DEF Next

THEOREM Invariant == Spec => []RpcConnInv
<1>1. Spec => []TypeOK
  BY TypeCorrect
<1>2. Spec => [][Next]_vars /\ Init
  BY PTL DEF Spec
<1> QED BY <1>1, <1>2, InitInv, NextInv, PTL

-----------------------------------------------------------------------------
\* Nobody is ever blocked on a response channel: neither Listen, which serves
\* every session, nor the closer, which holds Conn.mu meanwhile.
THEOREM SendersAreFree == Spec => []SendersNeverBlock
<1>1. RpcConnInv => SendersNeverBlock
  BY DEF RpcConnInv
<1> QED BY <1>1, Invariant, PTL

\* The disconnect callback runs at most once, and never after a deliberate Close.
THEOREM CallbackOnDropOnly == Spec => []CallbackOnlyOnDrop
<1>1. TypeOK /\ RpcConnInv => CallbackOnlyOnDrop
  BY DEF TypeOK, RpcConnInv, ListenState, CallbackOnlyOnDrop
<1> QED BY <1>1, TypeCorrect, Invariant, PTL

\* Once closed, always closed, with the first error.
THEOREM ErrorStays == Spec => FirstErrorStays
<1>1. [Next]_vars => [closed => closed' /\ err' = err]_vars
  BY DEF Next, Call, Issue, Attach, Add, Send, Select, TakeResponse, Cancelled,
     SeeDone, Answer, Listen, Receive, Deliver, ReceiveFails, CallClose,
     CloseWithError, Enter, RejectRoot, RejectOne, Rejected, SwapSessions,
     RejectSession, Notify, ShutTransport, Drop, SetOnClose, Finished, callVars,
     wireVars, mapVars, closeVars, vars
<1> QED BY <1>1, PTL DEF Spec, FirstErrorStays

-----------------------------------------------------------------------------
\* The connection implements CallContract: each call returns once, and "ok",
\* "rejected" and "closed" only for the reason the contract names.
LEMMA ContractStep ==
  ASSUME TypeOK, RpcConnInv, [Next]_vars
  PROVE  [Contract!Next]_(Contract!vars)
<1> USE DEF Contract!vars, callVars, wireVars, mapVars, closeVars
<1> DEFINE Same == UNCHANGED <<answered, closed, result>>
<1>1. ASSUME NEW c \in Calls, Call(c) PROVE [Contract!Next]_(Contract!vars)
  <2>1. ASSUME NEW outcome \in Outcomes \ {"none"}, Return(c, outcome),
               pc[c] # "done", UNCHANGED <<answered, closed>>,
               outcome = "ok" => c \in answered,
               outcome \in {"rejected", "closed"} => closed
        PROVE  Contract!Next
    <3>1. result[c] = "none"
      BY <2>1 DEF RpcConnInv, Causes
    <3>2. Contract!Return(c, outcome)
      BY <2>1, <3>1 DEF Contract!Return, Return
    <3> QED BY <3>2 DEF Contract!Next, Contract!Outcomes, Outcomes
  <2>2. CASE Issue(c)
    <3>1. CASE Return(c, "unsent")
      BY <2>1, <2>2, <3>1 DEF Issue, Outcomes
    <3> QED BY <2>2, <3>1 DEF Issue
  <2>3. CASE Attach(c) \/ Add(c)
    BY <2>3 DEF Attach, Add
  <2>4. CASE Send(c)
    <3>1. CASE Return(c, "unsent")
      BY <2>1, <2>4, <3>1 DEF Send, Outcomes
    <3> QED BY <2>4, <3>1 DEF Send
  <2>5. CASE TakeResponse(c)
    <3>1. CASE chan[c] = "answer"
      BY <2>1, <2>5, <3>1 DEF TakeResponse, Outcomes, RpcConnInv, Causes
    <3>2. CASE chan[c] = "reject"
      BY <2>1, <2>5, <3>2 DEF TakeResponse, Outcomes, RpcConnInv, Causes
    <3> QED BY <2>5, <3>1, <3>2 DEF TakeResponse, TypeOK
  <2>6. CASE Cancelled(c)
    BY <2>1, <2>6 DEF Cancelled, Outcomes
  <2>7. CASE SeeDone(c)
    BY <2>1, <2>7 DEF SeeDone, Outcomes
  <2> QED BY <1>1, <2>2, <2>3, <2>4, <2>5, <2>6, <2>7 DEF Call, Select
<1>2. ASSUME NEW c \in Calls, NEW tag \in Sessions \cup {Root}, Answer(c, tag)
      PROVE  Contract!Next
  BY <1>2 DEF Answer, Contract!Answer, Contract!Next
<1>3. ASSUME NEW t \in Threads, CloseWithError(t)
      PROVE  [Contract!Next]_(Contract!vars)
  <2>1. CASE Enter(t)
    BY <2>1 DEF Enter, Contract!Close, Contract!Next, TypeOK
  <2>2. CASE ~Enter(t)
    BY <1>3, <2>2 DEF CloseWithError, RejectRoot, RejectOne, Rejected, SwapSessions,
       RejectSession, Notify, ShutTransport
  <2> QED BY <2>1, <2>2
<1>4. CASE Listen \/ Drop \/ SetOnClose \/ Finished \/ UNCHANGED vars
  BY <1>4 DEF Listen, Receive, Deliver, ReceiveFails, Drop, SetOnClose, Finished, vars
<1>5. ASSUME NEW t \in Threads, CallClose(t) PROVE Same
  BY <1>5 DEF CallClose
<1> QED BY <1>1, <1>2, <1>3, <1>4, <1>5 DEF Next

THEOREM Implements == Spec => ImplementsContract
<1>1. Init => Contract!Init
  BY DEF Init, Contract!Init
<1>2. TypeOK /\ RpcConnInv /\ [Next]_vars => [Contract!Next]_(Contract!vars)
  BY ContractStep
<1> QED BY <1>1, <1>2, TypeCorrect, Invariant, PTL
        DEF Spec, ImplementsContract, Contract!Spec
=============================================================================
