---------------------------- MODULE WaitsProofs -------------------------------
(***************************************************************************)
(* Proofs about what a program waits for: a load, for any number of         *)
(* documents; a download, for any number of watchers, waiters and files; an  *)
(* idle network, for any set of requests; and a URL that a pattern matches,  *)
(* for every pattern and string.                                            *)
(***************************************************************************)
EXTENDS LoadWait, Downloads, NetworkIdle, GlobMatch, FiniteSetTheorems, TLAPS

-----------------------------------------------------------------------------
(* Waiting for a load                                                        *)

\* The subscriptions of each kind of wait, and where its command can be.
CallInPlace ==
    /\ lpc = "start" => lsub = {} /\ tokens = 0 /\ loadDone = FALSE
    /\ lpc \in {"frame", "command", "answer", "select"} => "load" \in lsub
    /\ op = "history" /\ lpc \in {"command", "answer", "select"} => "frame" \in lsub
    /\ op # "history" => "frame" \notin lsub
    /\ lpc \in {"start", "frame", "command"} => command = "none"
    /\ lpc = "start" <=> op = "none"
    /\ lpc = "frame" => op = "history"
    /\ op = "wait" => lpc \notin {"command", "answer"} /\ command = "none"
    /\ answer # 0 <=> command = "committed"

\* Only documents that there have been have loaded.
LoadedHaveBeen == loaded \subseteq 1..doc /\ answer <= doc

\* A token, or a wait that it ended, has an event behind it that was meant -- or
\* one that was not, which is then on record.
TokenHasCause ==
    tokens > 0 \/ loadDone = TRUE \/ lpc = "ok" =>
        \/ disturbed = TRUE \/ op = "wait"
        \/ op \in {"navigate", "reload"} /\ answer \in loaded
        \/ op = "history" /\ answer # 0

\* A wait without a token has missed nothing since it subscribed.
NothingMissed ==
    lpc \in {"start", "frame", "command", "answer", "select"} /\ tokens = 0 /\ loadDone = FALSE =>
        /\ doc \in loaded => unseen = TRUE
        /\ answer \notin loaded
        /\ op = "history" => answer = 0

LoadInv == LoadTypeOK /\ CallInPlace /\ LoadedHaveBeen /\ TokenHasCause /\ NothingMissed

-----------------------------------------------------------------------------
\* The invariant implies what the wait promises.
LEMMA LoadInvImplies == LoadInv => NavigationSeen
<1> SUFFICES ASSUME LoadInv PROVE NavigationSeen
  OBVIOUS
<1> USE DEF LoadInv, LoadTypeOK, TokenHasCause, NothingMissed, CallInPlace
<1>1. lpc = "ok" /\ ~disturbed => CASE op \in {"navigate", "reload"} -> answer \in loaded
                                    [] op = "history" -> answer # 0
                                    [] OTHER -> TRUE
  OBVIOUS
<1>2. (lpc = "select" /\ tokens = 0 /\ doc \in loaded) =>
          loadDone \/ (op = "wait" /\ unseen) \/ (op = "history" /\ answer = 0)
          \/ (op \in {"navigate", "reload"} /\ answer # doc)
  OBVIOUS
<1> QED BY <1>1, <1>2 DEF NavigationSeen

\* At first nobody waits for anything.
LEMMA LoadInitInv == LoadInit => LoadInv
<1> SUFFICES ASSUME LoadInit PROVE LoadInv
  OBVIOUS
<1> USE LastDocAssumption DEF LoadInit
<1>1. LoadTypeOK
  <2>1. disturbed \in BOOLEAN /\ unseen \in BOOLEAN /\ loadDone \in BOOLEAN
    OBVIOUS
  <2>2. 1 \in 1..LastDoc /\ 0 \in 0..LastDoc /\ 0 \in Nat
    OBVIOUS
  <2> QED BY <2>1, <2>2 DEF LoadTypeOK
<1>2. CallInPlace
  BY DEF CallInPlace
<1>3. LoadedHaveBeen
  BY DEF LoadedHaveBeen
<1>4. TokenHasCause
  <2>1. ~(tokens > 0) /\ ~(loadDone = TRUE) /\ ~(lpc = "ok")
    OBVIOUS
  <2> QED BY <2>1 DEF TokenHasCause
<1>5. NothingMissed
  BY DEF NothingMissed
<1> QED BY <1>1, <1>2, <1>3, <1>4, <1>5 DEF LoadInv

\* No step of the caller, of signal or of Chrome breaks the invariant.
LEMMA LoadStepKeeps == LoadInv /\ [LoadNext]_loadVars => LoadInv'
<1> SUFFICES ASSUME LoadInv, [LoadNext]_loadVars PROVE LoadInv'
  OBVIOUS
<1> USE LastDocAssumption DEF LoadInv, LoadTypeOK, CallInPlace, LoadedHaveBeen, TokenHasCause,
        NothingMissed, loadChrome, LoadOver, Event
<1>1. ASSUME NEW kind \in {"navigate", "reload", "history", "wait"}, SubscribeLoad(kind) PROVE LoadInv'
  <2> DEFINE next == IF kind \in {"navigate", "reload"} THEN "command" ELSE IF kind = "history" THEN "frame" ELSE "select"
  <2>1. /\ lpc = "start" /\ op' = kind /\ lsub' = {"load"} /\ lpc' = next
        /\ UNCHANGED <<tokens, loadDone, command, doc, loaded, answer, disturbed, unseen>>
    BY <1>1 DEF SubscribeLoad
  <2>2. op = "none" /\ command = "none" /\ answer = 0 /\ tokens = 0 /\ loadDone = FALSE
    BY <2>1
  <2>3. lpc' \in {"command", "frame", "select"} /\ kind # "none"
    BY <2>1
  <2>4. LoadTypeOK'
    BY <2>1, <2>3
  <2>5. CallInPlace'
    BY <2>1, <2>2, <2>3
  <2>6. LoadedHaveBeen'
    BY <2>1
  <2>7. TokenHasCause'
    BY <2>1, <2>2, <2>3
  <2>8. NothingMissed'
    BY <2>1, <2>2, <2>3
  <2> QED BY <2>4, <2>5, <2>6, <2>7, <2>8
<1>2. CASE SubscribeFrame
  BY <1>2 DEF SubscribeFrame
<1>3. CASE GiveCommand
  BY <1>3 DEF GiveCommand
<1>12. CASE NoEntry
  <2>1. /\ lpc = "start" /\ lpc' = "noEntry" /\ op' = "history"
        /\ UNCHANGED <<lsub, tokens, loadDone, command, doc, loaded, answer, disturbed, unseen>>
    BY <1>12 DEF NoEntry
  <2> QED BY <2>1
<1>4. CASE CommandAnswered
  BY <1>4 DEF CommandAnswered
<1>5. CASE SelectDone
  BY <1>5 DEF SelectDone
<1>6. CASE SelectTimeout
  BY <1>6 DEF SelectTimeout
<1>7. CASE SignalDone
  BY <1>7 DEF SignalDone
<1>8. ASSUME NEW asked \in BOOLEAN, Commit(asked) PROVE LoadInv'
  <2>1. /\ doc \in 1..LastDoc /\ doc' = doc + 1 /\ doc' \in 1..LastDoc /\ lpc' = lpc /\ op' = op /\ lsub' = lsub
        /\ loadDone' = loadDone /\ loaded' = loaded /\ unseen' = unseen /\ lpc # "ok"
        /\ tokens' = IF "frame" \in lsub THEN tokens + 1 ELSE tokens
    BY <1>8 DEF Commit
  <2>2. doc' \notin loaded /\ 0 \notin loaded
    BY <2>1
  <2>3. CASE asked
    <3>1. /\ command = "given" /\ command' = "committed" /\ answer' = doc + 1
          /\ disturbed' = disturbed /\ answer = 0
      BY <1>8, <2>3 DEF Commit
    <3>2. LoadTypeOK'
      BY <2>1, <3>1
    <3>3. CallInPlace'
      BY <2>1, <3>1
    <3>4. LoadedHaveBeen'
      BY <2>1, <3>1
    <3>5. TokenHasCause'
      BY <2>1, <2>2, <3>1
    <3>6. NothingMissed'
      BY <2>1, <2>2, <3>1
    <3> QED BY <3>2, <3>3, <3>4, <3>5, <3>6
  <2>4. CASE ~asked
    <3>1. /\ command' = command /\ answer' = answer /\ disturbed' = (disturbed \/ lsub # {})
      BY <1>8, <2>4 DEF Commit
    <3>a. disturbed' \in BOOLEAN /\ (lsub # {} => disturbed' = TRUE) /\ (disturbed = TRUE => disturbed' = TRUE)
      BY <3>1
    <3>2. LoadTypeOK'
      BY <2>1, <3>1, <3>a
    <3>3. CallInPlace'
      BY <2>1, <3>1
    <3>4. LoadedHaveBeen'
      BY <2>1, <3>1
    <3>5. TokenHasCause'
      BY <2>1, <2>2, <3>1, <3>a
    <3>6. NothingMissed'
      BY <2>1, <2>2, <3>1, <3>a
    <3> QED BY <3>2, <3>3, <3>4, <3>5, <3>6
  <2> QED BY <2>3, <2>4
<1>9. CASE Refuse
  BY <1>9 DEF Refuse
<1>10. CASE Load
  <2>1. /\ doc \notin loaded /\ loaded' = loaded \cup {doc} /\ lpc' = lpc /\ op' = op /\ lsub' = lsub
        /\ loadDone' = loadDone /\ doc' = doc /\ command' = command /\ answer' = answer /\ lpc # "ok"
        /\ tokens' = IF "load" \in lsub THEN tokens + 1 ELSE tokens
        /\ disturbed' = (disturbed \/ (lsub # {} /\ doc # answer))
        /\ unseen' = (unseen \/ lpc = "start")
    BY <1>10 DEF Load
  <2>2. /\ disturbed' \in BOOLEAN /\ (disturbed = TRUE => disturbed' = TRUE)
        /\ (lsub # {} /\ doc # answer => disturbed' = TRUE)
    BY <2>1
  <2>3. unseen' \in BOOLEAN /\ (unseen = TRUE => unseen' = TRUE)
    BY <2>1
  <2>4. LoadTypeOK'
    BY <2>1, <2>2, <2>3
  <2>5. CallInPlace'
    BY <2>1
  <2>6. LoadedHaveBeen'
    BY <2>1
  <2>7. TokenHasCause'
    BY <2>1, <2>2
  <2>8. NothingMissed'
    <3>1. CASE "load" \in lsub
      BY <2>1, <3>1
    <3>2. CASE "load" \notin lsub
      <4>1. lpc' \notin {"frame", "command", "answer", "select"}
        BY <2>1, <3>2
      <4>2. lpc = "start" => unseen' = TRUE
        <5>1. unseen' = (unseen \/ lpc = "start")
          BY <2>1
        <5> QED BY <5>1
      <4>3. lpc = "start" => answer' = 0 /\ op' # "history"
        BY <2>1
      <4>4. 0 \notin loaded'
        BY <2>1
      <4> QED BY <2>1, <4>1, <4>2, <4>3, <4>4
    <3> QED BY <3>1, <3>2
  <2> QED BY <2>4, <2>5, <2>6, <2>7, <2>8
<1>11. CASE UNCHANGED loadVars
  BY <1>11 DEF loadVars
<1> QED BY <1>1, <1>2, <1>3, <1>4, <1>5, <1>6, <1>7, <1>8, <1>9, <1>10, <1>11, <1>12 DEF LoadNext

-----------------------------------------------------------------------------
\* The invariant holds in every state of every wait, whatever Chrome sends.
THEOREM LoadInvariant == LoadSpec => []LoadInv
<1> QED BY LoadInitInv, LoadStepKeeps, PTL DEF LoadSpec

\* A wait that ends without error has had the event it was for, and none goes
\* on waiting after it, for any number of documents (Navigate, Reload, GoBack,
\* GoForward, WaitNavigation, WaitForLoadState).
THEOREM LoadSeen == LoadSpec => []NavigationSeen
<1> QED BY LoadInvariant, LoadInvImplies, PTL

-----------------------------------------------------------------------------
(* Downloads                                                                 *)

\* A download is stored by a handler that its beginning started, for a watch
\* that was subscribed then.
StoredBegan ==
    \A p \in Pairs : /\ starting[p] # "none" => dl[p[2]] # "new" /\ place[p[1]] \notin {"none", "dir"}
                     /\ p \in stored => starting[p] # "none"

\* done is closed after the path was set, and the path is set on what is stored.
ClosedWithPath ==
    \A p \in Pairs : /\ p \in closedDone => p \in savedPath
                     /\ progressing[p] = "close" => p \in savedPath
                     /\ p \in savedPath => p \in stored

\* A handler of the progress closes done, unless it came before the beginning.
ProgressCounts == \A p \in Pairs : progressing[p] = "over" => p \in closedDone \cup tooEarly

\* A download that completed during its watch was heard of by then.
CompletionHeard ==
    \A p \in Pairs :
        dl[p[2]] = "completed" /\ starting[p] # "none" /\ place[p[1]] \in {"begin", "both"} =>
            p \in unheard \/ (place[p[1]] = "both" /\ progressing[p] # "none")

\* SaveAs goes on only when done is closed, and so with a path; it is called with
\* what the handler has stored.
SavedInTurn ==
    \A p \in Pairs : /\ saving[p] # "unknown"
                     /\ p[1] \in Watchers /\ saving[p] # "none" => p \in stored

DownloadInv ==
    StoredBegan /\ ClosedWithPath /\ ProgressCounts /\ CompletionHeard /\ SavedInTurn

-----------------------------------------------------------------------------
\* A pair is a watcher or a waiter with a download.
LEMMA PairParts == \A p \in Pairs : p[1] \in Watching /\ p[2] \in Guids /\ p = <<p[1], p[2]>>
BY DEF Pairs

\* The variables keep their types.
LEMMA DownloadTypeInductive == DownloadsTypeOK /\ [DownloadsNext]_dlVars => DownloadsTypeOK'
<1> SUFFICES ASSUME DownloadsTypeOK, [DownloadsNext]_dlVars PROVE DownloadsTypeOK'
  OBVIOUS
<1> USE PairParts DEF DownloadsTypeOK, Move, chromeVars, fieldVars, Places
<1>1. ASSUME NEW s \in Watching, SetDownloadPath(s) \/ SubscribeDownload(s) PROVE DownloadsTypeOK'
  BY <1>1 DEF SetDownloadPath, SubscribeDownload
<1>2. ASSUME NEW s \in Watching, EndWatch(s) PROVE DownloadsTypeOK'
  BY <1>2 DEF EndWatch
<1>3. ASSUME NEW s \in Watching, RemoveDir(s) PROVE DownloadsTypeOK'
  BY <1>3 DEF RemoveDir
<1>4. ASSUME NEW g \in Guids, DownloadBegins(g) PROVE DownloadsTypeOK'
  BY <1>4 DEF DownloadBegins
<1>5. ASSUME NEW g \in Guids, NEW how \in {"completed", "canceled"}, DownloadEnds(g, how)
      PROVE DownloadsTypeOK'
  BY <1>5 DEF DownloadEnds
<1>6. ASSUME NEW p \in Pairs, Store(p) PROVE DownloadsTypeOK'
  BY <1>6 DEF Store
<1>7. ASSUME NEW p \in Pairs, LoadDownload(p) \/ CloseDone(p) \/ SaveAs(p) PROVE DownloadsTypeOK'
  BY <1>7 DEF LoadDownload, CloseDone, SaveAs
<1>8. CASE UNCHANGED dlVars
  BY <1>8 DEF dlVars
<1> QED BY <1>1, <1>2, <1>3, <1>4, <1>5, <1>6, <1>7, <1>8 DEF DownloadsNext

\* No step of a watch, of Chrome or of a handler breaks the invariant.
LEMMA DownloadStepKeeps == DownloadsTypeOK /\ DownloadInv /\ [DownloadsNext]_dlVars => DownloadInv'
<1> SUFFICES ASSUME DownloadsTypeOK, DownloadInv, [DownloadsNext]_dlVars PROVE DownloadInv'
  OBVIOUS
<1> USE PairParts DEF DownloadInv, DownloadsTypeOK, Move, chromeVars, fieldVars, Places,
        StoredBegan, ClosedWithPath, ProgressCounts, CompletionHeard, SavedInTurn
<1>1. ASSUME NEW s \in Watching, SetDownloadPath(s) PROVE DownloadInv'
  BY <1>1 DEF SetDownloadPath
<1>2. ASSUME NEW s \in Watching, SubscribeDownload(s) PROVE DownloadInv'
  BY <1>2 DEF SubscribeDownload
<1>3. ASSUME NEW s \in Watching, EndWatch(s) PROVE DownloadInv'
  BY <1>3 DEF EndWatch
<1>4. ASSUME NEW s \in Watching, RemoveDir(s) PROVE DownloadInv'
  BY <1>4, DownloadsAssumption DEF RemoveDir
<1>5. ASSUME NEW g \in Guids, DownloadBegins(g) PROVE DownloadInv'
  BY <1>5 DEF DownloadBegins
<1>6. ASSUME NEW g \in Guids, NEW how \in {"completed", "canceled"}, DownloadEnds(g, how)
      PROVE DownloadInv'
  BY <1>6 DEF DownloadEnds
<1>7. ASSUME NEW p \in Pairs, Store(p) PROVE DownloadInv'
  BY <1>7 DEF Store
<1>8. ASSUME NEW p \in Pairs, LoadDownload(p) PROVE DownloadInv'
  BY <1>8 DEF LoadDownload
<1>9. ASSUME NEW p \in Pairs, CloseDone(p) PROVE DownloadInv'
  BY <1>9 DEF CloseDone
<1>10. ASSUME NEW p \in Pairs, SaveAs(p) PROVE DownloadInv'
  BY <1>10 DEF SaveAs, FileThere
<1>11. CASE UNCHANGED dlVars
  BY <1>11 DEF dlVars
<1> QED BY <1>1, <1>2, <1>3, <1>4, <1>5, <1>6, <1>7, <1>8, <1>9, <1>10, <1>11 DEF DownloadsNext

\* Nothing has begun at first.
LEMMA DownloadInitInv == DownloadsInit => DownloadsTypeOK /\ DownloadInv
BY PairParts DEF DownloadsInit, DownloadInv, DownloadsTypeOK, Places,
        StoredBegan, ClosedWithPath, ProgressCounts, CompletionHeard, SavedInTurn

\* The invariant says of a watcher's download what DownloadReported promises.
LEMMA DownloadInvImplies == DownloadsTypeOK /\ DownloadInv => DownloadReported
<1> SUFFICES ASSUME DownloadsTypeOK, DownloadInv, NEW p \in Watchers \X Guids
             PROVE /\ saving[p] # "unknown"
                   /\ (saving[p] = "blocked" /\ place[p[1]] = "both" /\ dl[p[2]] = "completed"
                       /\ HandlersOver(p) /\ p \notin tooEarly \cup unheard) => p \in closedDone
  BY DEF DownloadReported
<1>1. p \in Pairs /\ p[1] \in Watchers
  BY DEF Pairs, Watching
<1>2. saving[p] # "unknown"
  BY <1>1 DEF DownloadInv, SavedInTurn
<1>3. ASSUME saving[p] = "blocked", place[p[1]] = "both", dl[p[2]] = "completed",
             HandlersOver(p), p \notin tooEarly \cup unheard
      PROVE p \in closedDone
  <2>1. p \in stored /\ starting[p] # "none"
    BY <1>1, <1>3 DEF DownloadInv, SavedInTurn, StoredBegan
  <2>2. progressing[p] = "over"
    BY <1>1, <1>3, <2>1 DEF DownloadInv, CompletionHeard, HandlersOver, DownloadsTypeOK
  <2> QED BY <1>1, <1>3, <2>2 DEF DownloadInv, ProgressCounts
<1> QED BY <1>2, <1>3

\* The invariant that the statement about downloads rests on.
THEOREM DownloadInvariant == DownloadsSpec => [](DownloadsTypeOK /\ DownloadInv)
BY DownloadInitInv, DownloadTypeInductive, DownloadStepKeeps, PTL DEF DownloadsSpec

\* SaveAs in a watcher's handler hears of every download that completes, in whatever
\* order the handlers of its events run, but for the causes DownloadReported names,
\* and never goes on without a path.
THEOREM Reported == DownloadsSpec => []DownloadReported
BY DownloadInvariant, DownloadInvImplies, PTL

-----------------------------------------------------------------------------
(* Waiting for an idle network                                               *)

\* Requests of which an event has been counted, for each kind of event.
StartCounted == {"timer", "over"}
EndCounted == {"timer", "start", "over"}
SentOf == {r \in PageRequests : hpc[Sent(r)] \in StartCounted}
HopOf == {r \in PageRequests : hpc[Hop(r)] \in StartCounted}
EndOf == {r \in PageRequests : hpc[End(r)] \in EndCounted}

\* The type invariant, without a bound on the count: a handler that was counted may yet
\* end before its start.
IdleTypes ==
    /\ made \in [PageRequests -> {"new", "open", "over"}]
    /\ idleSubs \in Nat
    /\ idleWait \in {"subscribing", "waiting", "idle", "timeout"}
    /\ hpc \in [Handlers -> {"none", "count", "timer", "start", "over"}]
    /\ \A s \in Starts : hpc[s] # "start"
    /\ inflight \in Int
    /\ timer \in {"nil", "running", "fired"}
    /\ before \subseteq Starts

\* The flags, apart: the provers see them best as Boolean values.
IdleFlags == sending \in BOOLEAN /\ idleDone \in BOOLEAN /\ stale \in BOOLEAN /\ cutShort \in BOOLEAN

\* No event is handled before it has come, nor is one that came in time left out.
HandledInTime ==
    \A r \in PageRequests :
        /\ made[r] = "new" => hpc[Sent(r)] = "none" /\ hpc[Hop(r)] = "none"
        /\ made[r] # "over" => hpc[End(r)] = "none"
        /\ made[r] # "new" /\ r \notin early => hpc[Sent(r)] # "none"
        /\ made[r] = "over" /\ r \notin early => hpc[End(r)] # "none"

\* The atomic counter is what the handlers have made of it.
CountExact == inflight = Cardinality(SentOf) + Cardinality(HopOf) - Cardinality(EndOf)

\* The timer runs on a count that was nought: either the open requests are not counted
\* yet, or one that was not counted then will cancel it.
TimerJustified ==
    timer = "running" /\ early = {} /\ ~stale =>
        \/ \A r \in PageRequests : made[r] = "open" => hpc[Sent(r)] # "over"
        \/ \E s \in before : Running(s)

\* Once a timer has expired only a request that is on record can be counted to the end
\* before its function sends.
SendJustified ==
    sending = TRUE /\ early = {} /\ stale = FALSE =>
        \A r \in PageRequests : made[r] = "open" => hpc[Sent(r)] # "over" \/ r \in tooLate

\* A request's start is counted before its end, unless that is recorded.
InOrder ==
    \A r \in PageRequests : r \in EndOf /\ r \notin overtaken => hpc[Sent(r)] # "count"

\* When no event is left to count and the count is nought, the last end has seen to the
\* timer, or a start has cancelled it since, which is recorded.
Settled ==
    /\ ~Returned /\ early = {} /\ overtaken = {}
    /\ \A g \in Ends : ~Running(g)
    /\ \A g \in Starts : hpc[g] # "count"
    /\ inflight = 0 /\ \E r \in PageRequests : hpc[End(r)] = "over"
Signalled == idleDone = TRUE \/ sending = TRUE
TimerStarted ==
    /\ timer = "fired" => Signalled
    /\ Settled => timer = "running" \/ Signalled \/ cutShort = TRUE

\* The inductive invariant.
IdleInv ==
    /\ IdleTypes /\ IdleFlags /\ HandledInTime /\ CountExact
    /\ TimerJustified /\ SendJustified /\ InOrder /\ TimerStarted

-----------------------------------------------------------------------------

\* The three handlers of each request are different ones.
LEMMA Parts ==
    /\ \A r \in PageRequests : Sent(r) \in Starts /\ Hop(r) \in Starts /\ End(r) \in Ends
    /\ \A r, q \in PageRequests :
          /\ Sent(r) = Sent(q) <=> r = q
          /\ Hop(r) = Hop(q) <=> r = q
          /\ End(r) = End(q) <=> r = q
          /\ Sent(r) # Hop(q) /\ Sent(r) # End(q) /\ Hop(r) # End(q)
    /\ \A g \in Starts : \E r \in PageRequests : g[1] = r /\ (g = Sent(r) \/ g = Hop(r))
    /\ \A g \in Ends : \E r \in PageRequests : g[1] = r /\ g = End(r)
BY DEF Sent, Hop, End, Starts, Ends

\* Every handler counts a start or an end.
LEMMA PartsHandlers ==
    /\ Starts \subseteq Handlers /\ Ends \subseteq Handlers /\ Starts \cap Ends = {}
    /\ \A g \in Handlers : g \in Starts \/ g \in Ends
BY DEF Handlers, Starts, Ends

\* A handler's next place, by the event it handles.
LEMMA StepTypes ==
    ASSUME hpc \in [Handlers -> {"none", "count", "timer", "start", "over"}],
           \A s \in Starts : hpc[s] # "start",
           NEW g \in Handlers, NEW l \in {"count", "timer", "start", "over"}, Step(g, l),
           l = "start" => g \in Ends
    PROVE  /\ hpc' \in [Handlers -> {"none", "count", "timer", "start", "over"}]
           /\ \A s \in Starts : hpc'[s] # "start"
           /\ hpc'[g] = l /\ \A h \in Handlers : h # g => hpc'[h] = hpc[h]
BY PartsHandlers DEF Step

\* What each action does, but for the flags.
DispatchEffect(g, r) ==
    /\ \/ Step(g, "count") /\ early' = early
       \/ hpc' = hpc /\ early' = early \cup {r}
    /\ UNCHANGED <<idleSubs, idleWait, inflight, timer, before, overtaken, tooLate>>
    /\ sending' = sending /\ idleDone' = idleDone /\ stale' = stale /\ cutShort' = cutShort

\* An event starts a handler, or comes too early for one.
LEMMA Dispatches ==
    ASSUME NEW g, NEW need, NEW r, Dispatch(g, need, r) PROVE DispatchEffect(g, r)
BY Zenon DEF Dispatch, DispatchEffect, Step

\* The variables keep their types.
LEMMA IdleTypesInductive == IdleTypes /\ [IdleNext]_idleVars => IdleTypes'
<1> SUFFICES ASSUME IdleTypes, [IdleNext]_idleVars PROVE IdleTypes'
  OBVIOUS
<1> USE Parts, PartsHandlers DEF IdleTypes
<1>1. CASE SubscribeIdle
  BY <1>1 DEF SubscribeIdle, idleHist
<1>2. ASSUME NEW outcome \in {"idle", "timeout"}, IdleReturn(outcome) PROVE IdleTypes'
  BY <1>2 DEF IdleReturn, idleHist
<1>3. ASSUME NEW g \in Handlers, NEW r \in PageRequests, NEW m \in {"open", "over"},
             made' = made \/ made' = [made EXCEPT ![r] = m], DispatchEffect(g, r) PROVE IdleTypes'
  BY <1>3, StepTypes DEF DispatchEffect
<1>4. ASSUME NEW r \in PageRequests, RequestSent(r) PROVE IdleTypes'
  BY <1>3, <1>4, Dispatches DEF RequestSent
<1>5. ASSUME NEW r \in PageRequests, Redirected(r) PROVE IdleTypes'
  BY <1>3, <1>5, Dispatches DEF Redirected
<1>6. ASSUME NEW r \in PageRequests, RequestEnds(r) PROVE IdleTypes'
  BY <1>3, <1>6, Dispatches DEF RequestEnds
<1>7. ASSUME NEW g \in Starts, CountStart(g) PROVE IdleTypes'
  BY <1>7, StepTypes DEF CountStart, idleHist
<1>8. ASSUME NEW g \in Starts, CancelTimer(g) PROVE IdleTypes'
  BY <1>8, StepTypes DEF CancelTimer
<1>9. ASSUME NEW g \in Ends, CountEnd(g) PROVE IdleTypes'
  BY <1>9, StepTypes DEF CountEnd
<1>10. ASSUME NEW g \in Ends, CheckIdle(g) PROVE IdleTypes'
  BY <1>10, StepTypes DEF CheckIdle, idleHist
<1>11. ASSUME NEW g \in Ends, StartTimer(g) PROVE IdleTypes'
  <2>1. \/ timer' = "running" /\ before' = {s \in Starts : Running(s)}
        \/ UNCHANGED <<timer, before>>
    BY <1>11, Zenon DEF StartTimer
  <2>2. Step(g, "over") /\ UNCHANGED <<made, idleSubs, idleWait, inflight>>
    BY <1>11, Zenon DEF StartTimer
  <2> QED BY <2>1, <2>2, StepTypes
<1>12. CASE TimerFires \/ SendIdle
  BY <1>12 DEF TimerFires, SendIdle, idleHist
<1>13. CASE UNCHANGED idleVars
  BY <1>13 DEF idleVars, idleHist
<1> QED BY <1>1, <1>2, <1>4, <1>5, <1>6, <1>7, <1>8, <1>9, <1>10, <1>11, <1>12, <1>13
       DEF IdleNext, HandlerStep

\* Handlers follow the events.
LEMMA HandledInductive ==
    ASSUME IdleTypes, HandledInTime, [IdleNext]_idleVars PROVE HandledInTime'
<1> USE Parts, PartsHandlers DEF IdleTypes, HandledInTime
<1>1. ASSUME UNCHANGED <<made, early, hpc>> PROVE HandledInTime'
  BY <1>1
<1>2. ASSUME NEW g \in Handlers, hpc[g] # "none", NEW l \in {"timer", "start", "over"}, Step(g, l),
             l = "start" => g \in Ends, UNCHANGED <<made, early>>
      PROVE  HandledInTime'
  BY <1>2, StepTypes
<1>4. ASSUME NEW r \in PageRequests, RequestSent(r) PROVE HandledInTime'
  <2>1. made[r] = "new" /\ made' = [made EXCEPT ![r] = "open"] /\ DispatchEffect(Sent(r), r)
    BY <1>4, Dispatches DEF RequestSent
  <2> QED BY <2>1, StepTypes DEF DispatchEffect
<1>5. ASSUME NEW r \in PageRequests, Redirected(r) PROVE HandledInTime'
  <2>1. made[r] = "open" /\ made' = made /\ DispatchEffect(Hop(r), r)
    BY <1>5, Dispatches DEF Redirected
  <2> QED BY <2>1, StepTypes DEF DispatchEffect
<1>6. ASSUME NEW r \in PageRequests, RequestEnds(r) PROVE HandledInTime'
  <2>1. made[r] = "open" /\ made' = [made EXCEPT ![r] = "over"] /\ DispatchEffect(End(r), r)
    BY <1>6, Dispatches DEF RequestEnds
  <2> QED BY <2>1, StepTypes DEF DispatchEffect
<1>7. ASSUME NEW g \in Starts, CountStart(g) \/ CancelTimer(g) PROVE HandledInTime'
  BY <1>2, <1>7 DEF CountStart, CancelTimer, idleHist
<1>8. ASSUME NEW g \in Ends, CountEnd(g) \/ CheckIdle(g) PROVE HandledInTime'
  BY <1>2, <1>8 DEF CountEnd, CheckIdle, idleHist
<1>9. ASSUME NEW g \in Ends, StartTimer(g) PROVE HandledInTime'
  <2>1. hpc[g] = "start" /\ Step(g, "over") /\ UNCHANGED <<made, early>>
    BY <1>9, Zenon DEF StartTimer
  <2> QED BY <1>2, <2>1
<1>10. CASE SubscribeIdle \/ (\E outcome \in {"idle", "timeout"} : IdleReturn(outcome)) \/ TimerFires
            \/ SendIdle \/ UNCHANGED idleVars
  <2>1. UNCHANGED <<made, early, hpc>>
    BY <1>10, Zenon DEF SubscribeIdle, IdleReturn, TimerFires, SendIdle, idleVars, idleHist
  <2> QED BY <1>1, <2>1
<1> QED BY <1>4, <1>5, <1>6, <1>7, <1>8, <1>9, <1>10 DEF IdleNext, HandlerStep

\* The counts are numbers.
LEMMA CountsTyped ==
    /\ IsFiniteSet(SentOf) /\ IsFiniteSet(HopOf) /\ IsFiniteSet(EndOf)
    /\ Cardinality(SentOf) \in Nat /\ Cardinality(HopOf) \in Nat /\ Cardinality(EndOf) \in Nat
<1>1. SentOf \subseteq PageRequests /\ HopOf \subseteq PageRequests /\ EndOf \subseteq PageRequests
  BY DEF SentOf, HopOf, EndOf
<1>2. IsFiniteSet(SentOf) /\ IsFiniteSet(HopOf) /\ IsFiniteSet(EndOf)
  BY <1>1, PageRequestsAssumption, FS_Subset
<1> QED BY <1>2, FS_CardinalityType

\* What a handler does after it has counted, or before, changes nothing counted.
LEMMA CountedAlike ==
    ASSUME IdleTypes, NEW g \in Handlers, NEW l \in {"count", "timer", "start", "over"}, Step(g, l),
           l = "start" => g \in Ends,
           \/ hpc[g] = "none" /\ l = "count"
           \/ g \in Starts /\ hpc[g] \in StartCounted /\ l \in StartCounted
           \/ g \in Ends /\ hpc[g] \in EndCounted /\ l \in EndCounted
    PROVE  SentOf' = SentOf /\ HopOf' = HopOf /\ EndOf' = EndOf
<1> USE Parts, PartsHandlers DEF IdleTypes
<1>1. hpc'[g] = l /\ \A h \in Handlers : h # g => hpc'[h] = hpc[h]
  BY StepTypes
<1>2. \A s \in Starts : hpc'[s] \in StartCounted <=> hpc[s] \in StartCounted
  BY <1>1 DEF StartCounted
<1>3. \A e \in Ends : hpc'[e] \in EndCounted <=> hpc[e] \in EndCounted
  BY <1>1 DEF EndCounted
<1> QED BY <1>2, <1>3 DEF SentOf, HopOf, EndOf

\* The counter stays exact: each handler changes it once.
LEMMA CountInductive ==
    ASSUME IdleTypes, HandledInTime, CountExact, [IdleNext]_idleVars PROVE CountExact'
<1> USE Parts, PartsHandlers, CountsTyped DEF IdleTypes, CountExact
<1>1. ASSUME UNCHANGED <<hpc, inflight>> PROVE CountExact'
  BY <1>1 DEF SentOf, HopOf, EndOf
<1>2. ASSUME UNCHANGED inflight, SentOf' = SentOf /\ HopOf' = HopOf /\ EndOf' = EndOf
      PROVE  CountExact'
  BY <1>2
<1>3. ASSUME NEW g \in Handlers, NEW r \in PageRequests, hpc[g] = "none", DispatchEffect(g, r)
      PROVE  CountExact'
  BY <1>1, <1>2, <1>3, CountedAlike DEF DispatchEffect
<1>4. ASSUME NEW r \in PageRequests, RequestSent(r) PROVE CountExact'
  BY <1>3, <1>4, Dispatches DEF RequestSent, HandledInTime
<1>5. ASSUME NEW r \in PageRequests, Redirected(r) PROVE CountExact'
  BY <1>3, <1>5, Dispatches DEF Redirected
<1>6. ASSUME NEW r \in PageRequests, RequestEnds(r) PROVE CountExact'
  BY <1>3, <1>6, Dispatches DEF RequestEnds, HandledInTime
<1>7. ASSUME NEW g \in Starts, CountStart(g) PROVE CountExact'
  <2>1. hpc[g] = "count" /\ Step(g, "timer") /\ inflight' = inflight + 1
    BY <1>7 DEF CountStart
  <2>2. hpc'[g] = "timer" /\ \A h \in Handlers : h # g => hpc'[h] = hpc[h]
    BY <2>1, StepTypes
  <2>3. PICK r \in PageRequests : g = Sent(r) \/ g = Hop(r)
    OBVIOUS
  <2>4. EndOf' = EndOf
    BY <2>2 DEF EndOf
  <2>5. CASE g = Sent(r)
    <3>1. SentOf' = SentOf \cup {r} /\ r \notin SentOf /\ HopOf' = HopOf
      BY <2>1, <2>2, <2>5 DEF SentOf, HopOf, StartCounted
    <3>2. Cardinality(SentOf') = Cardinality(SentOf) + 1
      BY <3>1, FS_AddElement
    <3> QED BY <2>1, <2>4, <3>1, <3>2
  <2>6. CASE g = Hop(r)
    <3>1. HopOf' = HopOf \cup {r} /\ r \notin HopOf /\ SentOf' = SentOf
      BY <2>1, <2>2, <2>6 DEF SentOf, HopOf, StartCounted
    <3>2. Cardinality(HopOf') = Cardinality(HopOf) + 1
      BY <3>1, FS_AddElement
    <3> QED BY <2>1, <2>4, <3>1, <3>2
  <2> QED BY <2>3, <2>5, <2>6
<1>8. ASSUME NEW g \in Ends, CountEnd(g) PROVE CountExact'
  <2>1. hpc[g] = "count" /\ Step(g, "timer") /\ inflight' = inflight - 1
    BY <1>8 DEF CountEnd
  <2>2. hpc'[g] = "timer" /\ \A h \in Handlers : h # g => hpc'[h] = hpc[h]
    BY <2>1, StepTypes
  <2>3. PICK r \in PageRequests : g = End(r)
    OBVIOUS
  <2>4. EndOf' = EndOf \cup {r} /\ r \notin EndOf /\ SentOf' = SentOf /\ HopOf' = HopOf
    BY <2>1, <2>2, <2>3 DEF EndOf, SentOf, HopOf, EndCounted
  <2>5. Cardinality(EndOf') = Cardinality(EndOf) + 1
    BY <2>4, FS_AddElement
  <2> QED BY <2>1, <2>4, <2>5
<1>9. ASSUME NEW g \in Starts, CancelTimer(g) PROVE CountExact'
  BY <1>2, <1>9, CountedAlike DEF CancelTimer, StartCounted
<1>10. ASSUME NEW g \in Ends, CheckIdle(g) PROVE CountExact'
  BY <1>2, <1>10, CountedAlike DEF CheckIdle, EndCounted
<1>11. ASSUME NEW g \in Ends, StartTimer(g) PROVE CountExact'
  <2>1. hpc[g] = "start" /\ Step(g, "over") /\ UNCHANGED inflight
    BY <1>11, Zenon DEF StartTimer
  <2> QED BY <1>2, <2>1, CountedAlike DEF EndCounted
<1>12. CASE SubscribeIdle \/ (\E outcome \in {"idle", "timeout"} : IdleReturn(outcome)) \/ TimerFires
            \/ SendIdle \/ UNCHANGED idleVars
  <2>1. UNCHANGED <<hpc, inflight>>
    BY <1>12, Zenon DEF SubscribeIdle, IdleReturn, TimerFires, SendIdle, idleVars
  <2> QED BY <1>1, <2>1
<1> QED BY <1>4, <1>5, <1>6, <1>7, <1>8, <1>9, <1>10, <1>11, <1>12 DEF IdleNext, HandlerStep

\* An end is counted before its start only where the history says so.
LEMMA OrderInductive ==
    ASSUME IdleTypes, HandledInTime, InOrder, [IdleNext]_idleVars PROVE InOrder'
<1> USE Parts, PartsHandlers DEF IdleTypes, InOrder, EndOf, EndCounted
<1>1. ASSUME UNCHANGED <<hpc, overtaken>> PROVE InOrder'
  BY <1>1
<1>2. ASSUME NEW g \in Handlers, hpc[g] = "none", Step(g, "count"), UNCHANGED overtaken,
             \A r \in PageRequests : g = Sent(r) => hpc[End(r)] = "none"
      PROVE  InOrder'
  BY <1>2, StepTypes
<1>4. ASSUME NEW r \in PageRequests, RequestSent(r) PROVE InOrder'
  <2>1. made[r] = "new" /\ DispatchEffect(Sent(r), r)
    BY <1>4, Dispatches DEF RequestSent
  <2> QED BY <1>1, <1>2, <2>1 DEF DispatchEffect, HandledInTime
<1>5. ASSUME NEW r \in PageRequests, Redirected(r) PROVE InOrder'
  <2>1. hpc[Hop(r)] = "none" /\ DispatchEffect(Hop(r), r)
    BY <1>5, Dispatches DEF Redirected
  <2> QED BY <1>1, <1>2, <2>1 DEF DispatchEffect
<1>6. ASSUME NEW r \in PageRequests, RequestEnds(r) PROVE InOrder'
  <2>1. made[r] = "open" /\ DispatchEffect(End(r), r)
    BY <1>6, Dispatches DEF RequestEnds
  <2> QED BY <1>1, <1>2, <2>1 DEF DispatchEffect, HandledInTime
<1>7. ASSUME NEW g \in Starts, CountStart(g) \/ CancelTimer(g) PROVE InOrder'
  <2>1. PICK l \in {"timer", "over"} : Step(g, l) /\ hpc[g] \in {"count", "timer"} /\ overtaken' = overtaken
    BY <1>7 DEF CountStart, CancelTimer, idleHist
  <2> QED BY <2>1, StepTypes
<1>8. ASSUME NEW g \in Ends, CountEnd(g) PROVE InOrder'
  <2>1. PICK r \in PageRequests : g = End(r) /\ g[1] = r
    OBVIOUS
  <2>2. hpc[g] = "count" /\ Step(g, "timer")
        /\ overtaken \subseteq overtaken'
        /\ (hpc[Sent(g[1])] = "count" => g[1] \in overtaken')
    BY <1>8 DEF CountEnd
  <2> QED BY <2>1, <2>2, StepTypes
<1>9. ASSUME NEW g \in Ends, CheckIdle(g) \/ StartTimer(g) PROVE InOrder'
  <2>1. PICK l \in {"start", "over"} : Step(g, l) /\ hpc[g] \in {"timer", "start"} /\ overtaken' = overtaken
    BY <1>9 DEF CheckIdle, StartTimer, idleHist
  <2> QED BY <2>1, StepTypes
<1>12. CASE SubscribeIdle \/ (\E outcome \in {"idle", "timeout"} : IdleReturn(outcome)) \/ TimerFires
            \/ SendIdle \/ UNCHANGED idleVars
  <2>1. UNCHANGED <<hpc, overtaken>>
    BY <1>12, Zenon DEF SubscribeIdle, IdleReturn, TimerFires, SendIdle, idleVars, idleHist
  <2> QED BY <1>1, <2>1
<1> QED BY <1>4, <1>5, <1>6, <1>7, <1>8, <1>9, <1>12 DEF IdleNext, HandlerStep

\* Where all events came in time and every start is counted, a request counted as
\* started and not as ended keeps the count above nought.
LEMMA OpenCounts ==
    ASSUME IdleTypes, HandledInTime, CountExact, early = {},
           \A q \in PageRequests : hpc[Sent(q)] # "count",
           \/ \E r \in PageRequests : r \in SentOf /\ r \notin EndOf
           \/ HopOf # {}
    PROVE  inflight # 0
<1> USE Parts, PartsHandlers DEF IdleTypes
<1>c. IsFiniteSet(SentOf) /\ IsFiniteSet(HopOf)
  BY CountsTyped
<1>t. Cardinality(SentOf) \in Nat /\ Cardinality(HopOf) \in Nat /\ Cardinality(EndOf) \in Nat
  BY CountsTyped
<1>1. EndOf \subseteq SentOf
  BY DEF HandledInTime, EndOf, SentOf, EndCounted, StartCounted
<1>2. Cardinality(EndOf) <= Cardinality(SentOf)
      /\ (Cardinality(EndOf) = Cardinality(SentOf) => EndOf = SentOf)
  BY <1>1, <1>c, FS_Subset
<1>3. HopOf # {} => Cardinality(HopOf) # 0
  BY <1>c, FS_EmptySet
<1> QED BY <1>2, <1>3, <1>t DEF CountExact

\* The same of the state after a step.
LEMMA OpenCountsNext ==
    ASSUME IdleTypes', HandledInTime', CountExact', early' = {},
           \A q \in PageRequests : hpc'[Sent(q)] # "count",
           \/ \E r \in PageRequests : r \in SentOf' /\ r \notin EndOf'
           \/ HopOf' # {}
    PROVE  inflight' # 0
<1> USE Parts, PartsHandlers DEF IdleTypes
<1>0. /\ SentOf' \subseteq PageRequests /\ HopOf' \subseteq PageRequests
      /\ EndOf' \subseteq PageRequests
  BY DEF SentOf, HopOf, EndOf
<1>c. /\ IsFiniteSet(SentOf') /\ IsFiniteSet(HopOf') /\ IsFiniteSet(EndOf')
  BY <1>0, PageRequestsAssumption, FS_Subset
<1>t. /\ Cardinality(SentOf') \in Nat /\ Cardinality(HopOf') \in Nat /\ Cardinality(EndOf') \in Nat
  BY <1>c, FS_CardinalityType
<1>1. EndOf' \subseteq SentOf'
  BY DEF HandledInTime, EndOf, SentOf, EndCounted, StartCounted
<1>2. Cardinality(EndOf') <= Cardinality(SentOf')
      /\ (Cardinality(EndOf') = Cardinality(SentOf') => EndOf' = SentOf')
  BY <1>1, <1>c, FS_Subset
<1>3. HopOf' # {} => Cardinality(HopOf') # 0
  BY <1>c, FS_EmptySet
<1> QED BY <1>2, <1>3, <1>t DEF CountExact

\* A timer is started on a count of nought, and cancelled by the next start.
LEMMA JustifiedInductive ==
    ASSUME IdleTypes, HandledInTime, CountExact, TimerJustified, [IdleNext]_idleVars
    PROVE  TimerJustified'
<1> SUFFICES ASSUME timer' = "running", early' = {}, ~stale'
             PROVE  \/ \A r \in PageRequests : made'[r] = "open" => hpc'[Sent(r)] # "over"
                    \/ \E s \in before' : Running(s)'
  BY DEF TimerJustified
<1> DEFINE Goal == \/ \A r \in PageRequests : made'[r] = "open" => hpc'[Sent(r)] # "over"
                   \/ \E s \in before' : Running(s)'
           Old == \/ \A r \in PageRequests : made[r] = "open" => hpc[Sent(r)] # "over"
                  \/ \E s \in before : Running(s)
<1> USE Parts, PartsHandlers DEF IdleTypes, Running
<1>0. timer = "running" /\ early = {} /\ (stale <=> stale') => Old
  BY DEF TimerJustified
<1>1. ASSUME UNCHANGED <<made, hpc, early, timer, before>>, stale <=> stale' PROVE Goal
  BY <1>0, <1>1
<1>2. ASSUME NEW g \in Handlers, hpc[g] \notin {"none", "over"} \/ (hpc[g] = "none" /\ g \notin Ends),
             NEW l \in {"count", "timer", "start", "over"}, Step(g, l),
             l = "start" => g \in Ends, l = "over" => g \in Ends, UNCHANGED <<made, early,
                                                                              timer, before>>,
             stale <=> stale'
      PROVE  Goal
  BY <1>0, <1>2, StepTypes
<1>4. ASSUME NEW r \in PageRequests, RequestSent(r) PROVE Goal
  <2>1. made[r] = "new" /\ made' = [made EXCEPT ![r] = "open"] /\ DispatchEffect(Sent(r), r)
    BY <1>4, Dispatches DEF RequestSent
  <2>2. Step(Sent(r), "count") /\ early = {} /\ timer = "running" /\ before' = before
    BY <2>1 DEF DispatchEffect
  <2>3. Old
    BY <1>0, <2>1, <2>2, Zenon DEF DispatchEffect
  <2>4. hpc'[Sent(r)] = "count" /\ \A h \in Handlers : h # Sent(r) => hpc'[h] = hpc[h]
    BY <2>2, StepTypes
  <2> QED BY <2>1, <2>2, <2>3, <2>4
<1>5. ASSUME NEW r \in PageRequests, Redirected(r) PROVE Goal
  <2>1. made' = made /\ DispatchEffect(Hop(r), r) /\ hpc[Hop(r)] = "none"
    BY <1>5, Dispatches DEF Redirected
  <2>2. Step(Hop(r), "count") /\ early' = early /\ timer' = timer /\ before' = before
    BY <2>1 DEF DispatchEffect
  <2>3. stale' = stale
    BY <2>1, Zenon DEF DispatchEffect
  <2> QED BY <1>2, <2>1, <2>2, <2>3
<1>6. ASSUME NEW r \in PageRequests, RequestEnds(r) PROVE Goal
  <2>1. made[r] = "open" /\ made' = [made EXCEPT ![r] = "over"] /\ DispatchEffect(End(r), r)
    BY <1>6, Dispatches DEF RequestEnds
  <2>2. Step(End(r), "count") /\ early = {} /\ timer = "running" /\ before' = before
    BY <2>1 DEF DispatchEffect
  <2>3. Old
    BY <1>0, <2>1, <2>2, Zenon DEF DispatchEffect
  <2>4. hpc'[End(r)] = "count" /\ \A h \in Handlers : h # End(r) => hpc'[h] = hpc[h]
    BY <2>2, StepTypes
  <2> QED BY <2>1, <2>2, <2>3, <2>4
<1>7. ASSUME NEW g \in Starts, CountStart(g) PROVE Goal
  <2>1. stale' = stale
    BY <1>7, Zenon DEF CountStart, idleHist
  <2> QED BY <1>2, <1>7, <2>1 DEF CountStart, idleHist
<1>8. ASSUME NEW g \in Starts, CancelTimer(g) PROVE FALSE
  BY <1>8 DEF CancelTimer
<1>9. ASSUME NEW g \in Ends, CountEnd(g) PROVE Goal
  <2>1. stale' = stale
    BY <1>9, Zenon DEF CountEnd
  <2> QED BY <1>2, <1>9, <2>1 DEF CountEnd
<1>10. ASSUME NEW g \in Ends, CheckIdle(g) PROVE Goal
  <2>1. stale' = stale
    BY <1>10, Zenon DEF CheckIdle, idleHist
  <2> QED BY <1>2, <1>10, <2>1 DEF CheckIdle, idleHist
<1>11. ASSUME NEW g \in Ends, StartTimer(g) PROVE Goal
  <2>0. hpc[g] = "start" /\ Step(g, "over") /\ UNCHANGED <<made, early>>
    BY <1>11, Zenon DEF StartTimer
  <2>1. CASE timer = "nil"
    <3>1. before' = {s \in Starts : Running(s)} /\ inflight = 0
      BY <1>11, <2>1, Zenon DEF StartTimer
    <3>2. hpc'[g] = "over" /\ \A h \in Handlers : h # g => hpc'[h] = hpc[h]
      BY <2>0, StepTypes
    <3>3. ASSUME NEW r \in PageRequests, made[r] = "open", hpc[Sent(r)] = "over"
          PROVE  \E s \in before' : Running(s)'
      <4>1. r \in SentOf /\ r \notin EndOf
        BY <3>3 DEF SentOf, EndOf, StartCounted, EndCounted, HandledInTime
      <4>2. PICK q \in PageRequests : hpc[Sent(q)] = "count"
        BY <2>0, <3>1, <4>1, OpenCounts
      <4>3. Sent(q) \in before' /\ hpc'[Sent(q)] = "count"
        BY <3>1, <3>2, <4>2
      <4> QED BY <4>3
    <3>4. \A r \in PageRequests : hpc'[Sent(r)] = hpc[Sent(r)]
      BY <3>2
    <3> QED BY <2>0, <3>3, <3>4
  <2>2. CASE timer # "nil"
    <3>1. UNCHANGED <<timer, before, stale>>
      BY <1>11, <2>2, Zenon DEF StartTimer
    <3>2. stale <=> stale'
      BY <3>1, Zenon
    <3> QED BY <1>2, <2>0, <3>1, <3>2
  <2> QED BY <2>1, <2>2
<1>12. ASSUME NEW outcome \in {"idle", "timeout"}, IdleReturn(outcome) PROVE FALSE
  BY <1>12 DEF IdleReturn
<1>13. CASE TimerFires
  BY <1>13 DEF TimerFires
<1>14. CASE SubscribeIdle \/ SendIdle \/ UNCHANGED idleVars
  <2>1. UNCHANGED <<made, hpc, early, timer, before>>
    BY <1>14, Zenon DEF SubscribeIdle, SendIdle, idleVars, idleHist
  <2>2. stale' = stale
    BY <1>14, Zenon DEF SubscribeIdle, SendIdle, idleVars, idleHist
  <2> QED BY <1>1, <2>1, <2>2
<1> QED BY <1>4, <1>5, <1>6, <1>7, <1>8, <1>9, <1>10, <1>11, <1>12, <1>13, <1>14
       DEF IdleNext, HandlerStep

\* The flags stay Boolean.
LEMMA IdleFlagsInductive == IdleFlags /\ [IdleNext]_idleVars => IdleFlags'
<1> SUFFICES ASSUME IdleFlags, [IdleNext]_idleVars PROVE IdleFlags'
  OBVIOUS
<1>1. (sending' = sending \/ sending' = TRUE \/ sending' = FALSE) /\ (idleDone' = idleDone \/ idleDone' = TRUE)
  BY Zenon DEF IdleNext, HandlerStep, SubscribeIdle, IdleReturn, RequestSent, Redirected, RequestEnds,
     Dispatch, CountStart, CancelTimer, CountEnd, CheckIdle, StartTimer, TimerFires, SendIdle, idleVars
<1>2. CASE UNCHANGED <<stale, cutShort>>
  BY <1>1, <1>2, Zenon DEF IdleFlags
<1>3. CASE ~UNCHANGED <<stale, cutShort>>
  <2>1. \E g : StartTimer(g) \/ CancelTimer(g)
    BY <1>3, Zenon DEF IdleNext, HandlerStep, SubscribeIdle, IdleReturn, RequestSent, Redirected,
       RequestEnds, Dispatch, CountStart, CountEnd, CheckIdle, TimerFires, SendIdle, idleVars, idleHist
  <2>2. ASSUME NEW g, StartTimer(g) PROVE stale' \in BOOLEAN /\ cutShort' \in BOOLEAN
    BY <2>2, Zenon DEF StartTimer, IdleFlags
  <2>3. ASSUME NEW g, CancelTimer(g) PROVE stale' \in BOOLEAN /\ cutShort' \in BOOLEAN
    BY <2>3, Zenon DEF CancelTimer, IdleFlags
  <2> QED BY <1>1, <2>1, <2>2, <2>3, Zenon DEF IdleFlags
<1> QED BY <1>2, <1>3

\* Between expiry and send, whatever is counted to the end goes on record.
LEMMA SendInductive ==
    ASSUME IdleTypes, IdleFlags, HandledInTime, TimerJustified, SendJustified, [IdleNext]_idleVars
    PROVE  SendJustified'
<1> SUFFICES ASSUME sending' = TRUE, early' = {}, stale' = FALSE,
                    NEW r \in PageRequests, made'[r] = "open"
             PROVE  hpc'[Sent(r)] # "over" \/ r \in tooLate'
  BY DEF SendJustified
<1> DEFINE Goal == hpc'[Sent(r)] # "over" \/ r \in tooLate'
           Old == made[r] = "open" => hpc[Sent(r)] # "over" \/ r \in tooLate
<1> USE Parts, PartsHandlers DEF IdleTypes
<1>0. sending = TRUE /\ early = {} /\ stale = FALSE => Old
  BY DEF SendJustified
<1>1. ASSUME UNCHANGED <<made, hpc, early, tooLate>>, sending' = sending, stale' = stale PROVE Goal
  BY <1>0, <1>1
<1>2. ASSUME NEW g \in Handlers, NEW l \in {"count", "timer", "start", "over"}, Step(g, l),
             l = "start" => g \in Ends, l = "over" => g \in Ends,
             UNCHANGED <<made, early, tooLate>>, sending' = sending, stale' = FALSE => stale = FALSE
      PROVE  Goal
  BY <1>0, <1>2, StepTypes
<1>4. ASSUME NEW q \in PageRequests, RequestSent(q) PROVE Goal
  <2>1. made' = [made EXCEPT ![q] = "open"] /\ DispatchEffect(Sent(q), q)
    BY <1>4, Dispatches DEF RequestSent
  <2>2. Step(Sent(q), "count") /\ early = {} /\ tooLate' = tooLate
    BY <2>1 DEF DispatchEffect
  <2>3. Old
    BY <1>0, <2>1, <2>2, Zenon DEF DispatchEffect
  <2>4. hpc'[Sent(q)] = "count" /\ \A h \in Handlers : h # Sent(q) => hpc'[h] = hpc[h]
    BY <2>2, StepTypes
  <2> QED BY <2>1, <2>2, <2>3, <2>4
<1>5. ASSUME NEW q \in PageRequests, Redirected(q) PROVE Goal
  <2>1. made' = made /\ DispatchEffect(Hop(q), q)
    BY <1>5, Dispatches DEF Redirected
  <2>2. Step(Hop(q), "count") /\ early' = early /\ tooLate' = tooLate
    BY <2>1 DEF DispatchEffect
  <2>3. stale' = stale /\ sending' = sending
    BY <2>1, Zenon DEF DispatchEffect
  <2> QED BY <1>2, <2>1, <2>2, <2>3
<1>6. ASSUME NEW q \in PageRequests, RequestEnds(q) PROVE Goal
  <2>1. made' = [made EXCEPT ![q] = "over"] /\ DispatchEffect(End(q), q)
    BY <1>6, Dispatches DEF RequestEnds
  <2>2. Step(End(q), "count") /\ early = {} /\ tooLate' = tooLate
    BY <2>1 DEF DispatchEffect
  <2>3. Old
    BY <1>0, <2>1, <2>2, Zenon DEF DispatchEffect
  <2>4. \A h \in Handlers : h # End(q) => hpc'[h] = hpc[h]
    BY <2>2, StepTypes
  <2> QED BY <2>1, <2>2, <2>3, <2>4
<1>7. ASSUME NEW g \in Starts, CountStart(g) PROVE Goal
  <2>1. stale' = stale /\ sending' = sending
    BY <1>7, Zenon DEF CountStart, idleHist
  <2> QED BY <1>2, <1>7, <2>1 DEF CountStart, idleHist
<1>8. ASSUME NEW g \in Starts, CancelTimer(g) PROVE Goal
  <2>1. hpc[g] = "timer" /\ Step(g, "over") /\ UNCHANGED <<made, early>>
    BY <1>8 DEF CancelTimer
  <2>2. stale' = stale /\ sending' = sending
    BY <1>8, Zenon DEF CancelTimer
  <2>3. Old
    BY <1>0, <2>1, <2>2
  <2>4. tooLate' = tooLate \cup {g[1]}
    BY <1>8, <2>2 DEF CancelTimer
  <2>5. \A h \in Handlers : h # g => hpc'[h] = hpc[h]
    BY <2>1, StepTypes
  <2>6. CASE g = Sent(r)
    BY <2>4, <2>6 DEF Sent
  <2>7. CASE g # Sent(r)
    BY <2>1, <2>3, <2>4, <2>5, <2>7
  <2> QED BY <2>6, <2>7
<1>9. ASSUME NEW g \in Ends, CountEnd(g) PROVE Goal
  <2>1. stale' = stale /\ sending' = sending
    BY <1>9, Zenon DEF CountEnd
  <2> QED BY <1>2, <1>9, <2>1 DEF CountEnd
<1>10. ASSUME NEW g \in Ends, CheckIdle(g) PROVE Goal
  <2>1. stale' = stale /\ sending' = sending
    BY <1>10, Zenon DEF CheckIdle, idleHist
  <2> QED BY <1>2, <1>10, <2>1 DEF CheckIdle, idleHist
<1>11. ASSUME NEW g \in Ends, StartTimer(g) PROVE Goal
  <2>1. Step(g, "over") /\ UNCHANGED <<made, early, tooLate>>
    BY <1>11, Zenon DEF StartTimer
  <2>2. sending' = sending
    BY <1>11, Zenon DEF StartTimer
  <2>3. stale = FALSE
    <3>1. stale' = stale \/ stale' = (inflight # 0 \/ (stale /\ sending))
      BY <1>11, Zenon DEF StartTimer
    <3> QED BY <3>1, <2>2, Zenon DEF IdleFlags
  <2> QED BY <1>2, <2>1, <2>2, <2>3
<1>13. CASE TimerFires
  <2>1. timer = "running" /\ (\A s \in before : ~Running(s)) /\ UNCHANGED <<made, hpc, early>>
    BY <1>13 DEF TimerFires, idleHist
  <2>2. stale = FALSE
    BY <1>13, Zenon DEF TimerFires, idleHist
  <2> QED BY <2>1, <2>2 DEF TimerJustified
<1>14. CASE SendIdle
  BY <1>14 DEF SendIdle
<1>15. CASE SubscribeIdle \/ (\E outcome \in {"idle", "timeout"} : IdleReturn(outcome)) \/ UNCHANGED idleVars
  <2>1. UNCHANGED <<made, hpc, early, tooLate>>
    BY <1>15, Zenon DEF SubscribeIdle, IdleReturn, idleVars, idleHist
  <2>2. stale' = stale /\ sending' = sending
    BY <1>15, Zenon DEF SubscribeIdle, IdleReturn, idleVars, idleHist
  <2> QED BY <1>1, <2>1, <2>2
<1> QED BY <1>4, <1>5, <1>6, <1>7, <1>8, <1>9, <1>10, <1>11, <1>13, <1>14, <1>15
       DEF IdleNext, HandlerStep

\* The last end to be counted has started the timer, or left a count above nought; a
\* start that is late to cancel it is recorded.
LEMMA StartedInductive ==
    ASSUME IdleTypes, IdleFlags, HandledInTime, CountExact, InOrder, TimerStarted,
           [IdleNext]_idleVars, HandledInTime', CountExact', IdleTypes'
    PROVE  TimerStarted'
<1> USE Parts, PartsHandlers DEF IdleTypes
<1>0. ASSUME UNCHANGED <<idleWait, early, overtaken, hpc, inflight, timer>>, idleDone' = idleDone,
             sending' = sending, cutShort' = cutShort
      PROVE  TimerStarted'
  BY <1>0, Zenon DEF TimerStarted, Settled, Signalled, Returned, Running
<1>1. ASSUME UNCHANGED timer, idleDone' = idleDone, sending' = sending, ~Settled' PROVE TimerStarted'
  BY <1>1, Zenon DEF TimerStarted, Signalled
<1>3. ASSUME NEW g \in Handlers, Step(g, "count") PROVE ~Settled'
  <2>1. hpc'[g] = "count"
    BY <1>3, StepTypes
  <2> QED BY <2>1 DEF Settled, Running
<1>d. ASSUME NEW g \in Handlers, NEW r \in PageRequests, DispatchEffect(g, r) PROVE TimerStarted'
  <2>1. Step(g, "count") \/ r \in early'
    BY <1>d DEF DispatchEffect
  <2>2. ~Settled'
    BY <1>3, <2>1 DEF Settled
  <2> QED BY <1>1, <1>d, <2>2, Zenon DEF DispatchEffect
<1>4. ASSUME NEW r \in PageRequests, RequestSent(r) PROVE TimerStarted'
  BY <1>4, <1>d, Dispatches DEF RequestSent
<1>5. ASSUME NEW r \in PageRequests, Redirected(r) PROVE TimerStarted'
  BY <1>5, <1>d, Dispatches DEF Redirected
<1>6. ASSUME NEW r \in PageRequests, RequestEnds(r) PROVE TimerStarted'
  BY <1>6, <1>d, Dispatches DEF RequestEnds
<1>8. ASSUME NEW g \in Starts, CountStart(g) PROVE TimerStarted'
  <2>0. hpc[g] = "count" /\ Step(g, "timer") /\ UNCHANGED <<early, overtaken>>
    BY <1>8 DEF CountStart, idleHist
  <2>1. hpc'[g] = "timer" /\ \A h \in Handlers : h # g => hpc'[h] = hpc[h]
    BY <2>0, StepTypes
  <2>2. ~Settled'
    <3> SUFFICES ASSUME Settled' PROVE FALSE
      OBVIOUS
    <3>1. early' = {} /\ overtaken' = {} /\ inflight' = 0 /\ \A q \in PageRequests : hpc'[Sent(q)] # "count"
      BY DEF Settled
    <3>2. PICK r \in PageRequests : g = Sent(r) \/ g = Hop(r)
      OBVIOUS
    <3>3. CASE g = Sent(r)
      <4>1. r \in SentOf'
        BY <2>1, <3>3 DEF SentOf, StartCounted
      <4>2. r \notin EndOf
        BY <2>0, <3>1, <3>3 DEF InOrder
      <4>3. r \notin EndOf'
        BY <2>1, <3>3, <4>2 DEF EndOf
      <4> QED BY <3>1, <4>1, <4>3, OpenCountsNext
    <3>4. CASE g = Hop(r)
      <4>1. r \in HopOf'
        BY <2>1, <3>4 DEF HopOf, StartCounted
      <4> QED BY <3>1, <4>1, OpenCountsNext
    <3> QED BY <3>2, <3>3, <3>4
  <2> QED BY <1>1, <1>8, <2>2, Zenon DEF CountStart
<1>9. ASSUME NEW g \in Ends, CountEnd(g) PROVE TimerStarted'
  <2>1. Step(g, "timer")
    BY <1>9, Zenon DEF CountEnd
  <2>2. ~Settled'
    BY <2>1, StepTypes DEF Settled, Running
  <2> QED BY <1>1, <1>9, <2>2, Zenon DEF CountEnd
<1>10. ASSUME NEW g \in Starts, CancelTimer(g) PROVE TimerStarted'
  <2>1. hpc[g] = "timer" /\ Step(g, "over") /\ timer' = "nil"
        /\ UNCHANGED <<inflight, idleWait, early, overtaken>>
    BY <1>10 DEF CancelTimer
  <2>2. hpc'[g] = "over" /\ \A h \in Handlers : h # g => hpc'[h] = hpc[h]
    BY <2>1, StepTypes
  <2>3. Settled' => Settled
    BY <2>1, <2>2 DEF Settled, Running, Returned
  <2>4. Signalled' <=> Signalled
    BY <1>10, Zenon DEF CancelTimer, Signalled
  <2>5. ASSUME Settled' PROVE Signalled' \/ cutShort' = TRUE
    <3>1. inflight = 0 /\ (timer = "running" \/ Signalled \/ cutShort = TRUE)
      BY <2>3, <2>5 DEF Settled, TimerStarted
    <3>2. timer = "running" \/ cutShort = TRUE => cutShort' = TRUE
      BY <1>10, <3>1, Zenon DEF CancelTimer
    <3> QED BY <2>4, <3>1, <3>2
  <2> QED BY <2>1, <2>5 DEF TimerStarted
<1>11. ASSUME NEW g \in Ends, CheckIdle(g) PROVE TimerStarted'
  <2>0. idleDone' = idleDone /\ sending' = sending /\ timer' = timer
    BY <1>11, Zenon DEF CheckIdle
  <2>1. CASE inflight = 0
    <3>1. Step(g, "start")
      BY <1>11, <2>1 DEF CheckIdle
    <3>2. ~Settled'
      BY <3>1, StepTypes DEF Settled, Running
    <3> QED BY <1>1, <2>0, <3>2
  <2>2. CASE inflight # 0
    <3>1. ~Settled'
      BY <1>11, <2>2 DEF CheckIdle, Settled
    <3> QED BY <1>1, <2>0, <3>1
  <2> QED BY <2>1, <2>2
<1>12. ASSUME NEW g \in Ends, StartTimer(g) PROVE TimerStarted'
  <2>1. timer' \in {"running", "fired"} /\ (timer' = "fired" => timer = "fired")
    BY <1>12, Zenon DEF StartTimer
  <2>2. Signalled' <=> Signalled
    BY <1>12, Zenon DEF StartTimer, Signalled
  <2> QED BY <2>1, <2>2 DEF TimerStarted
<1>13. ASSUME NEW outcome \in {"idle", "timeout"}, IdleReturn(outcome) PROVE TimerStarted'
  BY <1>13 DEF IdleReturn, TimerStarted, Settled, Returned
<1>14. CASE TimerFires \/ SendIdle
  <2>1. Signalled'
    BY <1>14, Zenon DEF TimerFires, SendIdle, Signalled
  <2> QED BY <2>1 DEF TimerStarted
<1>15. CASE SubscribeIdle
  <2>1. ~Returned
    BY <1>15 DEF SubscribeIdle, Returned
  <2>2. UNCHANGED <<early, overtaken, hpc, inflight, timer>>
    BY <1>15 DEF SubscribeIdle, idleHist
  <2>3. (Signalled' <=> Signalled) /\ cutShort' = cutShort
    BY <1>15, Zenon DEF SubscribeIdle, Signalled, idleHist
  <2>4. Settled' => Settled
    BY <2>1, <2>2 DEF Settled, Running
  <2> QED BY <2>2, <2>3, <2>4 DEF TimerStarted
<1>16. CASE UNCHANGED idleVars
  BY <1>0, <1>16, Zenon DEF idleVars, idleHist
<1> QED BY <1>4, <1>5, <1>6, <1>8, <1>9, <1>10, <1>11, <1>12, <1>13, <1>14, <1>15, <1>16
       DEF IdleNext, HandlerStep

-----------------------------------------------------------------------------

\* It holds before the wait subscribes.
LEMMA IdleInvInit == IdleInit => IdleInv
<1> SUFFICES ASSUME IdleInit PROVE IdleInv
  OBVIOUS
<1> USE Parts, PartsHandlers
<1>1. IdleTypes /\ (\A g \in Handlers : hpc[g] = "none") /\ inflight = 0 /\ timer = "nil"
      /\ \A r \in PageRequests : made[r] # "new" => r \in early
  BY DEF IdleInit, IdleTypes
<1>2. HandledInTime
  <2>1. \A r \in PageRequests : made[r] # "over"
    BY DEF IdleInit
  <2> QED BY <1>1, <2>1 DEF HandledInTime
<1>3. SentOf = {} /\ HopOf = {} /\ EndOf = {}
  BY <1>1 DEF SentOf, HopOf, EndOf, StartCounted, EndCounted
<1>4. CountExact
  <2>1. Cardinality({}) = 0
    BY FS_EmptySet
  <2> QED BY <1>1, <1>3, <2>1 DEF CountExact
<1>5. InOrder
  BY <1>3 DEF InOrder
<1>6. TimerJustified
  BY <1>1 DEF TimerJustified
<1>7. TimerStarted
  <2>1. ~Settled
    BY <1>1 DEF Settled
  <2> QED BY <1>1, <2>1 DEF TimerStarted
<1>8. IdleFlags /\ sending = FALSE
  BY Zenon DEF IdleInit, IdleFlags
<1>9. SendJustified
  BY <1>8 DEF SendJustified
<1> QED BY <1>1, <1>2, <1>4, <1>5, <1>6, <1>7, <1>8, <1>9 DEF IdleInv

\* The invariant: what the handlers have counted, and what the timer runs on.
THEOREM IdleInvariant == IdleSpec => []IdleInv
<1>1. IdleInv /\ [IdleNext]_idleVars => IdleInv'
  <2> SUFFICES ASSUME IdleInv, [IdleNext]_idleVars PROVE IdleInv'
    OBVIOUS
  <2> USE DEF IdleInv
  <2>1. IdleTypes' /\ IdleFlags' /\ HandledInTime' /\ CountExact'
    BY IdleTypesInductive, IdleFlagsInductive, HandledInductive, CountInductive
  <2>2. InOrder' /\ TimerJustified' /\ SendJustified'
    BY OrderInductive, JustifiedInductive, SendInductive
  <2>3. TimerStarted'
    BY <2>1, StartedInductive
  <2> QED BY <2>1, <2>2, <2>3
<1> QED BY <1>1, IdleInvInit, PTL DEF IdleSpec

\* A wait whose requests have all ended is signalled, for any set of requests, unless
\* one was counted out of order or came too late to cancel the timer.
THEOREM NotMissed == IdleSpec => []IdleNotMissed
<1>1. IdleInv => IdleNotMissed
  <2> SUFFICES ASSUME IdleInv, idleWait = "waiting", \A g \in Handlers : ~Running(g),
                      \A r \in PageRequests : made[r] # "open",
                      NEW r \in PageRequests, made[r] = "over",
                      early = {}, overtaken = {}, \A q \in PageRequests : hpc[Hop(q)] = "none"
               PROVE  idleDone \/ sending \/ timer = "running" \/ cutShort
    BY Zenon DEF IdleNotMissed
  <2> USE Parts, PartsHandlers DEF IdleInv, IdleTypes
  <2>1. \A q \in PageRequests : hpc[Sent(q)] = "over" <=> hpc[End(q)] = "over"
    BY DEF HandledInTime, Running
  <2>2. SentOf = EndOf /\ HopOf = {}
    BY <2>1 DEF SentOf, HopOf, EndOf, StartCounted, EndCounted, Running
  <2>3. inflight = 0
    <3>1. Cardinality({}) = 0
      BY FS_EmptySet
    <3>2. Cardinality(SentOf) \in Nat
      BY CountsTyped
    <3> QED BY <2>2, <3>1, <3>2 DEF CountExact
  <2>4. hpc[End(r)] = "over"
    BY DEF HandledInTime, Running
  <2>5. Settled
    BY <2>3, <2>4 DEF Settled, Returned, Running
  <2> QED BY <2>5, Zenon DEF TimerStarted, Signalled
<1> QED BY <1>1, IdleInvariant, PTL

\* Idle is only signalled on a quiet network, for any set of requests, but for those that
\* come between the timer's expiry and the signal.
THEOREM QuietWhenIdle == IdleSpec => IdleIsQuiet
<1>1. IdleInv /\ [IdleNext]_idleVars =>
        [~idleDone /\ idleDone' /\ ~Returned =>
           \/ early # {} \/ stale
           \/ \A r \in PageRequests \ tooLate : made[r] = "open" => Running(Sent(r))]_idleVars
  <2> SUFFICES ASSUME IdleInv, IdleNext, ~idleDone, idleDone', early = {}, ~stale,
                      NEW r \in PageRequests, r \notin tooLate, made[r] = "open"
               PROVE  Running(Sent(r))
    BY Zenon DEF idleVars
  <2>1. SendIdle
    BY Zenon DEF IdleNext, HandlerStep, SubscribeIdle, IdleReturn, RequestSent, Redirected,
       RequestEnds, Dispatch, CountStart, CancelTimer, CountEnd, CheckIdle, StartTimer, TimerFires,
       idleVars
  <2>2. sending = TRUE /\ stale = FALSE
    BY <2>1, Zenon DEF SendIdle, IdleInv, IdleFlags
  <2>3. hpc[Sent(r)] # "over"
    BY <2>2 DEF IdleInv, SendJustified
  <2>4. hpc[Sent(r)] # "none"
    BY DEF IdleInv, HandledInTime
  <2> QED BY <2>3, <2>4 DEF Running
<1> QED BY <1>1, IdleInvariant, PTL DEF IdleSpec, IdleIsQuiet

-----------------------------------------------------------------------------
(* Patterns of URLs                                                          *)

\* Readings of t from j on by the rest of p from i on, in which a star may also
\* stand for slashes.
Readings(p, t) == [1..(Len(p) + 1) -> 1..(Len(t) + 1)]

\* m reads t from the i-th character of p on.
Reads(p, t, m, i) ==
    /\ m[Len(p) + 1] = Len(t) + 1
    /\ \A a, b \in i..(Len(p) + 1) : a <= b => m[a] <= m[b]
    /\ \A n \in i..Len(p) : p[n] # "*" => m[n + 1] = m[n] + 1 /\ p[n] \in {"?", t[m[n]]}

\* The rest of p from i on fits the rest of t from j on.
Fits(p, t, i, j) == \E m \in Readings(p, t) : m[i] = j /\ Reads(p, t, m, i)

\* What the walk has before it, and what it would have if it went back.
Here == Fits(pattern, str, px + 1, sx + 1)
Back(k) == Fits(pattern, str, nextPx + 1, k + 1)

\* The type invariant, without the sets that the strings come from.
GlobTypes ==
    /\ Len(pattern) \in Nat /\ Len(str) \in Nat
    /\ px \in 0..Len(pattern) /\ sx \in 0..Len(str)
    /\ nextPx \in 0..Len(pattern) /\ nextSx \in -1..(Len(str) + 1)
    /\ answered \in {"idle", "walking", "yes", "no"}
    /\ answered = "idle" => px = 0 /\ sx = 0 /\ nextPx = 0 /\ nextSx = -1

\* A string that fits still does, from here or from where the walk can go back to.
Hope ==
    answered = "walking" /\ Fits(pattern, str, 1, 1) =>
        Here \/ (nextSx >= 0 /\ \E k \in nextSx..Len(str) : Back(k))

\* What fits from where the walk can go back to fits from here, at the same place of
\* the string or further on: so nothing is lost when the next star takes its place.
Ahead ==
    nextSx >= 0 =>
        \A k \in nextSx..Len(str) : Back(k) =>
            \E n \in sx..Len(str) : Fits(pattern, str, px + 1, n + 1)

\* The walk gives up on nothing that fits.
NoIsRight == answered = "no" => ~Fits(pattern, str, 1, 1)

\* The inductive invariant.
GlobInv == GlobTypes /\ Hope /\ Ahead /\ NoIsRight

-----------------------------------------------------------------------------
\* A star stands for what its reading gives it, and for more or less of it.
LEMMA StarFits ==
    ASSUME NEW p, NEW t, Len(p) \in Nat, Len(t) \in Nat,
           NEW i \in 1..Len(p), NEW j \in 1..(Len(t) + 1), p[i] = "*"
    PROVE  /\ Fits(p, t, i, j) => \E k \in j..(Len(t) + 1) : Fits(p, t, i + 1, k)
           /\ \A k \in j..(Len(t) + 1) : Fits(p, t, i, k) \/ Fits(p, t, i + 1, k) => Fits(p, t, i, j)
<1>1. ASSUME Fits(p, t, i, j) PROVE \E k \in j..(Len(t) + 1) : Fits(p, t, i + 1, k)
  <2>1. PICK m \in Readings(p, t) : m[i] = j /\ Reads(p, t, m, i)
    BY <1>1 DEF Fits
  <2>2. m[i + 1] \in 1..(Len(t) + 1) /\ j <= m[i + 1]
    BY <2>1 DEF Reads, Readings
  <2>3. Reads(p, t, m, i + 1)
    BY <2>1 DEF Reads
  <2> QED BY <2>2, <2>3 DEF Fits
<1>2. ASSUME NEW k \in j..(Len(t) + 1), Fits(p, t, i, k) PROVE Fits(p, t, i, j)
  <2>1. PICK m \in Readings(p, t) : m[i] = k /\ Reads(p, t, m, i)
    BY <1>2 DEF Fits
  <2> DEFINE w == [m EXCEPT ![i] = j]
  <2>2. w \in Readings(p, t) /\ w[i] = j /\ \A n \in 1..(Len(p) + 1) : n # i => w[n] = m[n]
    BY DEF Readings
  <2> HIDE DEF w
  <2>3. w[Len(p) + 1] = Len(t) + 1
    BY <2>1, <2>2 DEF Reads
  <2>4. \A b \in i..(Len(p) + 1) : k <= m[b]
    BY <2>1 DEF Reads
  <2>5. \A a, b \in i..(Len(p) + 1) : a <= b => w[a] <= w[b]
    <3> SUFFICES ASSUME NEW a \in i..(Len(p) + 1), NEW b \in i..(Len(p) + 1), a <= b
                 PROVE  w[a] <= w[b]
      OBVIOUS
    <3>1. m[a] <= m[b] /\ m[b] \in Nat
      BY <2>1 DEF Reads, Readings
    <3>2. k <= m[b]
      BY <2>4
    <3> QED BY <2>2, <3>1, <3>2
  <2>6. \A n \in i..Len(p) : p[n] # "*" => w[n + 1] = w[n] + 1 /\ p[n] \in {"?", t[w[n]]}
    BY <2>1, <2>2 DEF Reads
  <2> QED BY <2>2, <2>3, <2>5, <2>6 DEF Fits, Reads
<1>3. ASSUME NEW k \in j..(Len(t) + 1), Fits(p, t, i + 1, k) PROVE Fits(p, t, i, j)
  <2>1. PICK m \in Readings(p, t) : m[i + 1] = k /\ Reads(p, t, m, i + 1)
    BY <1>3 DEF Fits
  <2> DEFINE w == [m EXCEPT ![i] = j]
  <2>2. w \in Readings(p, t) /\ w[i] = j /\ \A n \in 1..(Len(p) + 1) : n # i => w[n] = m[n]
    BY DEF Readings
  <2> HIDE DEF w
  <2>3. w[Len(p) + 1] = Len(t) + 1
    BY <2>1, <2>2 DEF Reads
  <2>4. \A b \in (i + 1)..(Len(p) + 1) : k <= m[b]
    BY <2>1 DEF Reads
  <2>5. \A a, b \in i..(Len(p) + 1) : a <= b => w[a] <= w[b]
    <3> SUFFICES ASSUME NEW a \in i..(Len(p) + 1), NEW b \in i..(Len(p) + 1), a <= b
                 PROVE  w[a] <= w[b]
      OBVIOUS
    <3>1. CASE a = i
      <4>1. CASE b = i
        BY <2>2, <3>1, <4>1
      <4>2. CASE b # i
        <5>1. k <= m[b] /\ m[b] \in Nat
          BY <2>4, <4>2 DEF Readings
        <5> QED BY <2>2, <3>1, <4>2, <5>1
      <4> QED BY <4>1, <4>2
    <3>2. CASE a # i
      <4>1. m[a] <= m[b]
        BY <2>1, <3>2 DEF Reads
      <4> QED BY <2>2, <3>2, <4>1
    <3> QED BY <3>1, <3>2
  <2>6. \A n \in i..Len(p) : p[n] # "*" => w[n + 1] = w[n] + 1 /\ p[n] \in {"?", t[w[n]]}
    BY <2>1, <2>2 DEF Reads
  <2> QED BY <2>2, <2>3, <2>5, <2>6 DEF Fits, Reads
<1> QED BY <1>1, <1>2, <1>3

\* Any other character of the pattern stands for one of the string.
LEMMA CharFits ==
    ASSUME NEW p, NEW t, Len(p) \in Nat, Len(t) \in Nat,
           NEW i \in 1..Len(p), NEW j \in 1..(Len(t) + 1), p[i] # "*", Fits(p, t, i, j)
    PROVE  j <= Len(t) /\ p[i] \in {"?", t[j]} /\ Fits(p, t, i + 1, j + 1)
<1>1. PICK m \in Readings(p, t) : m[i] = j /\ Reads(p, t, m, i)
  BY DEF Fits
<1>2. m[i + 1] = j + 1 /\ p[i] \in {"?", t[j]} /\ m[i + 1] \in 1..(Len(t) + 1)
  BY <1>1 DEF Reads, Readings
<1>3. Reads(p, t, m, i + 1)
  BY <1>1 DEF Reads
<1> QED BY <1>1, <1>2, <1>3 DEF Fits

\* At the end of the pattern and at that of the string.
LEMMA EndFits ==
    ASSUME NEW p, NEW t, Len(p) \in Nat, Len(t) \in Nat
    PROVE  /\ \A j \in 1..(Len(t) + 1) : Fits(p, t, Len(p) + 1, j) => j = Len(t) + 1
           /\ \A i \in 1..(Len(p) + 1) : Fits(p, t, i, Len(t) + 1) => \A n \in i..Len(p) : p[n] = "*"
<1>1. ASSUME NEW j \in 1..(Len(t) + 1), Fits(p, t, Len(p) + 1, j) PROVE j = Len(t) + 1
  BY <1>1 DEF Fits, Reads
<1>2. ASSUME NEW i \in 1..(Len(p) + 1), Fits(p, t, i, Len(t) + 1), NEW n \in i..Len(p), p[n] # "*"
      PROVE  FALSE
  <2>1. PICK m \in Readings(p, t) : m[i] = Len(t) + 1 /\ Reads(p, t, m, i)
    BY <1>2 DEF Fits
  <2>2. m[n] >= Len(t) + 1 /\ m[n] \in Nat
    BY <2>1 DEF Reads, Readings
  <2>3. m[n + 1] = m[n] + 1 /\ m[n + 1] <= Len(t) + 1
    BY <1>2, <2>1 DEF Reads, Readings
  <2> QED BY <2>2, <2>3
<1> QED BY <1>1, <1>2

\* What a pattern means, it fits.
LEMMA MeansFits ==
    ASSUME NEW p, NEW t, Len(p) \in Nat, Len(t) \in Nat, Means(p, t) PROVE Fits(p, t, 1, 1)
<1>1. PICK m \in Readings(p, t) :
         /\ Ordered(m) /\ m[1] = 1 /\ m[Len(p) + 1] = Len(t) + 1
         /\ \A n \in 1..Len(p) : p[n] # "*" => m[n + 1] = m[n] + 1 /\ p[n] \in {"?", t[m[n]]}
  BY DEF Means, Readings
<1>2. \A a, b \in 1..(Len(p) + 1) : a <= b => m[a] <= m[b]
  BY <1>1 DEF Ordered, Readings
<1> QED BY <1>1, <1>2 DEF Fits, Reads

-----------------------------------------------------------------------------
\* Patterns of which the rest from a place on begins with a star, and with two.
LEMMA StarHere ==
    ASSUME GlobTypes, AtChar("*")
    PROVE  /\ px + 1 \in 1..Len(pattern)
           /\ Here => \E k \in sx..Len(str) : Fits(pattern, str, px + 2, k + 1)
           /\ \A k \in sx..Len(str) : Fits(pattern, str, px + 1, k + 1) => Here
           /\ \A k \in sx..Len(str) : Fits(pattern, str, px + 2, k + 1) =>
                 Fits(pattern, str, px + 1, k + 1)
<1> USE DEF GlobTypes
<1>1. px + 1 \in 1..Len(pattern) /\ pattern[px + 1] = "*"
  BY DEF AtChar
<1>2. (px + 1) + 1 = px + 2
  OBVIOUS
<1>3. ASSUME NEW k \in sx..Len(str)
      PROVE  /\ k + 1 \in (sx + 1)..(Len(str) + 1) /\ k + 1 \in 1..(Len(str) + 1)
             /\ k + 1 \in (k + 1)..(Len(str) + 1)
  OBVIOUS
<1>4. Here => \E k \in sx..Len(str) : Fits(pattern, str, px + 2, k + 1)
  <2> HAVE Here
  <2>0. sx + 1 \in 1..(Len(str) + 1) /\ Len(pattern) \in Nat /\ Len(str) \in Nat
    OBVIOUS
  <2>1. PICK k \in (sx + 1)..(Len(str) + 1) : Fits(pattern, str, (px + 1) + 1, k)
    BY <1>1, <2>0, StarFits, Zenon DEF Here
  <2>2. k - 1 \in sx..Len(str) /\ (k - 1) + 1 = k
    OBVIOUS
  <2> QED BY <1>2, <2>1, <2>2
<1>5. ASSUME NEW k \in sx..Len(str), Fits(pattern, str, px + 1, k + 1) PROVE Here
  <2>1. sx + 1 \in 1..(Len(str) + 1) /\ Len(pattern) \in Nat /\ Len(str) \in Nat
    OBVIOUS
  <2>2. k + 1 \in (sx + 1)..(Len(str) + 1) /\ k + 1 \in 1..(Len(str) + 1)
    BY <1>3
  <2>3. \A j \in (sx + 1)..(Len(str) + 1) :
           Fits(pattern, str, px + 1, j) => Fits(pattern, str, px + 1, sx + 1)
    BY <1>1, <2>1, StarFits
  <2> QED BY <1>5, <2>2, <2>3 DEF Here
<1>6. ASSUME NEW k \in sx..Len(str), Fits(pattern, str, px + 2, k + 1)
      PROVE  Fits(pattern, str, px + 1, k + 1)
  BY <1>1, <1>2, <1>3, <1>6, StarFits
<1> QED BY <1>1, <1>4, <1>5, <1>6

\* The walk's next character, when it is no star.
LEMMA CharHere ==
    ASSUME GlobTypes, ~AtChar("*"), NEW k \in sx..Len(str), Fits(pattern, str, px + 1, k + 1)
    PROVE  \/ px = Len(pattern) /\ k = Len(str)
           \/ /\ px < Len(pattern) /\ k < Len(str)
              /\ pattern[px + 1] \in {"?", str[k + 1]}
              /\ Fits(pattern, str, px + 2, k + 2)
<1> USE DEF GlobTypes
<1>1. k + 1 \in 1..(Len(str) + 1)
  OBVIOUS
<1>2. CASE px = Len(pattern)
  BY <1>1, <1>2, EndFits
<1>3. CASE px < Len(pattern)
  <2>1. px + 1 \in 1..Len(pattern) /\ pattern[px + 1] # "*"
    BY <1>3 DEF AtChar
  <2>2. (px + 1) + 1 = px + 2 /\ (k + 1) + 1 = k + 2
    OBVIOUS
  <2>3. k + 1 <= Len(str) /\ pattern[px + 1] \in {"?", str[k + 1]} /\ Fits(pattern, str, px + 2, k + 2)
    BY <1>1, <2>1, <2>2, CharFits
  <2> QED BY <1>3, <2>3
<1> QED BY <1>2, <1>3

\* While there is hope, the string fits from here or further on.
LEMMA HopeAhead ==
    ASSUME GlobTypes, Hope, Ahead, answered = "walking", Fits(pattern, str, 1, 1)
    PROVE  \E n \in sx..Len(str) : Fits(pattern, str, px + 1, n + 1)
BY DEF GlobTypes, Hope, Ahead, Here

\* The walk stays within the pattern and the string.
LEMMA GlobTypesInductive == GlobTypes /\ [GlobNext]_globVars => GlobTypes'
<1> SUFFICES ASSUME GlobTypes, [GlobNext]_globVars PROVE GlobTypes'
  OBVIOUS
<1> USE DEF GlobTypes
<1>1. ASSUME NEW p \in Globs, NEW t \in Strings, GlobCall(p, t) PROVE GlobTypes'
  BY <1>1, GlobAssumption DEF GlobCall
<1>2. CASE DoubleStar
  BY <1>2 DEF DoubleStar, Inside, AtDouble, AtChar
<1>3. CASE Star
  BY <1>3 DEF Star, Inside, AtChar
<1>4. CASE Advance
  BY <1>4 DEF Advance, SameChar, Inside, AtChar
<1>5. CASE Backtrack
  BY <1>5 DEF Backtrack, Inside
<1>6. CASE AtEnd
  BY <1>6 DEF AtEnd
<1>7. CASE UNCHANGED globVars
  BY <1>7 DEF globVars
<1> QED BY <1>1, <1>2, <1>3, <1>4, <1>5, <1>6, <1>7 DEF GlobNext

\* When a star takes the place of the one before, nothing that fits is behind it.
LEMMA AheadInductive ==
    ASSUME GlobTypes, Ahead, [GlobNext]_globVars PROVE Ahead'
<1> USE DEF GlobTypes
<1>1. ASSUME NEW p \in Globs, NEW t \in Strings, GlobCall(p, t) PROVE Ahead'
  BY <1>1 DEF GlobCall, Ahead
<1>2. CASE DoubleStar
  <2>1. nextPx' = px' /\ nextSx' = sx /\ sx' = sx /\ str' = str /\ pattern' = pattern
    BY <1>2 DEF DoubleStar
  <2> QED BY <2>1 DEF Ahead, Back
<1>3. CASE Star
  <2>1. /\ nextPx' = px /\ nextSx' = sx + 1 /\ px' = px + 1 /\ sx' = sx
        /\ str' = str /\ pattern' = pattern /\ AtChar("*")
    BY <1>3 DEF Star
  <2> SUFFICES ASSUME NEW k \in (sx + 1)..Len(str), Fits(pattern, str, px + 1, k + 1)
               PROVE  \E n \in sx..Len(str) : Fits(pattern, str, px + 2, n + 1)
    BY <2>1 DEF Ahead, Back
  <2> QED BY <2>1, StarHere
<1>4. CASE Advance
  <2>1. /\ UNCHANGED <<nextPx, nextSx, str, pattern>> /\ px' = px + 1 /\ sx' = sx + 1
        /\ px < Len(pattern) /\ ~AtChar("*")
    BY <1>4 DEF Advance, SameChar, AtChar
  <2> SUFFICES ASSUME nextSx >= 0, NEW k \in nextSx..Len(str), Back(k)
               PROVE  \E n \in (sx + 1)..Len(str) : Fits(pattern, str, px + 2, n + 1)
    BY <2>1 DEF Ahead, Back
  <2>2. PICK n \in sx..Len(str) : Fits(pattern, str, px + 1, n + 1)
    BY DEF Ahead
  <2>3. n < Len(str) /\ Fits(pattern, str, px + 2, n + 2)
    BY <2>1, <2>2, CharHere
  <2>4. n + 1 \in (sx + 1)..Len(str) /\ (n + 1) + 1 = n + 2
    BY <2>3
  <2> QED BY <2>3, <2>4
<1>5. CASE Backtrack
  <2>1. CASE nextSx >= 0 /\ nextSx <= Len(str)
    <3>1. px' = nextPx /\ sx' = nextSx /\ nextSx' = nextSx + 1 /\ UNCHANGED <<nextPx, str, pattern>>
      BY <1>5, <2>1 DEF Backtrack
    <3> QED BY <2>1, <3>1 DEF Ahead, Back
  <2>2. CASE ~(nextSx >= 0 /\ nextSx <= Len(str))
    BY <1>5, <2>2 DEF Backtrack, Ahead, Back
  <2> QED BY <2>1, <2>2
<1>6. CASE AtEnd \/ UNCHANGED globVars
  BY <1>6 DEF AtEnd, globVars, Ahead, Back
<1> QED BY <1>1, <1>2, <1>3, <1>4, <1>5, <1>6 DEF GlobNext

\* Each step keeps a way that fits, if there was one.
LEMMA HopeInductive ==
    ASSUME GlobTypes, Hope, Ahead, [GlobNext]_globVars PROVE Hope'
<1> USE DEF GlobTypes
<1>1. ASSUME NEW p \in Globs, NEW t \in Strings, GlobCall(p, t) PROVE Hope'
  BY <1>1 DEF GlobCall, Hope, Here
<1>2. CASE DoubleStar
  <2>1. /\ nextPx' = px' /\ nextSx' = sx /\ sx' = sx /\ str' = str /\ pattern' = pattern
        /\ AtChar("*") /\ answered = "walking" /\ px + 2 <= Len(pattern) /\ pattern[px + 2] = "*"
        /\ \/ px' = px + 2
           \/ px' = px + 3 /\ px + 2 < Len(pattern) /\ pattern[px + 3] = "/"
    BY <1>2 DEF DoubleStar, Inside, AtDouble, AtChar
  <2> SUFFICES ASSUME Fits(pattern, str, 1, 1)
               PROVE  \E k \in sx..Len(str) : Fits(pattern, str, px' + 1, k + 1)
    BY <2>1 DEF Hope, Back
  <2>2. PICK k \in sx..Len(str) : Fits(pattern, str, px + 2, k + 1)
    BY <2>1, HopeAhead, StarHere
  <2>3. PICK j \in (k + 1)..(Len(str) + 1) : Fits(pattern, str, px + 3, j)
    <3>1. px + 2 \in 1..Len(pattern) /\ k + 1 \in 1..(Len(str) + 1) /\ (px + 2) + 1 = px + 3
      BY <2>1
    <3>2. \E j \in (k + 1)..(Len(str) + 1) : Fits(pattern, str, (px + 2) + 1, j)
      BY <2>1, <2>2, <3>1, StarFits
    <3> QED BY <3>1, <3>2
  <2>4. CASE px' = px + 2
    <3>1. j - 1 \in sx..Len(str) /\ (j - 1) + 1 = j /\ px' + 1 = px + 3
      BY <2>4
    <3> QED BY <2>3, <3>1
  <2>5. CASE px' = px + 3 /\ px + 2 < Len(pattern) /\ pattern[px + 3] = "/"
    <3>1. px + 3 \in 1..Len(pattern) /\ j \in 1..(Len(str) + 1) /\ pattern[px + 3] # "*"
      BY <2>5
    <3>2. j <= Len(str) /\ Fits(pattern, str, (px + 3) + 1, j + 1)
      BY <2>3, <3>1, CharFits
    <3>3. j \in sx..Len(str) /\ px' + 1 = (px + 3) + 1
      BY <2>5, <3>2
    <3> QED BY <3>2, <3>3
  <2> QED BY <2>1, <2>4, <2>5
<1>3. CASE Star
  <2>1. /\ nextPx' = px /\ nextSx' = sx + 1 /\ px' = px + 1 /\ sx' = sx
        /\ str' = str /\ pattern' = pattern /\ AtChar("*") /\ answered = "walking"
    BY <1>3 DEF Star, Inside
  <2> SUFFICES ASSUME Fits(pattern, str, 1, 1)
               PROVE  \/ Fits(pattern, str, px + 2, sx + 1)
                      \/ \E k \in (sx + 1)..Len(str) : Fits(pattern, str, px + 1, k + 1)
    BY <2>1 DEF Hope, Here, Back
  <2>2. Here
    BY <2>1, HopeAhead, StarHere
  <2>3. PICK k \in sx..Len(str) : Fits(pattern, str, px + 2, k + 1)
    BY <2>1, <2>2, StarHere
  <2>4. Fits(pattern, str, px + 1, k + 1)
    BY <2>1, <2>3, StarHere
  <2>5. k = sx \/ k \in (sx + 1)..Len(str)
    OBVIOUS
  <2> QED BY <2>3, <2>4, <2>5
<1>4. CASE Advance
  <2>1. /\ UNCHANGED <<nextPx, nextSx, str, pattern, answered>> /\ px' = px + 1 /\ sx' = sx + 1
        /\ px < Len(pattern) /\ ~AtChar("*") /\ answered = "walking"
    BY <1>4 DEF Advance, SameChar, AtChar, Inside
  <2> SUFFICES ASSUME Fits(pattern, str, 1, 1), Here PROVE Fits(pattern, str, px + 2, sx + 2)
    BY <2>1 DEF Hope, Here, Back
  <2> QED BY <2>1, CharHere DEF Here
<1>5. CASE Backtrack
  <2>1. ~Here
    <3>1. sx < Len(str) /\ ~AtChar("*") /\ ~SameChar
      BY <1>5 DEF Backtrack, Inside
    <3>2. px < Len(pattern) => pattern[px + 1] # "?" /\ pattern[px + 1] # str[sx + 1]
      BY <3>1 DEF SameChar, AtChar
    <3> QED BY <3>1, <3>2, CharHere DEF Here
  <2>2. CASE nextSx >= 0 /\ nextSx <= Len(str)
    <3>1. /\ px' = nextPx /\ sx' = nextSx /\ nextSx' = nextSx + 1
          /\ UNCHANGED <<nextPx, str, pattern, answered>>
      BY <1>5, <2>2 DEF Backtrack
    <3> SUFFICES ASSUME answered = "walking", Fits(pattern, str, 1, 1)
                 PROVE  Back(nextSx) \/ \E k \in (nextSx + 1)..Len(str) : Back(k)
      BY <2>2, <3>1 DEF Hope, Here, Back
    <3>2. PICK k \in nextSx..Len(str) : Back(k)
      BY <2>1 DEF Hope
    <3> QED BY <3>2
  <2>3. CASE ~(nextSx >= 0 /\ nextSx <= Len(str))
    BY <1>5, <2>3 DEF Backtrack, Hope
  <2> QED BY <2>2, <2>3
<1>6. CASE AtEnd
  BY <1>6 DEF AtEnd, Hope
<1>7. CASE UNCHANGED globVars
  BY <1>7 DEF globVars, Hope, Here, Back
<1> QED BY <1>1, <1>2, <1>3, <1>4, <1>5, <1>6, <1>7 DEF GlobNext

\* The walk ends only where nothing fits any more.
LEMMA NoInductive ==
    ASSUME GlobTypes, Hope, Ahead, NoIsRight, [GlobNext]_globVars PROVE NoIsRight'
<1> USE DEF GlobTypes
<1>1. ASSUME NEW p \in Globs, NEW t \in Strings, GlobCall(p, t) PROVE NoIsRight'
  BY <1>1 DEF GlobCall, NoIsRight
<1>2. CASE DoubleStar \/ Star \/ Advance \/ UNCHANGED globVars
  BY <1>2 DEF DoubleStar, Star, Advance, globVars, NoIsRight
<1>3. CASE Backtrack
  <2>1. ~Here
    <3>1. sx < Len(str) /\ ~AtChar("*") /\ ~SameChar
      BY <1>3 DEF Backtrack, Inside
    <3>2. px < Len(pattern) => pattern[px + 1] # "?" /\ pattern[px + 1] # str[sx + 1]
      BY <3>1 DEF SameChar, AtChar
    <3> QED BY <3>1, <3>2, CharHere DEF Here
  <2>2. CASE nextSx >= 0 /\ nextSx <= Len(str)
    BY <1>3, <2>2 DEF Backtrack, Inside, NoIsRight
  <2>3. CASE ~(nextSx >= 0 /\ nextSx <= Len(str))
    <3>1. answered = "walking" /\ UNCHANGED <<pattern, str>>
      BY <1>3 DEF Backtrack, Inside
    <3>2. ~Fits(pattern, str, 1, 1)
      BY <2>1, <2>3, <3>1 DEF Hope
    <3> QED BY <3>1, <3>2 DEF NoIsRight
  <2> QED BY <2>2, <2>3
<1>4. CASE AtEnd
  <2>1. answered = "walking" /\ sx = Len(str) /\ UNCHANGED <<pattern, str>>
        /\ (answered' = "no" => ~\A i \in (px + 1)..Len(pattern) : pattern[i] = "*")
    BY <1>4 DEF AtEnd
  <2>2. ASSUME Fits(pattern, str, 1, 1) PROVE \A i \in (px + 1)..Len(pattern) : pattern[i] = "*"
    <3>1. PICK n \in sx..Len(str) : Fits(pattern, str, px + 1, n + 1)
      BY <2>1, <2>2, HopeAhead
    <3>2. n + 1 = Len(str) + 1 /\ px + 1 \in 1..(Len(pattern) + 1)
      BY <2>1
    <3> QED BY <3>1, <3>2, EndFits
  <2> QED BY <2>1, <2>2 DEF NoIsRight
<1> QED BY <1>1, <1>2, <1>3, <1>4 DEF GlobNext

\* The invariant: while the string may still be one that is meant, there is hope.
THEOREM GlobInvariant == GlobSpec => []GlobInv
<1>1. GlobInit => GlobInv
  BY DEF GlobInit, GlobInv, GlobTypes, Hope, Ahead, NoIsRight
<1>2. GlobInv /\ [GlobNext]_globVars => GlobInv'
  BY GlobTypesInductive, HopeInductive, AheadInductive, NoInductive DEF GlobInv
<1> QED BY <1>1, <1>2, PTL DEF GlobSpec

\* No string that is meant is missed, for any patterns and strings of any length.
THEOREM FindsAll == GlobSpec => []GlobFindsAll
<1>1. GlobInv => GlobFindsAll
  BY MeansFits DEF GlobInv, GlobTypes, NoIsRight, GlobFindsAll
<1> QED BY <1>1, GlobInvariant, PTL

=============================================================================
