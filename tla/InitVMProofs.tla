---------------------------- MODULE InitVMProofs ------------------------------
(***************************************************************************)
(* Proofs about the commands of init-vm and the daemon that extends rooms,  *)
(* for any set of commands and daemons: what holds however the commands     *)
(* interleave, and what holds of commands that are given one after the      *)
(* other.                                                                   *)
(***************************************************************************)
EXTENDS InitVM, TLAPS

\* Where a command has a pid in its hands.
Held == {"spSignal", "spWait", "sdCheck", "sdOpen", "sdWrite"}

\* A pid that is in the file, or in the hands of a command, is one of a daemon that
\* has been spawned.
PidsSpawned ==
    /\ pidfile \in Daemons => pc[pidfile] # "idle"
    /\ \A c \in Cmds : pc[c] \in Held => seen[c] \in Daemons
    /\ \A c \in Cmds : seen[c] \in Daemons => pc[seen[c]] # "idle"

\* The invariant of all behaviours.
PidInv == ProcTypes /\ PidsSpawned /\ StoppedIsDead

\* The places of a terminate that has found no daemon, or ended it.
PastStop == {"spRemove", "vpnStop", "launch", "observe", "clickTerm", "clear", "done"}

\* A daemon that has not written its pid yet.
Settling(d) == pc[d] \in {"boot", "write"}

\* One command at a time: only the one begun last is under way.
OnlyLatestActs == \A c \in Cmds : pc[c] \notin Over => latest = c

\* terminate and the other commands go different ways.
TerminatePlaces ==
    \A c \in Cmds :
        IF IsTerminate(c) THEN pc[c] \in PastStop \cup {"spRead", "spSignal", "spWait", "dead"}
                          ELSE pc[c] \notin StopLabels \cup {"spRead", "vpnStop", "clickTerm", "clear"}

\* A daemon about to write has the file open.
OwnFileOpen == \A d \in Daemons : pc[d] = "write" => d \in openFd

\* What a command has read of the file is the daemon that lives; past stopLoopDaemon
\* none does.
LiveAsSeen ==
    \A c \in Cmds, d \in Daemons : Live(d) =>
        /\ pc[c] \in {"sdCheck", "spSignal", "spWait"} => d = seen[c] /\ ~Settling(d)
        /\ pc[c] \in {"sdOpen", "sdWrite"} => d = seen[c]
        /\ pc[c] # "sdSpawn"
        /\ ~(IsTerminate(c) /\ latest = c /\ pc[c] \in PastStop)

\* What a terminate has cleaned up stays so while no other command begins, but for
\* a script that was under way already.
NothingPutBack ==
    \A c \in Cmds : IsTerminate(c) /\ latest = c =>
        /\ pc[c] \in {"launch", "observe", "clickTerm", "clear", "done"} =>
              /\ starting # {} => <<c, "orphan">> \in trouble
              /\ vpn => <<c, "vpn">> \in trouble \/ <<c, "orphan">> \in trouble
        /\ pc[c] = "done" /\ result[c] \in {"terminated", "not running"} /\ hostEntry
              => <<c, "hosts">> \in trouble

\* The inductive invariant of commands in turn.
TurnInv ==
    /\ PidInv
    /\ OnlyLatestActs /\ TerminatePlaces /\ OwnFileOpen
    /\ AtMostOneDaemon /\ DaemonTracked /\ LiveAsSeen
    /\ NothingPutBack

-----------------------------------------------------------------------------
\* Where the cases that the provers do not look into lead.
LEMMA AfterWorkPlaces ==
    ASSUME NEW p \in Procs
    PROVE  /\ AfterWork(p) \in {"loop", "sdRead", "shell", "done"}
           /\ p \in Daemons => AfterWork(p) = "loop"
           /\ p \in Cmds => AfterWork(p) # "loop"
<1>1. p \in Cmds <=> p \notin Daemons
  BY InitVMAssumption DEF Procs
<1>2. AfterWork(p) = IF p \in Daemons THEN "loop"
                     ELSE IF mode[p] = "loop" THEN "sdRead"
                     ELSE IF mode[p] = "start" THEN "shell" ELSE "done"
  <2>1. ~("loop" = "start")
    OBVIOUS
  <2> QED BY <1>1, <2>1, Zenon DEF AfterWork
<1> QED BY <1>1, <1>2

\* Where stopLoopDaemon goes from what it reads.
LEMMA SpReadPlaces ==
    ASSUME NEW c, SpRead(c)
    PROVE  Goto(c, IF pidfile = Absent THEN "vpnStop"
                   ELSE IF pidfile = Empty THEN "spRemove" ELSE "spSignal")
<1>1. Absent # Empty
  BY InitVMAssumption
<1> QED BY <1>1, Zenon DEF SpRead

\* The places of Start, Extend and the daemon's Extend.
Working == {"launch", "observe", "clickStart", "clickAdd", "findIP", "vpnStart", "vpnWait"}

\* What a step of Start, Extend or the daemon's Extend does to the rest.
WorkEffect(p) ==
    /\ pc[p] \in Working
    /\ IsTerminate(p) => pc[p] # "observe"
    /\ \E l \in Working \cup {"loop", "sdRead", "shell", "done"} :
         /\ Goto(p, l)
         /\ p \in Cmds => l # "loop"
         /\ p \in Daemons => l \notin {"sdRead", "shell", "done"}
         /\ pc[p] = "launch" => l = "observe"
    /\ handlers' \in {handlers, handlers \cup ({p} \cap Daemons)}
    /\ starting' \in {starting, starting \cup {p}, starting \ {p}}
    /\ notified' \in {notified, notified \cup ({p} \cap Daemons)}
    /\ UNCHANGED <<mode, seen, result, trouble, latest, fileVars, term, queued, foreign>>
    /\ pc[p] \notin {"findIP", "vpnStart", "vpnWait"} => UNCHANGED <<hostEntry, vpn, starting>>

\* Each step of Start and Extend is such a step.
LEMMA WorkMoves == ASSUME NEW p \in Procs, Work(p) PROVE WorkEffect(p)
<1> USE DEF WorkEffect, Working
<1>0. AfterWork(p) \in {"loop", "sdRead", "shell", "done"}
      /\ (p \in Daemons => AfterWork(p) = "loop") /\ (p \in Cmds => AfterWork(p) # "loop")
  BY AfterWorkPlaces
<1>1. CASE Launched(p)
  <2>1. Goto(p, "observe") /\ pc[p] = "launch" /\ handlers' = handlers \cup ({p} \cap Daemons)
    BY <1>1, Zenon DEF Launched
  <2>2. UNCHANGED <<mode, seen, result, trouble, latest, fileVars, notified, term, queued,
                    foreign, hostEntry, vpn, starting>>
    BY <1>1, Zenon DEF Launched, roomVars
  <2> QED BY <2>1, <2>2
<1>2. ASSUME NEW answer \in BOOLEAN, Observe(p, answer) PROVE WorkEffect(p)
  <2>1. pc[p] = "observe" /\ ~IsTerminate(p) /\
        \E l \in {"clickStart", "findIP", "clickAdd"} : Goto(p, l)
    <3>1. Goto(p, IF ~answer THEN "clickStart"
                  ELSE IF IsStart(p) THEN "findIP" ELSE "clickAdd")
      BY <1>2, Zenon DEF Observe
    <3> QED BY <1>2, <3>1, Zenon DEF Observe
  <2>2. UNCHANGED <<mode, seen, result, trouble, latest, fileVars, handlers, notified, term, queued,
                    foreign, hostEntry, vpn, starting>>
    BY <1>2, Zenon DEF Observe, sigVars, roomVars
  <2> QED BY <2>1, <2>2
<1>3. ASSUME NEW clicked \in BOOLEAN, ClickStart(p, clicked) PROVE WorkEffect(p)
  <2>1. pc[p] = "clickStart" /\ ((Goto(p, "findIP") /\ UNCHANGED notified) \/ FinishWork(p))
    BY <1>3, Zenon DEF ClickStart
  <2>2. UNCHANGED <<mode, seen, result, trouble, latest, fileVars, handlers, term, queued,
                    foreign, hostEntry, vpn, starting>>
    BY <1>3, Zenon DEF ClickStart
  <2> QED BY <1>0, <2>1, <2>2 DEF FinishWork
<1>4. CASE ClickAdd(p)
  <2>1. pc[p] = "clickAdd" /\ FinishWork(p)
    BY <1>4, Zenon DEF ClickAdd
  <2>2. UNCHANGED <<mode, seen, result, trouble, latest, fileVars, handlers, term, queued,
                    foreign, hostEntry, vpn, starting>>
    BY <1>4, Zenon DEF ClickAdd, roomVars
  <2> QED BY <1>0, <2>1, <2>2 DEF FinishWork
<1>5. ASSUME NEW found \in BOOLEAN, FindIP(p, found) PROVE WorkEffect(p)
  <2>1. pc[p] = "findIP" /\ ((Goto(p, "vpnStart") /\ UNCHANGED notified) \/ FinishWork(p))
    BY <1>5, Zenon DEF FindIP
  <2>2. UNCHANGED <<mode, seen, result, trouble, latest, fileVars, handlers, term, queued, foreign, starting>>
    BY <1>5, Zenon DEF FindIP
  <2> QED BY <1>0, <2>1, <2>2 DEF FinishWork
<1>6. CASE StartVPN(p)
  <2>1. /\ pc[p] = "vpnStart"
        /\ \/ Goto(p, "vpnWait") /\ starting' = starting \cup {p} /\ UNCHANGED notified
           \/ FinishWork(p) /\ UNCHANGED starting
    BY <1>6, Zenon DEF StartVPN
  <2>2. UNCHANGED <<mode, seen, result, trouble, latest, fileVars, handlers, term, queued, foreign>>
    BY <1>6, Zenon DEF StartVPN
  <2> QED BY <1>0, <2>1, <2>2 DEF FinishWork
<1>7. CASE VPNStarted(p)
  <2>1. pc[p] = "vpnWait" /\ FinishWork(p) /\ starting' = starting \ {p}
    BY <1>7, Zenon DEF VPNStarted
  <2>2. UNCHANGED <<mode, seen, result, trouble, latest, fileVars, handlers, term, queued, foreign>>
    BY <1>7, Zenon DEF VPNStarted
  <2> QED BY <1>0, <2>1, <2>2 DEF FinishWork
<1> QED BY Zenon, <1>1, <1>2, <1>3, <1>4, <1>5, <1>6, <1>7 DEF Work

\* The same for the steps of Terminate after stopLoopDaemon.
TerminateEffect(c) ==
    /\ pc[c] \in {"vpnStop", "observe", "clickTerm", "clear"}
    /\ pc[c] = "observe" => IsTerminate(c)
    /\ \E l \in {"launch", "clickTerm", "clear", "done"} :
         /\ Goto(c, l)
         /\ pc[c] = "vpnStop" <=> l = "launch"
         /\ pc[c] = "clear" => l = "done"
         /\ l = "done" => pc[c] = "clear" \/ result' = [result EXCEPT ![c] = "failed"]
    /\ \E r \in {result[c], "not running", "terminated", "failed"} :
         result' = [result EXCEPT ![c] = r]
    /\ trouble \subseteq trouble' /\ trouble' \subseteq trouble \cup {<<c, "vpn">>, <<c, "hosts">>, <<c, "orphan">>}
    /\ UNCHANGED <<mode, seen, latest, fileVars, sigVars, starting>>
    /\ pc[c] = "vpnStop" /\ vpn' => <<c, "vpn">> \in trouble'
    /\ pc[c] = "vpnStop" /\ starting # {} => <<c, "orphan">> \in trouble'
    /\ pc[c] # "vpnStop" => vpn' = vpn
    /\ pc[c] = "clear" /\ hostEntry' => <<c, "hosts">> \in trouble'

\* And each of those of Terminate is such.
LEMMA TerminateMoves ==
    ASSUME ProcTypes, NEW c \in Cmds, TerminateRoom(c) PROVE TerminateEffect(c)
<1> USE DEF TerminateEffect
<1>0. result = [result EXCEPT ![c] = result[c]]
  BY DEF ProcTypes
<1> PICK ok \in BOOLEAN : StopVPN(c, ok) \/ ObserveOnce(c, ok) \/ ClickTerminate(c, ok)
                          \/ ClearEntry(c, ok)
  BY DEF TerminateRoom
<1>1. CASE StopVPN(c, ok)
  <2>1. pc[c] = "vpnStop" /\ Goto(c, "launch") /\ UNCHANGED <<mode, seen, result, latest,
                                                              fileVars, sigVars, starting>>
    BY <1>1, Zenon DEF StopVPN
  <2>2. trouble' = trouble \cup (IF ok THEN {} ELSE {<<c, "vpn">>})
                           \cup (IF starting = {} THEN {} ELSE {<<c, "orphan">>})
    BY <1>1, Zenon DEF StopVPN
  <2>3. /\ trouble \subseteq trouble'
        /\ trouble' \subseteq trouble \cup {<<c, "vpn">>, <<c, "hosts">>, <<c, "orphan">>}
        /\ starting # {} => <<c, "orphan">> \in trouble'
        /\ ~ok => <<c, "vpn">> \in trouble'
    BY <2>2
  <2>4. ok => ~vpn'
    BY <1>1, Zenon DEF StopVPN
  <2>5. vpn' => <<c, "vpn">> \in trouble'
    BY <2>3, <2>4, Zenon
  <2> QED BY <1>0, <2>1, <2>3, <2>5
<1>2. CASE ObserveOnce(c, ok)
  <2>1. pc[c] = "observe" /\ IsTerminate(c) /\ (Goto(c, "clickTerm") \/ Goto(c, "clear"))
    BY <1>2, Zenon DEF ObserveOnce
  <2>2. UNCHANGED <<mode, seen, trouble, latest, fileVars, sigVars, vpn, hostEntry, starting>>
    BY <1>2, Zenon DEF ObserveOnce, roomVars
  <2>3. \E r \in {result[c], "not running", "terminated", "failed"} :
          result' = [result EXCEPT ![c] = r]
    BY <1>2, <1>0, Zenon DEF ObserveOnce
  <2> QED BY <2>1, <2>2, <2>3
<1>3. CASE ClickTerminate(c, ok)
  <2>1. /\ pc[c] = "clickTerm"
        /\ Goto(c, "clear") \/ (Goto(c, "done") /\ result' = [result EXCEPT ![c] = "failed"])
    BY <1>3, Zenon DEF ClickTerminate
  <2>2. UNCHANGED <<mode, seen, trouble, latest, fileVars, sigVars, vpn, hostEntry, starting>>
    BY <1>3, Zenon DEF ClickTerminate
  <2>3. \E r \in {result[c], "not running", "terminated", "failed"} :
          result' = [result EXCEPT ![c] = r]
    BY <1>3, Zenon DEF ClickTerminate
  <2> QED BY <2>1, <2>2, <2>3
<1>4. CASE ClearEntry(c, ok)
  <2>1. pc[c] = "clear" /\ Goto(c, "done") /\ UNCHANGED <<mode, seen, result, latest, fileVars,
                                                          sigVars, vpn, starting>>
    BY <1>4, Zenon DEF ClearEntry
  <2>2. trouble' = trouble \/ trouble' = trouble \cup {<<c, "hosts">>}
    BY <1>4, Zenon DEF ClearEntry
  <2>3. hostEntry' => <<c, "hosts">> \in trouble'
    BY <1>4, Zenon DEF ClearEntry
  <2> QED BY <1>0, <2>1, <2>2, <2>3
<1> QED BY <1>1, <1>2, <1>3, <1>4

\* What changes by itself leaves the processes alone.
LEMMA ByItselfMoves == ByItself => UNCHANGED <<procVars, fileVars, sigVars, hostEntry>>
BY Zenon DEF ByItself, MachineStops, OrphanStarts

\* The variables keep their types.
LEMMA TypeInductive == ProcTypes /\ [Next]_vars => ProcTypes'
<1> SUFFICES ASSUME ProcTypes, [Next]_vars PROVE ProcTypes'
  OBVIOUS
<1> USE InitVMAssumption DEF ProcTypes, Procs, Goto, fileVars, sigVars, roomVars
<1>1. ASSUME NEW c \in Cmds, NEW m \in Modes, Begin(c, m) PROVE ProcTypes'
  BY <1>1 DEF Begin, Modes, Labels, StopLabels, Over
<1>2. ASSUME NEW c \in Cmds, StartLoop(c) PROVE ProcTypes'
  <2> USE DEF Labels
  <2>1. CASE SdRead(c)
    BY <2>1 DEF SdRead
  <2>2. CASE SdCheck(c)
    BY <2>2 DEF SdCheck, Exists, Running
  <2>3. CASE SdNoSpawn(c)
    BY <2>3 DEF SdNoSpawn
  <2>4. CASE SdOpen(c)
    BY <2>4 DEF SdOpen, OpenFor
  <2>5. CASE SdWrite(c)
    BY <2>5 DEF SdWrite, WriteFrom
  <2>6. ASSUME NEW d \in Daemons, SdSpawn(c, d) PROVE ProcTypes'
    BY <2>6 DEF SdSpawn
  <2> QED BY <1>2, <2>1, <2>2, <2>3, <2>4, <2>5, <2>6 DEF StartLoop
<1>3. ASSUME NEW c \in Cmds, StopDaemon(c) PROVE ProcTypes'
  <2> USE DEF Labels, StopLabels
  <2>1. CASE SpRead(c)
    BY <2>1, SpReadPlaces DEF SpRead
  <2>2. CASE SpSignal(c)
    BY <2>2 DEF SpSignal, Running, Catches
  <2>3. CASE SpKill(c)
    BY <2>3 DEF SpKill, Running
  <2>4. CASE SpGone(c)
    BY <2>4 DEF SpGone
  <2>5. CASE SpRemove(c)
    BY <2>5 DEF SpRemove, RemoveFile
  <2> QED BY <1>3, <2>1, <2>2, <2>3, <2>4, <2>5 DEF StopDaemon
<1>4. ASSUME NEW c \in Cmds, TerminateRoom(c) PROVE ProcTypes'
  <2>1. PICK l \in {"launch", "clickTerm", "clear", "done"} : Goto(c, l)
    BY <1>4, TerminateMoves, Zenon DEF TerminateEffect
  <2>2. PICK r \in {result[c], "not running", "terminated", "failed"} :
             result' = [result EXCEPT ![c] = r]
    BY <1>4, TerminateMoves, Zenon DEF TerminateEffect
  <2>3. /\ trouble' \subseteq trouble \cup {<<c, "vpn">>, <<c, "hosts">>, <<c, "orphan">>}
        /\ UNCHANGED <<mode, seen, latest, fileVars, sigVars, starting>>
    BY <1>4, TerminateMoves, Zenon DEF TerminateEffect
  <2>4. trouble' \subseteq Cmds \X {"vpn", "hosts", "orphan"}
    <3>1. /\ <<c, "vpn">> \in Cmds \X {"vpn", "hosts", "orphan"}
          /\ <<c, "hosts">> \in Cmds \X {"vpn", "hosts", "orphan"}
          /\ <<c, "orphan">> \in Cmds \X {"vpn", "hosts", "orphan"}
      OBVIOUS
    <3>2. trouble \subseteq Cmds \X {"vpn", "hosts", "orphan"}
      OBVIOUS
    <3> QED BY <2>3, <3>1, <3>2, Zenon
  <2>5. result' \in [Cmds -> {"none", "terminated", "not running", "failed"}]
    BY <2>2
  <2>6. pc' \in [Procs -> Labels]
    BY <2>1 DEF Labels
  <2> QED BY <2>3, <2>4, <2>5, <2>6
<1>5. ASSUME NEW d \in Daemons, Daemon(d) PROVE ProcTypes'
  <2> USE DEF Labels
  <2>1. CASE Boot(d)
    BY <2>1 DEF Boot, OpenFor
  <2>2. CASE WriteOwn(d)
    BY <2>2 DEF WriteOwn, WriteFrom
  <2>3. CASE Tick(d)
    BY <2>3 DEF Tick
  <2>4. CASE StopLoop(d)
    BY <2>4 DEF StopLoop, RemoveFile
  <2>5. CASE ExitLoop(d)
    BY <2>5 DEF ExitLoop
  <2>6. CASE SignalExit(d)
    BY <2>6 DEF SignalExit
  <2>7. CASE Reuse(d)
    BY <2>7 DEF Reuse, procVars
  <2> QED BY <1>5, <2>1, <2>2, <2>3, <2>4, <2>5, <2>6, <2>7 DEF Daemon
<1>6. ASSUME NEW p \in Procs, Work(p) PROVE ProcTypes'
  <2>1. PICK l \in Working \cup {"loop", "sdRead", "shell", "done"} : Goto(p, l)
    BY <1>6, WorkMoves, Zenon DEF WorkEffect
  <2>2. /\ handlers' \in {handlers, handlers \cup ({p} \cap Daemons)}
        /\ starting' \in {starting, starting \cup {p}, starting \ {p}}
        /\ notified' \in {notified, notified \cup ({p} \cap Daemons)}
        /\ UNCHANGED <<mode, seen, result, trouble, latest, fileVars, term, queued, foreign>>
    BY <1>6, WorkMoves, Zenon DEF WorkEffect
  <2> QED BY <2>1, <2>2 DEF Working, Labels
<1>7. ASSUME NEW p \in Procs, Crash(p) PROVE ProcTypes'
  BY <1>7 DEF Crash, Labels, Over
<1>8. CASE ByItself
  <2>1. starting' \subseteq starting
    BY <1>8, Zenon DEF ByItself, MachineStops, OrphanStarts
  <2> QED BY <1>8, <2>1, ByItselfMoves DEF procVars
<1>9. CASE Finished \/ UNCHANGED vars
  BY <1>9 DEF Finished, vars, procVars
<1> QED BY <1>1, <1>2, <1>3, <1>4, <1>5, <1>6, <1>7, <1>8, <1>9 DEF Next

-----------------------------------------------------------------------------
(* stopLoopDaemon kills what it has read about, however commands overlap      *)

\* A pid in the file is a spawned daemon's, and one is signalled before it is believed
\* dead.
LEMMA PidInductive == PidInv /\ [Next]_vars => PidInv'
<1> SUFFICES ASSUME PidInv, [Next]_vars PROVE PidsSpawned' /\ StoppedIsDead'
  BY TypeInductive DEF PidInv
<1> DEFINE Goal == PidsSpawned' /\ StoppedIsDead'
<1> USE InitVMAssumption DEF PidInv, PidsSpawned, StoppedIsDead, Held, ProcTypes, Procs, Goto,
          fileVars
<1>1. ASSUME NEW c \in Cmds, NEW m \in Modes, Begin(c, m) PROVE Goal
  BY <1>1 DEF Begin
<1>2. ASSUME NEW c \in Cmds, StartLoop(c) PROVE Goal
  <2>1. CASE SdRead(c)
    BY <2>1 DEF SdRead
  <2>2. CASE SdCheck(c)
    BY <2>2 DEF SdCheck, Exists, Running
  <2>3. CASE SdNoSpawn(c)
    BY <2>3 DEF SdNoSpawn
  <2>4. CASE SdOpen(c)
    BY <2>4 DEF SdOpen, OpenFor
  <2>5. CASE SdWrite(c)
    BY <2>5 DEF SdWrite, WriteFrom
  <2>6. ASSUME NEW d \in Daemons, SdSpawn(c, d) PROVE Goal
    BY <2>6 DEF SdSpawn
  <2> QED BY <1>2, <2>1, <2>2, <2>3, <2>4, <2>5, <2>6 DEF StartLoop
<1>3. ASSUME NEW c \in Cmds, StopDaemon(c) PROVE Goal
  <2>1. CASE SpRead(c)
    BY <2>1, SpReadPlaces DEF SpRead
  <2>2. CASE SpSignal(c)
    BY <2>2 DEF SpSignal, Running, Catches
  <2>3. CASE SpKill(c)
    BY <2>3 DEF SpKill, Running, Exists
  <2>4. CASE SpGone(c)
    BY <2>4 DEF SpGone, Exists, Running
  <2>5. CASE SpRemove(c)
    BY <2>5 DEF SpRemove, RemoveFile
  <2> QED BY <1>3, <2>1, <2>2, <2>3, <2>4, <2>5 DEF StopDaemon
<1>4. ASSUME NEW c \in Cmds, TerminateRoom(c) PROVE Goal
  <2> PICK l \in {"launch", "clickTerm", "clear", "done"} : Goto(c, l)
    BY <1>4, TerminateMoves, Zenon DEF TerminateEffect
  <2>1. UNCHANGED <<seen, pidfile>>
    BY <1>4, TerminateMoves, Zenon DEF TerminateEffect
  <2> QED BY <2>1
<1>5. ASSUME NEW d \in Daemons, Daemon(d) PROVE Goal
  <2>1. CASE Boot(d)
    BY <2>1 DEF Boot, OpenFor
  <2>2. CASE WriteOwn(d)
    BY <2>2 DEF WriteOwn, WriteFrom
  <2>3. CASE Tick(d)
    BY <2>3 DEF Tick
  <2>4. CASE StopLoop(d)
    BY <2>4 DEF StopLoop, RemoveFile
  <2>5. CASE ExitLoop(d)
    BY <2>5 DEF ExitLoop
  <2>6. CASE SignalExit(d)
    BY <2>6 DEF SignalExit
  <2>7. CASE Reuse(d)
    BY <2>7 DEF Reuse, procVars
  <2> QED BY <1>5, <2>1, <2>2, <2>3, <2>4, <2>5, <2>6, <2>7 DEF Daemon
<1>6. ASSUME NEW p \in Procs, Work(p) PROVE Goal
  <2>1. PICK l \in Working \cup {"loop", "sdRead", "shell", "done"} : Goto(p, l)
    BY <1>6, WorkMoves, Zenon DEF WorkEffect
  <2>2. UNCHANGED <<seen, pidfile>> /\ pc[p] \in Working
    BY <1>6, WorkMoves, Zenon DEF WorkEffect
  <2> QED BY <2>1, <2>2 DEF Working
<1>7. ASSUME NEW p \in Procs, Crash(p) PROVE Goal
  BY <1>7 DEF Crash, Over
<1>8. CASE ByItself
  BY <1>8, ByItselfMoves DEF procVars
<1>9. CASE Finished \/ UNCHANGED vars
  BY <1>9 DEF Finished, vars, procVars
<1> QED BY <1>1, <1>2, <1>3, <1>4, <1>5, <1>6, <1>7, <1>8, <1>9 DEF Next

\* When stopLoopDaemon removes the pid file, the process the file named is dead,
\* whatever other commands do.
THEOREM StoppedDead == Spec => []StoppedIsDead
<1>1. Init => PidInv
  BY InitVMAssumption DEF Init, PidInv, PidsSpawned, StoppedIsDead, Held, ProcTypes, Procs, Labels
<1> QED BY <1>1, PidInductive, PTL DEF Spec, PidInv

-----------------------------------------------------------------------------
(* Commands given one after the other                                         *)

\* The steps that a command itself takes.
OwnStep(c) ==
    \/ \E m \in Modes : Begin(c, m)
    \/ StartLoop(c) \/ StopDaemon(c) \/ TerminateRoom(c) \/ Work(c) \/ Crash(c)

\* A command's place, mode and what it has seen change in its own steps only.
Stays(c) == pc'[c] = pc[c] /\ mode'[c] = mode[c] /\ seen'[c] = seen[c]

\* Every other step leaves a command where it is.
LEMMA OthersStay ==
    ASSUME ProcTypes, PidsSpawned, NEW c \in Cmds, [Next]_vars
    PROVE  OwnStep(c) \/ Stays(c)
<1> SUFFICES ASSUME ~OwnStep(c) PROVE Stays(c)
  OBVIOUS
<1> USE InitVMAssumption DEF Stays, ProcTypes, Procs, Goto
<1>1. ASSUME NEW k \in Cmds, NEW m \in Modes, Begin(k, m) PROVE Stays(c)
  <2> k # c
    BY <1>1 DEF OwnStep
  <2> QED BY <1>1 DEF Begin
<1>2. ASSUME NEW k \in Cmds, StartLoop(k) PROVE Stays(c)
  <2> k # c
    BY <1>2 DEF OwnStep
  <2>1. CASE SdRead(k)
    BY <2>1 DEF SdRead
  <2>2. CASE SdCheck(k)
    BY <2>2 DEF SdCheck, Exists, Running
  <2>3. CASE SdNoSpawn(k)
    BY <2>3 DEF SdNoSpawn
  <2>4. CASE SdOpen(k)
    BY <2>4 DEF SdOpen, OpenFor
  <2>5. CASE SdWrite(k)
    BY <2>5 DEF SdWrite, WriteFrom
  <2>6. ASSUME NEW d \in Daemons, SdSpawn(k, d) PROVE Stays(c)
    BY <2>6 DEF SdSpawn
  <2> QED BY <1>2, <2>1, <2>2, <2>3, <2>4, <2>5, <2>6 DEF StartLoop
<1>3. ASSUME NEW k \in Cmds, StopDaemon(k) PROVE Stays(c)
  <2> k # c
    BY <1>3 DEF OwnStep
  <2> USE DEF PidsSpawned, Held
  <2>1. CASE SpRead(k)
    BY <2>1, SpReadPlaces DEF SpRead
  <2>2. CASE SpSignal(k)
    BY <2>2 DEF SpSignal, Running, Catches
  <2>3. CASE SpKill(k)
    BY <2>3 DEF SpKill, Running, Exists
  <2>4. CASE SpGone(k)
    BY <2>4 DEF SpGone
  <2>5. CASE SpRemove(k)
    BY <2>5 DEF SpRemove
  <2> QED BY <1>3, <2>1, <2>2, <2>3, <2>4, <2>5 DEF StopDaemon
<1>4. ASSUME NEW k \in Cmds, TerminateRoom(k) PROVE Stays(c)
  <2> k # c
    BY <1>4 DEF OwnStep
  <2> PICK l \in {"launch", "clickTerm", "clear", "done"} : Goto(k, l)
    BY <1>4, TerminateMoves, Zenon DEF TerminateEffect
  <2>1. UNCHANGED <<seen, mode>>
    BY <1>4, TerminateMoves, Zenon DEF TerminateEffect
  <2> QED BY <2>1
<1>5. ASSUME NEW d \in Daemons, Daemon(d) PROVE Stays(c)
  <2>1. CASE Boot(d)
    BY <2>1 DEF Boot, OpenFor
  <2>2. CASE WriteOwn(d)
    BY <2>2 DEF WriteOwn, WriteFrom
  <2>3. CASE Tick(d)
    BY <2>3 DEF Tick
  <2>4. CASE StopLoop(d)
    BY <2>4 DEF StopLoop
  <2>5. CASE ExitLoop(d)
    BY <2>5 DEF ExitLoop
  <2>6. CASE SignalExit(d)
    BY <2>6 DEF SignalExit
  <2>7. CASE Reuse(d)
    BY <2>7 DEF Reuse, procVars
  <2> QED BY <1>5, <2>1, <2>2, <2>3, <2>4, <2>5, <2>6, <2>7 DEF Daemon
<1>6. ASSUME NEW p \in Procs, Work(p) PROVE Stays(c)
  <2> p # c
    BY <1>6 DEF OwnStep
  <2>1. PICK l \in Working \cup {"loop", "sdRead", "shell", "done"} : Goto(p, l)
    BY <1>6, WorkMoves, Zenon DEF WorkEffect
  <2>2. UNCHANGED <<seen, mode>>
    BY <1>6, WorkMoves, Zenon DEF WorkEffect
  <2> QED BY <2>1, <2>2
<1>7. ASSUME NEW p \in Procs, Crash(p) PROVE Stays(c)
  <2> p # c
    BY <1>7 DEF OwnStep
  <2> QED BY <1>7 DEF Crash
<1>8. CASE ByItself
  BY <1>8, ByItselfMoves DEF procVars
<1>9. CASE Finished \/ UNCHANGED vars
  BY <1>9 DEF Finished, vars, procVars
<1> QED BY <1>1, <1>2, <1>3, <1>4, <1>5, <1>6, <1>7, <1>8, <1>9 DEF Next

\* A daemon is live because it was, or has just been spawned; and it settles once.
LEMMA LiveStays ==
    ASSUME ProcTypes, PidsSpawned, NEW d \in Daemons, [Next]_vars, Live(d)'
    PROVE  \/ Live(d) /\ (Settling(d)' => Settling(d))
           \/ \E c \in Cmds : SdSpawn(c, d)
<1> DEFINE Goal == Live(d) /\ (Settling(d)' => Settling(d))
<1> SUFFICES ASSUME \A c \in Cmds : ~SdSpawn(c, d) PROVE Goal
  OBVIOUS
<1> USE InitVMAssumption DEF Live, Settling, Running, ProcTypes, Procs, Goto
<1>1. ASSUME NEW k \in Cmds, NEW m \in Modes, Begin(k, m) PROVE Goal
  BY <1>1 DEF Begin
<1>2. ASSUME NEW k \in Cmds, StartLoop(k) PROVE Goal
  <2>1. CASE SdRead(k)
    BY <2>1 DEF SdRead
  <2>2. CASE SdCheck(k)
    BY <2>2 DEF SdCheck, Exists
  <2>3. CASE SdNoSpawn(k)
    BY <2>3 DEF SdNoSpawn
  <2>4. CASE SdOpen(k)
    BY <2>4 DEF SdOpen, OpenFor
  <2>5. CASE SdWrite(k)
    BY <2>5 DEF SdWrite, WriteFrom
  <2>6. ASSUME NEW e \in Daemons, SdSpawn(k, e) PROVE Goal
    <3> e # d
      BY <2>6
    <3> QED BY <2>6 DEF SdSpawn
  <2> QED BY <1>2, <2>1, <2>2, <2>3, <2>4, <2>5, <2>6 DEF StartLoop
<1>3. ASSUME NEW k \in Cmds, StopDaemon(k) PROVE Goal
  <2> USE DEF PidsSpawned, Held
  <2>1. CASE SpRead(k)
    BY <2>1, SpReadPlaces DEF SpRead
  <2>2. CASE SpSignal(k)
    BY <2>2 DEF SpSignal, Catches
  <2>3. CASE SpKill(k)
    BY <2>3 DEF SpKill, Exists
  <2>4. CASE SpGone(k)
    BY <2>4 DEF SpGone
  <2>5. CASE SpRemove(k)
    BY <2>5 DEF SpRemove
  <2> QED BY <1>3, <2>1, <2>2, <2>3, <2>4, <2>5 DEF StopDaemon
<1>4. ASSUME NEW k \in Cmds, TerminateRoom(k) PROVE Goal
  <2> PICK l \in {"launch", "clickTerm", "clear", "done"} : Goto(k, l)
    BY <1>4, TerminateMoves, Zenon DEF TerminateEffect
  <2> QED OBVIOUS
<1>5. ASSUME NEW e \in Daemons, Daemon(e) PROVE Goal
  <2>1. CASE Boot(e)
    BY <2>1 DEF Boot, OpenFor
  <2>2. CASE WriteOwn(e)
    BY <2>2 DEF WriteOwn, WriteFrom
  <2>3. CASE Tick(e)
    BY <2>3 DEF Tick
  <2>4. CASE StopLoop(e)
    BY <2>4 DEF StopLoop
  <2>5. CASE ExitLoop(e)
    BY <2>5 DEF ExitLoop
  <2>6. CASE SignalExit(e)
    BY <2>6 DEF SignalExit
  <2>7. CASE Reuse(e)
    BY <2>7 DEF Reuse, procVars
  <2> QED BY <1>5, <2>1, <2>2, <2>3, <2>4, <2>5, <2>6, <2>7 DEF Daemon
<1>6. ASSUME NEW p \in Procs, Work(p) PROVE Goal
  <2>1. PICK l \in Working \cup {"loop", "sdRead", "shell", "done"} : Goto(p, l)
    BY <1>6, WorkMoves, Zenon DEF WorkEffect
  <2>2. pc[p] \in Working
    BY <1>6, WorkMoves, Zenon DEF WorkEffect
  <2> QED BY <2>1, <2>2 DEF Working
<1>7. ASSUME NEW p \in Procs, Crash(p) PROVE Goal
  BY <1>7 DEF Crash
<1>8. CASE ByItself
  BY <1>8, ByItselfMoves DEF procVars
<1>9. CASE Finished \/ UNCHANGED vars
  BY <1>9 DEF Finished, vars, procVars
<1> QED BY <1>1, <1>2, <1>3, <1>4, <1>5, <1>6, <1>7, <1>8, <1>9 DEF Next

\* Who changes the pid file, or has it open.
LEMMA FileMoves ==
    ASSUME ProcTypes, [Next]_vars
    PROVE  \/ UNCHANGED fileVars
           \/ \E c \in Cmds : SdOpen(c) \/ SdWrite(c) \/ SpRemove(c)
           \/ \E d \in Daemons : Boot(d) \/ WriteOwn(d) \/ StopLoop(d)
           \/ \E p \in Procs : Crash(p)
<1> DEFINE Goal == UNCHANGED fileVars
<1>1. ASSUME NEW c \in Cmds, NEW m \in Modes, Begin(c, m) PROVE Goal
  BY <1>1, Zenon DEF Begin
<1>2. ASSUME NEW c \in Cmds, StartLoop(c), ~SdOpen(c), ~SdWrite(c) PROVE Goal
  BY <1>2, Zenon DEF StartLoop, SdRead, SdCheck, SdNoSpawn, SdSpawn
<1>3. ASSUME NEW c \in Cmds, StopDaemon(c), ~SpRemove(c) PROVE Goal
  BY <1>3, Zenon DEF StopDaemon, SpRead, SpSignal, SpKill, SpGone
<1>4. ASSUME NEW c \in Cmds, TerminateRoom(c) PROVE Goal
  BY <1>4, TerminateMoves, Zenon DEF TerminateEffect
<1>5. ASSUME NEW d \in Daemons, Daemon(d), ~Boot(d), ~WriteOwn(d), ~StopLoop(d) PROVE Goal
  BY <1>5, Zenon DEF Daemon, Tick, ExitLoop, SignalExit, Reuse
<1>6. ASSUME NEW p \in Procs, Work(p) PROVE Goal
  BY <1>6, WorkMoves, Zenon DEF WorkEffect
<1>7. CASE ByItself \/ Finished \/ UNCHANGED vars
  <2>1. CASE ByItself
    BY <2>1, ByItselfMoves, Zenon
  <2> QED BY <1>7, <2>1 DEF Finished, vars
<1> QED BY <1>1, <1>2, <1>3, <1>4, <1>5, <1>6, <1>7, Zenon DEF Next

\* Only a new command becomes the latest, and no step of an old one is its last
\* and its first.
LEMMA LatestMoves ==
    ASSUME ProcTypes, [Next]_vars
    PROVE  latest' = latest \/ \E c \in Cmds, m \in Modes : Begin(c, m)
<1>2. ASSUME NEW c \in Cmds, StartLoop(c) PROVE latest' = latest
  BY <1>2, Zenon DEF StartLoop, SdRead, SdCheck, SdNoSpawn, SdSpawn, SdOpen, OpenFor, SdWrite,
       WriteFrom
<1>3. ASSUME NEW c \in Cmds, StopDaemon(c) PROVE latest' = latest
  BY <1>3, Zenon DEF StopDaemon, SpRead, SpSignal, SpKill, SpGone, SpRemove
<1>4. ASSUME NEW c \in Cmds, TerminateRoom(c) PROVE latest' = latest
  BY <1>4, TerminateMoves, Zenon DEF TerminateEffect
<1>5. ASSUME NEW d \in Daemons, Daemon(d) PROVE latest' = latest
  <2>1. CASE Reuse(d)
    BY <2>1 DEF Reuse, procVars
  <2> QED BY <1>5, <2>1, Zenon DEF Daemon, Tick, ExitLoop, SignalExit, StopLoop, Boot, WriteOwn,
                OpenFor, WriteFrom
<1>6. ASSUME NEW p \in Procs, Work(p) PROVE latest' = latest
  BY <1>6, WorkMoves, Zenon DEF WorkEffect
<1>7. ASSUME NEW p \in Procs, Crash(p) PROVE latest' = latest
  BY <1>7, Zenon DEF Crash
<1>8. CASE ByItself
  BY <1>8, ByItselfMoves DEF procVars
<1>9. CASE Finished \/ UNCHANGED vars
  BY <1>9 DEF Finished, vars, procVars
<1> QED BY <1>2, <1>3, <1>4, <1>5, <1>6, <1>7, <1>8, <1>9, Zenon DEF Next

\* A command that is over, or not begun, can only begin.
LEMMA OwnStepsAreOfActive ==
    ASSUME ProcTypes, NEW c \in Cmds, OwnStep(c), pc[c] \in Over
    PROVE  \E m \in Modes : Begin(c, m)
<1> USE DEF Over
<1>1. ~StartLoop(c)
  BY DEF StartLoop, SdRead, SdCheck, SdNoSpawn, SdSpawn, SdOpen, SdWrite
<1>2. ~StopDaemon(c)
  BY DEF StopDaemon, SpRead, SpSignal, SpKill, SpGone, SpRemove
<1>3. ~TerminateRoom(c)
  BY TerminateMoves DEF TerminateEffect
<1>4. ~Work(c)
  <2> SUFFICES ASSUME Work(c) PROVE FALSE
    OBVIOUS
  <2>1. pc[c] \in Working
    BY WorkMoves, Zenon DEF WorkEffect, Procs
  <2> QED BY <2>1 DEF Working
<1>5. ~Crash(c)
  BY DEF Crash
<1> QED BY <1>1, <1>2, <1>3, <1>4, <1>5 DEF OwnStep

\* Only the command given last is at work.
LEMMA LatestInductive ==
    ASSUME ~Overlap, PidInv, OnlyLatestActs, [Next]_vars
    PROVE  OnlyLatestActs'
<1> SUFFICES ASSUME NEW c \in Cmds, pc'[c] \notin Over PROVE latest' = c
  BY DEF OnlyLatestActs
<1> USE DEF PidInv
<1>1. CASE \E k \in Cmds, m \in Modes : Begin(k, m)
  <2> PICK k \in Cmds, m \in Modes : Begin(k, m)
    BY <1>1
  <2>1. pc[c] \in Over
    BY DEF Begin
  <2> QED BY <2>1 DEF Begin, Goto, ProcTypes, Procs
<1>2. CASE ~\E k \in Cmds, m \in Modes : Begin(k, m)
  <2>1. latest' = latest
    BY <1>2, LatestMoves
  <2>2. pc[c] \notin Over
    BY <1>2, OthersStay, OwnStepsAreOfActive DEF Stays
  <2> QED BY <2>1, <2>2 DEF OnlyLatestActs
<1> QED BY <1>1, <1>2

\* A terminate is never where the other commands go, nor they where it goes.
LEMMA PlacesInductive ==
    ASSUME PidInv, TerminatePlaces, [Next]_vars
    PROVE  TerminatePlaces'
<1> DEFINE Placed(c) ==
      IF IsTerminate(c) THEN pc[c] \in PastStop \cup {"spRead", "spSignal", "spWait", "dead"}
                        ELSE pc[c] \notin StopLabels \cup {"spRead", "vpnStop", "clickTerm", "clear"}
<1> SUFFICES ASSUME NEW c \in Cmds PROVE Placed(c)'
  BY DEF TerminatePlaces
<1> USE InitVMAssumption DEF PidInv, TerminatePlaces, IsTerminate, StopLabels, PastStop, ProcTypes, Procs,
          Goto
<1>0. CASE Stays(c)
  BY <1>0 DEF Stays
<1>1. ASSUME NEW m \in Modes, Begin(c, m) PROVE Placed(c)'
  BY <1>1 DEF Begin
<1>2. CASE StartLoop(c)
  <2>1. CASE SdRead(c)
    BY <2>1 DEF SdRead
  <2>2. CASE SdCheck(c)
    BY <2>2 DEF SdCheck, Exists, Running
  <2>3. CASE SdNoSpawn(c)
    BY <2>3 DEF SdNoSpawn
  <2>4. CASE SdOpen(c)
    BY <2>4 DEF SdOpen, OpenFor
  <2>5. CASE SdWrite(c)
    BY <2>5 DEF SdWrite, WriteFrom
  <2>6. ASSUME NEW d \in Daemons, SdSpawn(c, d) PROVE Placed(c)'
    BY <2>6 DEF SdSpawn
  <2> QED BY <1>2, <2>1, <2>2, <2>3, <2>4, <2>5, <2>6 DEF StartLoop
<1>3. CASE StopDaemon(c)
  <2> USE DEF PidsSpawned, Held
  <2>1. CASE SpRead(c)
    BY <2>1, SpReadPlaces DEF SpRead
  <2>2. CASE SpSignal(c)
    BY <2>2 DEF SpSignal, Running, Catches
  <2>3. CASE SpKill(c)
    BY <2>3 DEF SpKill, Running, Exists
  <2>4. CASE SpGone(c)
    BY <2>4 DEF SpGone
  <2>5. CASE SpRemove(c)
    BY <2>5 DEF SpRemove
  <2> QED BY <1>3, <2>1, <2>2, <2>3, <2>4, <2>5 DEF StopDaemon
<1>4. CASE TerminateRoom(c)
  <2> PICK l \in {"launch", "clickTerm", "clear", "done"} : Goto(c, l)
    BY <1>4, TerminateMoves, Zenon DEF TerminateEffect
  <2>1. UNCHANGED mode /\ pc[c] \in {"vpnStop", "observe", "clickTerm", "clear"}
        /\ (pc[c] = "observe" => IsTerminate(c))
    BY <1>4, TerminateMoves, Zenon DEF TerminateEffect
  <2> QED BY <2>1
<1>6. CASE Work(c)
  <2>1. PICK l \in Working \cup {"loop", "sdRead", "shell", "done"} :
              Goto(c, l) /\ (c \in Cmds => l # "loop") /\ (pc[c] = "launch" => l = "observe")
    BY <1>6, WorkMoves, Zenon DEF WorkEffect, Procs
  <2>2. UNCHANGED mode /\ pc[c] \in Working /\ (IsTerminate(c) => pc[c] # "observe")
    BY <1>6, WorkMoves, Zenon DEF WorkEffect, Procs
  <2> QED BY <2>1, <2>2 DEF Working
<1>7. CASE Crash(c)
  BY <1>7 DEF Crash
<1> QED BY <1>0, <1>1, <1>2, <1>3, <1>4, <1>6, <1>7, OthersStay DEF OwnStep

\* A step spawns one daemon, for one command.
LEMMA OneSpawnAtATime ==
    ASSUME ProcTypes, NEW c \in Cmds, NEW d \in Daemons, SdSpawn(c, d),
           NEW k \in Cmds, NEW e \in Daemons, SdSpawn(k, e)
    PROVE  c = k /\ d = e
BY InitVMAssumption DEF SdSpawn, ProcTypes, Procs

\* A daemon is spawned only where none is live.
LEMMA OneDaemonInductive ==
    ASSUME TurnInv, [Next]_vars
    PROVE  AtMostOneDaemon'
<1> SUFFICES ASSUME NEW d \in Daemons, NEW e \in Daemons, Live(d)', Live(e)' PROVE d = e
  BY DEF AtMostOneDaemon
<1> USE DEF TurnInv, PidInv
<1>1. CASE Live(d) /\ Live(e)
  BY <1>1 DEF AtMostOneDaemon
<1>2. CASE (\E c \in Cmds : SdSpawn(c, d)) /\ \E c \in Cmds : SdSpawn(c, e)
  BY <1>2, OneSpawnAtATime
<1>3. ASSUME NEW x \in Daemons, Live(x), NEW c \in Cmds, NEW y \in Daemons, SdSpawn(c, y)
      PROVE  FALSE
  BY <1>3 DEF SdSpawn, LiveAsSeen
<1> QED BY <1>1, <1>2, <1>3, LiveStays, Zenon

\* A daemon's place changes in its own steps, when it is spawned and when it dies.
LEMMA DaemonSteps ==
    ASSUME ProcTypes, PidsSpawned, NEW d \in Daemons, [Next]_vars
    PROVE  \/ pc'[d] \in {pc[d], "dead"}
           \/ Boot(d) \/ WriteOwn(d) \/ Tick(d) \/ StopLoop(d) \/ Work(d)
           \/ \E c \in Cmds : SdSpawn(c, d)
<1> DEFINE Goal == pc'[d] \in {pc[d], "dead"}
<1> SUFFICES ASSUME ~Boot(d), ~WriteOwn(d), ~Tick(d), ~StopLoop(d), ~Work(d),
                    \A c \in Cmds : ~SdSpawn(c, d)
             PROVE  Goal
  OBVIOUS
<1> USE InitVMAssumption DEF ProcTypes, Procs, Goto
<1>1. ASSUME NEW k \in Cmds, NEW m \in Modes, Begin(k, m) PROVE Goal
  BY <1>1 DEF Begin
<1>2. ASSUME NEW k \in Cmds, StartLoop(k) PROVE Goal
  <2>1. CASE SdRead(k)
    BY <2>1 DEF SdRead
  <2>2. CASE SdCheck(k)
    BY <2>2 DEF SdCheck, Exists, Running
  <2>3. CASE SdNoSpawn(k)
    BY <2>3 DEF SdNoSpawn
  <2>4. CASE SdOpen(k)
    BY <2>4 DEF SdOpen, OpenFor
  <2>5. CASE SdWrite(k)
    BY <2>5 DEF SdWrite, WriteFrom
  <2>6. ASSUME NEW e \in Daemons, SdSpawn(k, e) PROVE Goal
    <3> e # d
      BY <2>6
    <3> QED BY <2>6 DEF SdSpawn
  <2> QED BY <1>2, <2>1, <2>2, <2>3, <2>4, <2>5, <2>6 DEF StartLoop
<1>3. ASSUME NEW k \in Cmds, StopDaemon(k) PROVE Goal
  <2> USE DEF PidsSpawned, Held
  <2>1. CASE SpRead(k)
    <3> PICK l : Goto(k, l)
      BY <2>1, SpReadPlaces
    <3> QED OBVIOUS
  <2>2. CASE SpSignal(k)
    BY <2>2 DEF SpSignal, Running, Catches
  <2>3. CASE SpKill(k)
    BY <2>3 DEF SpKill, Running, Exists
  <2>4. CASE SpGone(k)
    BY <2>4 DEF SpGone
  <2>5. CASE SpRemove(k)
    BY <2>5 DEF SpRemove
  <2> QED BY <1>3, <2>1, <2>2, <2>3, <2>4, <2>5 DEF StopDaemon
<1>4. ASSUME NEW k \in Cmds, TerminateRoom(k) PROVE Goal
  <2> PICK l \in {"launch", "clickTerm", "clear", "done"} : Goto(k, l)
    BY <1>4, TerminateMoves, Zenon DEF TerminateEffect
  <2> QED OBVIOUS
<1>5. ASSUME NEW e \in Daemons, Daemon(e) PROVE Goal
  <2>1. CASE Boot(e)
    BY <2>1 DEF Boot, OpenFor
  <2>2. CASE WriteOwn(e)
    BY <2>2 DEF WriteOwn, WriteFrom
  <2>3. CASE Tick(e)
    BY <2>3 DEF Tick
  <2>4. CASE StopLoop(e)
    BY <2>4 DEF StopLoop
  <2>5. CASE ExitLoop(e)
    BY <2>5 DEF ExitLoop
  <2>6. CASE SignalExit(e)
    BY <2>6 DEF SignalExit
  <2>7. CASE Reuse(e)
    BY <2>7 DEF Reuse, procVars
  <2> QED BY <1>5, <2>1, <2>2, <2>3, <2>4, <2>5, <2>6, <2>7 DEF Daemon
<1>6. ASSUME NEW p \in Procs, Work(p) PROVE Goal
  <2> p # d
    BY <1>6
  <2>1. PICK l \in Working \cup {"loop", "sdRead", "shell", "done"} : Goto(p, l)
    BY <1>6, WorkMoves, Zenon DEF WorkEffect
  <2> QED BY <2>1
<1>7. ASSUME NEW p \in Procs, Crash(p) PROVE Goal
  BY <1>7 DEF Crash
<1>8. CASE ByItself
  BY <1>8, ByItselfMoves DEF procVars
<1>9. CASE Finished \/ UNCHANGED vars
  BY <1>9 DEF Finished, vars, procVars
<1> QED BY <1>1, <1>2, <1>3, <1>4, <1>5, <1>6, <1>7, <1>8, <1>9 DEF Next

\* While a daemon is live nobody removes the pid file behind its back.
LEMMA NoRemovalWhileLive ==
    ASSUME TurnInv, NEW d \in Daemons, Live(d), NEW c \in Cmds, SpRemove(c)
    PROVE  FALSE
<1>1. pc[c] = "spRemove"
  BY DEF SpRemove
<1>2. IsTerminate(c) /\ latest = c
  BY <1>1 DEF TurnInv, TerminatePlaces, StopLabels, OnlyLatestActs, Over
<1> QED BY <1>1, <1>2 DEF TurnInv, LiveAsSeen, PastStop

\* A daemon about to write its pid still has the file open.
LEMMA OwnFileInductive ==
    ASSUME TurnInv, [Next]_vars PROVE OwnFileOpen'
<1> SUFFICES ASSUME NEW d \in Daemons, pc'[d] = "write" PROVE d \in openFd'
  BY DEF OwnFileOpen
<1> USE InitVMAssumption DEF Goto, ProcTypes, Procs
<1>t. ProcTypes /\ PidsSpawned
  BY DEF TurnInv, PidInv
<1>1. pc[d] = "write" \/ Boot(d)
  <2>1. CASE WriteOwn(d)
    BY <2>1, <1>t DEF WriteOwn, WriteFrom
  <2>2. CASE Tick(d)
    BY <2>2, <1>t DEF Tick
  <2>3. CASE StopLoop(d)
    BY <2>3, <1>t DEF StopLoop
  <2>4. CASE Work(d)
    <3>1. PICK l \in Working \cup {"loop", "sdRead", "shell", "done"} : Goto(d, l)
      BY <2>4, WorkMoves, Zenon DEF WorkEffect, Procs
    <3> QED BY <3>1, <1>t DEF Working
  <2>5. ASSUME NEW c \in Cmds, SdSpawn(c, d) PROVE FALSE
    BY <2>5, <1>t DEF SdSpawn
  <2> QED BY <1>t, <2>1, <2>2, <2>3, <2>4, <2>5, DaemonSteps
<1>2. CASE Boot(d)
  BY <1>2 DEF Boot, OpenFor
<1>3. CASE pc[d] = "write"
  <2>0. Live(d) /\ d \in openFd
    BY <1>3 DEF Live, Running, TurnInv, OwnFileOpen
  <2>1. CASE UNCHANGED fileVars
    BY <2>0, <2>1 DEF fileVars
  <2>2. ASSUME NEW c \in Cmds, SdOpen(c) PROVE d \in openFd'
    BY <2>0, <2>2 DEF SdOpen, OpenFor
  <2>3. ASSUME NEW c \in Cmds, SdWrite(c) PROVE d \in openFd'
    BY <2>0, <2>3 DEF SdWrite, WriteFrom
  <2>4. ASSUME NEW c \in Cmds, SpRemove(c) PROVE FALSE
    BY <2>0, <2>4, NoRemovalWhileLive
  <2>5. ASSUME NEW e \in Daemons, Boot(e) PROVE d \in openFd'
    BY <2>0, <2>5 DEF Boot, OpenFor
  <2>6. ASSUME NEW e \in Daemons, WriteOwn(e) PROVE d \in openFd'
    <3> e # d
      BY <2>6, <1>t DEF WriteOwn, WriteFrom
    <3> QED BY <2>0, <2>6 DEF WriteOwn, WriteFrom
  <2>7. ASSUME NEW e \in Daemons, StopLoop(e) PROVE FALSE
    <3>1. Live(e) /\ pc[e] = "loop"
      BY <2>7 DEF StopLoop, Live, Running
    <3> QED BY <2>0, <3>1, <1>3 DEF TurnInv, AtMostOneDaemon
  <2>8. ASSUME NEW p \in Procs, Crash(p) PROVE d \in openFd'
    <3> p # d
      BY <2>8, <1>t DEF Crash
    <3> QED BY <2>0, <2>8 DEF Crash
  <2> QED BY <1>t, <2>1, <2>2, <2>3, <2>4, <2>5, <2>6, <2>7, <2>8, FileMoves
<1> QED BY <1>1, <1>2, <1>3

\* A command about to write its child's pid writes it: nothing interrupts os.WriteFile.
LEMMA ParentWrites ==
    ASSUME ~Overlap, ProcTypes, NEW c \in Cmds, pc[c] = "sdWrite", OwnStep(c)
    PROVE  SdWrite(c)
<1>1. ~\E m \in Modes : Begin(c, m)
  BY DEF Begin
<1>2. StartLoop(c) => SdWrite(c)
  BY DEF StartLoop, SdRead, SdCheck, SdNoSpawn, SdSpawn, SdOpen
<1>3. ~StopDaemon(c)
  BY DEF StopDaemon, SpRead, SpSignal, SpKill, SpGone, SpRemove
<1>4. ~TerminateRoom(c)
  BY TerminateMoves DEF TerminateEffect
<1>5. ~Work(c)
  <2> SUFFICES ASSUME Work(c) PROVE FALSE
    OBVIOUS
  <2>1. pc[c] \in Working
    BY WorkMoves, Zenon DEF WorkEffect, Procs
  <2> QED BY <2>1 DEF Working
<1>6. ~Crash(c)
  BY DEF Crash
<1> QED BY <1>1, <1>2, <1>3, <1>4, <1>5, <1>6 DEF OwnStep

\* The file names a live daemon that has settled, or its parent is rewriting it.
LEMMA TrackedInductive ==
    ASSUME ~Overlap, TurnInv, [Next]_vars PROVE DaemonTracked'
<1> DEFINE Tracked(d) == \/ pidfile = d
                         \/ \E c \in Cmds : pc[c] = "sdWrite" /\ seen[c] = d /\ c \in openFd
<1> SUFFICES ASSUME NEW d \in Daemons, Live(d)', ~Settling(d)' PROVE Tracked(d)'
  BY DEF DaemonTracked, Settling
<1> USE InitVMAssumption DEF Goto, ProcTypes, Procs
<1>t. ProcTypes /\ PidsSpawned
  BY DEF TurnInv, PidInv
<1>0. Live(d)
  <2>1. ASSUME NEW c \in Cmds, SdSpawn(c, d) PROVE FALSE
    BY <2>1, <1>t DEF SdSpawn, Settling
  <2> QED BY <1>t, <2>1, LiveStays
<1>1. CASE Settling(d)
  <2>1. CASE Boot(d)
    BY <2>1, <1>t DEF Boot, OpenFor, Settling
  <2>2. CASE WriteOwn(d)
    <3> d \in openFd
      BY <2>2 DEF WriteOwn, TurnInv, OwnFileOpen
    <3> QED BY <2>2 DEF WriteOwn, WriteFrom
  <2>3. CASE Work(d)
    <3>1. pc[d] \in Working
      BY <2>3, WorkMoves, Zenon DEF WorkEffect, Procs
    <3> QED BY <3>1, <1>1 DEF Working, Settling
  <2>4. CASE Tick(d) \/ StopLoop(d)
    BY <1>1, <2>4 DEF Tick, StopLoop, Settling
  <2>5. ASSUME NEW c \in Cmds, SdSpawn(c, d) PROVE FALSE
    BY <2>5, <1>1 DEF SdSpawn, Settling
  <2>6. pc'[d] \notin {pc[d], "dead"}
    BY <1>1 DEF Live, Running, Settling
  <2> QED BY <1>t, <2>1, <2>2, <2>3, <2>4, <2>5, <2>6, DaemonSteps
<1>2. CASE ~Settling(d)
  <2>0. Tracked(d)
    BY <1>0, <1>2 DEF TurnInv, DaemonTracked, Settling
  <2>1. ASSUME NEW c \in Cmds, SdWrite(c) PROVE Tracked(d)'
    <3>1. pc[c] = "sdWrite" /\ seen[c] = d
      BY <2>1, <1>0 DEF SdWrite, TurnInv, LiveAsSeen
    <3>2. pidfile = d \/ c \in openFd
      BY <2>0, <3>1 DEF TurnInv, OnlyLatestActs, Over
    <3> QED BY <2>1, <3>1, <3>2 DEF SdWrite, WriteFrom
  <2>2. ASSUME NEW c \in Cmds, pc[c] = "sdWrite", seen[c] = d, c \in openFd, ~SdWrite(c),
               c \in openFd'
        PROVE  Tracked(d)'
    BY <1>t, <2>2, OthersStay, ParentWrites DEF Stays
  <2>3. CASE UNCHANGED fileVars
    <3>1. pidfile' = pidfile /\ openFd' = openFd
      BY <2>3 DEF fileVars
    <3> QED BY <2>0, <2>1, <2>2, <3>1
  <2>4. ASSUME NEW c \in Cmds, SdOpen(c) PROVE Tracked(d)'
    <3>1. seen[c] = d
      BY <2>4, <1>0 DEF SdOpen, TurnInv, LiveAsSeen
    <3> QED BY <2>4, <3>1, <1>t DEF SdOpen, OpenFor
  <2>5. ASSUME NEW c \in Cmds, SpRemove(c) PROVE FALSE
    BY <1>0, <2>5, NoRemovalWhileLive
  <2>6. ASSUME NEW e \in Daemons, Boot(e) \/ WriteOwn(e) PROVE FALSE
    <3>1. Live(e) /\ Settling(e)
      BY <2>6 DEF Boot, WriteOwn, Live, Running, Settling
    <3> QED BY <1>0, <1>2, <3>1 DEF TurnInv, AtMostOneDaemon
  <2>7. ASSUME NEW e \in Daemons, StopLoop(e) PROVE FALSE
    <3>1. Live(e)
      BY <2>7 DEF StopLoop, Live, Running
    <3>2. e = d
      BY <1>0, <3>1 DEF TurnInv, AtMostOneDaemon
    <3> QED BY <3>2, <2>7, <1>t DEF StopLoop, Live, Running
  <2>8. ASSUME NEW p \in Procs, Crash(p) PROVE Tracked(d)'
    <3>1. pidfile' = pidfile /\ openFd' = openFd \ {p} /\ pc[p] # "sdWrite"
      BY <2>8 DEF Crash
    <3> QED BY <2>0, <2>1, <2>2, <3>1
  <2> QED BY <1>t, <2>1, <2>3, <2>4, <2>5, <2>6, <2>7, <2>8, FileMoves
<1> QED BY <1>1, <1>2

\* Before a command reads the pid file, the file names the live daemon.
LEMMA ReadsTheLive ==
    ASSUME ~Overlap, TurnInv, NEW d \in Daemons, Live(d), NEW c \in Cmds,
           pc[c] \in {"sdRead", "spRead"}, Settled
    PROVE  pidfile = d /\ ~Settling(d)
<1>1. ~Settling(d)
  BY DEF Settled, Settling
<1>2. ASSUME NEW k \in Cmds, pc[k] = "sdWrite" PROVE FALSE
  BY <1>2 DEF TurnInv, OnlyLatestActs, Over
<1> QED BY <1>1, <1>2 DEF TurnInv, DaemonTracked, Settling

\* What a command holds of the daemon that is live, at each of its places.
LEMMA SeenInductive ==
    ASSUME ~Overlap, TurnInv, [Next]_vars PROVE LiveAsSeen'
<1> DEFINE Matched(c, d) ==
      /\ pc[c] \in {"sdCheck", "spSignal", "spWait"} => d = seen[c] /\ ~Settling(d)
      /\ pc[c] \in {"sdOpen", "sdWrite"} => d = seen[c]
      /\ pc[c] # "sdSpawn"
      /\ ~(IsTerminate(c) /\ latest = c /\ pc[c] \in PastStop)
<1> SUFFICES ASSUME NEW c \in Cmds, NEW d \in Daemons, Live(d)' PROVE Matched(c, d)'
  BY DEF LiveAsSeen
<1> USE InitVMAssumption DEF Goto, ProcTypes, Procs
<1>t. ProcTypes /\ PidsSpawned
  BY DEF TurnInv, PidInv
<1>1. ASSUME NEW k \in Cmds, SdSpawn(k, d) PROVE Matched(c, d)'
  <2>1. latest = k /\ latest' = k /\ mode' = mode
    BY <1>1 DEF SdSpawn, TurnInv, OnlyLatestActs, Over
  <2>2. CASE c = k
    BY <1>1, <1>t, <2>2 DEF SdSpawn, PastStop
  <2>3. CASE c # k
    <3>1. pc[c] \in Over /\ pc'[c] = pc[c] /\ latest' # c
      BY <1>1, <1>t, <2>1, <2>3 DEF SdSpawn, TurnInv, OnlyLatestActs
    <3> QED BY <3>1 DEF Over
  <2> QED BY <2>2, <2>3
<1>2. ASSUME Live(d), Settling(d)' => Settling(d) PROVE Matched(c, d)'
  <2>0. Matched(c, d)
    BY <1>2 DEF TurnInv, LiveAsSeen
  <2>1. ASSUME NEW k \in Cmds, NEW m \in Modes, Begin(k, m) PROVE Matched(c, d)'
    <3>1. CASE c = k
      BY <2>1, <1>t, <3>1 DEF Begin, IsTerminate, PastStop
    <3>2. CASE c # k
      <4>1. pc[c] \in Over /\ pc'[c] = pc[c] /\ latest' # c
        BY <2>1, <1>t, <3>2 DEF Begin
      <4> QED BY <4>1 DEF Over
    <3> QED BY <3>1, <3>2
  <2>2. CASE latest' = latest /\ Stays(c)
    BY <1>2, <2>0, <2>2 DEF Stays, IsTerminate
  <2>t. pc[c] \notin Over => latest = c
    BY DEF TurnInv, OnlyLatestActs
  <2>m. /\ pc[c] \in StopLabels \cup {"spRead", "vpnStop", "clickTerm", "clear"} => IsTerminate(c)
        /\ IsTerminate(c) => pc[c] \notin {"sdRead", "sdCheck", "sdSpawn", "sdOpen", "sdWrite"}
    BY DEF TurnInv, TerminatePlaces, StopLabels, PastStop
  <2>r. Running(d)
    BY <1>2 DEF Live
  <2>3. CASE StartLoop(c)
    <3> USE DEF IsTerminate, PastStop
    <3>1. CASE SdRead(c)
      <4>1. pidfile = d /\ ~Settling(d)
        BY <1>2, <3>1, ReadsTheLive DEF SdRead
      <4> QED BY <3>1, <4>1, <1>2, <1>t DEF SdRead
    <3>2. CASE SdCheck(c)
      <4>1. Exists(seen[c])
        BY <3>2, <2>0, <2>r DEF SdCheck, Exists
      <4>2. Goto(c, "shell")
        BY <3>2, <4>1, Zenon DEF SdCheck
      <4> QED BY <4>2, <1>t
    <3>3. CASE SdNoSpawn(c)
      BY <3>3, <1>t DEF SdNoSpawn
    <3>4. CASE SdOpen(c)
      BY <3>4, <1>t, <2>0 DEF SdOpen, OpenFor
    <3>5. CASE SdWrite(c)
      BY <3>5, <1>t DEF SdWrite, WriteFrom
    <3>6. ASSUME NEW e \in Daemons, SdSpawn(c, e) PROVE FALSE
      BY <3>6, <2>0 DEF SdSpawn
    <3> QED BY <2>3, <3>1, <3>2, <3>3, <3>4, <3>5, <3>6 DEF StartLoop
  <2>4. CASE StopDaemon(c)
    <3>1. CASE SpRead(c)
      <4>1. pidfile = d /\ ~Settling(d)
        BY <1>2, <3>1, ReadsTheLive DEF SpRead
      <4>2. Goto(c, "spSignal") /\ seen' = [seen EXCEPT ![c] = pidfile]
        BY <3>1, <4>1, SpReadPlaces DEF SpRead
      <4> QED BY <4>1, <4>2, <1>2, <1>t DEF PastStop
    <3>2. CASE SpSignal(c)
      <4>1. d = seen[c] /\ ~Settling(d)
        BY <3>2, <2>0 DEF SpSignal
      <4>2. pc'[c] = "spWait" /\ seen' = seen
        BY <3>2, <1>t, <4>1 DEF SpSignal
      <4> QED BY <4>1, <4>2, <1>2 DEF PastStop
    <3>3. CASE SpKill(c)
      <4>1. d = seen[c]
        BY <3>3, <2>0 DEF SpKill
      <4>2. pc'[d] = "dead"
        BY <3>3, <1>t, <4>1, <2>r DEF SpKill
      <4> QED BY <4>2 DEF Live, Running
    <3>4. CASE SpGone(c)
      BY <3>4, <2>0, <2>r DEF SpGone, Exists
    <3>5. CASE SpRemove(c)
      BY <3>5, <1>2, NoRemovalWhileLive
    <3> QED BY <2>4, <3>1, <3>2, <3>3, <3>4, <3>5 DEF StopDaemon
  <2>5. CASE TerminateRoom(c)
    <3>1. pc[c] \in {"vpnStop", "observe", "clickTerm", "clear"} /\ (pc[c] = "observe" => IsTerminate(c))
      BY <2>5, <1>t, TerminateMoves, Zenon DEF TerminateEffect
    <3>2. IsTerminate(c) /\ latest = c
      BY <3>1, <2>t, <2>m DEF Over
    <3> QED BY <2>0, <3>1, <3>2 DEF PastStop
  <2>6. CASE Work(c)
    <3>1. PICK l \in Working \cup {"loop", "sdRead", "shell", "done"} :
                Goto(c, l) /\ (pc[c] = "launch" => l = "observe")
      BY <2>6, WorkMoves, Zenon DEF WorkEffect
    <3>2. pc[c] \in Working /\ UNCHANGED <<mode, latest>> /\ (IsTerminate(c) => pc[c] # "observe")
      BY <2>6, WorkMoves, Zenon DEF WorkEffect
    <3>3. ~IsTerminate(c)
      <4> SUFFICES ASSUME IsTerminate(c) PROVE FALSE
        OBVIOUS
      <4>1. pc[c] = "launch"
        BY <3>2 DEF TurnInv, TerminatePlaces, PastStop, Working
      <4>2. latest = c
        BY <4>1, <2>t DEF Over
      <4> QED BY <4>1, <4>2, <2>0 DEF PastStop
    <3>4. ~IsTerminate(c)'
      BY <3>2, <3>3 DEF IsTerminate
    <3> QED BY <3>1, <3>4, <1>t DEF Working
  <2>7. CASE Crash(c)
    BY <2>7, <1>t DEF Crash, PastStop
  <2> QED BY <1>t, <2>1, <2>2, <2>3, <2>4, <2>5, <2>6, <2>7, OthersStay, LatestMoves DEF OwnStep
<1> QED BY <1>t, <1>1, <1>2, LiveStays

\* What only the room's work, or Terminate, changes.
LEMMA RoomMoves ==
    ASSUME ProcTypes, [Next]_vars
    PROVE  \/ UNCHANGED <<result, trouble, vpn, hostEntry, starting>>
           \/ \E p \in Procs : OrphanStarts(p)
           \/ \E c \in Cmds : TerminateRoom(c)
           \/ \E p \in Procs : Work(p)
<1> DEFINE Goal == UNCHANGED <<result, trouble, vpn, hostEntry, starting>>
<1> USE DEF roomVars
<1>1. ASSUME NEW c \in Cmds, NEW m \in Modes, Begin(c, m) PROVE Goal
  BY <1>1, Zenon DEF Begin
<1>2. ASSUME NEW c \in Cmds, StartLoop(c) PROVE Goal
  BY <1>2, Zenon DEF StartLoop, SdRead, SdCheck, SdNoSpawn, SdSpawn, SdOpen, OpenFor, SdWrite,
       WriteFrom
<1>3. ASSUME NEW c \in Cmds, StopDaemon(c) PROVE Goal
  BY <1>3, Zenon DEF StopDaemon, SpRead, SpSignal, SpKill, SpGone, SpRemove
<1>4. ASSUME NEW d \in Daemons, Daemon(d) PROVE Goal
  BY <1>4, Zenon DEF Daemon, Tick, ExitLoop, SignalExit, Reuse, StopLoop, Boot, WriteOwn,
       OpenFor, WriteFrom, procVars
<1>5. ASSUME NEW p \in Procs, Crash(p) PROVE Goal
  BY <1>5, Zenon DEF Crash
<1>6. CASE MachineStops
  BY <1>6, Zenon DEF MachineStops, procVars
<1>7. CASE Finished \/ UNCHANGED vars
  BY <1>7, Zenon DEF Finished, vars, procVars
<1> QED BY <1>1, <1>2, <1>3, <1>4, <1>5, <1>6, <1>7, Zenon DEF Next, ByItself

\* After stopLoopDaemon nothing puts back what Terminate removes.
LEMMA CleanInductive ==
    ASSUME ~Overlap, TurnInv, [Next]_vars PROVE NothingPutBack'
<1> DEFINE Clean(c) ==
      /\ pc[c] \in {"launch", "observe", "clickTerm", "clear", "done"} =>
            /\ starting # {} => <<c, "orphan">> \in trouble
            /\ vpn => <<c, "vpn">> \in trouble \/ <<c, "orphan">> \in trouble
      /\ pc[c] = "done" /\ result[c] \in {"terminated", "not running"} /\ hostEntry
            => <<c, "hosts">> \in trouble
<1> SUFFICES ASSUME NEW c \in Cmds, IsTerminate(c)', latest' = c PROVE Clean(c)'
  BY DEF NothingPutBack
<1> USE InitVMAssumption DEF Goto, ProcTypes, Procs
<1>t. ProcTypes /\ PidsSpawned
  BY DEF TurnInv, PidInv
<1>1. ASSUME NEW k \in Cmds, NEW m \in Modes, Begin(k, m) PROVE Clean(c)'
  <2>1. pc'[c] = "spRead"
    BY <1>1, <1>t DEF Begin, IsTerminate
  <2> QED BY <2>1
<1>2. ASSUME latest' = latest PROVE Clean(c)'
  <2>a. \A k \in Cmds : pc[k] \notin Over => k = c
    BY <1>2 DEF TurnInv, OnlyLatestActs
  <2>b. IsTerminate(c) => Clean(c)
    BY <1>2 DEF TurnInv, NothingPutBack
  <2>c. IsTerminate(c) => pc[c] \in PastStop \cup {"spRead", "spSignal", "spWait", "dead"}
    BY DEF TurnInv, TerminatePlaces
  <2>1. ASSUME IsTerminate(c), UNCHANGED <<result, trouble, vpn, hostEntry, starting>>, Stays(c)
        PROVE  Clean(c)'
    BY <2>1, <2>b DEF Stays
  <2>2. CASE StartLoop(c)
    <3>1. pc[c] \in {"sdRead", "sdCheck", "sdSpawn", "sdOpen", "sdWrite"} /\ mode' = mode
      BY <2>2, Zenon DEF StartLoop, SdRead, SdCheck, SdNoSpawn, SdSpawn, SdOpen, OpenFor,
         SdWrite, WriteFrom
    <3> QED BY <3>1, <2>c DEF IsTerminate, PastStop
  <2>3. CASE StopDaemon(c)
    <3>1. pc'[c] \in {"spRemove", "spSignal", "spWait", "vpnStop"}
      <4> USE DEF PidsSpawned, Held
      <4>1. CASE SpRead(c)
        <5>1. Goto(c, "vpnStop") \/ Goto(c, "spRemove") \/ Goto(c, "spSignal")
          BY <4>1, SpReadPlaces, Zenon
        <5> QED BY <5>1, <1>t
      <4>2. CASE SpSignal(c)
        BY <4>2, <1>t DEF SpSignal
      <4>3. CASE SpKill(c)
        BY <4>3, <1>t DEF SpKill
      <4>4. CASE SpGone(c)
        BY <4>4, <1>t DEF SpGone
      <4>5. CASE SpRemove(c)
        BY <4>5, <1>t DEF SpRemove
      <4> QED BY <2>3, <4>1, <4>2, <4>3, <4>4, <4>5 DEF StopDaemon
    <3> QED BY <3>1
  <2>4. CASE TerminateRoom(c)
    <3>e. TerminateEffect(c)
      BY <2>4, <1>t, TerminateMoves
    <3>1. IsTerminate(c)
      <4>1. mode' = mode
        BY <3>e, Zenon DEF TerminateEffect
      <4> QED BY <4>1 DEF IsTerminate
    <3>2. PICK l \in {"launch", "clickTerm", "clear", "done"} :
              /\ Goto(c, l)
              /\ pc[c] = "vpnStop" <=> l = "launch"
              /\ l = "done" => pc[c] = "clear" \/ result' = [result EXCEPT ![c] = "failed"]
      BY <3>e, Zenon DEF TerminateEffect
    <3>3. pc'[c] = l
      BY <3>2, <1>t
    <3>4. /\ starting' # {} => <<c, "orphan">> \in trouble'
          /\ vpn' => <<c, "vpn">> \in trouble' \/ <<c, "orphan">> \in trouble'
      <4>1. CASE pc[c] = "vpnStop"
        BY <4>1, <3>e, Zenon DEF TerminateEffect
      <4>2. CASE pc[c] # "vpnStop"
        <5>1. vpn' = vpn /\ starting' = starting /\ trouble \subseteq trouble'
          BY <4>2, <3>e, Zenon DEF TerminateEffect
        <5>2. pc[c] \in {"launch", "observe", "clickTerm", "clear", "done"}
          BY <4>2, <3>e DEF TerminateEffect
        <5>3. /\ starting # {} => <<c, "orphan">> \in trouble
              /\ vpn => <<c, "vpn">> \in trouble \/ <<c, "orphan">> \in trouble
          BY <5>2, <2>b, <3>1
        <5> QED BY <5>1, <5>3, Zenon
      <4> QED BY <4>1, <4>2
    <3>5. pc[c] = "clear" /\ hostEntry' => <<c, "hosts">> \in trouble'
      BY <3>e, Zenon DEF TerminateEffect
    <3>6. pc'[c] = "done" => pc[c] = "clear" \/ result'[c] = "failed"
      BY <3>2, <3>3, <1>t
    <3> QED BY <3>4, <3>5, <3>6
  <2>5. CASE Work(c)
    <3>1. /\ pc[c] \in Working /\ mode' = mode
          /\ IsTerminate(c) => pc[c] # "observe"
          /\ pc[c] \notin {"findIP", "vpnStart", "vpnWait"} => UNCHANGED <<hostEntry, vpn, starting>>
          /\ trouble' = trouble
      BY <2>5, WorkMoves, Zenon DEF WorkEffect
    <3>2. PICK l : Goto(c, l) /\ (pc[c] = "launch" => l = "observe")
      BY <2>5, WorkMoves, Zenon DEF WorkEffect
    <3>3. IsTerminate(c)
      BY <3>1 DEF IsTerminate
    <3>4. pc[c] = "launch"
      BY <3>1, <3>3, <2>c DEF Working, PastStop
    <3>5. pc'[c] = "observe" /\ UNCHANGED <<vpn, starting>>
      BY <3>1, <3>2, <3>4, <1>t
    <3>6. /\ starting # {} => <<c, "orphan">> \in trouble
          /\ vpn => <<c, "vpn">> \in trouble \/ <<c, "orphan">> \in trouble
      BY <3>3, <3>4, <2>b
    <3> QED BY <3>1, <3>5, <3>6
  <2>6. CASE Crash(c)
    BY <2>6, <1>t DEF Crash
  <2>7. CASE ~OwnStep(c)
    <3>1. Stays(c)
      BY <2>7, <1>t, OthersStay
    <3>2. IsTerminate(c)
      BY <3>1 DEF Stays, IsTerminate
    <3>3. ASSUME NEW k \in Cmds, TerminateRoom(k) PROVE FALSE
      <4>1. pc[k] \in {"vpnStop", "observe", "clickTerm", "clear"}
        BY <3>3, <1>t, TerminateMoves, Zenon DEF TerminateEffect
      <4> QED BY <4>1, <3>3, <2>a, <2>7 DEF OwnStep, Over
    <3>4. ASSUME NEW p \in Procs, Work(p) PROVE Clean(c)'
      <4>0. pc[p] \in Working /\ result' = result /\ trouble' = trouble
        BY <3>4, WorkMoves, Zenon DEF WorkEffect
      <4>1. p \in Daemons
        BY <4>0, <3>4, <2>a, <2>7 DEF OwnStep, Over, Working
      <4>2. Live(p)
        BY <4>0 DEF Live, Running, Working
      <4>3. pc[c] \notin PastStop
        BY <4>1, <4>2, <3>2, <1>2 DEF TurnInv, LiveAsSeen
      <4> QED BY <4>3, <3>1 DEF Stays, PastStop
    <3>5. ASSUME NEW p \in Procs, OrphanStarts(p) PROVE Clean(c)'
      <4>1. starting # {} /\ UNCHANGED <<result, trouble, hostEntry>> /\ starting' \subseteq starting
        BY <3>5, Zenon DEF OrphanStarts, procVars
      <4> QED BY <4>1, <2>b, <3>1, <3>2 DEF Stays
    <3> QED BY <1>t, <2>1, <3>1, <3>2, <3>3, <3>4, <3>5, RoomMoves
  <2> QED BY <2>2, <2>3, <2>4, <2>5, <2>6, <2>7, <1>1 DEF OwnStep
<1> QED BY <1>t, <1>1, <1>2, LatestMoves

-----------------------------------------------------------------------------

\* The invariant is inductive when commands do not overlap.
LEMMA TurnInductive == ~Overlap /\ TurnInv /\ [Next]_vars => TurnInv'
BY PidInductive, LatestInductive, PlacesInductive, OwnFileInductive, OneDaemonInductive,
   TrackedInductive, SeenInductive, CleanInductive, Zenon DEF TurnInv

\* It holds before the first command.
LEMMA TurnInit == Init => TurnInv
<1> SUFFICES ASSUME Init PROVE TurnInv
  OBVIOUS
<1> USE InitVMAssumption DEF Procs
<1>0. /\ pc = [p \in Procs |-> "idle"] /\ mode = [c \in Cmds |-> "none"]
      /\ seen = [c \in Cmds |-> Absent] /\ pidfile = Absent
  BY DEF Init
<1>1. PidInv
  BY DEF Init, PidInv, PidsSpawned, StoppedIsDead, Held, ProcTypes, Labels
<1>2. OnlyLatestActs /\ OwnFileOpen
  BY <1>0 DEF OnlyLatestActs, OwnFileOpen, Over
<1>3. TerminatePlaces
  BY <1>0 DEF TerminatePlaces, IsTerminate, StopLabels
<1>4. \A d \in Daemons : ~Live(d)
  BY <1>0 DEF Live, Running
<1>5. NothingPutBack
  BY <1>0 DEF NothingPutBack, IsTerminate
<1> QED BY <1>1, <1>2, <1>3, <1>4, <1>5 DEF TurnInv, AtMostOneDaemon, DaemonTracked, LiveAsSeen

\* Commands given one after the other keep the invariant, however many there are.
THEOREM TurnHolds == ASSUME ~Overlap PROVE Spec => []TurnInv
<1>1. TurnInv /\ [Next]_vars => TurnInv'
  BY TurnInductive
<1> QED BY <1>1, TurnInit, PTL DEF Spec

\* Commands given one after the other leave at most one daemon that extends the room:
\* the check of the pid file keeps a second one out, whatever died before.
THEOREM OneDaemon == ASSUME ~Overlap PROVE Spec => []AtMostOneDaemon
<1>1. TurnInv => AtMostOneDaemon
  BY DEF TurnInv
<1> QED BY <1>1, TurnHolds, PTL

\* The pid file names the live daemon once it has written its pid, or the command that
\* spawned it is about to write the same pid again.
THEOREM Tracked == ASSUME ~Overlap PROVE Spec => []DaemonTracked
<1>1. TurnInv => DaemonTracked
  BY DEF TurnInv
<1> QED BY <1>1, TurnHolds, PTL

\* After stopLoopDaemon, until the next command, no daemon is left to start the
\* machine again.
THEOREM Quiet == ASSUME ~Overlap PROVE Spec => []QuietAfterStop
<1>1. TurnInv => QuietAfterStop
  BY DEF TurnInv, LiveAsSeen, QuietAfterStop, Stopped, PastStop
<1> QED BY <1>1, TurnHolds, PTL

\* A Terminate that reports success leaves no hosts entry and no VPN it did not warn of.
THEOREM Cleans == ASSUME ~Overlap PROVE Spec => []TerminateCleans
<1>1. TurnInv => TerminateCleans
  BY DEF TurnInv, NothingPutBack, TerminateCleans, Stopped
<1> QED BY <1>1, TurnHolds, PTL

=============================================================================
