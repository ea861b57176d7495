------------------------------- MODULE InitVM -------------------------------
(***************************************************************************)
(* The life cycle of one room under the init-vm command: the commands      *)
(* start, loop, extend and terminate, the background daemon a loop leaves  *)
(* behind, the pid file they coordinate through, and the three things they *)
(* manage for the user: the room's virtual machine, its /etc/hosts entry   *)
(* and the VPN (pkg/vm/vm.go).                                             *)
(*                                                                         *)
(* A process identifier is a member of Daemons: a daemon that died leaves  *)
(* its pid free, and the system may give it to an unrelated process.       *)
(* The login prompt (module LoginGate), the hosts file's contents (module  *)
(* HostsFile) and the browser are abstracted to the outcome they have here.*)
(***************************************************************************)
EXTENDS Naturals, FiniteSets

CONSTANTS
    Cmds,       \* invocations of init-vm from a terminal, each used once
    Daemons,    \* pids of the daemons that loop commands spawn
    Absent,     \* the pid file does not exist
    Empty,      \* it exists but holds no number: opened, not yet written
    Overlap     \* FALSE: the user runs one command at a time (see Settled)

ASSUME InitVMAssumption ==
    /\ Cmds \cap Daemons = {}
    /\ Absent \notin Cmds \cup Daemons /\ Empty \notin Cmds \cup Daemons
    /\ Absent # Empty
    /\ Overlap \in BOOLEAN

VARIABLES
    pc, mode,       \* where each process is, and which command it runs
    seen,           \* the pid a command has read or spawned
    result,         \* what a command reported
    trouble,        \* failures the program only warned of, or ignored
    latest,         \* the command the user gave last
    pidfile, openFd,\* the pid file, and who has it open for writing
    handlers,       \* daemons whose browser signal handler is installed
    notified,       \* daemons past signal.Notify in LoopExtend
    term, queued,   \* SIGTERM delivered; and also waiting in sigChan
    foreign,        \* dead daemons' pids now used by unrelated processes
    vm, hostEntry, vpn,
    starting        \* processes whose `vpn.sh start` runs; it can outlive them

procVars == <<pc, mode, seen, result, trouble, latest>>
fileVars == <<pidfile, openFd>>
sigVars == <<handlers, notified, term, queued, foreign>>
roomVars == <<vm, hostEntry, vpn, starting>>
vars == <<procVars, fileVars, sigVars, roomVars>>

Procs == Cmds \cup Daemons
Modes == {"start", "loop", "extend", "terminate"}
StopLabels == {"spSignal", "spWait", "spRemove"}
Labels ==
    {"idle", "launch", "observe", "clickStart", "clickAdd", "findIP", "vpnStart", "vpnWait",
     "sdRead", "sdCheck", "sdSpawn", "sdOpen", "sdWrite", "shell",
     "spRead", "vpnStop", "clickTerm", "clear", "boot", "write", "loop",
     "exit", "done", "dead"} \cup StopLabels
Over == {"idle", "shell", "done", "dead"}

ProcTypes ==
    /\ pc \in [Procs -> Labels]
    /\ mode \in [Cmds -> Modes \cup {"none"}]
    /\ seen \in [Cmds -> Daemons \cup {Absent, Empty}]
    /\ result \in [Cmds -> {"none", "terminated", "not running", "failed"}]
    /\ trouble \subseteq Cmds \X {"vpn", "hosts", "orphan"}
    /\ latest \in Cmds \cup {Absent}
    /\ pidfile \in Daemons \cup {Absent, Empty}
    /\ openFd \subseteq Procs
    /\ handlers \subseteq Daemons
    /\ starting \subseteq Procs
    /\ notified \subseteq Daemons /\ term \subseteq Daemons
    /\ queued \subseteq Daemons /\ foreign \subseteq Daemons

RoomTypes == vm \in BOOLEAN /\ hostEntry \in BOOLEAN /\ vpn \in BOOLEAN

TypeOK == ProcTypes /\ RoomTypes

Init ==
    /\ pc = [p \in Procs |-> "idle"]
    /\ mode = [c \in Cmds |-> "none"]
    /\ seen = [c \in Cmds |-> Absent]
    /\ result = [c \in Cmds |-> "none"]
    /\ trouble = {}
    /\ latest = Absent
    /\ pidfile = Absent /\ openFd = {}
    /\ handlers = {} /\ notified = {} /\ term = {} /\ queued = {} /\ foreign = {}
    /\ vm \in BOOLEAN /\ hostEntry = FALSE /\ vpn = FALSE /\ starting = {}

-----------------------------------------------------------------------------
Goto(p, l) == pc' = [pc EXCEPT ![p] = l]

\* What process.Signal(0) finds: the daemon, or whatever got its pid later.
Running(d) == pc[d] \notin {"idle", "dead"}
Exists(d) == Running(d) \/ d \in foreign

\* A daemon that can still act on the room: neither gone nor on its way out.
Live(d) == Running(d) /\ pc[d] # "exit"

\* The commands of one user at one terminal run one after the other, and a
\* person's next command reads the pid file later than the microseconds a
\* spawned daemon needs to write its own pid.
Settled == Overlap \/ \A d \in Daemons : pc[d] \notin {"boot", "write"}

Begin(c, m) ==
    /\ pc[c] = "idle"
    /\ Overlap \/ \A k \in Cmds : pc[k] \in Over
    /\ mode' = [mode EXCEPT ![c] = m]
    /\ Goto(c, IF m = "terminate" THEN "spRead" ELSE "launch")
    /\ latest' = c
    /\ UNCHANGED <<seen, result, trouble, fileVars, sigVars, roomVars>>

\* browser.Launch, navigation and the login prompt, up to the question whether
\* the machine is active. Launch installs the process's exit-on-signal handler
\* (a command's Ctrl+C is Crash).
Launched(p) ==
    /\ pc[p] = "launch"
    /\ Goto(p, "observe")
    /\ handlers' = handlers \cup ({p} \cap Daemons)
    /\ UNCHANGED <<mode, seen, result, trouble, latest, fileVars, notified, term,
                   queued, foreign, roomVars>>

\* The page shows an active machine only if there is one; a page that is not
\* rendered in time, or not logged in, shows none although there is.
ShowsActive(answer) == answer => vm

IsStart(p) == p \in Cmds /\ mode[p] \in {"start", "loop"}
IsTerminate(p) == p \in Cmds /\ mode[p] = "terminate"

Observe(p, answer) ==
    /\ pc[p] = "observe" /\ ~IsTerminate(p)
    /\ ShowsActive(answer)
    /\ Goto(p, CASE ~answer -> "clickStart"
                 [] answer /\ IsStart(p) -> "findIP"
                 [] OTHER -> "clickAdd")
    /\ UNCHANGED <<mode, seen, result, trouble, latest, fileVars, sigVars, roomVars>>

\* Where Start, Extend and the daemon's Extend go when the room's work is over.
AfterWork(p) ==
    CASE p \in Daemons -> "loop"
      [] p \in Cmds /\ mode[p] = "loop" -> "sdRead"
      [] p \in Cmds /\ mode[p] = "start" -> "shell"
      [] OTHER -> "done"

FinishWork(p) ==
    /\ Goto(p, AfterWork(p))
    /\ notified' = notified \cup ({p} \cap Daemons)

\* The start button is there only while no machine runs; the click may fail.
ClickStart(p, clicked) ==
    /\ pc[p] = "clickStart"
    /\ clicked => ~vm
    /\ IF clicked THEN vm' = TRUE /\ Goto(p, "findIP") /\ UNCHANGED notified
                  ELSE FinishWork(p) /\ UNCHANGED vm
    /\ UNCHANGED <<mode, seen, result, trouble, latest, fileVars, handlers, term,
                   queued, foreign, hostEntry, vpn, starting>>

ClickAdd(p) ==
    /\ pc[p] = "clickAdd"
    /\ FinishWork(p)
    /\ UNCHANGED <<mode, seen, result, trouble, latest, fileVars, handlers, term,
                   queued, foreign, roomVars>>

\* logTargetIP: an address found on the page, the machine's or any other in the
\* text, goes into the hosts file; that the file could not be written is ignored.
FindIP(p, found) ==
    /\ pc[p] = "findIP"
    /\ IF found THEN hostEntry' \in {hostEntry, TRUE} /\ Goto(p, "vpnStart") /\ UNCHANGED notified
                ELSE FinishWork(p) /\ UNCHANGED hostEntry
    /\ UNCHANGED <<mode, seen, result, trouble, latest, fileVars, handlers, term,
                   queued, foreign, vm, vpn, starting>>

\* startVPNAndScan runs vpn.sh as a process of its own, unless the script is missing.
StartVPN(p) ==
    /\ pc[p] = "vpnStart"
    /\ \/ starting' = starting \cup {p} /\ Goto(p, "vpnWait") /\ UNCHANGED notified
       \/ FinishWork(p) /\ UNCHANGED starting
    /\ UNCHANGED <<mode, seen, result, trouble, latest, fileVars, handlers, term,
                   queued, foreign, vm, hostEntry, vpn>>

\* The script ends, with or without success.
VPNStarted(p) ==
    /\ pc[p] = "vpnWait"
    /\ starting' = starting \ {p}
    /\ vpn' \in {vpn, TRUE}
    /\ FinishWork(p)
    /\ UNCHANGED <<mode, seen, result, trouble, latest, fileVars, handlers, term,
                   queued, foreign, vm, hostEntry>>

-----------------------------------------------------------------------------
(* startLoopDaemon *)

SdRead(c) ==
    /\ pc[c] = "sdRead" /\ Settled
    /\ seen' = [seen EXCEPT ![c] = pidfile]
    /\ Goto(c, IF pidfile \in Daemons THEN "sdCheck" ELSE "sdSpawn")
    /\ UNCHANGED <<mode, result, trouble, latest, fileVars, sigVars, roomVars>>

\* Variant with a defect: whether the process still runs is not asked.
SdNoCheck(c) ==
    /\ pc[c] = "sdCheck"
    /\ Goto(c, "sdSpawn")
    /\ UNCHANGED <<mode, seen, result, trouble, latest, fileVars, sigVars, roomVars>>

SdCheck(c) ==
    /\ pc[c] = "sdCheck"
    /\ Goto(c, IF Exists(seen[c]) THEN "shell" ELSE "sdSpawn")
    /\ UNCHANGED <<mode, seen, result, trouble, latest, fileVars, sigVars, roomVars>>

SdSpawn(c, d) ==
    /\ pc[c] = "sdSpawn" /\ pc[d] = "idle"
    /\ pc' = [pc EXCEPT ![c] = "sdOpen", ![d] = "boot"]
    /\ seen' = [seen EXCEPT ![c] = d]
    /\ UNCHANGED <<mode, result, trouble, latest, fileVars, sigVars, roomVars>>

\* os.Executable or cmd.Start fails: a warning, and the shell all the same.
SdNoSpawn(c) ==
    /\ pc[c] = "sdSpawn"
    /\ Goto(c, "shell")
    /\ UNCHANGED <<mode, seen, result, trouble, latest, fileVars, sigVars, roomVars>>

\* os.WriteFile truncates or creates the file and writes it in a second step;
\* the text is lost when the file was removed in between. The spawning command
\* (content: its child) and the daemon (content: itself) both write it.
OpenFor(p, l) ==
    /\ pidfile' = Empty /\ openFd' = openFd \cup {p}
    /\ Goto(p, l)
    /\ UNCHANGED <<mode, seen, result, trouble, latest, sigVars, roomVars>>

WriteFrom(p, d, l) ==
    /\ pidfile' = IF p \in openFd THEN d ELSE pidfile
    /\ openFd' = openFd \ {p}
    /\ Goto(p, l)
    /\ UNCHANGED <<mode, seen, result, trouble, latest, sigVars, roomVars>>

SdOpen(c) == pc[c] = "sdOpen" /\ OpenFor(c, "sdWrite")
SdWrite(c) == pc[c] = "sdWrite" /\ WriteFrom(c, seen[c], "shell")

-----------------------------------------------------------------------------
(* The daemon: LoopExtend *)

Boot(d) == pc[d] = "boot" /\ OpenFor(d, "write")
WriteOwn(d) == pc[d] = "write" /\ WriteFrom(d, d, "launch")

Tick(d) ==
    /\ pc[d] = "loop"
    /\ Goto(d, "launch")
    /\ UNCHANGED <<mode, seen, result, trouble, latest, fileVars, sigVars, roomVars>>

\* os.Remove: writers that still hold the file write into nothing.
RemoveFile == pidfile' = Absent /\ openFd' = {}

StopLoop(d) ==
    /\ pc[d] = "loop" /\ d \in queued
    /\ RemoveFile
    /\ Goto(d, "exit")
    /\ UNCHANGED <<mode, seen, result, trouble, latest, sigVars, roomVars>>

ExitLoop(d) ==
    /\ pc[d] = "exit"
    /\ Goto(d, "dead")
    /\ UNCHANGED <<mode, seen, result, trouble, latest, fileVars, sigVars, roomVars>>

\* The goroutine of registerBrowser: CloseAll, then os.Exit(1), wherever the
\* daemon's own goroutine is by then. The pid file stays.
SignalExit(d) ==
    /\ d \in term /\ Running(d)
    /\ Goto(d, "dead")
    /\ UNCHANGED <<mode, seen, result, trouble, latest, fileVars, sigVars, roomVars>>

-----------------------------------------------------------------------------
(* stopLoopDaemon and the rest of Terminate *)

SpRead(c) ==
    /\ pc[c] = "spRead" /\ Settled
    /\ seen' = [seen EXCEPT ![c] = pidfile]
    /\ Goto(c, CASE pidfile = Absent -> "vpnStop"
                 [] pidfile = Empty -> "spRemove"
                 [] OTHER -> "spSignal")
    /\ UNCHANGED <<mode, result, trouble, latest, fileVars, sigVars, roomVars>>

Catches(d) == Running(d) /\ d \in handlers

\* SIGTERM. A daemon without the browser's handler dies of it at once; with the
\* handler SignalExit is enabled, and a loop that listens has it in sigChan. An
\* unrelated process may or may not die of it.
SpSignal(c) ==
    /\ pc[c] = "spSignal"
    /\ pc' = [pc EXCEPT ![c] = "spWait",
                        ![seen[c]] = IF Running(seen[c]) /\ ~Catches(seen[c]) THEN "dead" ELSE @]
    /\ term' = IF Catches(seen[c]) THEN term \cup {seen[c]} ELSE term
    /\ queued' = IF Catches(seen[c]) THEN queued \cup ({seen[c]} \cap notified) ELSE queued
    /\ foreign' \in {foreign, foreign \ {seen[c]}}
    /\ UNCHANGED <<mode, seen, result, trouble, latest, fileVars, handlers,
                   notified, roomVars>>

\* Variant with a defect: the process is taken to be gone.
SpAssumeGone(c) ==
    /\ pc[c] = "spWait"
    /\ Goto(c, "spRemove")
    /\ UNCHANGED <<mode, seen, result, trouble, latest, fileVars, sigVars, roomVars>>

SpGone(c) ==
    /\ pc[c] = "spWait" /\ ~Exists(seen[c])
    /\ Goto(c, "spRemove")
    /\ UNCHANGED <<mode, seen, result, trouble, latest, fileVars, sigVars, roomVars>>

\* Variants with a defect: giving up without SIGKILL; waiting for the daemon's
\* own exit however long it takes.
SpGiveUp(c) ==
    /\ pc[c] = "spWait" /\ Exists(seen[c])
    /\ Goto(c, "spRemove")
    /\ UNCHANGED <<mode, seen, result, trouble, latest, fileVars, sigVars, roomVars>>
SpNoKill(c) == FALSE /\ UNCHANGED vars

\* Still there after twenty polls: SIGKILL.
SpKill(c) ==
    /\ pc[c] = "spWait" /\ Exists(seen[c])
    /\ pc' = [pc EXCEPT ![c] = "spRemove",
                        ![seen[c]] = IF Running(seen[c]) THEN "dead" ELSE @]
    /\ foreign' = foreign \ {seen[c]}
    /\ UNCHANGED <<mode, seen, result, trouble, latest, fileVars, handlers,
                   notified, term, queued, roomVars>>

SpRemove(c) ==
    /\ pc[c] = "spRemove"
    /\ RemoveFile
    /\ Goto(c, "vpnStop")
    /\ UNCHANGED <<mode, seen, result, trouble, latest, sigVars, roomVars>>

\* vpn.sh stop; its failure is only a warning. A `vpn.sh start` that a process
\* left when it died, and that still runs, is not looked for.
StopVPN(c, ok) ==
    /\ pc[c] = "vpnStop"
    /\ vpn' = IF ok THEN FALSE ELSE vpn
    /\ trouble' = trouble \cup (IF ok THEN {} ELSE {<<c, "vpn">>})
                          \cup (IF starting = {} THEN {} ELSE {<<c, "orphan">>})
    /\ Goto(c, "launch")
    /\ UNCHANGED <<mode, seen, result, latest, fileVars, sigVars, vm, hostEntry, starting>>

\* Terminate looks at the page once and believes it.
ObserveOnce(c, answer) ==
    /\ pc[c] = "observe" /\ IsTerminate(c)
    /\ ShowsActive(answer)
    /\ Goto(c, IF answer THEN "clickTerm" ELSE "clear")
    /\ result' = [result EXCEPT ![c] = IF answer THEN @ ELSE "not running"]
    /\ UNCHANGED <<mode, seen, trouble, latest, fileVars, sigVars, roomVars>>

\* A second click on a button that is still alone counts as the confirmation.
ClickTerminate(c, confirmed) ==
    /\ pc[c] = "clickTerm"
    /\ vm' \in (IF confirmed THEN {FALSE, vm} ELSE {vm})
    /\ Goto(c, IF confirmed THEN "clear" ELSE "done")
    /\ result' = [result EXCEPT ![c] = IF confirmed THEN "terminated" ELSE "failed"]
    /\ UNCHANGED <<mode, seen, trouble, latest, fileVars, sigVars, hostEntry, vpn, starting>>

\* hosts.RemoveEntry
ClearEntry(c, ok) ==
    /\ pc[c] = "clear"
    /\ hostEntry' = IF ok THEN FALSE ELSE hostEntry
    /\ trouble' = IF ok THEN trouble ELSE trouble \cup {<<c, "hosts">>}
    /\ Goto(c, "done")
    /\ UNCHANGED <<mode, seen, result, latest, fileVars, sigVars, vm, vpn, starting>>

-----------------------------------------------------------------------------
(* What happens around the program *)

\* A process dies anywhere: log.Fatal when Chrome does not launch, the panic of
\* hasActiveVM.(bool) on a nil, Ctrl+C, SIGKILL, a reboot's logout. A command
\* at a terminal does not die inside one os.WriteFile.
Crash(p) ==
    /\ pc[p] \notin Over
    /\ Overlap \/ pc[p] # "sdWrite"
    /\ Goto(p, "dead")
    /\ openFd' = openFd \ {p}
    /\ UNCHANGED <<mode, seen, result, trouble, latest, pidfile, sigVars, roomVars>>

\* The room's lease ends, or the user terminates the machine on the site.
MachineStops ==
    /\ vm /\ vm' = FALSE
    /\ UNCHANGED <<procVars, fileVars, sigVars, hostEntry, vpn, starting>>

\* The script that a dead process has left goes on to its end.
OrphanStarts(p) ==
    /\ p \in starting /\ pc[p] = "dead"
    /\ starting' = starting \ {p}
    /\ vpn' \in {vpn, TRUE}
    /\ UNCHANGED <<procVars, fileVars, sigVars, vm, hostEntry>>

\* What no process of init-vm does.
ByItself == MachineStops \/ \E p \in Procs : OrphanStarts(p)

\* The system gives a dead daemon's pid to another process.
Reuse(d) ==
    /\ pc[d] = "dead" /\ d \notin foreign
    /\ foreign' = foreign \cup {d}
    /\ UNCHANGED <<procVars, fileVars, handlers, notified, term, queued, roomVars>>

Work(p) ==
    \/ Launched(p)
    \/ \E answer \in BOOLEAN : Observe(p, answer) \/ ClickStart(p, answer) \/ FindIP(p, answer)
    \/ ClickAdd(p)
    \/ StartVPN(p) \/ VPNStarted(p)

StartLoop(c) ==
    \/ SdRead(c) \/ SdCheck(c) \/ SdNoSpawn(c) \/ SdOpen(c) \/ SdWrite(c)
    \/ \E d \in Daemons : SdSpawn(c, d)

StopDaemon(c) == SpRead(c) \/ SpSignal(c) \/ SpGone(c) \/ SpKill(c) \/ SpRemove(c)

TerminateRoom(c) ==
    \E ok \in BOOLEAN : StopVPN(c, ok) \/ ObserveOnce(c, ok) \/ ClickTerminate(c, ok)
                         \/ ClearEntry(c, ok)

Daemon(d) ==
    \/ Boot(d) \/ WriteOwn(d) \/ Tick(d) \/ StopLoop(d) \/ ExitLoop(d) \/ SignalExit(d)
    \/ Reuse(d)

\* Every command is over and every daemon gone.
Finished ==
    /\ \A c \in Cmds : pc[c] \in Over \ {"idle"}
    /\ \A d \in Daemons : ~Running(d)
    /\ starting = {}
    /\ UNCHANGED vars

Next ==
    \/ \E c \in Cmds, m \in Modes : Begin(c, m)
    \/ \E c \in Cmds : StartLoop(c) \/ StopDaemon(c) \/ TerminateRoom(c)
    \/ \E d \in Daemons : Daemon(d)
    \/ \E p \in Procs : Work(p) \/ Crash(p)
    \/ ByItself
    \/ Finished

\* stopLoopDaemon is a bounded loop of system calls. Nothing is assumed of pages,
\* users and the network, nor that CloseAll returns in a daemon that is signalled.
Fairness ==
    \A c \in Cmds : WF_vars(SpSignal(c)) /\ WF_vars(SpGone(c) \/ SpKill(c)) /\ WF_vars(SpRemove(c))

Spec == Init /\ [][Next]_vars /\ Fairness

-----------------------------------------------------------------------------
(* Properties *)

\* Two loops never leave two daemons extending one room: startLoopDaemon's check
\* of the pid file keeps out the second one, whatever died in between, as long
\* as commands do not overlap.
AtMostOneDaemon == \A d, e \in Daemons : Live(d) /\ Live(e) => d = e

\* A daemon is always findable: once it has started, the pid file names it until
\* it is gone, but for the moment in which its parent rewrites the file.
DaemonTracked ==
    \A d \in Daemons : Live(d) /\ pc[d] \notin {"boot", "write"} =>
        \/ pidfile = d
        \/ \E c \in Cmds : pc[c] = "sdWrite" /\ seen[c] = d /\ c \in openFd

Stopped(c) ==
    /\ IsTerminate(c) /\ latest = c
    /\ pc[c] \in {"vpnStop", "launch", "observe", "clickTerm", "clear", "done"}

\* Once Terminate has gone past stopLoopDaemon, and until the user gives another
\* command, no daemon is left that could start the machine again.
QuietAfterStop ==
    \A c \in Cmds : Stopped(c) => \A d \in Daemons : ~Live(d)

\* A Terminate that reports success (or that there was nothing to do) leaves no
\* hosts entry and no VPN behind, unless the step that removes it failed: no
\* daemon killed in the middle of an Extend puts them back. But the `vpn.sh start`
\* that a dead process has left can, if it still ran at Terminate's `vpn.sh stop`.
TerminateCleans ==
    \A c \in Cmds :
        Stopped(c) /\ pc[c] = "done" /\ result[c] \in {"terminated", "not running"} =>
            /\ hostEntry => <<c, "hosts">> \in trouble
            /\ vpn => <<c, "vpn">> \in trouble \/ <<c, "orphan">> \in trouble

\* When stopLoopDaemon removes the pid file, the process the file named is gone
\* for good, however commands overlap.
StoppedIsDead ==
    \A c \in Cmds : pc[c] = "spRemove" /\ seen[c] \in Daemons => pc[seen[c]] = "dead"

\* stopLoopDaemon returns: neither a daemon that is busy closing Chrome, however
\* long that takes, nor an unrelated process that ignores SIGTERM holds Terminate
\* up; and the daemon is gone by then, unless the command has died itself.
StopReturns ==
    /\ \A c \in Cmds : pc[c] \in StopLabels ~> pc[c] \notin StopLabels
    /\ \A c \in Cmds, d \in Daemons :
          pc[c] = "spSignal" /\ seen[c] = d ~> pc[d] = "dead" \/ pc[c] = "dead"

\* README.md:75: terminate "Stops the local OpenVPN connection, terminates the
\* TryHackMe VM, and cleans up the /etc/hosts entry". A Terminate that believes
\* a page that is not rendered yet removes the entry and leaves the machine on.
TerminateStopsMachine ==
    \A c \in Cmds : Stopped(c) /\ pc[c] = "done" /\ result[c] # "failed" => ~vm
=============================================================================
