------------------------------ MODULE VpnScript ------------------------------
(***************************************************************************)
(* vpn.sh, which the commands run to start and stop the VPN, and which the  *)
(* user may run too. The commands of different rooms share one openvpn and  *)
(* one pid file; the script tests the file, reads it, looks for the process *)
(* and acts, each in a step of its own and without a lock. It ignores it    *)
(* when sudo refuses a kill, and when rm leaves the file, which is root's    *)
(* and in a sticky directory.                                               *)
(***************************************************************************)
EXTENDS Naturals, FiniteSets

CONSTANTS
    MaxCalls,       \* bound: calls of the script, numbered in the order they begin
    MaxUnder,       \* bound: calls under way at once
    VpnPids,        \* process ids
    NoPidFile

VpnCalls == 1..MaxCalls

ASSUME VpnAssumption == NoPidFile \notin VpnPids

VARIABLES
    mode,           \* the argument of each call that is under way, or "none"
    vpc, vseen,     \* its place; the pid it has read
    pidFile,        \* /tmp/openvpn_tryhackme.pid: a pid, or NoPidFile
    proc,           \* pids: "free", "openvpn", "dying" (has SIGTERM), "other"
    inTurn,         \* history: no call has begun during another
    lone,           \* history: no other call has overlapped the one that began last
    stops,          \* history: lone stops in a row, up to two
    upAfter,        \* history: a lone start has exited with 0 and nothing has been called since
    endedAlone,     \* history: since the last call's end an openvpn has ended by itself
    reused,         \* history: a pid was given to another process
    refused         \* history: "kill": sudo has refused one; "rm": rm has left the file

vpnVars == <<mode, vpc, vseen, pidFile, proc, inTurn, lone, stops, upAfter, endedAlone, reused, refused>>
vpnWorld == <<pidFile, proc, reused, refused>>
vpnHistory == <<inTurn, lone, stops, upAfter, endedAlone>>

VpnTypeOK ==
    /\ mode \in [VpnCalls -> {"none", "start", "stop", "restart"}]
    /\ vpc \in [VpnCalls -> {"idle", "look", "cat", "ps", "clean", "launch", "verify", "drop",
                             "kill", "wait", "force", "rm", "killall", "over"}]
    /\ vseen \in [VpnCalls -> VpnPids \cup {NoPidFile}]
    /\ pidFile \in VpnPids \cup {NoPidFile}
    /\ proc \in [VpnPids -> {"free", "openvpn", "dying", "other"}]
    /\ inTurn \in BOOLEAN /\ lone \in BOOLEAN
    /\ stops \in 0..2
    /\ upAfter \in BOOLEAN /\ endedAlone \in BOOLEAN /\ reused \in BOOLEAN
    /\ refused \subseteq {"kill", "rm"}

VpnInit ==
    /\ mode = [k \in VpnCalls |-> "none"] /\ vpc = [k \in VpnCalls |-> "idle"]
    /\ vseen = [k \in VpnCalls |-> NoPidFile]
    /\ pidFile = NoPidFile /\ proc = [p \in VpnPids |-> "free"]
    /\ inTurn = TRUE /\ lone = TRUE /\ stops = 0
    /\ upAfter = FALSE /\ endedAlone = FALSE /\ reused = FALSE /\ refused = {}

Under(k) == vpc[k] \notin {"idle", "over"}
VpnStep(k, from, to) == vpc[k] = from /\ vpc' = [vpc EXCEPT ![k] = to]
Alive(p) == p # NoPidFile /\ proc[p] # "free"

\* rm -f "$PID_FILE", which sudo would need to remove what openvpn has written.
Remove ==
    \/ pidFile' = NoPidFile /\ UNCHANGED refused
    \/ pidFile # NoPidFile /\ UNCHANGED pidFile /\ refused' = refused \cup {"rm"}

\* A kill by sudo, which leaves the processes as they should be, or is refused.
Sudo(after) ==
    \/ proc' = after /\ UNCHANGED refused
    \/ UNCHANGED proc /\ refused' = refused \cup {"kill"}

-----------------------------------------------------------------------------
(* Both functions                                                            *)

CallVpn(k, m) ==
    /\ VpnStep(k, "idle", "look") /\ \A j \in 1..(k - 1) : vpc[j] # "idle"
    /\ Cardinality({j \in VpnCalls : Under(j)}) < MaxUnder
    /\ mode' = [mode EXCEPT ![k] = m]
    /\ lone' = ~\E j \in VpnCalls : Under(j)
    /\ inTurn' = (inTurn /\ lone')
    /\ upAfter' = FALSE
    /\ UNCHANGED <<vseen, vpnWorld, stops, endedAlone>>

\* The script exits, a start with 0 or with 1.
Exit(k, ok) ==
    /\ vpc' = [vpc EXCEPT ![k] = "over"] /\ mode' = [mode EXCEPT ![k] = "none"]
    /\ vseen' = [vseen EXCEPT ![k] = NoPidFile]
    /\ stops' = IF mode[k] # "stop" \/ ~lone THEN 0
                ELSE IF stops = 2 THEN 2 ELSE stops + 1
    /\ upAfter' = (ok /\ mode[k] # "stop" /\ lone)
    /\ endedAlone' = FALSE
    /\ UNCHANGED <<inTurn, lone>>

\* Where stop_vpn ends, restart goes on with start_vpn.
StopOver(k) ==
    IF mode[k] = "restart"
    THEN /\ vpc' = [vpc EXCEPT ![k] = "look"] /\ mode' = [mode EXCEPT ![k] = "start"]
         /\ UNCHANGED <<vseen, vpnHistory>>
    ELSE Exit(k, TRUE)

LookForFile(k) ==
    /\ VpnStep(k, "look", IF pidFile # NoPidFile THEN "cat"
                          ELSE IF mode[k] = "start" THEN "launch" ELSE "killall")
    /\ UNCHANGED <<mode, vseen, vpnWorld, vpnHistory>>

\* Nothing is read when the file has gone meanwhile.
Cat(k) ==
    /\ VpnStep(k, "cat", "ps")
    /\ vseen' = [vseen EXCEPT ![k] = pidFile]
    /\ UNCHANGED <<mode, vpnWorld, vpnHistory>>

-----------------------------------------------------------------------------
(* start_vpn                                                                 *)

\* start_vpn takes any process with the pid for a running openvpn.
PsStart(k) ==
    /\ mode[k] = "start" /\ vpc[k] = "ps"
    /\ IF Alive(vseen[k]) THEN Exit(k, TRUE)
                          ELSE VpnStep(k, "ps", "clean") /\ UNCHANGED <<mode, vseen, vpnHistory>>
    /\ UNCHANGED vpnWorld

Clean(k) ==
    /\ VpnStep(k, "clean", "launch") /\ Remove
    /\ UNCHANGED <<mode, vseen, proc, reused, vpnHistory>>

NoConfig(k) ==
    /\ vpc[k] = "look" /\ mode[k] = "start" /\ Exit(k, FALSE)
    /\ UNCHANGED vpnWorld

\* openvpn writes its pid when it has become a daemon; 1.5 s are enough for that.
LaunchVpn(k) ==
    /\ VpnStep(k, "launch", "verify")
    /\ \/ \E p \in VpnPids : /\ proc[p] = "free"
                             /\ proc' = [proc EXCEPT ![p] = "openvpn"]
                             /\ pidFile' = p
       \/ UNCHANGED <<proc, pidFile>>
    /\ UNCHANGED <<mode, vseen, reused, refused, vpnHistory>>

Verify(k) ==
    /\ vpc[k] = "verify"
    /\ IF pidFile # NoPidFile /\ ~Alive(pidFile)
       THEN VpnStep(k, "verify", "drop") /\ UNCHANGED <<mode, vseen, vpnHistory>>
       ELSE Exit(k, pidFile # NoPidFile)
    /\ UNCHANGED vpnWorld

DropFile(k) ==
    /\ vpc[k] = "drop" /\ Exit(k, FALSE) /\ Remove
    /\ UNCHANGED <<proc, reused>>

-----------------------------------------------------------------------------
(* stop_vpn                                                                  *)

PsStop(k) ==
    /\ mode[k] # "start"
    /\ VpnStep(k, "ps", IF Alive(vseen[k]) THEN "kill" ELSE "rm")
    /\ UNCHANGED <<mode, vseen, vpnWorld, vpnHistory>>

Signalled(ps) == [p \in VpnPids |-> IF p \in ps /\ proc[p] # "free" THEN "dying" ELSE proc[p]]

Kill(k) ==
    /\ VpnStep(k, "kill", "wait")
    /\ Sudo(Signalled({vseen[k]}))
    /\ UNCHANGED <<mode, vseen, pidFile, reused, vpnHistory>>

\* Variant with a defect: a process that outlives the ten seconds is let be.
WaitAndLeave(k) ==
    /\ VpnStep(k, "wait", "rm")
    /\ UNCHANGED <<mode, vseen, vpnWorld, vpnHistory>>

\* The process is gone within ten seconds, or not.
WaitForEnd(k) ==
    /\ VpnStep(k, "wait", IF Alive(vseen[k]) THEN "force" ELSE "rm")
    /\ UNCHANGED <<mode, vseen, vpnWorld, vpnHistory>>

ForceKill(k) ==
    /\ VpnStep(k, "force", "rm")
    /\ Sudo([proc EXCEPT ![vseen[k]] = "free"])
    /\ UNCHANGED <<mode, vseen, pidFile, reused, vpnHistory>>

RemovePidFile(k) ==
    /\ vpc[k] = "rm" /\ StopOver(k) /\ Remove
    /\ UNCHANGED <<proc, reused>>

\* Without a pid file every openvpn is sent SIGTERM, and none is waited for.
KillAll(k) ==
    /\ vpc[k] = "killall" /\ StopOver(k)
    /\ Sudo(Signalled({p \in VpnPids : proc[p] = "openvpn"}))
    /\ UNCHANGED <<pidFile, reused>>

-----------------------------------------------------------------------------
(* The processes                                                             *)

ProcessEnds(p) ==
    /\ proc[p] \in {"openvpn", "dying"}
    /\ proc' = [proc EXCEPT ![p] = "free"]
    /\ endedAlone' = (endedAlone \/ proc[p] = "openvpn")
    /\ UNCHANGED <<mode, vpc, vseen, pidFile, inTurn, lone, stops, upAfter, reused, refused>>

OtherProcess(p) ==
    /\ proc[p] = "free" /\ proc' = [proc EXCEPT ![p] = "other"]
    /\ reused' = TRUE
    /\ UNCHANGED <<mode, vpc, vseen, pidFile, refused, vpnHistory>>

VpnNext ==
    \/ \E k \in VpnCalls :
          \/ \E m \in {"start", "stop", "restart"} : CallVpn(k, m)
          \/ LookForFile(k) \/ Cat(k)
          \/ PsStart(k) \/ Clean(k) \/ NoConfig(k) \/ LaunchVpn(k) \/ Verify(k) \/ DropFile(k)
          \/ PsStop(k) \/ Kill(k) \/ WaitForEnd(k) \/ ForceKill(k) \/ RemovePidFile(k) \/ KillAll(k)
    \/ \E p \in VpnPids : ProcessEnds(p) \/ OtherProcess(p)
    \/ (\A k \in VpnCalls : vpc[k] = "over") /\ UNCHANGED vpnVars

VpnSpec == VpnInit /\ [][VpnNext]_vpnVars

-----------------------------------------------------------------------------
(* Properties                                                                *)

OpenVpns == {p \in VpnPids : proc[p] = "openvpn"}
Remaining == {p \in VpnPids : proc[p] \in {"openvpn", "dying"}}

\* Calls given one after the other keep one openvpn, which the pid file names: a
\* stop leaves none, not even one that is about to end, and a start that exits
\* with 0 leaves one, unless a process has taken the pid of one that had ended.
\* That a pid file is left behind by rm does no harm to them. Calls that overlap
\* can leave several or none; whatever they left, two stops in a row after them
\* end it all, unless the file stays. None of it holds for what sudo refused to
\* kill.
VpnFollows ==
    LET quiet == \A k \in VpnCalls : ~Under(k)
    IN
    "kill" \notin refused =>
        /\ inTurn => OpenVpns \subseteq {pidFile}
        /\ quiet /\ stops # 0 /\ inTurn => Remaining = {}
        /\ quiet /\ stops = 2 /\ "rm" \notin refused => OpenVpns = {}
        /\ upAfter /\ inTurn => OpenVpns # {} \/ endedAlone \/ reused

=============================================================================
