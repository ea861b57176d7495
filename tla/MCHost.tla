------------------------------- MODULE MCHost -------------------------------
(***************************************************************************)
(* What the commands of init-vm use on the user's machine: the browser      *)
(* window with its login prompt, the hosts file and the VPN script. They    *)
(* share no state, so TLC goes through one of them at a time, and through   *)
(* the script's calls only until sudo refuses a kill: nothing is said of    *)
(* what follows.                                                            *)
(***************************************************************************)
EXTENDS LoginGate, HostsFile, VpnScript

VARIABLE part

hostVars == <<part, gateVars, hostsVars, vpnVars>>

\* No goroutine of a program that has ended has anything to do.
GateAtEnd ==
    /\ main = "dead" /\ done = FALSE /\ prod = [p \in Producers |-> "end"]
    /\ exiting = "waiting" /\ browser = "closed"
    /\ tty = TRUE /\ headless = FALSE /\ unsaved = {}
    /\ loggedIn = FALSE /\ entered = FALSE /\ signalled = FALSE /\ session = "absent"

HostInit ==
    /\ part \in {"login", "hosts", "vpn"}
    /\ IF part = "login" THEN GateInit ELSE GateAtEnd
    /\ HostsInit /\ VpnInit
    /\ part # "hosts" => file = <<Blank>>

HostNext ==
    /\ UNCHANGED part
    /\ \/ part = "login" /\ GateNext /\ UNCHANGED <<hostsVars, vpnVars>>
       \/ part = "hosts" /\ HostsNext /\ UNCHANGED <<gateVars, vpnVars>>
       \/ /\ part = "vpn" /\ UNCHANGED <<gateVars, hostsVars>>
          /\ IF "kill" \in refused THEN UNCHANGED vpnVars ELSE VpnNext

HostSpec == HostInit /\ [][HostNext]_hostVars /\ GateFairness

\* The prompt opens with no session file or with one that has expired.
MCSession == {"absent", "user"}

\* Hosts files with and without a last newline, with a room named twice, empty,
\* and consisting of a room's line only.
MCComment == [ip |-> "none", host |-> "#"]
Local == Entry("localhost", "ip1")
MCFiles ==
    { <<Local, MCComment, Blank>>,
      <<MCComment, Blank, Local>>,
      <<Entry("r1", "ip1"), Local, Entry("r1", "ip2"), Blank>>,
      <<Entry("r2", "ip1")>>,
      <<Blank>> }
=============================================================================
