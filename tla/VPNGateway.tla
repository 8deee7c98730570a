----------------------------- MODULE VPNGateway -----------------------------
(***************************************************************************)
(* The VPN gateway: `vpn start` and `vpn stop` in several terminals        *)
(* (runVPN in cmd/pentest/main.go, internal/vpn/vpn.go), and the one       *)
(* container with the gateway's name, whose entrypoint script is in        *)
(* containers/wireguard/Containerfile. Each podman command is a step.      *)
(*                                                                         *)
(* Controller and container share no state but podman's: the controller    *)
(* learns that the tunnel is up from the last lines of the container's     *)
(* log, which podman also shows of a container that has exited.            *)
(***************************************************************************)
EXTENDS Naturals

CONSTANTS
  Users,      \* terminals in which vpn commands run
  WaitTail,   \* log lines waitForConnection looks at (10 in the code)
  StatusTail, \* log lines Status looks at (5 in the code)
  MaxPolls    \* looks at the log before StartupTimeout has passed

ASSUME VPNAssumption ==
  /\ {WaitTail, StatusTail, MaxPolls} \subseteq Nat \ {0}
  /\ StatusTail <= WaitTail
  /\ "nobody" \notin Users

VARIABLES
  gateway, \* the container with the gateway's name, or NoGateway
  vpnCmd,  \* the command in each terminal
  ended    \* history: how the last start in each terminal ended

vpnVars == <<gateway, vpnCmd, ended>>

\* up: it runs; stage: how far its script has got; ks: KILLSWITCH=true was passed;
\* deny: the default-deny rules are in place; tunnel: wg0 is there; after: log lines
\* since "WireGuard connected", up to WaitTail; maker: whose `podman run` it came from.
Gateways == [up : BOOLEAN, stage : {"booting", "wg0 up", "connected"}, ks : BOOLEAN,
             deny : BOOLEAN, tunnel : BOOLEAN, after : 0..WaitTail, maker : Users]
NoGateway == [maker |-> "nobody"]

Exists == gateway # NoGateway
Up == Exists /\ gateway.up

New(u, up) == [up |-> up, stage |-> "booting", ks |-> vpnCmd[u].ks, deny |-> FALSE,
               tunnel |-> FALSE, after |-> 0, maker |-> u]

Resting == [at |-> "idle", ks |-> FALSE, made |-> FALSE, polls |-> 0]

Goes(u, place) == vpnCmd' = [vpnCmd EXCEPT ![u].at = place]

\* A start ends; runVPN reports, or log.Fatalf does.
Ends(u, how) ==
  /\ vpnCmd' = [vpnCmd EXCEPT ![u] = Resting]
  /\ ended' = [ended EXCEPT ![u] = how]

VPNInit ==
  /\ gateway = NoGateway
  /\ vpnCmd = [u \in Users |-> Resting]
  /\ ended = [u \in Users |-> "never"]
----------------------------------------------------------------------------
\* Start, with the kill switch configured or not.
BeginStart(u, ks) ==
  /\ vpnCmd[u].at = "idle"
  /\ vpnCmd' = [vpnCmd EXCEPT ![u] = [Resting EXCEPT !.at = "image", !.ks = ks]]
  /\ ended' = [ended EXCEPT ![u] = "never"]
  /\ UNCHANGED gateway

\* ensureImage finds or pulls the image, or fails; a disabled controller fails too.
EnsureImage(u) ==
  /\ vpnCmd[u].at = "image"
  /\ \/ Goes(u, "ps") /\ UNCHANGED ended
     \/ Ends(u, "error")
  /\ UNCHANGED gateway

\* A gateway that runs already is used as it is. When podman ps fails, or names a second
\* container whose name contains the gateway's, a running one is not recognised.
LookForRunning(u) ==
  /\ vpnCmd[u].at = "ps"
  /\ \/ Up /\ vpnCmd' = [vpnCmd EXCEPT ![u].at = "wait", ![u].polls = MaxPolls]
     \/ Goes(u, "rm")
  /\ UNCHANGED <<gateway, ended>>

\* podman rm -f of what has the name; its failure is ignored.
RemoveStale(u) ==
  /\ vpnCmd[u].at = "rm"
  /\ \/ gateway' = NoGateway
     \/ UNCHANGED gateway
  /\ Goes(u, "run")
  /\ UNCHANGED ended

\* podman run -d fails when the name is taken; it may fail otherwise, and then may leave
\* a container that has not started.
RunGateway(u) ==
  /\ vpnCmd[u].at = "run"
  /\ \/ /\ ~Exists
        /\ gateway' = New(u, TRUE)
        /\ vpnCmd' = [vpnCmd EXCEPT ![u].at = "wait", ![u].made = TRUE,
                                    ![u].polls = MaxPolls]
        /\ UNCHANGED ended
     \/ /\ Ends(u, "error")
        /\ \/ UNCHANGED gateway
           \/ ~Exists /\ gateway' = New(u, FALSE)

\* Mutant: the line that the interface is up counts as connected.
SaysUp == Exists /\ gateway.stage # "booting"

\* "connected" stands in the last WaitTail lines of the log.
SaysConnected == Exists /\ gateway.stage = "connected" /\ gateway.after < WaitTail

\* waitForConnection looks once; podman logs may fail.
Poll(u) ==
  /\ vpnCmd[u].at = "wait" /\ vpnCmd[u].polls > 0
  /\ \/ SaysConnected /\ Ends(u, "ok")
     \/ vpnCmd' = [vpnCmd EXCEPT ![u].polls = @ - 1] /\ UNCHANGED ended
  /\ UNCHANGED gateway

TimeOut(u) ==
  /\ vpnCmd[u].at = "wait" /\ vpnCmd[u].polls = 0
  /\ Ends(u, "error")
  /\ UNCHANGED gateway

\* Stop: podman rm -f, its failure ignored; "stopped" is printed in either case.
StopGateway(u) ==
  /\ vpnCmd[u].at = "idle"
  /\ \/ gateway' = NoGateway
     \/ UNCHANGED gateway
  /\ ended' = [ended EXCEPT ![u] = "stopped"]
  /\ UNCHANGED vpnCmd

Starting(u) ==
  EnsureImage(u) \/ LookForRunning(u) \/ RemoveStale(u) \/ RunGateway(u)
    \/ Poll(u) \/ TimeOut(u)
----------------------------------------------------------------------------
\* The script ("set -e"): a command that fails ends the container.
WgQuickUp ==
  /\ Up /\ gateway.stage = "booting"
  /\ \/ gateway' = [gateway EXCEPT !.stage = "wg0 up", !.tunnel = TRUE]
     \/ gateway' = [gateway EXCEPT !.up = FALSE, !.tunnel = FALSE]
  /\ UNCHANGED <<vpnCmd, ended>>

\* With the kill switch the default-deny rules are set, or the script ends; then it says
\* "WireGuard connected".
Shield ==
  /\ Up /\ gateway.stage = "wg0 up"
  /\ \/ gateway' = [gateway EXCEPT !.stage = "connected", !.deny = gateway.ks]
     \/ gateway.ks /\ gateway' = [gateway EXCEPT !.up = FALSE, !.tunnel = FALSE]
  /\ UNCHANGED <<vpnCmd, ended>>

\* The monitoring loop finds the interface gone, says so and brings it up again if it
\* can, which it does not say.
Monitor ==
  /\ Up /\ gateway.stage = "connected" /\ ~gateway.tunnel
  /\ \E ok \in BOOLEAN :
       gateway' = [gateway EXCEPT !.tunnel = ok,
                                  !.after = IF @ < WaitTail THEN @ + 1 ELSE @]
  /\ UNCHANGED <<vpnCmd, ended>>

TunnelDrops ==
  /\ Up /\ gateway.tunnel
  /\ gateway' = [gateway EXCEPT !.tunnel = FALSE]
  /\ UNCHANGED <<vpnCmd, ended>>

\* Something else ends the container; its log stays.
GatewayEnds ==
  /\ Up
  /\ gateway' = [gateway EXCEPT !.up = FALSE, !.tunnel = FALSE]
  /\ UNCHANGED <<vpnCmd, ended>>

VPNNext ==
  \/ \E u \in Users :
       (\E ks \in BOOLEAN : BeginStart(u, ks)) \/ Starting(u) \/ StopGateway(u)
  \/ WgQuickUp \/ Shield \/ Monitor \/ TunnelDrops \/ GatewayEnds

VPNSpec == VPNInit /\ [][VPNNext]_vpnVars

----------------------------------------------------------------------------
\* Container and commands are of their kinds.
VPNTypeOK ==
  /\ gateway \in Gateways \cup {NoGateway}
  /\ vpnCmd \in [Users -> [at : {"idle", "image", "ps", "rm", "run", "wait"},
                           ks : BOOLEAN, made : BOOLEAN, polls : 0..MaxPolls]]
  /\ ended \in [Users -> {"never", "ok", "error", "stopped"}]

\* When `vpn start` with the kill switch reports success on the container it has made
\* itself, and that container runs, its default-deny rules are in place: "if the VPN
\* drops, traffic through the gateway is blocked" (vpn.go:46).
ShieldedWhenStarted ==
  [][\A u \in Users :
       /\ vpnCmd[u].at = "wait" /\ ended'[u] = "ok"
       /\ vpnCmd[u].ks /\ vpnCmd[u].made
       /\ Up /\ gateway.maker = u
       => gateway.deny]_vpnVars

\* Holds not: the same of any start with the kill switch. A gateway that runs without it
\* is used as it is, and another start may have replaced the container.
KillSwitchIsOn ==
  [][\A u \in Users :
       vpnCmd[u].at = "wait" /\ ended'[u] = "ok" /\ vpnCmd[u].ks /\ Up
         => gateway.deny]_vpnVars

\* Holds not: a start that succeeds leaves a running gateway. The log of a container
\* that has ended still says connected.
StartedMeansUp ==
  [][\A u \in Users : vpnCmd[u].at = "wait" /\ ended'[u] = "ok" => Up]_vpnVars

\* Holds not: a start that fails leaves no gateway.
FailedLeavesNothing == \A u \in Users : ended[u] = "error" => ~Up

\* What `vpn status` prints as the connection of a gateway that runs.
StatusConnected == Up /\ gateway.stage = "connected" /\ gateway.after < StatusTail

\* Holds not: status tells whether the tunnel is up. It looks for a line of the past.
StatusTellsTunnel == Up /\ StatusConnected => gateway.tunnel
============================================================================
