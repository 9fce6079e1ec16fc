----------------------------- MODULE CapsuleNet -----------------------------
(***************************************************************************)
(* Assignment_3/q1/2root: the capsule container and the network its host   *)
(* side builds with the scripts under src/scripts.  A capsule is started   *)
(* with a container number; capsules with different numbers share the      *)
(* bridge br0, the pair veth0/veth-br-0 and IP forwarding.  Each has a     *)
(* pair of its own, vethN/veth-br-N, whose container end is moved into the *)
(* network namespace of the child.                                         *)
(*                                                                         *)
(* The commands that make, bring up or remove a shared object are steps of *)
(* their own: the creating scripts go on after an error and leave an       *)
(* object they find as it is, half made or half removed; cleanup.sh runs   *)
(* under set -e and is aborted when an object disappears after its check.  *)
(* What only one capsule uses is made in one step.                         *)
(***************************************************************************)
EXTENDS Naturals

CONSTANTS
  Container,   \* the container numbers (1 and 2 in the code)
  MaxKills     \* bound: capsules killed from outside in a behaviour

ASSUME MaxKillsAssumption == MaxKills \in Nat

VARIABLES
  main,        \* where main() of each capsule is
  child,       \* where child_function() of each capsule is
  bridge,      \* br0: absent, present but down, or up
  uplink,      \* veth0/veth-br-0: absent, present, or present and a port of br0
  link,        \* where the container end of vethN/veth-br-N is
  port,        \* veth-br-N is a port of br0
  addr,        \* the container end has its address and is up
  forward,     \* net.ipv4.ip_forward
  nat,         \* the iptables rules are there (nothing ever deletes them)
  kills,       \* capsules killed so far (bounded by MaxKills)
  intact,      \* history: what the capsule shares was not disturbed since its start
  aborted      \* history: the last cleanup.sh of this capsule was aborted

shared == <<bridge, uplink, forward, nat>>
own    == <<link, port, addr>>
vars   == <<main, child, shared, own, kills, intact, aborted>>

Building == {"bridge", "add_bridge", "up_bridge", "pair", "add_pair", "attach",
             "pair_ns", "nat", "signal"}
Cleaning == {"forward", "rm_bridge", "down_bridge", "del_bridge", "rm_veth0", "del_veth0",
             "rm_pair"}

TypeOK ==
  /\ main \in [Container -> {"idle", "wait", "killed"} \cup Building \cup Cleaning]
  /\ child \in [Container -> {"none", "mounting", "reading", "network", "shell", "zombie"}]
  /\ bridge \in {"none", "down", "up"} /\ uplink \in {"none", "loose", "port"}
  /\ link \in [Container -> {"none", "host", "netns", "dying"}]
  /\ {port, addr, intact, aborted} \subseteq [Container -> BOOLEAN]
  /\ {forward, nat} \subseteq BOOLEAN
  /\ kills \in Nat

Init ==
  /\ main = [c \in Container |-> "idle"]
  /\ child = [c \in Container |-> "none"]
  /\ uplink = "none" /\ bridge = "none" /\ forward = FALSE /\ nat = FALSE
  /\ link = [c \in Container |-> "none"]
  /\ port = [c \in Container |-> FALSE] /\ addr = [c \in Container |-> FALSE]
  /\ kills = 0
  /\ intact = [c \in Container |-> FALSE] /\ aborted = [c \in Container |-> FALSE]

Goto(c, from, to) == main[c] = from /\ main' = [main EXCEPT ![c] = to]

\* What is half made is finished by a capsule that is at the command for it.
BridgeReady ==
  \/ bridge = "up"
  \/ bridge = "down" /\ \E d \in Container : main[d] = "up_bridge"
UplinkReady ==
  \/ uplink = "port"
  \/ uplink = "loose" /\ \E d \in Container : main[d] = "attach"

\* c takes something the others use, or leaves them a pair without a bridge.
Disturb(c) == intact' = [d \in Container |-> d = c /\ intact[d]]

-----------------------------------------------------------------------------
(* The host side: main and initialize_networking_in_host.                  *)

\* pipe, extract_zip and clone: the child is in namespaces of its own.
Start(c) ==
  /\ child[c] = "none"
  /\ Goto(c, "idle", "bridge")
  /\ child' = [child EXCEPT ![c] = "mounting"]
  /\ intact' = [intact EXCEPT ![c] = /\ link[c] = "none"
                                     /\ bridge = "none" \/ BridgeReady
                                     /\ uplink = "none" \/ UplinkReady]
  /\ aborted' = [aborted EXCEPT ![c] = FALSE]
  /\ UNCHANGED <<shared, own, kills>>

\* An existing bridge is left as it is, up or down; an existing pair as it
\* is, a port of the bridge or not.
FindBridge(c) ==
  /\ Goto(c, "bridge", IF bridge = "none" THEN "add_bridge" ELSE "pair")
  /\ UNCHANGED <<child, shared, own, kills, intact, aborted>>

AddBridge(c) ==
  /\ Goto(c, "add_bridge", "up_bridge")
  /\ bridge' = IF bridge = "none" THEN "down" ELSE bridge
  /\ UNCHANGED <<child, uplink, forward, nat, own, kills, intact, aborted>>

BridgeUp(c) ==
  /\ Goto(c, "up_bridge", "pair")
  /\ bridge' = IF bridge = "none" THEN "none" ELSE "up"
  /\ UNCHANGED <<child, uplink, forward, nat, own, kills, intact, aborted>>

FindPair(c) ==
  /\ Goto(c, "pair", IF uplink = "none" THEN "add_pair" ELSE "pair_ns")
  /\ UNCHANGED <<child, shared, own, kills, intact, aborted>>

AddPair(c) ==
  /\ Goto(c, "add_pair", "attach")
  /\ uplink' = IF uplink = "none" THEN "loose" ELSE uplink
  /\ UNCHANGED <<child, bridge, forward, nat, own, kills, intact, aborted>>

Attach(c) ==
  /\ Goto(c, "attach", "pair_ns")
  /\ uplink' = IF uplink = "none" \/ bridge = "none" THEN uplink ELSE "port"
  /\ IF uplink' = "loose" THEN Disturb(c) ELSE UNCHANGED intact
  /\ UNCHANGED <<child, bridge, forward, nat, own, kills, aborted>>

Alive(c) == child[c] \notin {"none", "zombie"}

\* Mutant of CreatePairNs: the pair does not become a port of the bridge.
CreatePairNs_noport(c) ==
  /\ Goto(c, "pair_ns", "nat")
  /\ IF link[c] = "none"
     THEN link' = [link EXCEPT ![c] = IF Alive(c) THEN "netns" ELSE "host"]
     ELSE UNCHANGED link
  /\ UNCHANGED <<child, shared, port, addr, kills, intact, aborted>>

\* An existing veth-br-N, whoever it belongs to, is taken for the capsule's
\* own; the move into the namespace of a dead child fails.
CreatePairNs(c) ==
  /\ Goto(c, "pair_ns", "nat")
  /\ IF link[c] = "none"
     THEN /\ link' = [link EXCEPT ![c] = IF Alive(c) THEN "netns" ELSE "host"]
          /\ port' = [port EXCEPT ![c] = bridge # "none"]
     ELSE UNCHANGED <<link, port>>
  /\ UNCHANGED <<child, shared, addr, kills, intact, aborted>>

SetupNat(c) ==
  /\ Goto(c, "nat", "signal")
  /\ forward' = TRUE /\ nat' = TRUE
  /\ UNCHANGED <<child, bridge, uplink, own, kills, intact, aborted>>

\* close(checkpoint[1]): the child's read meets the end of the pipe.
Signal(c) ==
  /\ Goto(c, "signal", "wait")
  /\ UNCHANGED <<child, shared, own, kills, intact, aborted>>

Waitpid(c) ==
  /\ child[c] = "zombie"
  /\ Goto(c, "wait", "forward")
  /\ child' = [child EXCEPT ![c] = "none"]
  /\ UNCHANGED <<shared, own, kills, intact, aborted>>

-----------------------------------------------------------------------------
(* cleanup.sh, line by line; the capsule ends with it.                     *)

StopForward(c) ==
  /\ Goto(c, "forward", "rm_bridge")
  /\ forward' = FALSE
  /\ Disturb(c)
  /\ UNCHANGED <<child, bridge, uplink, nat, own, kills, aborted>>

CheckBridge(c) ==
  /\ Goto(c, "rm_bridge", IF bridge = "none" THEN "rm_veth0" ELSE "down_bridge")
  /\ UNCHANGED <<child, shared, own, kills, intact, aborted>>

\* A capsule that starts now finds br0 and does not bring it up again.
BridgeDown(c) ==
  /\ bridge # "none"
  /\ Goto(c, "down_bridge", "del_bridge")
  /\ bridge' = "down"
  /\ Disturb(c)
  /\ UNCHANGED <<child, uplink, forward, nat, own, kills, aborted>>

\* Deleting br0 leaves its ports behind without a bridge.
DeleteBridge(c) ==
  /\ bridge # "none"
  /\ Goto(c, "del_bridge", "rm_veth0")
  /\ bridge' = "none"
  /\ uplink' = IF uplink = "port" THEN "loose" ELSE uplink
  /\ port' = [d \in Container |-> FALSE]
  /\ Disturb(c)
  /\ UNCHANGED <<child, forward, nat, link, addr, kills, aborted>>

\* Mutant of CheckUplink: the pair is taken to be gone with the bridge.
CheckUplink_skip(c) ==
  /\ Goto(c, "rm_veth0", "rm_pair")
  /\ UNCHANGED <<child, shared, own, kills, intact, aborted>>

CheckUplink(c) ==
  /\ Goto(c, "rm_veth0", IF uplink # "none" THEN "del_veth0" ELSE "rm_pair")
  /\ UNCHANGED <<child, shared, own, kills, intact, aborted>>

DeleteUplink(c) ==
  /\ uplink # "none"
  /\ Goto(c, "del_veth0", "rm_pair")
  /\ uplink' = "none"
  /\ Disturb(c)
  /\ UNCHANGED <<child, bridge, forward, nat, own, kills, aborted>>

\* Mutant of AbortCleanup: the script tries again instead of giving up.
AbortCleanup_retry(c) ==
  /\ \/ bridge = "none" /\ \E place \in {"down_bridge", "del_bridge"} : Goto(c, place, place)
     \/ uplink = "none" /\ Goto(c, "del_veth0", "del_veth0")
  /\ UNCHANGED <<child, shared, own, kills, intact, aborted>>

\* What was there at the check is gone: set -e ends the script.
AbortCleanup(c) ==
  /\ \/ bridge = "none" /\ \E place \in {"down_bridge", "del_bridge"} : Goto(c, place, "idle")
     \/ uplink = "none" /\ Goto(c, "del_veth0", "idle")
  /\ aborted' = [aborted EXCEPT ![c] = TRUE]
  /\ UNCHANGED <<child, shared, own, kills, intact>>

\* vethN is in the host only if the move into the namespace failed.
RemovePair(c) ==
  /\ Goto(c, "rm_pair", "idle")
  /\ IF link[c] = "host"
     THEN link' = [link EXCEPT ![c] = "none"] /\ port' = [port EXCEPT ![c] = FALSE]
     ELSE UNCHANGED <<link, port>>
  /\ UNCHANGED <<child, shared, addr, kills, intact, aborted>>

-----------------------------------------------------------------------------
(* The child: child_function.                                              *)

\* sethostname and the mounts of /proc and /dev.
Mount(c) ==
  /\ child[c] = "mounting"
  /\ child' = [child EXCEPT ![c] = "reading"]
  /\ UNCHANGED <<main, shared, own, kills, intact, aborted>>

\* Mutants of ReadCheckpoint: the child does not wait; it waits for a message
\* of a capsule that lives.
ReadCheckpoint_nowait(c) ==
  /\ child[c] = "reading"
  /\ child' = [child EXCEPT ![c] = "network"]
  /\ UNCHANGED <<main, shared, own, kills, intact, aborted>>
ReadCheckpoint_message(c) ==
  /\ child[c] = "reading"
  /\ main[c] = "wait"
  /\ child' = [child EXCEPT ![c] = "network"]
  /\ UNCHANGED <<main, shared, own, kills, intact, aborted>>

\* read(checkpoint[0]): nobody writes; it returns when the last write end is
\* closed, by Signal or by the death of the capsule.
ReadCheckpoint(c) ==
  /\ child[c] = "reading"
  /\ main[c] \notin Building
  /\ child' = [child EXCEPT ![c] = "network"]
  /\ UNCHANGED <<main, shared, own, kills, intact, aborted>>

\* Mutant of ConfigureAndExec: the child is taken for its capsule.
ConfigureAndExec_main(c) ==
  /\ child[c] = "network"
  /\ child' = [child EXCEPT ![c] = main[c]]
  /\ addr' = [addr EXCEPT ![c] = link[c] = "netns"]
  /\ UNCHANGED <<main, shared, link, port, kills, intact, aborted>>

\* create_pair_ns.sh inside, chroot and execv; without vethN in this
\* namespace its commands fail and the shell starts all the same.
ConfigureAndExec(c) ==
  /\ child[c] = "network"
  /\ child' = [child EXCEPT ![c] = "shell"]
  /\ addr' = [addr EXCEPT ![c] = link[c] = "netns"]
  /\ UNCHANGED <<main, shared, link, port, kills, intact, aborted>>

\* The shell exits, or sethostname, a mount, chroot or execv fails.  The
\* kernel destroys the network namespace later.
ChildExit(c) ==
  /\ child[c] \in {"mounting", "network", "shell"}
  /\ child' = [child EXCEPT ![c] = IF main[c] = "killed" THEN "none" ELSE "zombie"]
  /\ main' = [main EXCEPT ![c] = IF @ = "killed" THEN "idle" ELSE @]
  /\ link' = [link EXCEPT ![c] = IF @ = "netns" THEN "dying" ELSE @]
  /\ addr' = [addr EXCEPT ![c] = FALSE]
  /\ UNCHANGED <<shared, port, kills, intact, aborted>>

-----------------------------------------------------------------------------
(* The environment.                                                        *)

\* The pair goes with the namespace, its bridge end too.
NetnsGone(c) ==
  /\ link[c] = "dying"
  /\ link' = [link EXCEPT ![c] = "none"]
  /\ port' = [port EXCEPT ![c] = FALSE]
  /\ UNCHANGED <<main, child, shared, addr, kills, intact, aborted>>

\* The capsule and the script it runs are killed; its child lives on.  What
\* the script had half made stays so.
Kill(c) ==
  /\ kills < MaxKills
  /\ main[c] \notin {"idle", "killed"}
  /\ kills' = kills + 1
  /\ main' = [main EXCEPT ![c] = IF Alive(c) THEN "killed" ELSE "idle"]
  /\ child' = [child EXCEPT ![c] = IF Alive(c) THEN @ ELSE "none"]
  /\ intact' = [d \in Container |->
                  intact[d] /\ d # c /\ main[c] \notin {"up_bridge", "attach"}]
  /\ UNCHANGED <<shared, own, aborted>>

-----------------------------------------------------------------------------
MainStep(c) ==
  \/ FindBridge(c) \/ AddBridge(c) \/ BridgeUp(c)
  \/ FindPair(c) \/ AddPair(c) \/ Attach(c)
  \/ CreatePairNs(c) \/ SetupNat(c) \/ Signal(c) \/ Waitpid(c)
  \/ StopForward(c) \/ CheckBridge(c) \/ BridgeDown(c) \/ DeleteBridge(c)
  \/ CheckUplink(c) \/ DeleteUplink(c)
  \/ AbortCleanup(c) \/ RemovePair(c)

ChildStep(c) == Mount(c) \/ ReadCheckpoint(c) \/ ConfigureAndExec(c)

Next == \E c \in Container :
  Start(c) \/ MainStep(c) \/ ChildStep(c) \/ ChildExit(c) \/ NetnsGone(c) \/ Kill(c)

Spec == Init /\ [][Next]_vars

\* The scheduler runs both processes and the kernel ends a namespace without
\* processes.  Nobody has to start a capsule or leave its shell.
Fairness == \A c \in Container :
  WF_vars(MainStep(c)) /\ WF_vars(ChildStep(c)) /\ WF_vars(NetnsGone(c))

FairSpec == Spec /\ Fairness

-----------------------------------------------------------------------------
(* Properties.                                                             *)

Connected(c) ==
  /\ BridgeReady /\ UplinkReady /\ forward
  /\ link[c] = "netns" /\ port[c] /\ addr[c]

\* The handshake over the pipe: a shell whose capsule lives runs only after
\* the whole network was built, so it is connected, over a bridge that is up
\* or that the capsule which just made it is bringing up.  Except when
\* another capsule's cleanup took a shared object or set br0 down, another
\* capsule was killed while it made one, or a leftover was there at the start.
ShellIsConnected ==
  \A c \in Container : child[c] = "shell" /\ intact[c] => Connected(c)

\* The child never goes past the read while its capsule is still building.
NetworkBeforeShell ==
  \A c \in Container : main[c] \in Building => child[c] \notin {"network", "shell"}

\* When the last capsule has ended, and none was killed, the shared objects
\* are gone although cleanup.sh may have been aborted; only the NAT rules
\* stay.  A pair is left in the host only by an aborted cleanup of its own.
HostRestored ==
  kills = 0 /\ (\A c \in Container : main[c] = "idle") =>
    /\ bridge = "none" /\ uplink = "none" /\ ~forward
    /\ \A c \in Container : link[c] # "netns" /\ (link[c] = "host" => aborted[c])

\* A child that waits for the network gets to its shell or dies, even if the
\* capsule is killed first.
ChildReleased ==
  \A c \in Container : child[c] = "reading" ~> child[c] \in {"shell", "zombie", "none"}

\* A capsule whose child is dead ends.
CapsuleEnds ==
  \A c \in Container : child[c] = "zombie" ~> main[c] = "idle"
=============================================================================
