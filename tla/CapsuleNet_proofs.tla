------------------------- MODULE CapsuleNet_proofs --------------------------
(***************************************************************************)
(* Proofs about CapsuleNet for any set of container numbers and any number *)
(* of kills.                                                               *)
(***************************************************************************)
EXTENDS CapsuleNet, TLAPS

\* Every action, for the steps that go through all of them.
LEMMA Actions ==
  ASSUME [Next]_vars
  PROVE  \/ \E c \in Container :
              \/ Start(c) \/ FindBridge(c) \/ AddBridge(c) \/ BridgeUp(c)
              \/ FindPair(c) \/ AddPair(c) \/ Attach(c) \/ CreatePairNs(c) \/ SetupNat(c)
              \/ Signal(c) \/ Waitpid(c) \/ StopForward(c) \/ CheckBridge(c)
              \/ BridgeDown(c) \/ DeleteBridge(c) \/ CheckUplink(c) \/ DeleteUplink(c) \/ AbortCleanup(c) \/ RemovePair(c)
              \/ Mount(c) \/ ReadCheckpoint(c) \/ ConfigureAndExec(c) \/ ChildExit(c)
              \/ NetnsGone(c) \/ Kill(c)
         \/ UNCHANGED vars
BY DEF Next, MainStep, ChildStep

\* Where the two processes of a capsule can be, apart from what they do.
MainPcs  == {"idle", "wait", "killed"} \cup Building \cup Cleaning
ChildPcs == {"none", "mounting", "reading", "network", "shell", "zombie"}

PcInv ==
  /\ main \in [Container -> MainPcs]
  /\ child \in [Container -> ChildPcs]
  /\ \A c \in Container :
       /\ main[c] \in Building => child[c] \notin {"none", "network", "shell"}
       /\ main[c] \in Cleaning \cup {"idle"} => child[c] = "none"
       /\ main[c] = "killed" => Alive(c)

LEMMA PcInvariant == Spec => []PcInv
<1>1. Init => PcInv
  BY DEF Init, PcInv, MainPcs, ChildPcs, Building, Cleaning
<1>2. PcInv /\ [Next]_vars => PcInv'
  <2> SUFFICES ASSUME PcInv, [Next]_vars PROVE PcInv'
    OBVIOUS
  <2> USE DEF PcInv, MainPcs, ChildPcs, Building, Cleaning, Goto, Alive
  <2>1. ASSUME NEW c \in Container,
               \/ Start(c) \/ FindBridge(c) \/ AddBridge(c) \/ BridgeUp(c) \/ FindPair(c)
               \/ AddPair(c) \/ Attach(c) \/ CreatePairNs(c)
               \/ SetupNat(c) \/ Signal(c) \/ Waitpid(c)
        PROVE  PcInv'
    BY <2>1 DEF Start, FindBridge, AddBridge, BridgeUp, FindPair, AddPair, Attach,
       CreatePairNs, SetupNat, Signal, Waitpid
  <2>2. ASSUME NEW c \in Container,
               \/ StopForward(c) \/ CheckBridge(c) \/ BridgeDown(c) \/ DeleteBridge(c)
               \/ CheckUplink(c) \/ DeleteUplink(c) \/ AbortCleanup(c) \/ RemovePair(c)
        PROVE  PcInv'
    BY <2>2 DEF StopForward, CheckBridge, BridgeDown, DeleteBridge, CheckUplink,
       DeleteUplink, AbortCleanup, RemovePair
  <2>3. ASSUME NEW c \in Container,
               \/ Mount(c) \/ ReadCheckpoint(c) \/ ConfigureAndExec(c) \/ ChildExit(c)
               \/ NetnsGone(c) \/ Kill(c)
        PROVE  PcInv'
    BY <2>3 DEF Mount, ReadCheckpoint, ConfigureAndExec, ChildExit, NetnsGone, Kill
  <2>4. CASE UNCHANGED vars
    BY <2>4 DEF vars
  <2>5. QED
    BY <2>1, <2>2, <2>3, <2>4, Actions
<1>3. QED
  BY <1>1, <1>2, PTL DEF Spec

\* The handshake: while the capsule builds the network its child is before
\* the end of its read.
THEOREM NetworkBeforeShellHolds == Spec => []NetworkBeforeShell
<1>1. PcInv => NetworkBeforeShell
  BY DEF PcInv, NetworkBeforeShell
<1>2. QED
  BY <1>1, PcInvariant, PTL

-----------------------------------------------------------------------------
(* An undisturbed capsule finds, at every stage, what the stages before it *)
(* built.                                                                  *)

TypeInv ==
  /\ bridge \in {"none", "down", "up"} /\ uplink \in {"none", "loose", "port"}
  /\ link \in [Container -> {"none", "host", "netns", "dying"}]
  /\ port \in [Container -> BOOLEAN] /\ addr \in [Container -> BOOLEAN]
  /\ intact \in [Container -> BOOLEAN] /\ aborted \in [Container -> BOOLEAN]
  /\ forward \in BOOLEAN /\ nat \in BOOLEAN
  /\ kills \in Nat

LEMMA TypeInvariant == Spec => []TypeInv
<1>1. Init => TypeInv
  <2>1. Init => kills \in Nat
    BY DEF Init
  <2>2. QED
    BY <2>1, Zenon DEF Init, TypeInv
<1>2. TypeInv /\ [Next]_vars => TypeInv'
  <2> SUFFICES ASSUME TypeInv, [Next]_vars PROVE TypeInv'
    OBVIOUS
  <2> USE DEF TypeInv, own, shared, Disturb
  <2>1. ASSUME NEW c \in Container,
               \/ FindBridge(c) \/ AddBridge(c) \/ BridgeUp(c) \/ FindPair(c)
               \/ AddPair(c) \/ SetupNat(c) \/ Signal(c) \/ Waitpid(c)
        PROVE  TypeInv'
    BY <2>1 DEF FindBridge, AddBridge, BridgeUp, FindPair, AddPair, SetupNat, Signal, Waitpid
  <2>2. ASSUME NEW c \in Container, Start(c) \/ Attach(c) \/ CreatePairNs(c)
        PROVE  TypeInv'
    <3>1. CASE Start(c)
      <4>1. /\ intact' \in [Container -> BOOLEAN] /\ aborted' \in [Container -> BOOLEAN]
            /\ UNCHANGED <<shared, own, kills>>
        BY <3>1, Zenon DEF Start
      <4>2. QED
        BY <4>1
    <3>2. CASE Attach(c)
      <4>1. intact' \in [Container -> BOOLEAN]
        BY <3>2, Zenon DEF Attach
      <4>2. QED
        BY <3>2, <4>1 DEF Attach
    <3>3. CASE CreatePairNs(c)
      BY <3>3 DEF CreatePairNs
    <3>4. QED
      BY <2>2, <3>1, <3>2, <3>3
  <2>3. ASSUME NEW c \in Container,
               \/ StopForward(c) \/ CheckBridge(c) \/ BridgeDown(c) \/ DeleteBridge(c)
               \/ CheckUplink(c) \/ DeleteUplink(c) \/ AbortCleanup(c) \/ RemovePair(c)
        PROVE  TypeInv'
    <3>1. CASE DeleteBridge(c)
      <4>1. [d \in Container |-> FALSE] \in [Container -> BOOLEAN]
        BY Zenon
      <4>2. QED
        BY <3>1, <4>1 DEF DeleteBridge
    <3>2. CASE StopForward(c) \/ BridgeDown(c) \/ DeleteUplink(c)
      BY <3>2 DEF StopForward, BridgeDown, DeleteUplink
    <3>3. CASE CheckBridge(c) \/ CheckUplink(c) \/ AbortCleanup(c) \/ RemovePair(c)
      BY <3>3 DEF CheckBridge, CheckUplink, AbortCleanup, RemovePair
    <3>4. QED
      BY <2>3, <3>1, <3>2, <3>3
  <2>4. ASSUME NEW c \in Container,
               \/ Mount(c) \/ ReadCheckpoint(c) \/ ConfigureAndExec(c) \/ ChildExit(c)
               \/ NetnsGone(c) \/ Kill(c)
        PROVE  TypeInv'
    <3>1. CASE Mount(c) \/ ReadCheckpoint(c) \/ NetnsGone(c) \/ ChildExit(c)
      BY <3>1 DEF Mount, ReadCheckpoint, NetnsGone, ChildExit
    <3>2. CASE ConfigureAndExec(c)
      <4>1. (link[c] = "netns") \in BOOLEAN
        OBVIOUS
      <4>2. addr' \in [Container -> BOOLEAN]
        BY <3>2, <4>1 DEF ConfigureAndExec
      <4>3. QED
        BY <3>2, <4>2 DEF ConfigureAndExec
    <3>3. CASE Kill(c)
      <4>1. intact' \in [Container -> BOOLEAN]
        BY <3>3, Zenon DEF Kill
      <4>2. QED
        BY <3>3, <4>1 DEF Kill
    <3>4. QED
      BY <2>4, <3>1, <3>2, <3>3
  <2>5. UNCHANGED vars => TypeInv'
    BY DEF vars
  <2>6. QED
    BY Actions, <2>1, <2>2, <2>3, <2>4, <2>5
<1>3. QED
  BY <1>1, <1>2, PTL DEF Spec

\* Type correctness.
THEOREM TypeCorrect == Spec => []TypeOK
<1>1. TypeInv /\ PcInv => TypeOK
  BY DEF TypeInv, PcInv, TypeOK, MainPcs, ChildPcs
<1>2. QED
  BY <1>1, TypeInvariant, PcInvariant, PTL

\* What an undisturbed capsule relies on, by the stage it has reached.
StageInv(c) ==
  /\ main[c] # "killed"
  /\ main[c] = "bridge" => bridge = "none" \/ BridgeReady
  /\ main[c] = "up_bridge" => bridge # "none"
  /\ main[c] \in {"pair", "add_pair", "attach", "pair_ns", "nat", "signal", "wait"} =>
       BridgeReady
  /\ main[c] \in {"bridge", "add_bridge", "up_bridge", "pair", "add_pair"} =>
       uplink = "none" \/ UplinkReady
  /\ main[c] \in {"attach", "pair_ns", "nat", "signal", "wait"} => UplinkReady
  /\ main[c] \in Building \ {"nat", "signal"} => link[c] = "none"
  /\ main[c] \in {"nat", "signal", "wait"} /\ Alive(c) => link[c] = "netns" /\ port[c]
  /\ main[c] \in {"signal", "wait"} => forward
  /\ child[c] = "shell" => addr[c]

ConnInv ==
  /\ uplink = "port" => bridge # "none"
  /\ \A c \in Container : intact[c] => StageInv(c)

LEMMA ConnInvariant == Spec => []ConnInv
<1>1. Init => ConnInv
  BY DEF Init, ConnInv
<1>2. PcInv /\ TypeInv /\ ConnInv /\ [Next]_vars => ConnInv'
  <2> SUFFICES ASSUME PcInv, TypeInv, ConnInv, [Next]_vars PROVE ConnInv'
    OBVIOUS
  <2>0. /\ main \in [Container -> MainPcs] /\ child \in [Container -> ChildPcs]
        /\ \A c \in Container :
             /\ main[c] \in Building => child[c] \notin {"none", "network", "shell"}
             /\ main[c] \in Cleaning \cup {"idle"} => child[c] = "none"
        /\ link \in [Container -> {"none", "host", "netns", "dying"}]
        /\ port \in [Container -> BOOLEAN] /\ addr \in [Container -> BOOLEAN]
        /\ intact \in [Container -> BOOLEAN]
        /\ bridge \in {"none", "down", "up"} /\ uplink \in {"none", "loose", "port"}
    BY DEF PcInv, TypeInv
  <2> USE DEF ConnInv, StageInv, BridgeReady, UplinkReady, own, shared, Disturb, Goto, Building, Cleaning, Alive
  <2>1. ASSUME NEW c \in Container, Start(c)
        PROVE  ConnInv'
    BY <2>0, <2>1 DEF Start
  <2>2. ASSUME NEW c \in Container, FindBridge(c) \/ AddBridge(c) \/ BridgeUp(c)
        PROVE  ConnInv'
    <3>1. CASE FindBridge(c)
      BY <2>0, <3>1 DEF FindBridge
    <3>2. CASE AddBridge(c)
      BY <2>0, <3>2 DEF AddBridge
    <3>3. CASE BridgeUp(c)
      BY <2>0, <3>3 DEF BridgeUp
    <3>4. QED
      BY <2>2, <3>1, <3>2, <3>3
  <2>3. ASSUME NEW c \in Container, FindPair(c) \/ AddPair(c) \/ Attach(c)
        PROVE  ConnInv'
    <3>1. CASE FindPair(c)
      BY <2>0, <3>1 DEF FindPair
    <3>2. CASE AddPair(c)
      BY <2>0, <3>2 DEF AddPair
    <3>3. CASE Attach(c)
      BY <2>0, <3>3 DEF Attach
    <3>4. QED
      BY <2>3, <3>1, <3>2, <3>3
  <2>4. ASSUME NEW c \in Container, CreatePairNs(c)
        PROVE  ConnInv'
    BY <2>0, <2>4 DEF CreatePairNs
  <2>5. ASSUME NEW c \in Container, SetupNat(c) \/ Signal(c) \/ Waitpid(c)
        PROVE  ConnInv'
    BY <2>0, <2>5 DEF SetupNat, Signal, Waitpid
  <2>6. ASSUME NEW c \in Container,
               StopForward(c) \/ BridgeDown(c) \/ DeleteBridge(c) \/ DeleteUplink(c)
        PROVE  ConnInv'
    <3>1. \A d \in Container : intact'[d] => d = c
      BY <2>6 DEF StopForward, BridgeDown, DeleteBridge, DeleteUplink
    <3>2. main'[c] \in Cleaning /\ child' = child /\ child[c] = "none"
      BY <2>0, <2>6 DEF StopForward, BridgeDown, DeleteBridge, DeleteUplink
    <3>3. uplink' = "port" => bridge' # "none"
      BY <2>6 DEF StopForward, BridgeDown, DeleteBridge, DeleteUplink
    <3>4. QED
      BY <3>1, <3>2, <3>3
  <2>7. ASSUME NEW c \in Container, CheckBridge(c) \/ CheckUplink(c) \/ AbortCleanup(c)
        PROVE  ConnInv'
    BY <2>0, <2>7 DEF CheckBridge, CheckUplink, AbortCleanup
  <2>8. ASSUME NEW c \in Container, RemovePair(c)
        PROVE  ConnInv'
    BY <2>0, <2>8 DEF RemovePair
  <2>9. ASSUME NEW c \in Container, Mount(c) \/ ReadCheckpoint(c) \/ ConfigureAndExec(c)
        PROVE  ConnInv'
    <3>1. CASE Mount(c) \/ ReadCheckpoint(c)
      BY <2>0, <3>1 DEF Mount, ReadCheckpoint
    <3>2. CASE ConfigureAndExec(c)
      <4>1. ASSUME intact[c] PROVE addr'[c]
        <5>1. main[c] = "wait"
          BY <2>0, <3>2, <4>1 DEF ConfigureAndExec, MainPcs
        <5>2. link[c] = "netns"
          BY <3>2, <4>1, <5>1 DEF ConfigureAndExec
        <5>3. QED
          BY <2>0, <3>2, <5>2 DEF ConfigureAndExec
      <4>2. \A d \in Container : d # c => addr'[d] = addr[d] /\ child'[d] = child[d]
        BY <2>0, <3>2 DEF ConfigureAndExec
      <4>3. child'[c] = "shell"
        BY <2>0, <3>2 DEF ConfigureAndExec
      <4>4. QED
        BY <2>0, <3>2, <4>1, <4>2, <4>3 DEF ConfigureAndExec
    <3>3. QED
      BY <2>9, <3>1, <3>2
  <2>10. ASSUME NEW c \in Container, ChildExit(c) \/ NetnsGone(c) \/ Kill(c)
        PROVE  ConnInv'
    <3>1. CASE ChildExit(c)
      BY <2>0, <3>1 DEF ChildExit
    <3>2. CASE NetnsGone(c)
      BY <2>0, <3>2 DEF NetnsGone
    <3>3. CASE Kill(c)
      <4>1. \A d \in Container : intact'[d] => d # c /\ intact[d]
        BY <3>3 DEF Kill
      <4>2. \A d \in Container : d # c => main'[d] = main[d] /\ child'[d] = child[d]
        BY <2>0, <3>3 DEF Kill
      <4>3. (\E d \in Container : intact'[d]) => main[c] \notin {"up_bridge", "attach"}
        BY <3>3 DEF Kill
      <4>4. UNCHANGED <<bridge, uplink, forward, link, port, addr>>
        BY <3>3 DEF Kill
      <4>5. QED
        BY <4>1, <4>2, <4>3, <4>4
    <3>4. QED
      BY <2>10, <3>1, <3>2, <3>3
  <2>11. CASE UNCHANGED vars
    BY <2>11 DEF vars
  <2>12. QED
    BY <2>1, <2>2, <2>3, <2>4, <2>5, <2>6, <2>7, <2>8, <2>9, <2>10, <2>11, Actions
<1>3. QED
  BY <1>1, <1>2, TypeInvariant, PcInvariant, PTL DEF Spec

\* A shell whose capsule was not disturbed is connected to the bridge, the
\* bridge to the host, and the host forwards.
THEOREM ShellIsConnectedHolds == Spec => []ShellIsConnected
<1>1. PcInv /\ ConnInv => ShellIsConnected
  <2> SUFFICES ASSUME PcInv, ConnInv, NEW c \in Container, child[c] = "shell", intact[c]
               PROVE  Connected(c)
    BY DEF ShellIsConnected
  <2>1. main[c] = "wait"
    BY DEF PcInv, ConnInv, StageInv, MainPcs
  <2>2. QED
    BY <2>1 DEF ConnInv, StageInv, Connected, Alive
<1>2. QED
  BY <1>1, PcInvariant, ConnInvariant, PTL

-----------------------------------------------------------------------------
(* Without kills every shared object that exists has a capsule that will   *)
(* still come to its removal.                                              *)

Uses == {"pair_ns", "nat", "signal", "wait", "forward", "rm_bridge"}

BridgeOwned  == bridge # "none" =>
  \E d \in Container : main[d] \in Uses \cup {"up_bridge", "pair", "add_pair", "attach",
                                              "down_bridge", "del_bridge"}
\* A capsule that is removing br0 comes to veth0 only if br0 is still there.
UplinkOwned  == uplink # "none" =>
  \E d \in Container : main[d] \in Uses \cup {"attach", "rm_veth0", "del_veth0"}
             \cup IF bridge # "none" THEN {"down_bridge", "del_bridge"} ELSE {}
ForwardOwned == forward => \E d \in Container : main[d] \in {"signal", "wait", "forward"}
LinkOwned    == \A c \in Container :
  /\ main[c] # "killed"
  /\ link[c] = "netns" => Alive(c)
  /\ main[c] = "idle" /\ link[c] = "host" => aborted[c]

OwnedInv == kills = 0 => BridgeOwned /\ UplinkOwned /\ ForwardOwned /\ LinkOwned

LEMMA OwnedInvariant == Spec => []OwnedInv
<1>1. Init => OwnedInv
  BY DEF Init, OwnedInv, BridgeOwned, UplinkOwned, ForwardOwned, LinkOwned
<1>2. PcInv /\ TypeInv /\ OwnedInv /\ [Next]_vars => OwnedInv'
  <2> SUFFICES ASSUME PcInv, TypeInv, OwnedInv, [Next]_vars, kills' = 0
               PROVE  (BridgeOwned /\ UplinkOwned /\ ForwardOwned /\ LinkOwned)'
    BY DEF OwnedInv
  <2>0. /\ main \in [Container -> MainPcs] /\ child \in [Container -> ChildPcs]
        /\ link \in [Container -> {"none", "host", "netns", "dying"}]
        /\ aborted \in [Container -> BOOLEAN]
        /\ kills \in Nat
        /\ \A c \in Container : main[c] \in Building => child[c] # "none"
    BY DEF PcInv, TypeInv
  <2>1. kills = 0 /\ BridgeOwned /\ UplinkOwned /\ ForwardOwned /\ LinkOwned
    <3>1. kills' = kills \/ kills' = kills + 1
      BY Actions, Zenon DEF Start, FindBridge, AddBridge, BridgeUp, FindPair, AddPair, Attach,
         CreatePairNs, SetupNat, Signal, Waitpid,
         StopForward, CheckBridge, BridgeDown, DeleteBridge, CheckUplink, DeleteUplink, AbortCleanup,
         RemovePair, Mount, ReadCheckpoint, ConfigureAndExec, ChildExit, NetnsGone, Kill, vars
    <3>2. QED
      BY <2>0, <3>1 DEF OwnedInv
  <2> USE DEF BridgeOwned, UplinkOwned, ForwardOwned, LinkOwned, Uses, own, shared, Goto,
              Building, Alive
  <2>2. ASSUME NEW c \in Container,
               Start(c) \/ FindBridge(c) \/ FindPair(c) \/ SetupNat(c) \/ Signal(c)
        PROVE  (BridgeOwned /\ UplinkOwned /\ ForwardOwned /\ LinkOwned)'
    BY <2>0, <2>1, <2>2 DEF Start, FindBridge, FindPair, SetupNat, Signal
  <2>12. ASSUME NEW c \in Container,
               AddBridge(c) \/ BridgeUp(c) \/ AddPair(c) \/ Attach(c)
        PROVE  (BridgeOwned /\ UplinkOwned /\ ForwardOwned /\ LinkOwned)'
    BY <2>0, <2>1, <2>12 DEF AddBridge, BridgeUp, AddPair, Attach
  <2>3. ASSUME NEW c \in Container, CreatePairNs(c) \/ Waitpid(c)
        PROVE  (BridgeOwned /\ UplinkOwned /\ ForwardOwned /\ LinkOwned)'
    BY <2>0, <2>1, <2>3 DEF CreatePairNs, Waitpid
  <2>4. ASSUME NEW c \in Container, StopForward(c) \/ CheckBridge(c) \/ CheckUplink(c)
        PROVE  (BridgeOwned /\ UplinkOwned /\ ForwardOwned /\ LinkOwned)'
    BY <2>0, <2>1, <2>4 DEF StopForward, CheckBridge, CheckUplink
  <2>5. ASSUME NEW c \in Container, BridgeDown(c) \/ DeleteBridge(c) \/ DeleteUplink(c)
        PROVE  (BridgeOwned /\ UplinkOwned /\ ForwardOwned /\ LinkOwned)'
    BY <2>0, <2>1, <2>5 DEF BridgeDown, DeleteBridge, DeleteUplink
  <2>6. ASSUME NEW c \in Container, AbortCleanup(c) \/ RemovePair(c)
        PROVE  (BridgeOwned /\ UplinkOwned /\ ForwardOwned /\ LinkOwned)'
    BY <2>0, <2>1, <2>6 DEF AbortCleanup, RemovePair
  <2>7. ASSUME NEW c \in Container,
               Mount(c) \/ ReadCheckpoint(c) \/ ConfigureAndExec(c) \/ NetnsGone(c)
        PROVE  (BridgeOwned /\ UplinkOwned /\ ForwardOwned /\ LinkOwned)'
    BY <2>0, <2>1, <2>7 DEF Mount, ReadCheckpoint, ConfigureAndExec, NetnsGone
  <2>8. ASSUME NEW c \in Container, ChildExit(c)
        PROVE  (BridgeOwned /\ UplinkOwned /\ ForwardOwned /\ LinkOwned)'
    BY <2>0, <2>1, <2>8 DEF ChildExit
  <2>9. ASSUME NEW c \in Container, Kill(c) PROVE FALSE
    BY <2>1, <2>9 DEF Kill
  <2>10. CASE UNCHANGED vars
    BY <2>1, <2>10 DEF vars
  <2>11. QED
    BY <2>2, <2>12, <2>3, <2>4, <2>5, <2>6, <2>7, <2>8, <2>9, <2>10, Actions
<1>3. QED
  BY <1>1, <1>2, TypeInvariant, PcInvariant, PTL DEF Spec

\* When every capsule has ended and none was killed, br0 and veth0 are gone
\* and forwarding is off, even if cleanup scripts were aborted.
THEOREM HostRestoredHolds == Spec => []HostRestored
<1>1. PcInv /\ OwnedInv => HostRestored
  BY DEF PcInv, OwnedInv, HostRestored, BridgeOwned, UplinkOwned, ForwardOwned, LinkOwned,
     Uses, Alive, Cleaning
<1>2. QED
  BY <1>1, PcInvariant, OwnedInvariant, PTL
=============================================================================
