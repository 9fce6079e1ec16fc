------------------------ MODULE CapsuleCgroup_proofs ------------------------
(***************************************************************************)
(* Proofs about CapsuleCgroup for any set of capsules and of other         *)
(* processes.                                                              *)
(***************************************************************************)
EXTENDS CapsuleCgroup, TLAPS

\* Every action, for the steps that go through all of them.
LEMMA Actions ==
  ASSUME [Next]_vars
  PROVE  \/ \E c \in Capsule :
              \/ Start(c) \/ Mkdir(c) \/ Join(c) \/ CreateFails(c)
              \/ SetLimit(c) \/ SetLimitFails(c)
              \/ CallClone(c) \/ CloneChild(c) \/ CloneFails(c) \/ CloneReturns(c)
              \/ AddChild(c) \/ AddChildFails(c) \/ Waitpid(c)
              \/ Leave(c) \/ LeaveFails(c) \/ Rmdir(c) \/ Kill(c)
              \/ ChildSetup(c) \/ ChildEnds(c)
         \/ \E p \in Other : OtherClones(p)
         \/ UNCHANGED vars
BY DEF Next, CapsuleStep

-----------------------------------------------------------------------------
(* Types.                                                                  *)

Places == {"none", "mkdir", "join", "cpu", "memory", "io", "clone", "add",
           "wait", "leave", "rmdir"}

\* What TypeOK says of the capsules.
CapsuleTypeOK ==
  /\ removes \in BOOLEAN
  /\ group \in BOOLEAN
  /\ limits \subseteq Limit
  /\ main \in [Capsule -> Places]
  /\ mainIn \subseteq {c \in Capsule : main[c] # "none"}
  /\ child \in [Capsule -> {"none", "setup", "shell", "zombie"}]
  /\ childIn \subseteq {c \in Capsule : child[c] \in {"setup", "shell"}}
  /\ clean \in [Capsule -> BOOLEAN]
  /\ abandoned \in BOOLEAN

LEMMA MonitorType == MonitorTypeOK /\ [Next]_vars => MonitorTypeOK'
<1> SUFFICES ASSUME MonitorTypeOK, [Next]_vars PROVE MonitorTypeOK'
  OBVIOUS
<1> USE DEF MonitorTypeOK, Result, Process
<1>1. ASSUME NEW p \in Process, EnterClone(p) PROVE MonitorTypeOK'
  BY <1>1 DEF EnterClone
<1>2. ASSUME NEW p \in Process, ProbeClone(p) PROVE MonitorTypeOK'
  BY <1>2 DEF ProbeClone
<1>3. ASSUME NEW p \in Process, NEW r \in Result, Cloned(p, r) PROVE MonitorTypeOK'
  BY <1>3 DEF Cloned
<1>4. ASSUME NEW p \in Process, CloneExit(p) PROVE MonitorTypeOK'
  BY <1>4 DEF CloneExit
<1>5. CASE UNCHANGED monitor
  BY <1>5 DEF monitor
<1>6. ASSUME NEW c \in Capsule,
             CallClone(c) \/ CloneChild(c) \/ CloneFails(c) \/ CloneReturns(c)
      PROVE  MonitorTypeOK'
  BY <1>6, <1>1, <1>2, <1>3, <1>4 DEF CallClone, CloneChild, CloneFails, CloneReturns
<1>7. ASSUME NEW p \in Other, OtherClones(p) PROVE MonitorTypeOK'
  BY <1>7, <1>1, <1>2, <1>3, <1>4 DEF OtherClones
<1>8. QED
  BY <1>5, <1>6, <1>7, Actions
  DEF Start, Mkdir, Join, CreateFails, SetLimit, SetLimitFails, AddChild, AddChildFails,
      Waitpid, Leave, LeaveFails, Rmdir, Kill, ChildSetup, ChildEnds, vars

\* A capsule clones at one place, and a clone that succeeds leaves a child,
\* which lives, or is a zombie, until its parent has waited for it.
PcInv ==
  \A c \in Capsule :
    /\ cloning[c] # "no" => main[c] = "clone"
    /\ cloning[c] = "returns" /\ ret[c] # "error" => child[c] # "none"
    /\ main[c] \in {"add", "wait"} => child[c] # "none"

LEMMA CapsuleType == CapsuleTypeOK /\ PcInv /\ [Next]_vars => CapsuleTypeOK'
<1> SUFFICES ASSUME CapsuleTypeOK, PcInv, [Next]_vars PROVE CapsuleTypeOK'
  OBVIOUS
<1> USE DEF CapsuleTypeOK, Places, Limit, After, Goto, Ends, groupVars
<1>1. ASSUME NEW c \in Capsule, Start(c) \/ Mkdir(c) \/ Join(c) \/ CreateFails(c)
      PROVE  CapsuleTypeOK'
  BY <1>1 DEF Start, Mkdir, Join, CreateFails
<1>2. ASSUME NEW c \in Capsule, SetLimit(c) \/ SetLimitFails(c)
      PROVE  CapsuleTypeOK'
  <2>1. main[c] \in Limit => After[main[c]] \in Places
    <3>1. /\ After["cpu"] = "memory" /\ After["memory"] = "io" /\ After["io"] = "clone"
      BY DEF After
    <3>2. QED
      BY <3>1 DEF Limit, Places
  <2>2. main'[c] \in Places /\ main' \in [Capsule -> Places] /\ main'[c] # "none"
    BY <1>2, <2>1 DEF SetLimit, SetLimitFails
  <2>3. limits' \subseteq Limit
    BY <1>2 DEF SetLimit, SetLimitFails
  <2>4. clean' \in [Capsule -> BOOLEAN]
    BY <1>2 DEF SetLimit, SetLimitFails
  <2>5. QED
    BY <1>2, <2>2, <2>3, <2>4 DEF SetLimit, SetLimitFails
<1>3. ASSUME NEW c \in Capsule, CallClone(c) \/ CloneChild(c) \/ CloneFails(c) \/ CloneReturns(c)
      PROVE  CapsuleTypeOK'
  BY <1>3 DEF CallClone, CloneChild, CloneFails, CloneReturns
<1>4. ASSUME NEW c \in Capsule, AddChild(c) \/ AddChildFails(c) \/ Waitpid(c)
      PROVE  CapsuleTypeOK'
  <2>1. CASE AddChild(c)
    BY <2>1 DEF AddChild, PcInv
  <2>2. CASE AddChildFails(c)
    BY <2>2 DEF AddChildFails
  <2>3. CASE Waitpid(c)
    BY <2>3 DEF Waitpid
  <2>4. QED
    BY <1>4, <2>1, <2>2, <2>3
<1>5. ASSUME NEW c \in Capsule, Leave(c) \/ LeaveFails(c) \/ Rmdir(c) \/ Kill(c)
      PROVE  CapsuleTypeOK'
  BY <1>5 DEF Leave, LeaveFails, Rmdir, Kill
<1>6. ASSUME NEW c \in Capsule, ChildSetup(c) \/ ChildEnds(c)
      PROVE  CapsuleTypeOK'
  BY <1>6 DEF ChildSetup, ChildEnds
<1>7. ASSUME NEW p \in Other, OtherClones(p) PROVE CapsuleTypeOK'
  BY <1>7 DEF OtherClones
<1>8. CASE UNCHANGED vars
  BY <1>8 DEF vars
<1>9. QED
  BY <1>1, <1>2, <1>3, <1>4, <1>5, <1>6, <1>7, <1>8, Actions

LEMMA PcStep == CapsuleTypeOK /\ MonitorTypeOK /\ PcInv /\ [Next]_vars => PcInv'
<1> SUFFICES ASSUME CapsuleTypeOK, MonitorTypeOK, PcInv, [Next]_vars PROVE PcInv'
  OBVIOUS
<1> USE DEF PcInv, CapsuleTypeOK, MonitorTypeOK, Places, Process, Goto, Ends, monitor, groupVars
<1>1. ASSUME NEW c \in Capsule, Start(c) \/ Mkdir(c) \/ Join(c) \/ CreateFails(c)
      PROVE  PcInv'
  BY <1>1 DEF Start, Mkdir, Join, CreateFails
<1>2. ASSUME NEW c \in Capsule, SetLimit(c) \/ SetLimitFails(c)
      PROVE  PcInv'
  <2>1. main[c] \in Limit /\ main' = [main EXCEPT ![c] = After[main[c]]]
    BY <1>2 DEF SetLimit, SetLimitFails
  <2>2. After["cpu"] = "memory" /\ After["memory"] = "io" /\ After["io"] = "clone"
    BY DEF After
  <2>3. main'[c] \notin {"add", "wait"} /\ main[c] # "clone"
    BY <2>1, <2>2 DEF Limit
  <2>4. UNCHANGED <<cloning, ret, child>>
    BY <1>2 DEF SetLimit, SetLimitFails
  <2>5. QED
    BY <2>1, <2>3, <2>4
<1>3. ASSUME NEW c \in Capsule, CallClone(c) PROVE PcInv'
  BY <1>3 DEF CallClone, EnterClone, ProbeClone
<1>4. ASSUME NEW c \in Capsule, CloneChild(c) \/ CloneFails(c) PROVE PcInv'
  BY <1>4 DEF CloneChild, CloneFails, Cloned
<1>5. ASSUME NEW c \in Capsule, CloneReturns(c) PROVE PcInv'
  BY <1>5 DEF CloneReturns, CloneExit
<1>6. ASSUME NEW c \in Capsule, AddChild(c) \/ AddChildFails(c) \/ Waitpid(c)
      PROVE  PcInv'
  BY <1>6 DEF AddChild, AddChildFails, Waitpid
<1>7. ASSUME NEW c \in Capsule, Leave(c) \/ LeaveFails(c) \/ Rmdir(c) \/ Kill(c)
      PROVE  PcInv'
  BY <1>7 DEF Leave, LeaveFails, Rmdir, Kill
<1>8. ASSUME NEW c \in Capsule, ChildSetup(c) \/ ChildEnds(c)
      PROVE  PcInv'
  BY <1>8 DEF ChildSetup, ChildEnds
<1>9. ASSUME NEW p \in Other, OtherClones(p) PROVE PcInv'
  <2>1. p \notin Capsule
    BY NameAssumption
  <2>2. QED
    BY <1>9, <2>1 DEF OtherClones, EnterClone, ProbeClone, Cloned, CloneExit
<1>10. CASE UNCHANGED vars
  BY <1>10 DEF vars
<1>11. QED
  BY <1>1, <1>2, <1>3, <1>4, <1>5, <1>6, <1>7, <1>8, <1>9, <1>10, Actions

TypeInv == MonitorTypeOK /\ CapsuleTypeOK /\ PcInv

LEMMA TypeInvariant == Spec => []TypeInv
<1>1. Init => TypeInv
  BY BuildsAssumption
  DEF Init, MonitorInit, TypeInv, PcInv, MonitorTypeOK, CapsuleTypeOK, Places, Result,
     Process, Limit
<1>2. TypeInv /\ [Next]_vars => TypeInv'
  BY MonitorType, CapsuleType, PcStep DEF TypeInv
<1>3. QED
  BY <1>1, <1>2, PTL DEF Spec

\* Type correctness: capsules and monitor keep to their values, and only
\* processes that exist are in the group.
THEOREM TypeCorrect == Spec => []TypeOK
<1>1. TypeInv => TypeOK
  <2>1. Places = {"none", "mkdir", "join", "clone", "add", "wait", "leave", "rmdir"} \cup Limit
    BY DEF Places, Limit
  <2>2. QED
    BY <2>1, Zenon DEF TypeOK, TypeInv, CapsuleTypeOK
<1>2. QED
  BY <1>1, TypeInvariant, PTL

-----------------------------------------------------------------------------
(* The limits.  Somebody in the group keeps it, with the limits it has;    *)
(* and a capsule whose set-up has succeeded so far is in it and has set    *)
(* the limits that come before its place.                                  *)

\* The limits set before a place; the places a capsule is in the group at.
Before ==
  [cpu |-> {}, memory |-> {"cpu"}, io |-> {"cpu", "memory"},
   clone |-> Limit, add |-> Limit, wait |-> Limit]
Inside == {"cpu", "memory", "io", "clone", "add", "wait"}

LimitInv ==
  /\ mainIn \cup childIn # {} => group
  /\ \A c \in Capsule : clean[c] =>
       /\ main[c] \in Inside => c \in mainIn /\ Before[main[c]] \subseteq limits
       /\ child[c] \in {"setup", "shell"} => c \in childIn /\ limits = Limit

LEMMA LimitStep == TypeInv /\ LimitInv /\ [Next]_vars => LimitInv'
<1> SUFFICES ASSUME TypeInv, LimitInv, [Next]_vars PROVE LimitInv'
  OBVIOUS
<1>0. CapsuleTypeOK /\ PcInv
  BY DEF TypeInv
<1>a. /\ Before["cpu"] = {} /\ Before["memory"] = {"cpu"} /\ Before["io"] = {"cpu", "memory"}
      /\ Before["clone"] = Limit /\ Before["add"] = Limit /\ Before["wait"] = Limit
  BY DEF Before
<1>b. After["cpu"] = "memory" /\ After["memory"] = "io" /\ After["io"] = "clone"
  BY DEF After
<1> USE DEF LimitInv, CapsuleTypeOK, Inside, Places, Goto, Ends, groupVars
<1>1. ASSUME NEW c \in Capsule, Start(c) \/ Mkdir(c) \/ Join(c) \/ CreateFails(c)
      PROVE  LimitInv'
  BY <1>0, <1>a, <1>1 DEF Start, Mkdir, Join, CreateFails
<1>2. ASSUME NEW c \in Capsule, SetLimit(c) PROVE LimitInv'
  BY <1>0, <1>a, <1>b, <1>2 DEF SetLimit, Limit
<1>3. ASSUME NEW c \in Capsule, SetLimitFails(c) PROVE LimitInv'
  BY <1>0, <1>a, <1>b, <1>3 DEF SetLimitFails
<1>4. ASSUME NEW c \in Capsule, CallClone(c) \/ CloneChild(c) \/ CloneFails(c)
      PROVE  LimitInv'
  BY <1>0, <1>a, <1>4 DEF CallClone, CloneChild, CloneFails, Cloned, PcInv
<1>5. ASSUME NEW c \in Capsule, CloneReturns(c) PROVE LimitInv'
  BY <1>0, <1>a, <1>5 DEF CloneReturns, CloneExit, PcInv
<1>6. ASSUME NEW c \in Capsule, AddChild(c) \/ AddChildFails(c) \/ Waitpid(c)
      PROVE  LimitInv'
  BY <1>0, <1>a, <1>6 DEF AddChild, AddChildFails, Waitpid
<1>7. ASSUME NEW c \in Capsule, Leave(c) \/ LeaveFails(c) \/ Kill(c)
      PROVE  LimitInv'
  BY <1>0, <1>a, <1>7 DEF Leave, LeaveFails, Kill
<1>8. ASSUME NEW c \in Capsule, Rmdir(c) PROVE LimitInv'
  BY <1>0, <1>a, <1>8 DEF Rmdir
<1>9. ASSUME NEW c \in Capsule, ChildSetup(c) \/ ChildEnds(c) PROVE LimitInv'
  BY <1>0, <1>a, <1>9 DEF ChildSetup, ChildEnds
<1>10. CASE (\E p \in Other : OtherClones(p)) \/ UNCHANGED vars
  BY <1>10 DEF OtherClones, vars
<1>11. QED
  BY <1>1, <1>2, <1>3, <1>4, <1>5, <1>6, <1>7, <1>8, <1>9, <1>10, Actions

\* A shell whose set-up succeeded is in a group that has all its limits, for
\* any number of capsules that make, share and remove that group.
THEOREM ShellIsLimitedHolds == Spec => []ShellIsLimited
<1>1. Init => LimitInv
  BY DEF Init, LimitInv, Inside
<1>2. TypeInv /\ LimitInv => ShellIsLimited
  BY DEF TypeInv, CapsuleTypeOK, LimitInv, ShellIsLimited
<1>3. QED
  BY <1>1, <1>2, LimitStep, TypeInvariant, PTL DEF Spec

-----------------------------------------------------------------------------
(* The record of the monitor, while clones do not overlap.                 *)

RecordInv ==
  ~overlap =>
    /\ \A p, q \in Process : cloning[p] # "no" /\ cloning[q] # "no" => p = q
    /\ \A p \in Process : cloning[p] # "no" => (comm = "capsule" <=> p \in Capsule)
    /\ \A p \in Capsule : cloning[p] \in {"probed", "returns"} => parent = p
    /\ parent \in Capsule \cup {"none"}
    /\ task = last

LEMMA RecordStep == MonitorTypeOK /\ RecordInv /\ [Next]_vars => RecordInv'
<1> SUFFICES ASSUME MonitorTypeOK, RecordInv, [Next]_vars, ~overlap' PROVE RecordInv'
  BY DEF RecordInv
<1> USE DEF RecordInv, MonitorTypeOK
<1>0. Process = Capsule \cup Other /\ Capsule \cap Other = {} /\ "none" \notin Process
  BY NameAssumption DEF Process
<1>1. ASSUME NEW p \in Process, EnterClone(p) PROVE RecordInv'
  BY <1>0, <1>1 DEF EnterClone
<1>2. ASSUME NEW p \in Process, ProbeClone(p) PROVE RecordInv'
  BY <1>0, <1>2 DEF ProbeClone
<1>3. ASSUME NEW p \in Process, NEW r, Cloned(p, r) PROVE RecordInv'
  BY <1>0, <1>3 DEF Cloned
<1>4. ASSUME NEW p \in Process, CloneExit(p) PROVE RecordInv'
  BY <1>0, <1>4 DEF CloneExit
<1>5. CASE UNCHANGED monitor
  BY <1>5 DEF monitor
<1>6. ASSUME NEW c \in Capsule,
             CallClone(c) \/ CloneChild(c) \/ CloneFails(c) \/ CloneReturns(c)
      PROVE  RecordInv'
  BY <1>0, <1>6, <1>1, <1>2, <1>3, <1>4 DEF CallClone, CloneChild, CloneFails, CloneReturns
<1>7. ASSUME NEW p \in Other, OtherClones(p) PROVE RecordInv'
  BY <1>0, <1>7, <1>1, <1>2, <1>3, <1>4 DEF OtherClones
<1>8. QED
  BY <1>5, <1>6, <1>7, Actions
  DEF Start, Mkdir, Join, CreateFails, SetLimit, SetLimitFails, AddChild, AddChildFails,
      Waitpid, Leave, LeaveFails, Rmdir, Kill, ChildSetup, ChildEnds, vars

\* Between clones that do not overlap the monitor watches the child of the
\* capsule that cloned last, whatever other processes cloned in between.
THEOREM ReportsLastCloneHolds == Spec => []ReportsLastClone
<1>1. Init => RecordInv
  <2> SUFFICES ASSUME Init PROVE RecordInv
    OBVIOUS
  <2>1. \A p \in Process : cloning[p] = "no"
    BY DEF Init, MonitorInit
  <2>2. Capsule \subseteq Process /\ parent = "none" /\ task = "none" /\ last = "none"
    BY DEF Init, MonitorInit, Process
  <2>3. QED
    BY <2>1, <2>2 DEF RecordInv
<1>2. RecordInv => ReportsLastClone
  BY DEF RecordInv, ReportsLastClone, Reported
<1>3. TypeInv => MonitorTypeOK
  BY DEF TypeInv
<1>4. QED
  BY <1>1, <1>2, <1>3, RecordStep, TypeInvariant, PTL DEF Spec
=============================================================================
