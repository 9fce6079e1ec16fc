--------------------------- MODULE CapsuleCgroup ---------------------------
(***************************************************************************)
(* The capsule with resource limits (Assignment_2/Q4/root: capsule.c,      *)
(* src/cgroups.h, src/cleanup.h), several of which share the control group *)
(* "mygroup", watched by the monitor of Assignment_3/q4.                   *)
(*                                                                         *)
(* cleanup.h removes the group only if ADD_TO_CGROUPS is defined where it  *)
(* is included.  capsule.c defines it eleven lines after including it, and *)
(* the makefile passes no -D: the repository builds the capsule that       *)
(* leaves the group behind, removes = FALSE.  The part is compiled with    *)
(* -DADD_TO_CGROUPS=1, removes = TRUE; that build is there for what it     *)
(* does to the capsules that go on.                                        *)
(*                                                                         *)
(* Extracting the archive comes first and touches nothing that is shared.  *)
(* A capsule that left its child behind is not started again until the     *)
(* child has ended, because its name stands for the child's pid.           *)
(***************************************************************************)
EXTENDS CloneMonitor

CONSTANT Builds   \* the builds that are looked at: what removes may be

ASSUME BuildsAssumption == Builds \subseteq BOOLEAN

VARIABLES
  removes,    \* the build: cleanup_resources has its cgroup part
  group,      \* the directory /sys/fs/cgroup/mygroup
  limits,     \* the limits of the group that are set
  main,       \* where each capsule's main is
  mainIn,     \* the mains that are in the group
  child,      \* the child of each capsule
  childIn,    \* the children that are in the group
  clean,      \* history: no call of the set-up failed
  abandoned   \* history: a main ended before its cleanup was complete

groupVars == <<group, limits, mainIn, childIn>>
vars == <<monitor, removes, groupVars, main, child, clean, abandoned>>

Limit == {"cpu", "memory", "io"}

\* What set_resource_limits does after each limit.
After == [cpu |-> "memory", memory |-> "io", io |-> "clone"]

Init ==
  /\ MonitorInit
  /\ removes \in Builds
  /\ group = FALSE
  /\ limits = {}
  /\ main = [c \in Capsule |-> "none"]
  /\ mainIn = {}
  /\ child = [c \in Capsule |-> "none"]
  /\ childIn = {}
  /\ clean = [c \in Capsule |-> TRUE]
  /\ abandoned = FALSE

Goto(c, place) == main' = [main EXCEPT ![c] = place]

\* The archive is extracted and the stack allocated; set_resource_limits.
Start(c) ==
  /\ main[c] = "none"
  /\ child[c] = "none"
  /\ Goto(c, "mkdir")
  /\ clean' = [clean EXCEPT ![c] = TRUE]
  /\ UNCHANGED <<monitor, removes, groupVars, child, abandoned>>

\* create_cgroup: the directory is made, or is there already, and the
\* controllers are enabled in the root group.
Mkdir(c) ==
  /\ main[c] = "mkdir"
  /\ Goto(c, "join")
  /\ group' = TRUE
  /\ UNCHANGED <<monitor, removes, limits, mainIn, child, childIn, clean, abandoned>>

\* The caller enters the group, if it has not been removed meanwhile.
\* Mutant: the group is only made, and the caller stays where it is.
Join_skip(c) ==
  /\ main[c] = "join"
  /\ group
  /\ Goto(c, "cpu")
  /\ UNCHANGED <<monitor, removes, groupVars, child, clean, abandoned>>
Join(c) ==
  /\ main[c] = "join"
  /\ group
  /\ Goto(c, "cpu")
  /\ mainIn' = mainIn \cup {c}
  /\ UNCHANGED <<monitor, removes, group, limits, child, childIn, clean, abandoned>>

\* Either fails, or the writing of the controllers in between: create_cgroup
\* returns -1, which its caller ignores.
CreateFails(c) ==
  /\ main[c] \in {"mkdir", "join"}
  /\ Goto(c, "cpu")
  /\ clean' = [clean EXCEPT ![c] = FALSE]
  /\ UNCHANGED <<monitor, removes, groupVars, child, abandoned>>

SetLimit(c) ==
  /\ main[c] \in Limit
  /\ group
  /\ Goto(c, After[main[c]])
  /\ limits' = limits \cup {main[c]}
  /\ UNCHANGED <<monitor, removes, group, mainIn, child, childIn, clean, abandoned>>

\* The file is missing or refuses the value: set_resource_limits goes on.
SetLimitFails(c) ==
  /\ main[c] \in Limit
  /\ Goto(c, After[main[c]])
  /\ clean' = [clean EXCEPT ![c] = FALSE]
  /\ UNCHANGED <<monitor, removes, groupVars, child, abandoned>>

\* clone, up to its return, with the monitor's entry probe
CallClone(c) ==
  /\ main[c] = "clone"
  /\ EnterClone(c) \/ ProbeClone(c)
  /\ UNCHANGED <<removes, groupVars, main, child, clean, abandoned>>

\* The child is born in its parent's group.
CloneChild(c) ==
  /\ Cloned(c, c)
  /\ child' = [child EXCEPT ![c] = "setup"]
  /\ childIn' = IF c \in mainIn THEN childIn \cup {c} ELSE childIn
  /\ UNCHANGED <<removes, group, limits, main, mainIn, clean, abandoned>>

CloneFails(c) ==
  /\ c \in Capsule
  /\ Cloned(c, "error")
  /\ UNCHANGED <<removes, groupVars, main, child, clean, abandoned>>

\* The process ends: it leaves the group, and its cleanup is not complete.
Ends(c) ==
  /\ Goto(c, "none")
  /\ mainIn' = mainIn \ {c}
  /\ abandoned' = TRUE

\* clone returns; main goes on, or exits if it failed.
CloneReturns(c) ==
  /\ CloneExit(c)
  /\ IF ret[c] = "error"
       THEN Ends(c)
       ELSE Goto(c, "add") /\ UNCHANGED <<mainIn, abandoned>>
  /\ UNCHANGED <<removes, group, limits, child, childIn, clean>>

\* The parent writes the child's pid to the group, too.
AddChild(c) ==
  /\ main[c] = "add"
  /\ group
  /\ Goto(c, "wait")
  /\ childIn' = IF child[c] = "zombie" THEN childIn ELSE childIn \cup {c}
  /\ UNCHANGED <<monitor, removes, group, limits, mainIn, child, clean, abandoned>>

\* It cannot: main returns -1 without waiting for the child.
AddChildFails(c) ==
  /\ main[c] = "add"
  /\ Ends(c)
  /\ child' = [child EXCEPT ![c] = IF @ = "zombie" THEN "none" ELSE @]
  /\ UNCHANGED <<monitor, removes, group, limits, childIn, clean>>

\* waitpid returns; cleanup_resources.
Waitpid(c) ==
  /\ main[c] = "wait"
  /\ child[c] = "zombie"
  /\ child' = [child EXCEPT ![c] = "none"]
  /\ IF removes
       THEN Goto(c, "leave") /\ UNCHANGED mainIn
       ELSE Goto(c, "none") /\ mainIn' = mainIn \ {c}
  /\ UNCHANGED <<monitor, removes, group, limits, childIn, clean, abandoned>>

\* cleanup_resources: main moves to the root group ...
Leave(c) ==
  /\ main[c] = "leave"
  /\ Goto(c, "rmdir")
  /\ mainIn' = mainIn \ {c}
  /\ UNCHANGED <<monitor, removes, group, limits, child, childIn, clean, abandoned>>

\* ... which may fail ...
LeaveFails(c) ==
  /\ main[c] = "leave"
  /\ Goto(c, "rmdir")
  /\ abandoned' = TRUE
  /\ UNCHANGED <<monitor, removes, groupVars, child, clean>>

\* ... and removes the group, which the kernel refuses while somebody is in it.
Rmdir(c) ==
  /\ main[c] = "rmdir"
  /\ Goto(c, "none")
  /\ IF mainIn \cup childIn = {}
       THEN group' = FALSE /\ limits' = {}
       ELSE UNCHANGED <<group, limits>>
  /\ mainIn' = mainIn \ {c}
  /\ UNCHANGED <<monitor, removes, child, childIn, clean, abandoned>>

\* Ctrl-C, or the memory limit, which holds for main as well.
Kill(c) ==
  /\ main[c] # "none"
  /\ cloning[c] = "no"
  /\ Ends(c)
  /\ child' = [child EXCEPT ![c] = IF @ = "zombie" THEN "none" ELSE @]
  /\ UNCHANGED <<monitor, removes, group, limits, childIn, clean>>

\* child_function up to the shell
ChildSetup(c) ==
  /\ child[c] = "setup"
  /\ child' = [child EXCEPT ![c] = "shell"]
  /\ UNCHANGED <<monitor, removes, groupVars, main, clean, abandoned>>

\* A call in child_function fails, or the shell ends, or it is killed.
\* Mutant: it stays in the group.
ChildEnds_in(c) ==
  /\ child[c] \in {"setup", "shell"}
  /\ child' = [child EXCEPT ![c] = IF main[c] = "none" THEN "none" ELSE "zombie"]
  /\ UNCHANGED <<monitor, removes, groupVars, main, clean, abandoned>>
ChildEnds(c) ==
  /\ child[c] \in {"setup", "shell"}
  /\ child' = [child EXCEPT ![c] = IF main[c] = "none" THEN "none" ELSE "zombie"]
  /\ childIn' = childIn \ {c}
  /\ UNCHANGED <<monitor, removes, group, limits, main, mainIn, clean, abandoned>>

\* Processes that are not capsules clone, too.
OtherClones(p) ==
  /\ \/ EnterClone(p) \/ ProbeClone(p) \/ CloneExit(p)
     \/ Cloned(p, p) \/ Cloned(p, "error")
  /\ UNCHANGED <<removes, groupVars, main, child, clean, abandoned>>

CapsuleStep(c) ==
  \/ Start(c) \/ Mkdir(c) \/ Join(c) \/ CreateFails(c)
  \/ SetLimit(c) \/ SetLimitFails(c)
  \/ CallClone(c) \/ CloneChild(c) \/ CloneFails(c) \/ CloneReturns(c)
  \/ AddChild(c) \/ AddChildFails(c) \/ Waitpid(c)
  \/ Leave(c) \/ LeaveFails(c) \/ Rmdir(c) \/ Kill(c)
  \/ ChildSetup(c) \/ ChildEnds(c)

Next ==
  \/ \E c \in Capsule : CapsuleStep(c)
  \/ \E p \in Other : OtherClones(p)

Spec == Init /\ [][Next]_vars

-----------------------------------------------------------------------------

\* The variables of the capsules and of the monitor have the values they can
\* have, and only what exists is in the group.
TypeOK ==
  /\ MonitorTypeOK
  /\ removes \in BOOLEAN
  /\ group \in BOOLEAN
  /\ limits \subseteq Limit
  /\ main \in [Capsule -> {"none", "mkdir", "join", "clone", "add",
                           "wait", "leave", "rmdir"} \cup Limit]
  /\ mainIn \subseteq {c \in Capsule : main[c] # "none"}
  /\ child \in [Capsule -> {"none", "setup", "shell", "zombie"}]
  /\ childIn \subseteq {c \in Capsule : child[c] \in {"setup", "shell"}}
  /\ clean \in [Capsule -> BOOLEAN]
  /\ abandoned \in BOOLEAN

\* The child runs as soon as it is cloned, before its parent puts it into the
\* group.  Still, a shell whose set-up succeeded has always been under all
\* three limits, whatever other capsules do to the group they share.
ShellIsLimited ==
  \A c \in Capsule :
    child[c] = "shell" /\ clean[c] => group /\ c \in childIn /\ limits = Limit

\* "Cleans up all resources, unmounts filesystems, and removes cgroups"
\* (src/cleanup.h:9): when every capsule has ended with a complete cleanup,
\* the group is gone.
GroupRemoved ==
  ~abandoned /\ (\A c \in Capsule : main[c] = "none") => ~group

\* The record is one for all clones, and the entry probe writes into it before
\* it knows whose clone it is.  If clones do not overlap, then between them
\* the monitor reports the shell of the capsule that cloned last, and no other.
ReportsLastClone ==
  (\A p \in Process : cloning[p] = "no") /\ ~overlap =>
    \A c \in Capsule : child[c] = "shell" => (Reported(c) <=> last = c)
=============================================================================
