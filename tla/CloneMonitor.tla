---------------------------- MODULE CloneMonitor ----------------------------
(***************************************************************************)
(* Assignment_3/q4/container_monitoring.bpf.c: the probes at the entry and *)
(* at the return of clone, which find out which task is the capsule, and   *)
(* the test that decides whose system calls and packets are reported.  The *)
(* probes run on the CPU of the task that clones, and all share one record,*)
(* child_data.                                                             *)
(*                                                                         *)
(* The caller of a task stands for its pid; its child for the child's pid. *)
(***************************************************************************)
CONSTANTS
  Capsule,   \* processes whose name is "capsule"
  Other      \* processes with another name that clone

\* A process has one name, and no process has the pid 0.
ASSUME NameAssumption == Capsule \cap Other = {} /\ "none" \notin Capsule \cup Other

VARIABLES
  cloning,   \* where each process is in its call of clone
  ret,       \* what the call will return
  comm,      \* child_data.comm: whose name it has
  parent,    \* child_data.cloned_child_parent_pid: whose pid
  task,      \* child_data.cloned_child_task_pid: whose child
  last,      \* history: what the last clone of a capsule returned
  overlap    \* history: two clones have overlapped

monitor == <<cloning, ret, comm, parent, task, last, overlap>>

Process == Capsule \cup Other

\* The child of a process, a negative error, or 0, which the record has first.
Result == Process \cup {"error", "none"}

MonitorInit ==
  /\ cloning = [p \in Process |-> "no"]
  /\ ret = [p \in Process |-> "none"]
  /\ comm = "none"
  /\ parent = "none"
  /\ task = "none"
  /\ last = "none"
  /\ overlap = FALSE

\* probe_clone writes the name into the record ...
EnterClone(p) ==
  /\ cloning[p] = "no"
  /\ cloning' = [cloning EXCEPT ![p] = "named"]
  /\ comm' = IF p \in Capsule THEN "capsule" ELSE "other"
  /\ overlap' = (overlap \/ \E q \in Process : cloning[q] # "no")
  /\ UNCHANGED <<ret, parent, task, last>>

\* ... compares what is there, and takes the caller's pid.
ProbeClone(p) ==
  /\ cloning[p] = "named"
  /\ cloning' = [cloning EXCEPT ![p] = "probed"]
  /\ parent' = IF comm = "capsule" THEN p ELSE parent
  /\ UNCHANGED <<ret, comm, task, last, overlap>>

\* The kernel's clone.
Cloned(p, result) ==
  /\ cloning[p] = "probed"
  /\ cloning' = [cloning EXCEPT ![p] = "returns"]
  /\ ret' = [ret EXCEPT ![p] = result]
  /\ UNCHANGED <<comm, parent, task, last, overlap>>

\* clone_exit takes the result if the call was the recorded process's.
\* Mutant: it takes every result.
CloneExit_any(p) ==
  /\ cloning[p] = "returns"
  /\ cloning' = [cloning EXCEPT ![p] = "no"]
  /\ ret' = [ret EXCEPT ![p] = "none"]
  /\ task' = ret[p]
  /\ last' = IF p \in Capsule THEN ret[p] ELSE last
  /\ UNCHANGED <<comm, parent, overlap>>
CloneExit(p) ==
  /\ cloning[p] = "returns"
  /\ cloning' = [cloning EXCEPT ![p] = "no"]
  /\ ret' = [ret EXCEPT ![p] = "none"]
  /\ task' = IF parent = p THEN ret[p] ELSE task
  /\ last' = IF p \in Capsule THEN ret[p] ELSE last
  /\ UNCHANGED <<comm, parent, overlap>>

\* The three reporting programs: the child of p, and what that child starts,
\* pass the test.
Reported(p) == task = p

MonitorTypeOK ==
  /\ cloning \in [Process -> {"no", "named", "probed", "returns"}]
  /\ ret \in [Process -> Result]
  /\ comm \in {"none", "capsule", "other"}
  /\ parent \in Process \cup {"none"}
  /\ task \in Result
  /\ last \in Result
  /\ overlap \in BOOLEAN
=============================================================================
