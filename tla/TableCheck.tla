---------------------------- MODULE TableCheck ----------------------------
(***************************************************************************)
(* The system call sys_parth (Assignment_2/q1/customsys/sys_parth.c), which*)
(* looks for replaced entries of the system-call table, and its two        *)
(* callers: the module Assignment_2/q2/workqueues/work_queues_task.c, which*)
(* runs it every five seconds from a work queue, and the program           *)
(* Assignment_2/q2/cron/userspace.c, which cron starts.  They run while the*)
(* modules of CallTable come and go.                                       *)
(*                                                                         *)
(* A module that left a timer behind is not loaded again: what the timer   *)
(* does in freed memory is not modelled.                                   *)
(***************************************************************************)
EXTENDS CallTable

CONSTANTS
  Client,   \* processes that make the system call
  Machine   \* what machines have: which modules, whether the checker, and
            \* whether sys_call_table is in the kernel's symbol table

ASSUME MachineAssumption ==
  Machine \subseteq [hooks : SUBSET Hook, checks : BOOLEAN, symbol : BOOLEAN]

VARIABLES
  machine,     \* the machine this is; it never changes
  addr,        \* kp.addr is set
  registered,  \* kp is registered
  lookup,      \* kallsyms_lookup_name_my is set
  scan,        \* the place of each caller in sys_parth
  result,      \* what its last call returned (0: none yet)
  module,      \* the checker module
  queue,       \* its work queue
  timer,       \* its delayed work waits for its timer
  work,        \* its work item
  overlap,     \* history: two scans have overlapped
  foreign      \* history: entries that have been foreign since the scan began

kprobe  == <<addr, registered, lookup>>
checker == <<module, queue, timer, work>>
scanning == <<kprobe, scan, result, overlap>>
vars == <<machine, tableVars, scanning, checker, foreign>>

\* "worker" is the kernel thread of the work queue.
Caller == Client \cup {"worker"}

\* The loop ends at 171: getdents64, number 217, is never looked at.
Scanned == {"exit", "getdents"}

Replaced == {e \in Scanned : table[e] # "core"}

Init ==
  /\ machine \in Machine
  /\ TableInit
  /\ addr = FALSE
  /\ registered = FALSE
  /\ lookup = FALSE
  /\ scan = [c \in Caller |-> "none"]
  /\ result = [c \in Caller |-> 0]
  /\ module = "out"
  /\ queue = "none"
  /\ timer = FALSE
  /\ work = "idle"
  /\ overlap = FALSE
  /\ foreign = [c \in Caller |-> {}]

-----------------------------------------------------------------------------
(* sys_parth.  Its kprobe and the pointer found with it are static.        *)

Begin(c) ==
  /\ scan' = [scan EXCEPT ![c] = "register"]
  /\ overlap' = (overlap \/ \E d \in Caller : scan[d] \notin {"none", "dead"})
  /\ foreign' = [foreign EXCEPT ![c] = Replaced]

\* register_kprobe: a probe that has a symbol must not have an address yet.
Register(c) ==
  /\ scan[c] = "register"
  /\ IF addr
       THEN UNCHANGED <<addr, registered>>
       ELSE addr' = TRUE /\ registered' = TRUE
  /\ scan' = [scan EXCEPT ![c] = "assign"]
  /\ UNCHANGED <<machine, tableVars, lookup, result, overlap, checker, foreign>>

\* The address is taken over into kallsyms_lookup_name_my.
\* Mutant: only after unregister_kprobe, which keeps the address if registered.
Assign_late(c) ==
  /\ scan[c] = "assign"
  /\ lookup' = registered
  /\ scan' = [scan EXCEPT ![c] = "unregister"]
  /\ UNCHANGED <<machine, tableVars, addr, registered, result, overlap, checker, foreign>>
Assign(c) ==
  /\ scan[c] = "assign"
  /\ lookup' = addr
  /\ scan' = [scan EXCEPT ![c] = "unregister"]
  /\ UNCHANGED <<machine, tableVars, addr, registered, result, overlap, checker, foreign>>

\* unregister_kprobe: the address stays, unless the probe was not registered.
\* Mutant: the address is cleared and the probe stays.
Unregister_address(c) ==
  /\ scan[c] = "unregister"
  /\ addr' = FALSE
  /\ scan' = [scan EXCEPT ![c] = "call"]
  /\ UNCHANGED <<machine, tableVars, registered, lookup, result, overlap, checker, foreign>>
Unregister(c) ==
  /\ scan[c] = "unregister"
  /\ IF registered
       THEN registered' = FALSE /\ UNCHANGED addr
       ELSE addr' = FALSE /\ UNCHANGED registered
  /\ scan' = [scan EXCEPT ![c] = "call"]
  /\ UNCHANGED <<machine, tableVars, lookup, result, overlap, checker, foreign>>

Returns(c, value) ==
  /\ scan' = [scan EXCEPT ![c] = "none"]
  /\ result' = [result EXCEPT ![c] = value]

\* The table is looked up through the pointer, and then without it.
Call(c) ==
  /\ scan[c] = "call"
  /\ lookup
  /\ machine.symbol
  /\ scan' = [scan EXCEPT ![c] = "again"]
  /\ UNCHANGED <<machine, tableVars, kprobe, result, overlap, checker, foreign>>

\* Without the symbol the call fails, with the value that also says that
\* nothing was intercepted.
NotFound(c) ==
  /\ scan[c] = "call"
  /\ lookup
  /\ ~machine.symbol
  /\ Returns(c, -1)
  /\ UNCHANGED <<machine, tableVars, kprobe, overlap, checker, foreign>>

\* core_kernel_text is looked up through the pointer, which may be another
\* one by now; every kernel has that function.
CallAgain(c) ==
  /\ scan[c] = "again"
  /\ lookup
  /\ scan' = [scan EXCEPT ![c] = "exit"]
  /\ UNCHANGED <<machine, tableVars, kprobe, result, overlap, checker, foreign>>

\* A call of a null pointer kills the process, or the worker in the handler.
CallNull(c) ==
  /\ scan[c] \in {"call", "again"}
  /\ ~lookup
  /\ scan' = [scan EXCEPT ![c] = "dead"]
  /\ foreign' = [foreign EXCEPT ![c] = {}]
  /\ UNCHANGED <<machine, tableVars, kprobe, result, overlap, checker>>

\* Mutant of Look: the loop ends at the first entry that is the kernel's own.
Look_first(c, e) ==
  /\ scan[c] = e
  /\ Returns(c, IF table[e] # "core" THEN 1 ELSE -1)
  /\ UNCHANGED <<machine, tableVars, kprobe, overlap, checker, foreign>>
\* The next of the two entries that somebody replaces is tested.
Look(c, e) ==
  /\ scan[c] = e
  /\ IF table[e] # "core" THEN Returns(c, 1)
     ELSE IF e = "exit" THEN scan' = [scan EXCEPT ![c] = "getdents"] /\ UNCHANGED result
     ELSE Returns(c, -1)
  /\ UNCHANGED <<machine, tableVars, kprobe, overlap, checker, foreign>>

ScanStep(c) ==
  \/ Register(c) \/ Assign(c) \/ Unregister(c)
  \/ Call(c) \/ NotFound(c) \/ CallAgain(c) \/ CallNull(c)
  \/ \E e \in Scanned : Look(c, e)

\* The program that cron starts: one call.
ClientRuns(c) ==
  /\ machine.checks
  /\ scan[c] \in {"none", "dead"}
  /\ Begin(c)
  /\ result' = [result EXCEPT ![c] = 0]
  /\ UNCHANGED <<machine, tableVars, kprobe, checker>>

-----------------------------------------------------------------------------
(* The checker module and its work queue.                                  *)

\* custom_init_module, when both symbols are found.  Without a queue the
\* module is loaded all the same.
Load ==
  /\ machine.checks /\ machine.symbol
  /\ module = "out"
  /\ ~timer
  /\ module' = "in"
  /\ \/ queue' = "live" /\ timer' = TRUE
     \/ queue' = "none" /\ UNCHANGED timer
  /\ UNCHANGED <<machine, tableVars, scanning, work, foreign>>

\* The delayed work is queued, unless the queue is being destroyed.
TimerFires ==
  /\ timer
  /\ queue = "live"
  /\ timer' = FALSE
  /\ work' = IF module = "drain" THEN work ELSE "queued"
  /\ UNCHANGED <<machine, tableVars, scanning, module, queue, foreign>>

\* The worker enters mykmod_work_handler, which makes the call.
HandlerStarts ==
  /\ work = "queued"
  /\ work' = "running"
  /\ Begin("worker")
  /\ result' = [result EXCEPT !["worker"] = 0]
  /\ UNCHANGED <<machine, tableVars, kprobe, module, queue, timer>>

\* ... and, after the call, arms the timer.  A flush waits for this.
\* Mutant: the handler does not arm the timer.
HandlerReturns_once ==
  /\ work = "running"
  /\ scan["worker"] = "none"
  /\ work' = "idle"
  /\ module' = IF module = "flush" THEN "flushed" ELSE module
  /\ UNCHANGED <<machine, tableVars, scanning, queue, timer, foreign>>
HandlerReturns ==
  /\ work = "running"
  /\ scan["worker"] = "none"
  /\ work' = "idle"
  /\ timer' = TRUE
  /\ module' = IF module = "flush" THEN "flushed" ELSE module
  /\ UNCHANGED <<machine, tableVars, scanning, queue, foreign>>

\* custom_cleanup_module: flush_workqueue waits for the work that is pending.
Unload ==
  /\ module = "in"
  /\ module' = IF queue = "none" THEN "out"
               ELSE IF work = "idle" THEN "flushed" ELSE "flush"
  /\ UNCHANGED <<machine, tableVars, scanning, queue, timer, work, foreign>>

\* destroy_workqueue: from now on nothing is queued ...
Drain ==
  /\ module = "flushed"
  /\ module' = "drain"
  /\ UNCHANGED <<machine, tableVars, scanning, queue, timer, work, foreign>>

\* ... and the queue goes when it is empty.
Destroy ==
  /\ module = "drain"
  /\ work = "idle"
  /\ queue' = "none"
  /\ module' = "out"
  /\ UNCHANGED <<machine, tableVars, scanning, timer, work, foreign>>

CheckerStep ==
  \/ TimerFires \/ HandlerStarts \/ HandlerReturns
  \/ Drain \/ Destroy

\* A step of the hook modules; scans that are under way see it or not.  The
\* modules look for the symbol too, and are not loaded without it.
TableStep ==
  /\ machine.symbol
  /\ TableNext(machine.hooks)
  /\ foreign' = [c \in Caller |-> foreign[c] \cap {e \in Scanned : table'[e] # "core"}]
  /\ UNCHANGED <<machine, scanning, checker>>

Next ==
  \/ TableStep
  \/ Load \/ Unload \/ CheckerStep
  \/ \E c \in Client : ClientRuns(c)
  \/ \E c \in Caller : ScanStep(c)

\* The kernel runs what it has begun: timers fire, the worker is scheduled, a
\* system call in progress goes on.  Nobody must load or unload or call.
Fairness ==
  /\ WF_vars(CheckerStep)
  /\ \A c \in Caller : WF_vars(ScanStep(c))

Spec == Init /\ [][Next]_vars /\ Fairness

-----------------------------------------------------------------------------

\* The variables of the table, the scan and the checker have the values they
\* can have.
TypeOK ==
  /\ machine \in Machine
  /\ TableTypeOK
  /\ addr \in BOOLEAN /\ registered \in BOOLEAN /\ lookup \in BOOLEAN
  /\ scan \in [Caller -> {"none", "dead", "register", "assign", "unregister",
                          "call", "again", "exit", "getdents"}]
  /\ result \in [Caller -> {-1, 0, 1}]
  /\ module \in {"out", "in", "flush", "flushed", "drain"}
  /\ queue \in {"none", "live"}
  /\ timer \in BOOLEAN
  /\ work \in {"idle", "queued", "running"}
  /\ overlap \in BOOLEAN
  /\ foreign \in [Caller -> SUBSET Scanned]
  /\ registered => addr

\* The kprobe is static and its address survives one call in two, so every
\* other registration fails; still, a scan that no other has ever overlapped
\* finds the function and does not call a null pointer.
OneScanIsSafe == (\E c \in Caller : scan[c] = "dead") => overlap

\* sys_parth looks at one entry after the other while modules replace and
\* restore them.  If it says that no call was intercepted, then none of the
\* entries it looks at was foreign all the time it took.  It says the same
\* when it did not find the table; but where it is not found the modules do
\* not find it either.
CleanMeansClean ==
  \A c \in Caller : scan[c] = "none" /\ result[c] = -1 => foreign[c] = {}

\* As long as the checker stays loaded with its queue, a scan of its worker
\* reports an entry that stays foreign, and another one after it, without end.
\* Only a worker that died after two scans had overlapped is excused.
HookReported ==
  \A e \in Scanned :
    <>[](/\ table[e] # "core"
         /\ module = "in" /\ queue = "live"
         /\ overlap => scan["worker"] # "dead")
      => []<><<\E f \in Scanned : Look("worker", f) /\ result'["worker"] = 1>>_vars

\* The claim "Flushes and destroys work queue before module unload"
\* (work_queues_task.c:235), taken to mean that nothing of the work is left:
\* no timer is armed for a queue that is gone.
TimerHasQueue == timer => queue = "live"
=============================================================================
