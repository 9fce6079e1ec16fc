----------------------------- MODULE TempDriver -----------------------------
(***************************************************************************)
(* Assignment_2/q2/tasklets/char_drv.c: the life of the temperature driver.*)
(* Init acquires resources one after the other and, when a call fails,     *)
(* jumps to the label that releases what it has; exit releases everything. *)
(* Meanwhile the device is opened and closed, the sysfs attribute is used, *)
(* the interrupt handler runs and schedules the tasklet.                   *)
(*                                                                         *)
(* To release what is not held is a warning of the kernel and no more.  A  *)
(* module that is used after it was freed is not loaded again until all    *)
(* that was left of it has run: what a use of freed memory does is not     *)
(* modelled.  The temperature itself is one word that sysfs_store writes   *)
(* and sysfs_show reads; it is left out.                                   *)
(***************************************************************************)
EXTENDS Naturals

CONSTANT User   \* processes that use the device and its attribute

VARIABLES
  gpio,      \* GPIO_INTERRUPT, a choice of the build; it never changes
  phase,     \* of the module
  at,        \* in init: the call to be made; later: the release to be made
  held,      \* the resources the module has
  files,     \* users that have the device open
  sysfs,     \* users in sysfs_show or sysfs_store
  handler,   \* irq_handler runs
  tasklet,   \* TASKLET_STATE_SCHED and TASKLET_STATE_RUN
  failed     \* history: the last init failed

vars == <<gpio, phase, at, held, files, sysfs, handler, tasklet, failed>>

Resource == {"region", "cdev", "class", "device", "kobject", "attr", "gpio", "irq"}

\* The calls of init, each with the one that follows it.
NextCall ==
  [region |-> "cdev", cdev |-> "class", class |-> "device", device |-> "kobject",
   kobject |-> "attr", attr |-> IF gpio THEN "gpio" ELSE "irq",
   gpio |-> "direction", direction |-> "irqno", irqno |-> "irq", irq |-> "done"]

\* Where a failing call jumps, by what is released there.  "gpio2" is the
\* second gpio_free, into which the label with the first one falls.
Label ==
  [region |-> "done", cdev |-> "region", class |-> "cdev", device |-> "device",
   attr |-> "kobject", gpio |-> "kobject", direction |-> "gpio2",
   irqno |-> "gpio2", irq |-> IF gpio THEN "gpio" ELSE "irq"]

\* What comes after each release, in the failing init and in exit.
\* Mutant of Unwind: class_destroy belongs to the next label.
Unwind_class ==
  [irq |-> "kobject", gpio |-> "gpio2", gpio2 |-> "kobject", kobject |-> "device",
   device |-> "cdev", class |-> "cdev", cdev |-> "region", region |-> "done"]
Unwind ==
  [irq |-> "kobject", gpio |-> "gpio2", gpio2 |-> "kobject", kobject |-> "device",
   device |-> "class", class |-> "cdev", cdev |-> "region", region |-> "done"]

\* Mutants of Exit: tasklet_kill is missing; the region goes before the device.
Exit_nokill ==
  [irq |-> IF gpio THEN "gpio" ELSE "kobject", gpio |-> "kobject", tasklet |-> "kobject",
   kobject |-> "device", device |-> "class", class |-> "cdev", cdev |-> "region",
   region |-> "done"]
Exit_order ==
  [irq |-> IF gpio THEN "gpio" ELSE "kobject", gpio |-> "tasklet", tasklet |-> "kobject",
   kobject |-> "region", region |-> "device", device |-> "class", class |-> "cdev",
   cdev |-> "done"]
Exit ==
  [irq |-> IF gpio THEN "gpio" ELSE "kobject", gpio |-> "tasklet", tasklet |-> "kobject",
   kobject |-> "device", device |-> "class", class |-> "cdev", cdev |-> "region",
   region |-> "done"]

Releasing == phase \in {"unwind", "exit"}

TypeOK ==
  /\ gpio \in BOOLEAN
  /\ phase \in {"absent", "init", "live", "unwind", "exit"}
  /\ phase = "init" => at \in DOMAIN NextCall \cup {"done"}
  /\ phase = "unwind" => at \in DOMAIN Unwind \cup {"done"}
  /\ phase = "exit" => at \in DOMAIN Exit \cup {"done"}
  /\ phase \in {"absent", "live"} => at = "done"
  /\ held \in SUBSET Resource
  /\ files \in SUBSET User /\ sysfs \in SUBSET User
  /\ handler \in BOOLEAN
  /\ tasklet \in SUBSET {"sched", "run"}
  /\ failed \in BOOLEAN

Init ==
  /\ gpio \in BOOLEAN
  /\ phase = "absent" /\ at = "done" /\ held = {}
  /\ files = {} /\ sysfs = {} /\ handler = FALSE /\ tasklet = {}
  /\ failed = FALSE

-----------------------------------------------------------------------------
(* Loading: temperature_driver_init.                                       *)

Load ==
  /\ phase = "absent" /\ files = {} /\ tasklet = {}
  /\ phase' = "init" /\ at' = "region" /\ failed' = FALSE
  /\ UNCHANGED <<gpio, held, files, sysfs, handler, tasklet>>

\* A call succeeds.  Without the kobject there is nothing to create the
\* attribute in; the direction and the number of the pin are no resources.
Acquire ==
  /\ phase = "init" /\ at # "done"
  /\ at = "attr" => "kobject" \in held
  /\ held' = held \cup (Resource \cap {at})
  /\ at' = NextCall[at]
  /\ UNCHANGED <<gpio, phase, files, sysfs, handler, tasklet, failed>>

\* The result of kobject_create_and_add is not checked.
NoKobject ==
  /\ phase = "init" /\ at = "kobject"
  /\ at' = NextCall[at]
  /\ UNCHANGED <<gpio, phase, held, files, sysfs, handler, tasklet, failed>>

\* Mutant of CallFails: the label is the one named like the call.
CallFails_own ==
  /\ phase = "init" /\ at \in DOMAIN Label
  /\ phase' = "unwind" /\ at' = at /\ failed' = TRUE
  /\ UNCHANGED <<gpio, held, files, sysfs, handler, tasklet>>

CallFails ==
  /\ phase = "init" /\ at \in DOMAIN Label
  /\ phase' = "unwind" /\ at' = Label[at] /\ failed' = TRUE
  /\ UNCHANGED <<gpio, held, files, sysfs, handler, tasklet>>

InitReturns ==
  /\ phase = "init" /\ at = "done"
  /\ phase' = "live"
  /\ UNCHANGED <<gpio, at, held, files, sysfs, handler, tasklet, failed>>

-----------------------------------------------------------------------------
(* Unloading: ioexpander_driver_exit, and the labels of a failing init.    *)

\* .owner = THIS_MODULE: no exit while a file is open.
Rmmod ==
  /\ phase = "live" /\ files = {}
  /\ phase' = "exit" /\ at' = "irq"
  /\ UNCHANGED <<gpio, held, files, sysfs, handler, tasklet, failed>>

\* What the release at r takes away: kobject_put removes the directory in
\* sysfs with the attribute in it; the sysfs_remove_file on kernel_kobj that
\* follows finds nothing to remove.
Released(r) == IF r = "kobject" THEN {"kobject", "attr"}
               ELSE IF r = "gpio2" THEN {"gpio"} ELSE {r}

\* First nobody new can use the resource...
Remove ==
  /\ Releasing /\ Released(at) \cap held # {}
  /\ held' = held \ Released(at)
  /\ UNCHANGED <<gpio, phase, at, files, sysfs, handler, tasklet, failed>>

\* Mutants of Drained: free_irq and kobject_put do not wait; cdev_del waits
\* for the open files.
Drained_now == at = "tasklet" => tasklet = {}
Drained_files ==
  /\ at = "irq" => ~handler
  /\ at = "kobject" => sysfs = {}
  /\ at = "tasklet" => tasklet = {}
  /\ at = "cdev" => files = {}

\* ...then free_irq, kobject_put and tasklet_kill wait for who still does.
Drained ==
  /\ at = "irq" => ~handler
  /\ at = "kobject" => sysfs = {}
  /\ at = "tasklet" => tasklet = {}

FallThrough ==
  /\ Releasing /\ at # "done" /\ Released(at) \cap held = {} /\ Drained
  /\ at' = IF phase = "exit" THEN Exit[at] ELSE Unwind[at]
  /\ UNCHANGED <<gpio, phase, held, files, sysfs, handler, tasklet, failed>>

\* The kernel frees the module's memory, whatever is left of it.
Free ==
  /\ Releasing /\ at = "done"
  /\ phase' = "absent"
  /\ UNCHANGED <<gpio, at, held, files, sysfs, handler, tasklet, failed>>

-----------------------------------------------------------------------------
(* Who uses the module.                                                    *)

\* The node exists from device_create on, even before init has returned.
Open(u) ==
  /\ {"cdev", "device"} \subseteq held /\ phase # "exit" /\ u \notin files
  /\ files' = files \cup {u}
  /\ UNCHANGED <<gpio, phase, at, held, sysfs, handler, tasklet, failed>>

Close(u) ==
  /\ u \in files
  /\ files' = files \ {u}
  /\ UNCHANGED <<gpio, phase, at, held, sysfs, handler, tasklet, failed>>

SysfsEnter(u) ==
  /\ "attr" \in held /\ u \notin sysfs
  /\ sysfs' = sysfs \cup {u}
  /\ UNCHANGED <<gpio, phase, at, held, files, handler, tasklet, failed>>

SysfsLeave(u) ==
  /\ u \in sysfs
  /\ sysfs' = sysfs \ {u}
  /\ UNCHANGED <<gpio, phase, at, held, files, handler, tasklet, failed>>

\* The pin, another device on the shared line, or a read of the device file,
\* which raises the vector of line 11 itself.
Interrupt ==
  /\ "irq" \in held /\ ~handler
  /\ handler' = TRUE
  /\ UNCHANGED <<gpio, phase, at, held, files, sysfs, tasklet, failed>>

HandlerReturns ==
  /\ handler
  /\ handler' = FALSE
  /\ tasklet' = tasklet \cup {"sched"}
  /\ UNCHANGED <<gpio, phase, at, held, files, sysfs, failed>>

\* The callback may be scheduled again while it runs.
TaskletRuns ==
  /\ tasklet = {"sched"}
  /\ tasklet' = {"run"}
  /\ UNCHANGED <<gpio, phase, at, held, files, sysfs, handler, failed>>

TaskletReturns ==
  /\ "run" \in tasklet
  /\ tasklet' = tasklet \ {"run"}
  /\ UNCHANGED <<gpio, phase, at, held, files, sysfs, handler, failed>>

-----------------------------------------------------------------------------
InitStep == Acquire \/ NoKobject \/ CallFails \/ InitReturns
ReleaseStep == Remove \/ FallThrough \/ Free
Softirq == TaskletRuns \/ TaskletReturns
Use(u) == Open(u) \/ Close(u) \/ SysfsEnter(u) \/ SysfsLeave(u)

Next ==
  \/ Load \/ InitStep \/ Rmmod \/ ReleaseStep
  \/ Interrupt \/ HandlerReturns \/ Softirq
  \/ \E u \in User : Use(u)

Spec == Init /\ [][Next]_vars

\* The kernel runs what has been started to its end.  Nobody has to load or
\* unload the module or to close a file, and no interrupt has to come.
Fairness ==
  /\ WF_vars(InitStep) /\ WF_vars(ReleaseStep)
  /\ WF_vars(HandlerReturns) /\ WF_vars(Softirq)
  /\ \A u \in User : WF_vars(SysfsLeave(u))

FairSpec == Spec /\ Fairness

-----------------------------------------------------------------------------
(* Properties.                                                             *)

\* "Error handling with goto labels": whichever call fails, and after every
\* exit, all that was acquired has been released.
NothingLeft == phase = "absent" => held = {}

\* "Resource release in reverse order": at every moment, on every path, a
\* resource is held only together with all that init acquires before it.
Rank == [region |-> 1, cdev |-> 2, class |-> 3, device |-> 4, kobject |-> 5,
         attr |-> 6, gpio |-> 7, irq |-> 8]
ReleasedInReverse ==
  \A r \in held, s \in Resource : Rank[s] < Rank[r] /\ (s = "gpio" => gpio) => s \in held

\* The handler and the sysfs functions never run in a module that is gone,
\* nor after init or exit have passed the release that waits for them.
CallbacksInside ==
  /\ handler => "irq" \in held \/ (phase = "exit" /\ at = "irq")
  /\ sysfs # {} => "attr" \in held \/ (Releasing /\ at = "kobject")
  /\ handler \/ sysfs # {} => phase # "absent"

\* With GPIO interrupts the tasklet never runs in a module that is gone.
TaskletKilled == gpio /\ tasklet # {} => phase # "absent"

\* "Proper cleanup in module exit": with either interrupt (readme.md:156).
TaskletInside == tasklet # {} => phase # "absent"

\* A file is never open in a module that is gone or on its way out, except
\* when it was opened during an init that then failed.
FilesInside == files # {} => phase \notin {"absent", "exit"} \/ failed

\* An exit and a failing init get to their end, whoever uses the module.
ReleaseEnds == Releasing ~> phase = "absent"
=============================================================================
