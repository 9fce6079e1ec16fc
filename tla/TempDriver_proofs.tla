------------------------- MODULE TempDriver_proofs -------------------------
(***************************************************************************)
(* Proofs about the temperature driver.  What the driver holds is a        *)
(* function of where it is: in init what the calls before this one have    *)
(* acquired, later what the labels from here on release.  The other        *)
(* invariants say until when a callback can still run.                     *)
(***************************************************************************)
EXTENDS TempDriver, TLAPS

Pin == IF gpio THEN {"gpio"} ELSE {}

\* What init has acquired before each of its calls.
Before ==
  [region |-> {}, cdev |-> {"region"}, class |-> {"region", "cdev"},
   device |-> {"region", "cdev", "class"},
   kobject |-> {"region", "cdev", "class", "device"},
   attr |-> {"region", "cdev", "class", "device", "kobject"},
   gpio |-> {"region", "cdev", "class", "device", "kobject", "attr"},
   direction |-> {"region", "cdev", "class", "device", "kobject", "attr", "gpio"},
   irqno |-> {"region", "cdev", "class", "device", "kobject", "attr", "gpio"},
   irq |-> {"region", "cdev", "class", "device", "kobject", "attr"} \cup Pin,
   done |-> {"region", "cdev", "class", "device", "kobject", "attr", "irq"} \cup Pin]

\* What is still to be released from each label on.
From ==
  [irq |-> {"region", "cdev", "class", "device", "kobject", "attr", "irq"} \cup Pin,
   gpio |-> {"region", "cdev", "class", "device", "kobject", "attr"} \cup Pin,
   gpio2 |-> {"region", "cdev", "class", "device", "kobject", "attr"} \cup Pin,
   tasklet |-> {"region", "cdev", "class", "device", "kobject", "attr"},
   kobject |-> {"region", "cdev", "class", "device", "kobject", "attr"},
   device |-> {"region", "cdev", "class", "device"},
   class |-> {"region", "cdev", "class"},
   cdev |-> {"region", "cdev"}, region |-> {"region"}, done |-> {}]

\* The places that only one of the two drivers has.
PlaceInv ==
  /\ at \in {"gpio", "direction", "irqno", "gpio2", "tasklet"} => gpio
  /\ phase = "unwind" /\ at = "irq" => ~gpio /\ "irq" \notin held

\* Without its attribute, or as a null pointer, the kobject is released too.
HeldInv ==
  /\ phase = "absent" => held = {}
  /\ phase = "init" => held = Before[at] \/ (at = "attr" /\ held = Before["kobject"])
  /\ phase = "live" => held = Before["done"]
  /\ Releasing => \/ held = From[at] \/ held = From[at] \ Released(at)
                  \/ (at = "kobject" /\ held = Before["attr"])

\* Before the interrupt line is requested, and after tasklet_kill has
\* returned, nothing schedules the tasklet.
TaskletInv ==
  gpio /\ (handler \/ tasklet # {}) =>
    \/ phase = "init" /\ at = "done"
    \/ phase = "live"
    \/ phase = "exit" /\ at \in {"irq", "gpio", "tasklet"}

FilesInv ==
  /\ FilesInside
  /\ phase = "unwind" => failed
  /\ phase \in {"init", "live", "exit"} => ~failed

IInv == TypeOK /\ PlaceInv /\ HeldInv /\ CallbacksInside /\ TaskletInv /\ FilesInv

-----------------------------------------------------------------------------
LEMMA IInvInit == Init => IInv
BY DEF Init, IInv, TypeOK, PlaceInv, HeldInv, CallbacksInside, TaskletInv, FilesInv,
       FilesInside, Releasing, Resource

\* The type invariant.
LEMMA TypeStep == TypeOK /\ PlaceInv /\ [Next]_vars => TypeOK'
<1> SUFFICES ASSUME TypeOK, PlaceInv, [Next]_vars PROVE TypeOK'
  OBVIOUS
<1> USE DEF TypeOK
<1>1. CASE Load
  BY <1>1 DEF Load, NextCall
<1>2. CASE Acquire
  BY <1>2 DEF Acquire, NextCall, Resource
<1>3. CASE NoKobject
  BY <1>3 DEF NoKobject, NextCall
<1>4. CASE CallFails
  BY <1>4 DEF CallFails, Label, Unwind
<1>5. CASE InitReturns
  BY <1>5 DEF InitReturns
<1>6. CASE Rmmod
  BY <1>6 DEF Rmmod, Exit
<1>7. CASE Remove
  BY <1>7 DEF Remove, Releasing, Unwind, Exit
<1>8. CASE FallThrough
  <2>1. CASE phase = "exit"
    BY <1>8, <2>1 DEF FallThrough, Exit
  <2>2. CASE phase = "unwind"
    BY <1>8, <2>2 DEF FallThrough, Unwind
  <2>3. QED  BY <1>8, <2>1, <2>2 DEF FallThrough, Releasing
<1>9. CASE Free
  BY <1>9 DEF Free, Releasing
<1>10. CASE Interrupt \/ HandlerReturns \/ Softirq
  BY <1>10 DEF Interrupt, HandlerReturns, Softirq, TaskletRuns, TaskletReturns, NextCall, Unwind, Exit
<1>11. CASE \E u \in User : Use(u)
  BY <1>11 DEF Use, Open, Close, SysfsEnter, SysfsLeave, NextCall, Unwind, Exit
<1>12. CASE UNCHANGED vars
  BY <1>12 DEF vars, NextCall, Unwind, Exit
<1>13. QED
  BY <1>1, <1>2, <1>3, <1>4, <1>5, <1>6, <1>7, <1>8, <1>9, <1>10, <1>11, <1>12
     DEF Next, InitStep, ReleaseStep

\* No step changes the build, so none changes the two tables.
LEMMA SameBuild == [Next]_vars => gpio' = gpio /\ Before' = Before /\ From' = From
<1> SUFFICES ASSUME [Next]_vars PROVE gpio' = gpio /\ Before' = Before /\ From' = From
  OBVIOUS
<1>1. gpio' = gpio
  BY DEF Next, InitStep, ReleaseStep, Softirq, Use, Load, Acquire, NoKobject, CallFails,
         InitReturns, Rmmod, Remove, FallThrough, Free, Open, Close, SysfsEnter, SysfsLeave,
         Interrupt, HandlerReturns, TaskletRuns, TaskletReturns, vars
<1>2. QED  BY <1>1 DEF Before, From, Pin

\* The other invariants, one lemma each.
LEMMA PlaceStep == TypeOK /\ PlaceInv /\ HeldInv /\ [Next]_vars => PlaceInv'
<1> SUFFICES ASSUME TypeOK, PlaceInv, HeldInv, [Next]_vars PROVE PlaceInv'
  OBVIOUS
<1> USE DEF TypeOK, PlaceInv
<1>1. CASE Load \/ InitReturns \/ Rmmod \/ Free
  BY <1>1 DEF Load, InitReturns, Rmmod, Free
<1>2. CASE Acquire \/ NoKobject
  BY <1>2 DEF Acquire, NoKobject, NextCall
<1>3. CASE CallFails
  <2>1. at = "irq" => held = Before["irq"]
    BY <1>3 DEF CallFails, HeldInv
  <2>2. at' = "irq" => at = "irq" /\ ~gpio
    <3>1. CASE gpio
      BY <1>3, <3>1 DEF CallFails, Label
    <3>2. CASE ~gpio
      BY <1>3, <3>2 DEF CallFails, Label
    <3>3. QED  BY <3>1, <3>2
  <2>3. at' \in {"gpio", "gpio2"} => gpio
    BY <1>3 DEF CallFails, Label
  <2>4. QED  BY <1>3, <2>1, <2>2, <2>3 DEF CallFails, Before, Pin, Label
<1>4. CASE Remove
  BY <1>4 DEF Remove
<1>5. CASE FallThrough
  <2>1. CASE phase = "exit"
    BY <1>5, <2>1 DEF FallThrough, Exit
  <2>2. CASE phase = "unwind"
    BY <1>5, <2>2 DEF FallThrough, Unwind
  <2>3. QED  BY <1>5, <2>1, <2>2 DEF FallThrough, Releasing
<1>6. CASE Interrupt \/ HandlerReturns \/ Softirq
  BY <1>6 DEF Interrupt, HandlerReturns, Softirq, TaskletRuns, TaskletReturns
<1>7. CASE \E u \in User : Use(u)
  BY <1>7 DEF Use, Open, Close, SysfsEnter, SysfsLeave
<1>8. CASE UNCHANGED vars
  BY <1>8 DEF vars
<1>9. QED
  BY <1>1, <1>2, <1>3, <1>4, <1>5, <1>6, <1>7, <1>8 DEF Next, InitStep, ReleaseStep

LEMMA HeldStep == TypeOK /\ PlaceInv /\ HeldInv /\ [Next]_vars => HeldInv'
<1> SUFFICES ASSUME TypeOK, PlaceInv, HeldInv, [Next]_vars PROVE HeldInv'
  OBVIOUS
<1> USE DEF HeldInv, Releasing
<1>0. gpio \in BOOLEAN /\ gpio' = gpio /\ Before' = Before /\ From' = From
  BY SameBuild DEF TypeOK
<1>1. CASE Load
  BY <1>0, <1>1 DEF Load, Before
<1>2. CASE Acquire
  <2>1. held = Before[at]
    BY <1>0, <1>2 DEF Acquire, Before
  <2>2. at \in {"region", "cdev", "class", "device", "kobject", "attr",
                "gpio", "direction", "irqno", "irq"}
    BY <1>2 DEF Acquire, TypeOK, NextCall
  <2>3. at' = NextCall[at] /\ held' = held \cup (Resource \cap {at})
    BY <1>2 DEF Acquire
  <2>4. held' = Before[at']
    <3>1. CASE at = "region"
      BY <2>1, <2>3, <3>1 DEF NextCall, Before, Resource
    <3>2. CASE at = "cdev"
      BY <2>1, <2>3, <3>2 DEF NextCall, Before, Resource
    <3>3. CASE at = "class"
      BY <2>1, <2>3, <3>3 DEF NextCall, Before, Resource
    <3>4. CASE at = "device"
      BY <2>1, <2>3, <3>4 DEF NextCall, Before, Resource
    <3>5. CASE at = "kobject"
      BY <2>1, <2>3, <3>5 DEF NextCall, Before, Resource
    <3>6. CASE at = "attr"
      BY <1>0, <2>1, <2>3, <3>6 DEF NextCall, Before, Resource, Pin
    <3>7. CASE at = "gpio"
      BY <2>1, <2>3, <3>7 DEF NextCall, Before, Resource
    <3>8. CASE at = "direction"
      BY <2>1, <2>3, <3>8 DEF NextCall, Before, Resource
    <3>9. CASE at = "irqno"
      BY <2>1, <2>3, <3>9 DEF NextCall, Before, Resource, Pin, PlaceInv
    <3>10. CASE at = "irq"
      BY <1>0, <2>1, <2>3, <3>10 DEF NextCall, Before, Resource, Pin
    <3>11. QED
      BY <2>2, <3>1, <3>2, <3>3, <3>4, <3>5, <3>6, <3>7, <3>8, <3>9, <3>10
  <2>5. QED  BY <1>0, <1>2, <2>4 DEF Acquire
<1>3. CASE NoKobject
  BY <1>0, <1>3 DEF NoKobject, NextCall, Before, Pin
<1>4. CASE CallFails
  <2>1. held = Before[at] \/ (at = "attr" /\ held = Before["kobject"])
    BY <1>0, <1>4 DEF CallFails
  <2>2. \/ held' = From[at'] \/ held' = From[at'] \ Released(at')
        \/ (at' = "kobject" /\ held' = Before["attr"])
    <3>1. at' = Label[at] /\ held' = held
      BY <1>4 DEF CallFails
    <3>2. CASE at = "region"
      BY <2>1, <3>1, <3>2 DEF Label, Before, From, Released
    <3>3. CASE at = "cdev"
      BY <2>1, <3>1, <3>3 DEF Label, Before, From, Released
    <3>4. CASE at = "class"
      BY <2>1, <3>1, <3>4 DEF Label, Before, From, Released
    <3>5. CASE at = "device"
      BY <2>1, <3>1, <3>5 DEF Label, Before, From, Released
    <3>6. CASE at = "attr"
      BY <2>1, <3>1, <3>6 DEF Label, Before, From, Released
    <3>7. CASE at = "gpio"
      BY <2>1, <3>1, <3>7 DEF Label, Before, From, Released, Pin, PlaceInv
    <3>8. CASE at = "direction"
      BY <2>1, <3>1, <3>8 DEF Label, Before, From, Released, Pin, PlaceInv
    <3>9. CASE at = "irqno"
      BY <2>1, <3>1, <3>9 DEF Label, Before, From, Released, Pin, PlaceInv
    <3>10. CASE at = "irq" /\ gpio
      BY <2>1, <3>1, <3>10 DEF Label, Before, From, Pin, Released
    <3>11. CASE at = "irq" /\ ~gpio
      BY <2>1, <3>1, <3>11 DEF Label, Before, From, Pin, Released
    <3>12. at \in {"region", "cdev", "class", "device", "attr", "gpio",
                   "direction", "irqno", "irq"}
      BY <1>4 DEF CallFails, Label
    <3>13. QED
      BY <3>2, <3>3, <3>4, <3>5, <3>6, <3>7, <3>8, <3>9, <3>10, <3>11, <3>12
  <2>3. QED  BY <1>0, <1>4, <2>2 DEF CallFails
<1>5. CASE InitReturns
  BY <1>0, <1>5 DEF InitReturns, Before, Pin
<1>6. CASE Rmmod
  BY <1>0, <1>6 DEF Rmmod, Before, From, Pin
<1>7. CASE Remove
  <2>1. held' = From[at'] \ Released(at')
    BY <1>0, <1>7 DEF Remove, TypeOK, Unwind, Exit, Released, From, Before, Pin
  <2>2. QED  BY <1>0, <1>7, <2>1 DEF Remove
<1>8. CASE FallThrough
  <2>1. held = From[at] \ Released(at)
    BY <1>0, <1>8 DEF FallThrough, TypeOK, Unwind, Exit, Released, From, Before, Pin
  <2>2. CASE phase = "exit"
    BY <1>0, <1>8, <2>1, <2>2 DEF FallThrough, TypeOK, PlaceInv, Exit, Released, From, Pin
  <2>3. CASE phase = "unwind"
    BY <1>0, <1>8, <2>1, <2>3 DEF FallThrough, TypeOK, PlaceInv, Unwind, Released, From, Pin
  <2>4. QED  BY <1>8, <2>2, <2>3 DEF FallThrough
<1>9. CASE Free
  BY <1>0, <1>9 DEF Free, From, Released
<1>10. CASE Interrupt \/ HandlerReturns \/ Softirq
  BY <1>0, <1>10 DEF Interrupt, HandlerReturns, Softirq, TaskletRuns, TaskletReturns
<1>11. CASE \E u \in User : Use(u)
  BY <1>0, <1>11 DEF Use, Open, Close, SysfsEnter, SysfsLeave
<1>12. CASE UNCHANGED vars
  BY <1>0, <1>12 DEF vars
<1>13. QED
  BY <1>1, <1>2, <1>3, <1>4, <1>5, <1>6, <1>7, <1>8, <1>9, <1>10, <1>11, <1>12
     DEF Next, InitStep, ReleaseStep

LEMMA CallbackStep ==
  TypeOK /\ PlaceInv /\ HeldInv /\ CallbacksInside /\ [Next]_vars => CallbacksInside'
<1> SUFFICES ASSUME TypeOK, PlaceInv, HeldInv, CallbacksInside, [Next]_vars PROVE CallbacksInside'
  OBVIOUS
<1> USE DEF CallbacksInside
<1>0. handler \in BOOLEAN
  BY DEF TypeOK
<1>1. CASE Load
  BY <1>1 DEF Load, TypeOK
<1>2. CASE Acquire
  BY <1>2 DEF Acquire, Releasing
<1>3. CASE NoKobject
  BY <1>3 DEF NoKobject, Releasing
<1>4. CASE CallFails
  <2>1. ~handler
    BY <1>4 DEF CallFails, HeldInv, Before, Label, Pin, Releasing
  <2>2. QED  BY <1>4, <2>1 DEF CallFails, Label, Releasing
<1>5. CASE InitReturns \/ Rmmod
  BY <1>0, <1>5 DEF Releasing, InitReturns, Rmmod
<1>6. CASE Remove
  <2>1. at # "attr"
    BY <1>6 DEF Remove, Releasing, TypeOK, Unwind, Exit
  <2>2. "irq" \in held /\ "irq" \notin held' => phase = "exit" /\ at = "irq"
    BY <1>6 DEF Remove, Releasing, Released, PlaceInv
  <2>3. "attr" \in held /\ "attr" \notin held' => at = "kobject"
    BY <1>6, <2>1 DEF Remove, Released
  <2>4. QED  BY <1>0, <1>6, <2>2, <2>3 DEF Remove, Releasing
<1>7. CASE FallThrough
  <2>1. at = "irq" => ~handler /\ "irq" \notin held
    BY <1>0, <1>7 DEF Releasing, FallThrough, Drained, Released
  <2>2. at = "kobject" => sysfs = {} /\ "attr" \notin held
    BY <1>0, <1>7 DEF Releasing, FallThrough, Drained, Released
  <2>3. QED  BY <1>7, <2>1, <2>2 DEF FallThrough, Releasing
<1>8. CASE Free
  BY <1>0, <1>8 DEF Releasing, Free, HeldInv, From, Released, Releasing
<1>9. CASE Interrupt
  BY <1>0, <1>9 DEF Releasing, Interrupt, HeldInv
<1>10. CASE HandlerReturns \/ Softirq
  BY <1>0, <1>10 DEF Releasing, HandlerReturns, Softirq, TaskletRuns, TaskletReturns
<1>11. CASE \E u \in User : Use(u)
  BY <1>0, <1>11 DEF Releasing, Use, Open, Close, SysfsEnter, SysfsLeave, HeldInv
<1>12. CASE UNCHANGED vars
  BY <1>0, <1>12 DEF Releasing, vars
<1>13. QED
  BY <1>1, <1>2, <1>3, <1>4, <1>5, <1>6, <1>7, <1>8, <1>9, <1>10, <1>11, <1>12
     DEF Next, InitStep, ReleaseStep

LEMMA TaskletStep ==
  TypeOK /\ PlaceInv /\ HeldInv /\ CallbacksInside /\ TaskletInv /\ [Next]_vars => TaskletInv'
<1> SUFFICES ASSUME TypeOK, PlaceInv, HeldInv, CallbacksInside, TaskletInv, [Next]_vars
             PROVE  TaskletInv'
  OBVIOUS
<1> USE DEF TaskletInv
<1>0. handler \in BOOLEAN /\ gpio \in BOOLEAN /\ gpio' = gpio
  BY SameBuild DEF TypeOK
<1>1. CASE Load
  BY <1>0, <1>1 DEF Load, CallbacksInside
<1>2. CASE Acquire \/ NoKobject \/ CallFails
  BY <1>0, <1>2 DEF Acquire, NoKobject, CallFails, Label
<1>3. CASE InitReturns \/ Rmmod
  BY <1>0, <1>3 DEF InitReturns, Rmmod
<1>4. CASE Remove
  BY <1>0, <1>4 DEF Remove
<1>5. CASE FallThrough
  <2>1. at = "tasklet" => tasklet = {}
    BY <1>5 DEF FallThrough, Drained
  <2>2. at = "tasklet" => "irq" \notin held
    BY <1>5 DEF FallThrough, HeldInv, Releasing, From, Released
  <2>3. at = "tasklet" => ~handler
    BY <2>2 DEF CallbacksInside
  <2>4. gpio /\ phase = "exit" /\ at \in {"irq", "gpio"} => at' \in {"gpio", "tasklet"}
    BY <1>5 DEF FallThrough, Exit
  <2>5. QED  BY <1>0, <1>5, <2>1, <2>3, <2>4 DEF FallThrough, Releasing
<1>6. CASE Free
  BY <1>0, <1>6 DEF Free, Releasing
<1>7. CASE Interrupt
  <2>1. CASE phase = "init"
    <3>1. gpio => at = "done"
      BY <1>7, <2>1 DEF Interrupt, TypeOK, HeldInv, NextCall, Before, Pin
    <3>2. QED  BY <1>0, <1>7, <2>1, <3>1 DEF Interrupt
  <2>2. CASE Releasing
    <3>1. gpio => phase = "exit" /\ at = "irq"
      BY <1>7, <2>2 DEF Interrupt, TypeOK, PlaceInv, HeldInv, Releasing, Unwind, Exit,
                        From, Before, Released, Pin
    <3>2. QED  BY <1>0, <1>7, <3>1 DEF Interrupt
  <2>3. CASE phase = "absent" \/ phase = "live"
    BY <1>0, <1>7, <2>3 DEF Interrupt, HeldInv
  <2>4. QED  BY <2>1, <2>2, <2>3 DEF TypeOK, Releasing
<1>8. CASE HandlerReturns \/ Softirq
  BY <1>0, <1>8 DEF HandlerReturns, Softirq, TaskletRuns, TaskletReturns
<1>9. CASE \E u \in User : Use(u)
  BY <1>0, <1>9 DEF Use, Open, Close, SysfsEnter, SysfsLeave
<1>10. CASE UNCHANGED vars
  BY <1>0, <1>10 DEF vars
<1>11. QED
  BY <1>1, <1>2, <1>3, <1>4, <1>5, <1>6, <1>7, <1>8, <1>9, <1>10
     DEF Next, InitStep, ReleaseStep

LEMMA FilesStep == TypeOK /\ HeldInv /\ FilesInv /\ [Next]_vars => FilesInv'
<1> SUFFICES ASSUME TypeOK, HeldInv, FilesInv, [Next]_vars PROVE FilesInv'
  OBVIOUS
<1> USE DEF FilesInv, FilesInside
<1>0. failed \in BOOLEAN
  BY DEF TypeOK
<1>1. CASE Load
  BY <1>0, <1>1 DEF Load
<1>2. CASE InitStep
  BY <1>0, <1>2 DEF InitStep, Acquire, NoKobject, CallFails, InitReturns
<1>3. CASE Rmmod
  BY <1>0, <1>3 DEF Rmmod
<1>4. CASE ReleaseStep
  BY <1>0, <1>4 DEF ReleaseStep, Remove, FallThrough, Free, Releasing
<1>5. CASE \E u \in User : Use(u)
  BY <1>0, <1>5 DEF Use, Open, Close, SysfsEnter, SysfsLeave, HeldInv
<1>6. CASE Interrupt \/ HandlerReturns \/ Softirq
  BY <1>0, <1>6 DEF Interrupt, HandlerReturns, Softirq, TaskletRuns, TaskletReturns
<1>7. CASE UNCHANGED vars
  BY <1>0, <1>7 DEF vars
<1>8. QED
  BY <1>1, <1>2, <1>3, <1>4, <1>5, <1>6, <1>7 DEF Next

-----------------------------------------------------------------------------
THEOREM Inductive == Spec => []IInv
<1>1. IInv /\ [Next]_vars => IInv'
  BY TypeStep, PlaceStep, HeldStep, CallbackStep, TaskletStep, FilesStep DEF IInv
<1>2. QED  BY IInvInit, <1>1, PTL DEF Spec

\* The type invariant, for any set of users and both builds.
THEOREM TypeCorrect == Spec => []TypeOK
BY Inductive, PTL DEF IInv

\* Every failing init and every exit releases all that was acquired.
THEOREM NothingLeftHolds == Spec => []NothingLeft
<1>1. IInv => NothingLeft
  BY DEF IInv, HeldInv, NothingLeft
<1>2. QED  BY Inductive, <1>1, PTL

\* What is held never has a gap: releases run in the reverse order of init.
THEOREM ReleasedInReverseHolds == Spec => []ReleasedInReverse
<1>1. IInv => ReleasedInReverse
  <2> SUFFICES ASSUME IInv PROVE ReleasedInReverse
    OBVIOUS
  <2>0. gpio \in BOOLEAN
    BY DEF IInv, TypeOK
  <2>1. CASE phase \in {"absent", "live"}
    BY <2>0, <2>1 DEF IInv, HeldInv, ReleasedInReverse, Before, Pin, Rank, Resource
  <2>2. CASE phase = "init"
    BY <2>0, <2>2 DEF IInv, TypeOK, HeldInv, ReleasedInReverse, NextCall, Before, Pin, Rank, Resource
  <2>3. CASE Releasing
    BY <2>0, <2>3 DEF IInv, TypeOK, HeldInv, ReleasedInReverse, Releasing, Unwind, Exit,
                      From, Released, Before, Pin, Rank, Resource
  <2>4. QED  BY <2>1, <2>2, <2>3 DEF IInv, TypeOK, Releasing
<1>2. QED  BY Inductive, <1>1, PTL

\* The handler and the sysfs functions end before the module is freed.
THEOREM CallbacksInsideHolds == Spec => []CallbacksInside
BY Inductive, PTL DEF IInv

\* With GPIO interrupts, so does the tasklet.
THEOREM TaskletKilledHolds == Spec => []TaskletKilled
<1>1. IInv => TaskletKilled
  BY DEF IInv, TaskletInv, TaskletKilled
<1>2. QED  BY Inductive, <1>1, PTL

\* No file is open in an unloaded module, unless its init failed.
THEOREM FilesInsideHolds == Spec => []FilesInside
<1>1. IInv => FilesInside
  BY DEF IInv, FilesInv
<1>2. QED  BY Inductive, <1>1, PTL
=============================================================================
