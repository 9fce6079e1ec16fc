-------------------------- MODULE TableCheck_proofs --------------------------
(***************************************************************************)
(* Proofs about CallTable and TableCheck for any machines and any set of   *)
(* clients.                                                                *)
(***************************************************************************)
EXTENDS TableCheck, SequenceTheorems, TLAPS

\* Every step, sorted by what it may change.
ScanActs(c) ==
  \/ Register(c) \/ Assign(c) \/ Unregister(c)
  \/ Call(c) \/ NotFound(c) \/ CallAgain(c) \/ CallNull(c)
  \/ \E e \in Scanned : Look(c, e)

LEMMA Actions ==
  ASSUME [Next]_vars
  PROVE  \/ TableStep
         \/ Load \/ Unload \/ TimerFires \/ HandlerStarts \/ HandlerReturns \/ Drain \/ Destroy
         \/ \E c \in Client : ClientRuns(c)
         \/ \E c \in Caller : ScanActs(c)
         \/ UNCHANGED vars
BY DEF Next, CheckerStep, ScanStep, ScanActs

-----------------------------------------------------------------------------
(* The modules of the table.                                               *)

\* A step of one module, or none that concerns the table.
TableActs(h) ==
  \/ Insmod(h) \/ Rmmod(h) \/ CheckPte(h) \/ SetRw(h)
  \/ SaveEntry(h) \/ StoreEntry(h) \/ StoreFaults(h)
  \/ MakeRo(h) \/ InitReturns(h) \/ ExitReturns(h)

MachineInv == machine \in Machine

LEMMA MachineInvariant == Spec => []MachineInv
<1>1. Init => MachineInv
  BY DEF Init, MachineInv
<1>2. MachineInv /\ [Next]_vars => MachineInv'
  BY Actions
  DEF MachineInv, TableStep, Load, Unload, TimerFires, HandlerStarts, HandlerReturns, Drain,
      Destroy, ClientRuns, ScanActs, Register, Assign, Unregister, Call, NotFound, CallAgain, CallNull, Look, vars
<1>3. QED
  BY <1>1, <1>2, PTL DEF Spec

LEMMA TableOrNot ==
  ASSUME MachineInv, [Next]_vars
  PROVE  (\E h \in Hook : TableActs(h)) \/ UNCHANGED tableVars
<1>1. CASE TableStep
  <2>1. machine.hooks \subseteq Hook
    BY MachineAssumption DEF MachineInv
  <2>2. QED
    BY <1>1, <2>1 DEF TableStep, TableNext, HookStep, TableActs
<1>2. CASE Load \/ Unload \/ TimerFires \/ HandlerStarts \/ HandlerReturns \/ Drain \/ Destroy
  BY <1>2 DEF Load, Unload, TimerFires, HandlerStarts, HandlerReturns, Drain, Destroy
<1>3. CASE \E c \in Client : ClientRuns(c)
  BY <1>3 DEF ClientRuns
<1>4. CASE \E c \in Caller : ScanActs(c)
  BY <1>4 DEF ScanActs, Register, Assign, Unregister, Call, NotFound, CallAgain, CallNull, Look
<1>5. CASE UNCHANGED vars
  BY <1>5 DEF vars
<1>6. QED
  BY <1>1, <1>2, <1>3, <1>4, <1>5, Actions

\* The instructions of init and exit: no one twice, an entry is replaced after
\* it was saved, and exit saves nothing.
Listed(s, i) == \E j \in 1 .. Len(s) : s[j] = i
Distinct(s)  == \A j, k \in 1 .. Len(s) : s[j] = s[k] => j = k
SaveFirst(s) ==
  \A j \in 1 .. Len(s), e \in Entry :
    s[j] = Save(e) => \E k \in j + 1 .. Len(s) : s[k] = Store(e)
StoresOnly(s) == \A j \in 1 .. Len(s) : s[j][1] = "store"

LEMMA LoadBodies ==
  \A h \in Hook :
    /\ LoadBody[h] \in Seq(Instruction)
    /\ LoadBody[h] # <<>>
    /\ Distinct(LoadBody[h]) /\ SaveFirst(LoadBody[h])
    /\ \A e \in Entry : Listed(LoadBody[h], Save(e)) /\ Listed(LoadBody[h], Store(e))
<1> USE DEF Distinct, SaveFirst, Listed, Save, Store, Instruction, Entry
<1>1. LoadBody["older"] =
        <<Save("exit"), Store("exit"), Save("getdents"), Store("getdents"),
          Save("getdents64"), Store("getdents64")>>
  BY DEF LoadBody
<1>2. LoadBody["newer"] =
        <<Save("exit"), Save("getdents"), Save("getdents64"),
          Store("exit"), Store("getdents64"), Store("getdents")>>
  BY DEF LoadBody
<1>3. Len(LoadBody["older"]) = 6 /\ Len(LoadBody["newer"]) = 6
  BY <1>1, <1>2
<1>4. \A j \in 1 .. 6 : j = 1 \/ j = 2 \/ j = 3 \/ j = 4 \/ j = 5 \/ j = 6
  OBVIOUS
<1>5. /\ LoadBody["older"] \in Seq(Instruction) /\ LoadBody["newer"] \in Seq(Instruction)
      /\ LoadBody["older"] # <<>> /\ LoadBody["newer"] # <<>>
  BY <1>1, <1>2
<1>6. Distinct(LoadBody["older"]) /\ Distinct(LoadBody["newer"])
  BY <1>1, <1>2, <1>3, <1>4
<1>7. SaveFirst(LoadBody["older"])
  BY <1>1, <1>3, <1>4
<1>8. SaveFirst(LoadBody["newer"])
  BY <1>2, <1>3, <1>4
<1>9. \A e \in Entry : Listed(LoadBody["older"], Save(e)) /\ Listed(LoadBody["older"], Store(e))
  BY <1>1, <1>3
<1>10. \A e \in Entry : Listed(LoadBody["newer"], Save(e)) /\ Listed(LoadBody["newer"], Store(e))
  BY <1>2, <1>3
<1> HIDE DEF Distinct, SaveFirst, Listed, Save, Store, Instruction, Entry
<1>11. QED
  BY <1>5, <1>6, <1>7, <1>8, <1>9, <1>10 DEF Hook

LEMMA RestoreBodies ==
  /\ RestoreBody \in Seq(Instruction)
  /\ RestoreBody # <<>>
  /\ Distinct(RestoreBody) /\ SaveFirst(RestoreBody) /\ StoresOnly(RestoreBody)
  /\ \A e \in Entry : Listed(RestoreBody, Store(e))
<1> USE DEF Distinct, SaveFirst, StoresOnly, Listed, Save, Store, Instruction, Entry
<1>1. RestoreBody = <<Store("exit"), Store("getdents"), Store("getdents64")>>
  BY DEF RestoreBody
<1>2. Len(RestoreBody) = 3
  BY <1>1
<1>3. \A j \in 1 .. 3 : j = 1 \/ j = 2 \/ j = 3
  OBVIOUS
<1>4. QED
  BY <1>1, <1>2, <1>3

\* One instruction less: the rest keeps what the list has.
LEMMA TailOfBody ==
  ASSUME NEW s \in Seq(Instruction), s # <<>>
  PROVE  /\ Head(s) \in Instruction
         /\ Tail(s) \in Seq(Instruction)
         /\ Distinct(s) => Distinct(Tail(s))
         /\ SaveFirst(s) => SaveFirst(Tail(s))
         /\ StoresOnly(s) => StoresOnly(Tail(s))
         /\ Listed(s, Head(s))
         /\ Distinct(s) => ~Listed(Tail(s), Head(s))
         /\ \A i : i # Head(s) => (Listed(Tail(s), i) <=> Listed(s, i))
<1>1. /\ Len(s) \in Nat \ {0} /\ Head(s) = s[1] /\ Tail(s) \in Seq(Instruction)
      /\ Head(s) \in Instruction /\ Len(Tail(s)) = Len(s) - 1
      /\ \A j \in 1 .. Len(s) - 1 : Tail(s)[j] = s[j + 1]
  OBVIOUS
<1>2. Distinct(s) => Distinct(Tail(s))
  BY <1>1 DEF Distinct
<1>3. SaveFirst(s) => SaveFirst(Tail(s))
  <2> SUFFICES ASSUME SaveFirst(s), NEW j \in 1 .. Len(Tail(s)), NEW e \in Entry,
                      Tail(s)[j] = Save(e)
               PROVE  \E k \in j + 1 .. Len(Tail(s)) : Tail(s)[k] = Store(e)
    BY DEF SaveFirst
  <2>1. j + 1 \in 1 .. Len(s) /\ s[j + 1] = Save(e)
    BY <1>1
  <2>2. PICK k \in j + 2 .. Len(s) : s[k] = Store(e)
    BY <1>1, <2>1 DEF SaveFirst
  <2>3. k - 1 \in j + 1 .. Len(Tail(s)) /\ Tail(s)[k - 1] = Store(e)
    BY <1>1, <2>2
  <2>4. QED
    BY <2>3
<1>4. StoresOnly(s) => StoresOnly(Tail(s))
  BY <1>1 DEF StoresOnly
<1>5. Listed(s, Head(s))
  BY <1>1 DEF Listed
<1>6. Distinct(s) => ~Listed(Tail(s), Head(s))
  BY <1>1 DEF Listed, Distinct
<1>7. \A i : i # Head(s) => (Listed(Tail(s), i) <=> Listed(s, i))
  <2> TAKE i
  <2> HAVE i # Head(s)
  <2>1. ASSUME Listed(s, i) PROVE Listed(Tail(s), i)
    <3>1. PICK j \in 1 .. Len(s) : s[j] = i
      BY <2>1 DEF Listed
    <3>2. j - 1 \in 1 .. Len(Tail(s)) /\ Tail(s)[j - 1] = i
      BY <1>1, <3>1
    <3>3. QED
      BY <3>2 DEF Listed
  <2>2. ASSUME Listed(Tail(s), i) PROVE Listed(s, i)
    BY <1>1, <2>2 DEF Listed
  <2>3. QED
    BY <2>1, <2>2
<1>8. QED
  BY <1>1, <1>2, <1>3, <1>4, <1>5, <1>6, <1>7

\* Where a module is, and what is left of its list.
PlaceInv ==
  /\ phase \in [Hook -> {"out", "init", "in", "exit", "dead"}]
  /\ at \in [Hook -> {"none", "check", "set", "body", "return"}]
  /\ todo \in [Hook -> Seq(Instruction)]
  /\ was \in [Hook -> {0, 1}]
  /\ rw \in BOOLEAN
  /\ orderly \in BOOLEAN
  /\ \A h \in Hook :
       /\ (at[h] = "none") <=> (phase[h] \in {"out", "in", "dead"})
       /\ at[h] \in {"none", "return"} => todo[h] = <<>>
       /\ Distinct(todo[h]) /\ SaveFirst(todo[h])
       /\ phase[h] = "exit" => StoresOnly(todo[h])

LEMMA PlaceStep == MachineInv /\ PlaceInv /\ [Next]_vars => PlaceInv'
<1> SUFFICES ASSUME MachineInv, PlaceInv, [Next]_vars PROVE PlaceInv'
  OBVIOUS
<1>0. <<>> \in Seq(Instruction) /\ Distinct(<<>>) /\ SaveFirst(<<>>) /\ StoresOnly(<<>>)
  BY DEF Distinct, SaveFirst, StoresOnly
<1> USE DEF PlaceInv
<1>1. ASSUME NEW h \in Hook, Insmod(h) PROVE PlaceInv'
  BY <1>1, LoadBodies DEF Insmod, Idle
<1>2. ASSUME NEW h \in Hook, Rmmod(h) PROVE PlaceInv'
  BY <1>2, RestoreBodies DEF Rmmod, Idle
<1>3. ASSUME NEW h \in Hook, CheckPte(h) \/ SetRw(h) PROVE PlaceInv'
  BY <1>3 DEF CheckPte, SetRw
<1>4. ASSUME NEW h \in Hook, SaveEntry(h) \/ StoreEntry(h) PROVE PlaceInv'
  <2>1. /\ at[h] = "body" /\ todo[h] # <<>>
        /\ todo' = [todo EXCEPT ![h] = Tail(@)]
        /\ UNCHANGED <<rw, phase, at, was, orderly>>
    BY <1>4 DEF SaveEntry, StoreEntry, NextIs
  <2>2. /\ Tail(todo[h]) \in Seq(Instruction)
        /\ Distinct(Tail(todo[h])) /\ SaveFirst(Tail(todo[h]))
        /\ StoresOnly(todo[h]) => StoresOnly(Tail(todo[h]))
    BY <2>1, TailOfBody
  <2>3. QED
    BY <2>1, <2>2
<1>5. ASSUME NEW h \in Hook, StoreFaults(h) PROVE PlaceInv'
  BY <1>0, <1>5 DEF StoreFaults, NextIs
<1>6. ASSUME NEW h \in Hook, MakeRo(h) PROVE PlaceInv'
  BY <1>6 DEF MakeRo
<1>7. ASSUME NEW h \in Hook, InitReturns(h) \/ ExitReturns(h) PROVE PlaceInv'
  BY <1>0, <1>7 DEF InitReturns, ExitReturns
<1>8. CASE UNCHANGED tableVars
  BY <1>8 DEF tableVars
<1>9. QED
  BY <1>1, <1>2, <1>3, <1>4, <1>5, <1>6, <1>7, <1>8, TableOrNot DEF TableActs

\* While the page is writable, some module is at work on it that found it
\* read-only, and will find was_writable as it left it.
RwInv == rw => \E h \in Hook : at[h] = "body" /\ was[h] = 0

LEMMA RwStep == MachineInv /\ PlaceInv /\ RwInv /\ [Next]_vars => RwInv'
<1> SUFFICES ASSUME MachineInv, PlaceInv, RwInv, [Next]_vars PROVE RwInv'
  OBVIOUS
<1> USE DEF PlaceInv, RwInv
<1>1. ASSUME NEW h \in Hook, Insmod(h) \/ Rmmod(h) PROVE RwInv'
  BY <1>1 DEF Insmod, Rmmod
<1>2. ASSUME NEW h \in Hook, CheckPte(h) \/ SetRw(h) PROVE RwInv'
  BY <1>2 DEF CheckPte, SetRw
<1>3. ASSUME NEW h \in Hook, SaveEntry(h) \/ StoreEntry(h) \/ StoreFaults(h) PROVE RwInv'
  BY <1>3 DEF SaveEntry, StoreEntry, StoreFaults
<1>4. ASSUME NEW h \in Hook, MakeRo(h) PROVE RwInv'
  BY <1>4 DEF MakeRo
<1>5. ASSUME NEW h \in Hook, InitReturns(h) \/ ExitReturns(h) PROVE RwInv'
  BY <1>5 DEF InitReturns, ExitReturns
<1>6. CASE UNCHANGED tableVars
  BY <1>6 DEF tableVars
<1>7. QED
  BY <1>1, <1>2, <1>3, <1>4, <1>5, <1>6, TableOrNot DEF TableActs

LEMMA TableInvariants == Spec => [](MachineInv /\ PlaceInv /\ RwInv)
<1>1. Init => PlaceInv /\ RwInv
  <2>1. <<>> \in Seq(Instruction) /\ Distinct(<<>>) /\ SaveFirst(<<>>) /\ StoresOnly(<<>>)
    BY DEF Distinct, SaveFirst, StoresOnly
  <2>2. SUFFICES ASSUME Init PROVE PlaceInv /\ RwInv
    OBVIOUS
  <2>3. /\ phase \in [Hook -> {"out", "init", "in", "exit", "dead"}]
        /\ at \in [Hook -> {"none", "check", "set", "body", "return"}]
        /\ todo \in [Hook -> Seq(Instruction)]
        /\ was \in [Hook -> {0, 1}]
    BY <2>1, <2>2 DEF Init, TableInit
  <2>4. rw = FALSE /\ orderly = TRUE
    BY <2>2 DEF Init, TableInit
  <2>5. \A h \in Hook : phase[h] = "out" /\ at[h] = "none" /\ todo[h] = <<>>
    BY <2>2 DEF Init, TableInit
  <2>6. QED
    BY <2>1, <2>3, <2>4, <2>5 DEF PlaceInv, RwInv
<1>2. QED
  BY <1>1, PlaceStep, RwStep, MachineInvariant, PTL DEF Spec

\* Whenever no init and no exit is running, the page of the table is
\* read-only, however they interleaved before and even if one was killed.
THEOREM TableProtectedHolds == Spec => []TableProtected
<1>1. PlaceInv /\ RwInv => TableProtected
  BY DEF PlaceInv, RwInv, TableProtected, Idle
<1>2. QED
  BY <1>1, TableInvariants, PTL

-----------------------------------------------------------------------------
(* The types.                                                              *)

EntriesInv ==
  /\ table \in [Entry -> Target]
  /\ saved \in [Hook -> [Entry -> Target]]

LEMMA EntriesStep == MachineInv /\ PlaceInv /\ EntriesInv /\ [Next]_vars => EntriesInv'
<1> SUFFICES ASSUME MachineInv, PlaceInv, EntriesInv, [Next]_vars PROVE EntriesInv'
  OBVIOUS
<1> USE DEF PlaceInv, EntriesInv
<1>1. ASSUME NEW h \in Hook,
             Insmod(h) \/ Rmmod(h) \/ CheckPte(h) \/ SetRw(h) \/ StoreFaults(h)
               \/ MakeRo(h) \/ InitReturns(h)
      PROVE  EntriesInv'
  BY <1>1 DEF Insmod, Rmmod, CheckPte, SetRw, StoreFaults, MakeRo, InitReturns
<1>2. ASSUME NEW h \in Hook, SaveEntry(h) \/ StoreEntry(h) PROVE EntriesInv'
  <2>1. Head(todo[h])[2] \in Entry
    <3>1. Head(todo[h]) \in Instruction
      BY <1>2, TailOfBody DEF SaveEntry, StoreEntry, NextIs
    <3>2. QED
      BY <3>1 DEF Instruction
  <2>2. CASE SaveEntry(h)
    <3>1. saved' = [saved EXCEPT ![h] = [@ EXCEPT ![Head(todo[h])[2]] = table[Head(todo[h])[2]]]]
      BY <2>2 DEF SaveEntry
    <3>2. QED
      BY <2>1, <2>2, <3>1 DEF SaveEntry
  <2>3. CASE StoreEntry(h)
    <3>1. h \in Target /\ saved[h][Head(todo[h])[2]] \in Target
      BY <2>1 DEF Target
    <3>2. QED
      BY <2>1, <2>3, <3>1 DEF StoreEntry
  <2>4. QED
    BY <1>2, <2>2, <2>3
<1>3. ASSUME NEW h \in Hook, ExitReturns(h) PROVE EntriesInv'
  <2>1. \A entries \in [Entry -> Target] : Dangling(entries, h) \in [Entry -> Target]
    BY DEF Dangling, Target
  <2>2. [e \in Entry |-> "core"] \in [Entry -> Target]
    BY DEF Target
  <2>3. QED
    BY <1>3, <2>1, <2>2 DEF ExitReturns
<1>4. CASE UNCHANGED tableVars
  BY <1>4 DEF tableVars
<1>5. QED
  BY <1>1, <1>2, <1>3, <1>4, TableOrNot DEF TableActs

Places == {"none", "dead", "register", "assign", "unregister", "call", "again",
           "exit", "getdents"}

ScanTypeInv ==
  /\ addr \in BOOLEAN /\ registered \in BOOLEAN /\ lookup \in BOOLEAN
  /\ registered => addr
  /\ scan \in [Caller -> Places]
  /\ result \in [Caller -> {-1, 0, 1}]
  /\ overlap \in BOOLEAN
  /\ foreign \in [Caller -> SUBSET Scanned]

LEMMA ScanTypeStep == ScanTypeInv /\ [Next]_vars => ScanTypeInv'
<1> SUFFICES ASSUME ScanTypeInv, [Next]_vars PROVE ScanTypeInv'
  OBVIOUS
<1> USE DEF ScanTypeInv, Places
<1>1. CASE TableStep
  <2>1. UNCHANGED scanning /\ \A c \in Caller : foreign'[c] \in SUBSET Scanned
    BY <1>1 DEF TableStep
  <2>2. foreign' \in [Caller -> SUBSET Scanned]
    BY <1>1 DEF TableStep
  <2>3. QED
    BY <2>1, <2>2 DEF scanning, kprobe
<1>2. CASE Load \/ Unload \/ TimerFires \/ HandlerReturns \/ Drain \/ Destroy
  BY <1>2 DEF Load, Unload, TimerFires, HandlerReturns, Drain, Destroy, scanning, kprobe
<1>3. ASSUME NEW c \in Caller, Begin(c), result' = [result EXCEPT ![c] = 0], UNCHANGED kprobe
      PROVE  ScanTypeInv'
  <2>1. Replaced \in SUBSET Scanned
    BY DEF Replaced
  <2>2. overlap' \in BOOLEAN
    BY <1>3 DEF Begin
  <2>3. QED
    BY <1>3, <2>1, <2>2 DEF Begin, kprobe
<1>4. CASE HandlerStarts \/ \E c \in Client : ClientRuns(c)
  BY <1>3, <1>4 DEF HandlerStarts, ClientRuns, Caller
<1>5. ASSUME NEW c \in Caller, ScanActs(c) PROVE ScanTypeInv'
  <2>1. CASE Register(c)
    BY <2>1 DEF Register
  <2>2. CASE Assign(c)
    BY <2>2 DEF Assign
  <2>3. CASE Unregister(c)
    BY <2>3 DEF Unregister
  <2>4. CASE Call(c) \/ NotFound(c) \/ CallAgain(c) \/ CallNull(c)
    BY <2>4 DEF Call, NotFound, CallAgain, CallNull, Returns, kprobe
  <2>5. CASE \E e \in Scanned : Look(c, e)
    BY <2>5 DEF Look, Returns, kprobe
  <2>6. QED
    BY <1>5, <2>1, <2>2, <2>3, <2>4, <2>5 DEF ScanActs
<1>6. CASE UNCHANGED vars
  BY <1>6 DEF vars, scanning, kprobe
<1>7. QED
  BY <1>1, <1>2, <1>4, <1>5, <1>6, Actions

CheckerTypeInv ==
  /\ module \in {"out", "in", "flush", "flushed", "drain"}
  /\ queue \in {"none", "live"}
  /\ timer \in BOOLEAN
  /\ work \in {"idle", "queued", "running"}

LEMMA CheckerTypeStep == CheckerTypeInv /\ [Next]_vars => CheckerTypeInv'
<1> SUFFICES ASSUME CheckerTypeInv, [Next]_vars PROVE CheckerTypeInv'
  OBVIOUS
<1> USE DEF CheckerTypeInv
<1>1. CASE Load \/ Unload \/ TimerFires \/ HandlerStarts \/ HandlerReturns \/ Drain \/ Destroy
  BY <1>1 DEF Load, Unload, TimerFires, HandlerStarts, HandlerReturns, Drain, Destroy
<1>2. CASE TableStep \/ \E c \in Client : ClientRuns(c)
  BY <1>2 DEF TableStep, ClientRuns, checker
<1>3. CASE \E c \in Caller : ScanActs(c)
  BY <1>3 DEF ScanActs, Register, Assign, Unregister, Call, NotFound, CallAgain, CallNull, Look, checker
<1>4. CASE UNCHANGED vars
  BY <1>4 DEF vars, checker
<1>5. QED
  BY <1>1, <1>2, <1>3, <1>4, Actions

LEMMA InitTypes == Init => EntriesInv /\ ScanTypeInv /\ CheckerTypeInv
<1> SUFFICES ASSUME Init PROVE EntriesInv /\ ScanTypeInv /\ CheckerTypeInv
  OBVIOUS
<1>1. EntriesInv
  BY DEF Init, TableInit, EntriesInv, Target
<1>2. /\ scan \in [Caller -> Places] /\ result \in [Caller -> {-1, 0, 1}]
      /\ foreign \in [Caller -> SUBSET Scanned]
  BY DEF Init, Places
<1>3. addr = FALSE /\ registered = FALSE /\ lookup = FALSE /\ overlap = FALSE
  BY DEF Init
<1>4. ScanTypeInv
  BY <1>2, <1>3 DEF ScanTypeInv
<1>5. CheckerTypeInv
  BY DEF Init, CheckerTypeInv
<1>6. QED
  BY <1>1, <1>4, <1>5

\* Type correctness, of the table and its modules, of the scans and of the
\* checker module with its queue.
THEOREM TypeCorrect == Spec => []TypeOK
<1>1. MachineInv /\ PlaceInv /\ EntriesInv /\ ScanTypeInv /\ CheckerTypeInv => TypeOK
  BY DEF MachineInv, PlaceInv, EntriesInv, ScanTypeInv, CheckerTypeInv, TypeOK, TableTypeOK, Places
<1>2. QED
  BY <1>1, TableInvariants, InitTypes, EntriesStep, ScanTypeStep, CheckerTypeStep, PTL DEF Spec

-----------------------------------------------------------------------------
(* The scan.                                                               *)

Scanning(c) == scan[c] \notin {"none", "dead"}

\* Until two scans overlap: nobody died, one scan is under way at most, and it
\* leaves the kprobe unregistered, so that every call finds an address, from
\* its own registration or from the one before.
OneScanInv ==
  ~overlap =>
    /\ \A c \in Caller : scan[c] # "dead"
    /\ \A c, d \in Caller : Scanning(c) /\ Scanning(d) => c = d
    /\ registered => \E c \in Caller : scan[c] \in {"assign", "unregister"}
    /\ \A c \in Caller :
         /\ scan[c] \in {"assign", "unregister"} => addr
         /\ scan[c] \in {"unregister", "call", "again"} => lookup

LEMMA OneScanStep == ScanTypeInv /\ OneScanInv /\ [Next]_vars => OneScanInv'
<1> SUFFICES ASSUME ScanTypeInv, OneScanInv, [Next]_vars PROVE OneScanInv'
  OBVIOUS
<1> USE DEF ScanTypeInv, OneScanInv, Scanning
<1>1. CASE \/ TableStep \/ Load \/ Unload \/ TimerFires \/ HandlerReturns \/ Drain \/ Destroy
           \/ UNCHANGED vars
  <2>1. UNCHANGED scanning
    BY <1>1 DEF TableStep, Load, Unload, TimerFires, HandlerReturns, Drain, Destroy, vars
  <2>2. QED
    BY <2>1 DEF scanning, kprobe
<1>2. ASSUME NEW c \in Caller, Begin(c), UNCHANGED kprobe PROVE OneScanInv'
  <2> SUFFICES ASSUME ~overlap' PROVE OneScanInv'
    OBVIOUS
  <2>1. ~overlap /\ \A d \in Caller : scan[d] = "none"
    BY <1>2 DEF Begin
  <2>2. ~registered
    BY <2>1
  <2>3. QED
    BY <1>2, <2>1, <2>2 DEF Begin, kprobe
<1>3. CASE HandlerStarts \/ \E c \in Client : ClientRuns(c)
  BY <1>2, <1>3 DEF HandlerStarts, ClientRuns, Caller
<1>4. ASSUME NEW c \in Caller, ScanActs(c) PROVE OneScanInv'
  <2> SUFFICES ASSUME ~overlap' PROVE OneScanInv'
    OBVIOUS
  <2>1. ~overlap
    BY <1>4 DEF ScanActs, Register, Assign, Unregister, Call, NotFound, CallAgain, CallNull, Look
  <2>2. Scanning(c)
    BY <1>4 DEF ScanActs, Register, Assign, Unregister, Call, NotFound, CallAgain, CallNull, Look, Scanned
  <2>3. \A d \in Caller : d # c => scan[d] = "none"
    BY <2>1, <2>2
  <2>4. CASE Register(c)
    BY <2>1, <2>3, <2>4 DEF Register
  <2>5. CASE Assign(c)
    BY <2>1, <2>3, <2>5 DEF Assign
  <2>6. CASE Unregister(c)
    BY <2>1, <2>3, <2>6 DEF Unregister
  <2>7. CASE Call(c)
    BY <2>1, <2>3, <2>7 DEF Call, kprobe
  <2>11. CASE NotFound(c)
    BY <2>1, <2>3, <2>11 DEF NotFound, Returns, kprobe
  <2>12. CASE CallAgain(c)
    BY <2>1, <2>3, <2>12 DEF CallAgain, kprobe
  <2>8. CASE CallNull(c)
    BY <2>1, <2>8 DEF CallNull
  <2>9. CASE \E e \in Scanned : Look(c, e)
    BY <2>1, <2>3, <2>9 DEF Look, Returns, Scanned, kprobe
  <2>10. QED
    BY <1>4, <2>4, <2>5, <2>6, <2>7, <2>8, <2>9, <2>11, <2>12 DEF ScanActs
<1>5. QED
  BY <1>1, <1>3, <1>4, Actions

\* A caller dies only after two scans have overlapped.
THEOREM OneScanIsSafeHolds == Spec => []OneScanIsSafe
<1>1. Init => OneScanInv
  BY DEF Init, OneScanInv, Scanning
<1>2. OneScanInv => OneScanIsSafe
  BY DEF OneScanInv, OneScanIsSafe
<1>3. QED
  BY <1>1, <1>2, OneScanStep, InitTypes, ScanTypeStep, PTL DEF Spec

\* What has been foreign since the scan began still is, and it has no result
\* while it goes on; past exit, exit is not among what has been foreign.  On a
\* machine without the symbol nothing is ever foreign.
CleanInv ==
  /\ ~machine.symbol => Replaced = {}
  /\ \A c \in Caller :
       /\ foreign[c] \subseteq Replaced
       /\ Scanning(c) => result[c] = 0
       /\ scan[c] = "getdents" => "exit" \notin foreign[c]
       /\ scan[c] = "none" /\ result[c] = -1 => foreign[c] = {}

LEMMA CleanStep == ScanTypeInv /\ CleanInv /\ [Next]_vars => CleanInv'
<1> SUFFICES ASSUME ScanTypeInv, CleanInv, [Next]_vars PROVE CleanInv'
  OBVIOUS
<1> USE DEF ScanTypeInv, CleanInv, Scanning
<1>1. CASE TableStep
  <2>1. UNCHANGED <<machine, scan, result>> /\ machine.symbol
    BY <1>1 DEF TableStep, scanning
  <2>2. \A c \in Caller : foreign'[c] = foreign[c] \cap Replaced'
    BY <1>1 DEF TableStep, Replaced
  <2>3. QED
    BY <2>1, <2>2
<1>2. CASE \/ Load \/ Unload \/ TimerFires \/ HandlerReturns \/ Drain \/ Destroy \/ UNCHANGED vars
  <2>1. UNCHANGED <<machine, table, scan, result, foreign>>
    BY <1>2
    DEF Load, Unload, TimerFires, HandlerReturns, Drain, Destroy, vars, scanning, tableVars
  <2>2. Replaced' = Replaced
    BY <2>1 DEF Replaced
  <2>3. QED
    BY <2>1, <2>2
<1>3. ASSUME NEW c \in Caller, Begin(c), result' = [result EXCEPT ![c] = 0],
             UNCHANGED <<machine, table>>
      PROVE  CleanInv'
  <2>1. Replaced' = Replaced
    BY <1>3 DEF Replaced
  <2>2. QED
    BY <1>3, <2>1 DEF Begin
<1>4. CASE HandlerStarts \/ \E c \in Client : ClientRuns(c)
  BY <1>3, <1>4 DEF HandlerStarts, ClientRuns, Caller, tableVars
<1>5. ASSUME NEW c \in Caller, ScanActs(c) PROVE CleanInv'
  <2>1. Replaced' = Replaced /\ machine' = machine
    BY <1>5 DEF ScanActs, Register, Assign, Unregister, Call, NotFound, CallAgain, CallNull, Look, tableVars, Replaced
  <2>2. CASE Register(c) \/ Assign(c) \/ Unregister(c) \/ Call(c) \/ CallAgain(c)
    BY <2>1, <2>2 DEF Register, Assign, Unregister, Call, CallAgain
  <2>6. CASE NotFound(c)
    BY <2>1, <2>6 DEF NotFound, Returns
  <2>3. CASE CallNull(c)
    BY <2>1, <2>3 DEF CallNull
  <2>4. ASSUME NEW e \in Scanned, Look(c, e) PROVE CleanInv'
    <3>1. UNCHANGED foreign /\ scan[c] = e /\ result[c] = 0
      BY <2>4 DEF Look, Scanned
    <3>2. CASE table[e] # "core"
      BY <2>1, <2>4, <3>1, <3>2 DEF Look, Returns
    <3>3. CASE table[e] = "core" /\ e = "exit"
      <4>1. "exit" \notin foreign[c]
        BY <3>3 DEF Replaced
      <4>2. QED
        BY <2>1, <2>4, <3>1, <3>3, <4>1 DEF Look
    <3>4. CASE table[e] = "core" /\ e = "getdents"
      <4>1. foreign[c] = {}
        BY <3>1, <3>4 DEF Replaced, Scanned
      <4>2. QED
        BY <2>1, <2>4, <3>1, <3>4, <4>1 DEF Look, Returns
    <3>5. QED
      BY <3>2, <3>3, <3>4 DEF Scanned
  <2>5. QED
    BY <1>5, <2>2, <2>3, <2>4, <2>6 DEF ScanActs
<1>6. QED
  BY <1>1, <1>2, <1>4, <1>5, Actions

\* No entry that sys_parth looks at was foreign throughout a scan that says
\* that no call was intercepted.
THEOREM CleanMeansCleanHolds == Spec => []CleanMeansClean
<1>1. Init => CleanInv
  BY DEF Init, TableInit, CleanInv, Scanning, Replaced, Scanned, Entry
<1>2. CleanInv => CleanMeansClean
  BY DEF CleanInv, CleanMeansClean
<1>3. QED
  BY <1>1, <1>2, CleanStep, InitTypes, ScanTypeStep, PTL DEF Spec

-----------------------------------------------------------------------------
(* Modules that are loaded and unloaded one at a time, last in first out.  *)

LEMMA WithoutTop ==
  ASSUME NEW s \in Seq(Hook), NEW h, Len(s) > 0, s[Len(s)] = h, Distinct(s)
  PROVE  /\ Without(s, h) \in Seq(Hook)
         /\ Len(Without(s, h)) = Len(s) - 1
         /\ \A i \in 1 .. Len(s) - 1 : Without(s, h)[i] = s[i]
         /\ Distinct(Without(s, h))
         /\ \A g : Listed(Without(s, h), g) <=> g # h /\ Listed(s, g)
<1>1. /\ Len(s) \in Nat /\ DOMAIN s = 1 .. Len(s)
      /\ \A i, j \in 1 .. Len(s) : s[i] = s[j] => i = j
  BY DEF Distinct
<1>2. (CHOOSE i \in DOMAIN s : s[i] = h) = Len(s)
  BY <1>1
<1>3. Without(s, h) = SubSeq(s, 1, Len(s) - 1) \o SubSeq(s, Len(s) + 1, Len(s))
  BY <1>2 DEF Without
<1>4. /\ SubSeq(s, 1, Len(s) - 1) \in Seq(Hook)
      /\ Len(SubSeq(s, 1, Len(s) - 1)) = Len(s) - 1
      /\ \A i \in 1 .. Len(s) - 1 : SubSeq(s, 1, Len(s) - 1)[i] = s[i]
  BY <1>1
<1>5. SubSeq(s, Len(s) + 1, Len(s)) \in Seq(Hook) /\ Len(SubSeq(s, Len(s) + 1, Len(s))) = 0
  BY <1>1
<1>6. /\ Without(s, h) \in Seq(Hook)
      /\ Len(Without(s, h)) = Len(s) - 1
      /\ \A i \in 1 .. Len(s) - 1 : Without(s, h)[i] = s[i]
  BY <1>1, <1>3, <1>4, <1>5
<1>7. Distinct(Without(s, h))
  BY <1>1, <1>6 DEF Distinct
<1>8. \A i \in 1 .. Len(s) - 1 : s[i] # h
  BY <1>1
<1>9. \A g : Listed(Without(s, h), g) <=> g # h /\ Listed(s, g)
  <2> TAKE g
  <2>1. ASSUME Listed(Without(s, h), g) PROVE g # h /\ Listed(s, g)
    BY <1>1, <1>6, <1>8, <2>1 DEF Listed
  <2>2. ASSUME g # h, Listed(s, g) PROVE Listed(Without(s, h), g)
    <3>1. PICK i \in 1 .. Len(s) : s[i] = g
      BY <2>2 DEF Listed
    <3>2. i \in 1 .. Len(s) - 1
      BY <1>1, <2>2, <3>1
    <3>3. QED
      BY <1>6, <3>1, <3>2 DEF Listed
  <2>3. QED
    BY <2>1, <2>2
<1>10. QED
  BY <1>6, <1>7, <1>9

LEMMA WithTop ==
  ASSUME NEW s \in Seq(Hook), NEW h \in Hook, Distinct(s), ~Listed(s, h)
  PROVE  /\ Append(s, h) \in Seq(Hook)
         /\ Len(Append(s, h)) = Len(s) + 1
         /\ Append(s, h)[Len(s) + 1] = h
         /\ \A i \in 1 .. Len(s) : Append(s, h)[i] = s[i]
         /\ Distinct(Append(s, h))
         /\ \A g : Listed(Append(s, h), g) <=> g = h \/ Listed(s, g)
         /\ Len(s) < 2
<1>1. /\ Len(s) \in Nat
      /\ \A i, j \in 1 .. Len(s) : s[i] = s[j] => i = j
      /\ \A i \in 1 .. Len(s) : s[i] \in Hook /\ s[i] # h
  BY DEF Distinct, Listed
<1>2. /\ Append(s, h) \in Seq(Hook)
      /\ Len(Append(s, h)) = Len(s) + 1
      /\ Append(s, h)[Len(s) + 1] = h
      /\ \A i \in 1 .. Len(s) : Append(s, h)[i] = s[i]
  OBVIOUS
<1>3. \A i \in 1 .. Len(Append(s, h)) : i \in 1 .. Len(s) \/ i = Len(s) + 1
  BY <1>1, <1>2
<1>4. Distinct(Append(s, h))
  BY <1>1, <1>2, <1>3 DEF Distinct
<1>5. \A g : Listed(Append(s, h), g) <=> g = h \/ Listed(s, g)
  <2> TAKE g
  <2>1. ASSUME Listed(Append(s, h), g) PROVE g = h \/ Listed(s, g)
    BY <1>2, <1>3, <2>1 DEF Listed
  <2>2. ASSUME g = h \/ Listed(s, g) PROVE Listed(Append(s, h), g)
    BY <1>1, <1>2, <2>2 DEF Listed
  <2>3. QED
    BY <2>1, <2>2
<1>6. Len(s) < 2
  <2> SUFFICES ASSUME Len(s) >= 2 PROVE FALSE
    BY <1>1
  <2>1. 1 \in 1 .. Len(s) /\ 2 \in 1 .. Len(s)
    BY <1>1
  <2>2. s[1] \in Hook /\ s[2] \in Hook /\ s[1] # h /\ s[2] # h /\ s[1] # s[2]
    BY <1>1, <2>1
  <2>3. QED
    BY <2>2 DEF Hook
<1>7. QED
  BY <1>2, <1>4, <1>5, <1>6

\* The modules in the stack are those that are loaded; one init or exit is
\* under way at most, the exit that of the module on top, and once it is past
\* make_rw the page is writable.
StackInv ==
  orderly =>
    /\ stack \in Seq(Hook)
    /\ Len(stack) <= 2
    /\ Distinct(stack)
    /\ \A h \in Hook : phase[h] \in {"in", "exit"} <=> Listed(stack, h)
    /\ \A h \in Hook : phase[h] = "exit" => Len(stack) > 0 /\ stack[Len(stack)] = h
    /\ \A h \in Hook : phase[h] # "dead"
    /\ \A g, h \in Hook : at[g] # "none" /\ at[h] # "none" => g = h
    /\ \A h \in Hook : at[h] = "body" => rw

LEMMA StackStep == MachineInv /\ PlaceInv /\ RwInv /\ StackInv /\ [Next]_vars => StackInv'
<1> SUFFICES ASSUME MachineInv, PlaceInv, RwInv, StackInv, [Next]_vars, orderly' PROVE StackInv'
  BY DEF StackInv
<1>1. orderly
  BY TableOrNot DEF TableActs, Insmod, Rmmod, CheckPte, SetRw, SaveEntry, StoreEntry, StoreFaults,
                    MakeRo, InitReturns, ExitReturns, tableVars, PlaceInv
<1> USE <1>1 DEF PlaceInv, StackInv
<1>2. ASSUME NEW h \in Hook, Insmod(h) PROVE StackInv'
  BY <1>2 DEF Insmod, Idle
<1>3. ASSUME NEW h \in Hook, Rmmod(h) PROVE StackInv'
  <2>1. Len(stack) > 0
    BY <1>3 DEF Rmmod, Listed
  <2>2. QED
    BY <1>3, <2>1 DEF Rmmod, Idle
<1>4. ASSUME NEW h \in Hook, CheckPte(h) PROVE StackInv'
  BY <1>4 DEF CheckPte, RwInv
<1>5. ASSUME NEW h \in Hook, SetRw(h) PROVE StackInv'
  BY <1>5 DEF SetRw
<1>6. ASSUME NEW h \in Hook, SaveEntry(h) \/ StoreEntry(h) PROVE StackInv'
  BY <1>6 DEF SaveEntry, StoreEntry
<1>7. ASSUME NEW h \in Hook, StoreFaults(h) PROVE StackInv'
  BY <1>7 DEF StoreFaults, NextIs
<1>8. ASSUME NEW h \in Hook, MakeRo(h) PROVE StackInv'
  BY <1>8 DEF MakeRo
<1>9. ASSUME NEW h \in Hook, InitReturns(h) PROVE StackInv'
  <2>1. ~Listed(stack, h)
    BY <1>9 DEF InitReturns
  <2>2. /\ stack' \in Seq(Hook) /\ Len(stack') <= 2 /\ Distinct(stack')
        /\ \A g : Listed(stack', g) <=> g = h \/ Listed(stack, g)
    BY <1>9, <2>1, WithTop DEF InitReturns
  <2>3. /\ phase' = [phase EXCEPT ![h] = "in"] /\ at' = [at EXCEPT ![h] = "none"]
        /\ UNCHANGED <<rw, orderly>>
    BY <1>9 DEF InitReturns
  <2>4. \A g \in Hook : phase'[g] # "exit"
    BY <1>9, <2>3 DEF InitReturns
  <2>5. QED
    BY <2>2, <2>3, <2>4
<1>10. ASSUME NEW h \in Hook, ExitReturns(h) PROVE StackInv'
  <2>1. Len(stack) > 0 /\ stack[Len(stack)] = h
    BY <1>10 DEF ExitReturns
  <2>2. /\ stack' \in Seq(Hook) /\ Len(stack') <= 2 /\ Distinct(stack')
        /\ \A g : Listed(stack', g) <=> g # h /\ Listed(stack, g)
    BY <1>10, <2>1, WithoutTop DEF ExitReturns
  <2>3. /\ phase' = [phase EXCEPT ![h] = "out"] /\ at' = [at EXCEPT ![h] = "none"]
        /\ UNCHANGED <<rw, orderly>>
    BY <1>10 DEF ExitReturns
  <2>4. \A g \in Hook : phase'[g] # "exit"
    BY <1>10, <2>3 DEF ExitReturns
  <2>5. QED
    BY <2>2, <2>3, <2>4
<1>11. CASE UNCHANGED tableVars
  BY <1>11 DEF tableVars
<1>12. QED
  BY <1>2, <1>3, <1>4, <1>5, <1>6, <1>7, <1>8, <1>9, <1>10, <1>11, TableOrNot DEF TableActs

\* What an entry points to when these modules are loaded, and what it pointed
\* to before h replaced it.
TopOf(s)      == IF Len(s) = 0 THEN "core" ELSE s[Len(s)]
UnderOf(s, h) == IF Len(s) = 2 /\ s[2] = h THEN s[1] ELSE "core"

LEMMA UnderWithTop ==
  ASSUME NEW s \in Seq(Hook), NEW h \in Hook, Distinct(s), ~Listed(s, h)
  PROVE  /\ TopOf(Append(s, h)) = h
         /\ UnderOf(Append(s, h), h) = TopOf(s)
         /\ \A g : Listed(s, g) => UnderOf(Append(s, h), g) = UnderOf(s, g)
<1>1. /\ Len(s) \in Nat /\ Len(s) < 2
      /\ Len(Append(s, h)) = Len(s) + 1
      /\ Append(s, h)[Len(s) + 1] = h
      /\ \A i \in 1 .. Len(s) : Append(s, h)[i] = s[i]
  BY WithTop
<1>2. TopOf(Append(s, h)) = h
  BY <1>1 DEF TopOf
<1>3. UnderOf(Append(s, h), h) = TopOf(s)
  BY <1>1 DEF TopOf, UnderOf
<1>4. \A g : Listed(s, g) => UnderOf(Append(s, h), g) = UnderOf(s, g)
  BY <1>1 DEF UnderOf, Listed
<1>5. QED
  BY <1>2, <1>3, <1>4

LEMMA UnderWithoutTop ==
  ASSUME NEW s \in Seq(Hook), NEW h \in Hook, Len(s) > 0, Len(s) <= 2, s[Len(s)] = h, Distinct(s)
  PROVE  /\ TopOf(Without(s, h)) = UnderOf(s, h)
         /\ TopOf(s) = h
         /\ UnderOf(s, h) \in {"core"} \cup Hook /\ UnderOf(s, h) # h
         /\ \A g : g # h /\ Listed(s, g) =>
              UnderOf(s, g) = "core" /\ UnderOf(Without(s, h), g) = "core"
<1>1. /\ Len(Without(s, h)) = Len(s) - 1
      /\ \A i \in 1 .. Len(s) - 1 : Without(s, h)[i] = s[i]
  BY WithoutTop
<1>2. /\ Len(s) = 1 \/ Len(s) = 2
      /\ Len(s) = 2 => s[1] \in Hook /\ s[1] # s[2]
  <2>1. Len(s) \in Nat /\ \A i \in 1 .. Len(s) : s[i] \in Hook
    OBVIOUS
  <2>2. Len(s) = 1 \/ Len(s) = 2
    <3>1. \A n \in Nat : n > 0 /\ n <= 2 => n = 1 \/ n = 2
      OBVIOUS
    <3>2. QED
      BY <2>1, <3>1
  <2>3. Len(s) = 2 => s[1] # s[2]
    BY <2>1 DEF Distinct
  <2>4. QED
    BY <2>1, <2>2, <2>3
<1>3. TopOf(Without(s, h)) = UnderOf(s, h)
  BY <1>1, <1>2 DEF TopOf, UnderOf
<1>4. UnderOf(s, h) \in {"core"} \cup Hook /\ UnderOf(s, h) # h
  BY <1>2 DEF UnderOf, Hook
<1>5. \A g : g # h /\ Listed(s, g) =>
        UnderOf(s, g) = "core" /\ UnderOf(Without(s, h), g) = "core"
  BY <1>1, <1>2 DEF UnderOf, Listed
<1>6. QED
  BY <1>2, <1>3, <1>4, <1>5 DEF TopOf

\* Every entry points to what it should for the modules that are loaded, and
\* for how far the one that comes or goes has got with its list; and every
\* module has saved what was there before it.
ValuesInv ==
  orderly =>
    \A e \in Entry :
      /\ Idle => table[e] = TopOf(stack)
      /\ \A h \in Hook :
           /\ phase[h] = "init" =>
                /\ table[e] = IF Listed(todo[h], Store(e)) THEN TopOf(stack) ELSE h
                /\ ~Listed(todo[h], Save(e)) => saved[h][e] = TopOf(stack)
           /\ phase[h] = "exit" =>
                table[e] = IF Listed(todo[h], Store(e)) THEN h ELSE UnderOf(stack, h)
           /\ phase[h] \in {"in", "exit"} => saved[h][e] = UnderOf(stack, h)

LEMMA ValuesStep ==
  MachineInv /\ PlaceInv /\ EntriesInv /\ StackInv /\ ValuesInv /\ [Next]_vars => ValuesInv'
<1> SUFFICES ASSUME MachineInv, PlaceInv, EntriesInv, StackInv, ValuesInv, [Next]_vars, orderly'
             PROVE  ValuesInv'
  BY DEF ValuesInv
<1>1. orderly
  BY TableOrNot DEF TableActs, Insmod, Rmmod, CheckPte, SetRw, SaveEntry, StoreEntry, StoreFaults,
                    MakeRo, InitReturns, ExitReturns, tableVars, PlaceInv
<1> USE <1>1 DEF PlaceInv, EntriesInv, StackInv, ValuesInv
<1>2. ASSUME NEW h \in Hook, Insmod(h) PROVE ValuesInv'
  <2>1. Idle /\ ~Idle'
    BY <1>2 DEF Insmod, Idle
  <2>2. \A e \in Entry : Listed(todo'[h], Save(e)) /\ Listed(todo'[h], Store(e))
    BY <1>2, LoadBodies DEF Insmod
  <2>3. \A g \in Hook : phase'[g] = "init" => g = h
    BY <1>2, <2>1 DEF Insmod, Idle
  <2>4. QED
    BY <1>2, <2>1, <2>2, <2>3 DEF Insmod
<1>3. ASSUME NEW h \in Hook, Rmmod(h) PROVE ValuesInv'
  <2>1. Idle /\ ~Idle'
    BY <1>3 DEF Rmmod, Idle
  <2>2. \A e \in Entry : Listed(todo'[h], Store(e))
    BY <1>3, RestoreBodies DEF Rmmod
  <2>3. TopOf(stack) = h
    <3>1. stack[Len(stack)] = h /\ Listed(stack, h)
      BY <1>3 DEF Rmmod
    <3>2. Len(stack) # 0
      BY <3>1 DEF Listed
    <3>3. QED
      BY <3>1, <3>2 DEF TopOf
  <2>4. \A g \in Hook : phase'[g] = "exit" => g = h
    BY <1>3, <2>1 DEF Rmmod, Idle
  <2>5. QED
    BY <1>3, <2>1, <2>2, <2>3, <2>4 DEF Rmmod
<1>4. ASSUME NEW h \in Hook, CheckPte(h) \/ SetRw(h) \/ MakeRo(h) PROVE ValuesInv'
  <2>1. ~Idle'
    BY <1>4 DEF CheckPte, SetRw, MakeRo, Idle
  <2>2. QED
    BY <1>4, <2>1 DEF CheckPte, SetRw, MakeRo
<1>5. ASSUME NEW h \in Hook, SaveEntry(h) \/ StoreEntry(h) PROVE ValuesInv'
  <2> DEFINE i == Head(todo[h])
             f == Head(todo[h])[2]
  <2>1. /\ at[h] = "body" /\ todo[h] # <<>> /\ phase[h] \in {"init", "exit"}
        /\ todo' = [todo EXCEPT ![h] = Tail(@)]
        /\ UNCHANGED <<phase, at, stack, orderly>>
    BY <1>5 DEF SaveEntry, StoreEntry, NextIs
  <2>2. /\ f \in Entry /\ i \in Instruction /\ i = todo[h][1] /\ Len(todo[h]) \in Nat \ {0}
        /\ Listed(todo[h], i) /\ ~Listed(todo'[h], i)
        /\ \A k : k # i => (Listed(todo'[h], k) <=> Listed(todo[h], k))
    BY <2>1, TailOfBody DEF Instruction
  <2>3. \A g \in Hook : g # h => phase[g] \notin {"init", "exit"}
    BY <2>1
  <2>4. ~Idle'
    BY <2>1 DEF Idle
  <2>5. CASE SaveEntry(h)
    <3>1. i = Save(f) /\ i[1] = "save"
      BY <2>2, <2>5 DEF SaveEntry, NextIs, Save, Instruction
    <3>2. phase[h] = "init"
      <4>1. 1 \in 1 .. Len(todo[h]) /\ todo[h][1][1] # "store"
        BY <2>2, <3>1
      <4>2. ~StoresOnly(todo[h])
        BY <4>1 DEF StoresOnly
      <4>3. QED
        BY <2>1, <4>2
    <3>3. Listed(todo[h], Store(f))
      BY <2>2, <3>1 DEF SaveFirst, Listed
    <3>4. table[f] = TopOf(stack)
      BY <2>2, <3>2, <3>3
    <3>5. /\ saved' = [saved EXCEPT ![h] = [@ EXCEPT ![f] = TopOf(stack)]]
          /\ table' = table
      BY <2>5, <3>4 DEF SaveEntry
    <3>6. \A e \in Entry :
            /\ e # f => Save(e) # i
            /\ Store(e) # i
      BY <3>1 DEF Save, Store
    <3>7. ASSUME NEW e \in Entry
          PROVE  /\ table'[e] = IF Listed(todo'[h], Store(e)) THEN TopOf(stack) ELSE h
                 /\ ~Listed(todo'[h], Save(e)) => saved'[h][e] = TopOf(stack)
      <4>1. table'[e] = IF Listed(todo'[h], Store(e)) THEN TopOf(stack) ELSE h
        BY <2>2, <3>2, <3>5, <3>6
      <4>2. CASE e = f
        BY <3>5, <4>1, <4>2
      <4>3. CASE e # f
        BY <2>2, <3>2, <3>5, <3>6, <4>1, <4>3
      <4>4. QED
        BY <4>2, <4>3
    <3>8. \A g \in Hook : g # h => saved'[g] = saved[g]
      BY <3>5
    <3>9. QED
      BY <2>1, <2>3, <2>4, <3>2, <3>7, <3>8
  <2>6. CASE StoreEntry(h)
    <3>1. i = Store(f) /\ i[1] = "store"
      BY <2>2, <2>6 DEF StoreEntry, NextIs, Store, Instruction
    <3>2. /\ table' = [table EXCEPT ![f] = IF phase[h] = "init" THEN h ELSE saved[h][f]]
          /\ saved' = saved
      BY <2>6 DEF StoreEntry
    <3>3. \A e \in Entry :
            /\ e # f => Store(e) # i
            /\ Save(e) # i
      BY <3>1 DEF Save, Store
    <3>4. ~Listed(todo'[h], Store(f))
      BY <2>2, <3>1
    <3>5. CASE phase[h] = "init"
      <4>1. ASSUME NEW e \in Entry
            PROVE  table'[e] = IF Listed(todo'[h], Store(e)) THEN TopOf(stack) ELSE h
        <5>1. CASE e = f
          BY <3>2, <3>4, <3>5, <5>1
        <5>2. CASE e # f
          BY <2>2, <3>2, <3>3, <3>5, <5>2
        <5>3. QED
          BY <5>1, <5>2
      <4>2. \A e \in Entry : ~Listed(todo'[h], Save(e)) => saved'[h][e] = TopOf(stack)
        BY <2>2, <3>2, <3>3, <3>5
      <4>3. QED
        BY <2>1, <2>3, <2>4, <3>2, <3>5, <4>1, <4>2
    <3>6. CASE phase[h] = "exit"
      <4>1. ASSUME NEW e \in Entry
            PROVE  table'[e] = IF Listed(todo'[h], Store(e)) THEN h ELSE UnderOf(stack, h)
        <5>1. CASE e = f
          BY <3>2, <3>4, <3>6, <5>1
        <5>2. CASE e # f
          BY <2>2, <3>2, <3>3, <3>6, <5>2
        <5>3. QED
          BY <5>1, <5>2
      <4>2. QED
        BY <2>1, <2>3, <2>4, <3>2, <3>6, <4>1
    <3>7. QED
      BY <2>1, <3>5, <3>6
  <2>7. QED
    BY <1>5, <2>5, <2>6
<1>6. ASSUME NEW h \in Hook, StoreFaults(h) PROVE ValuesInv'
  BY <1>6 DEF StoreFaults, NextIs
<1>7. ASSUME NEW h \in Hook, InitReturns(h) PROVE ValuesInv'
  <2>1. /\ ~Listed(stack, h) /\ todo[h] = <<>> /\ phase[h] = "init"
        /\ stack' = Append(stack, h)
        /\ phase' = [phase EXCEPT ![h] = "in"]
        /\ UNCHANGED <<table, saved, todo>>
    BY <1>7 DEF InitReturns
  <2>2. \A e \in Entry : table[e] = h /\ saved[h][e] = TopOf(stack)
    <3>1. \A k : ~Listed(<<>>, k)
      BY DEF Listed
    <3>2. QED
      BY <2>1, <3>1
  <2>3. /\ TopOf(stack') = h /\ UnderOf(stack', h) = TopOf(stack)
        /\ \A g : Listed(stack, g) => UnderOf(stack', g) = UnderOf(stack, g)
    BY <2>1, UnderWithTop
  <2>4. \A g \in Hook : phase'[g] \notin {"init", "exit"}
    BY <1>7, <2>1 DEF InitReturns
  <2>5. QED
    BY <2>1, <2>2, <2>3, <2>4
<1>8. ASSUME NEW h \in Hook, ExitReturns(h) PROVE ValuesInv'
  <2>1. /\ Len(stack) > 0 /\ stack[Len(stack)] = h /\ todo[h] = <<>> /\ phase[h] = "exit"
        /\ stack' = Without(stack, h)
        /\ phase' = [phase EXCEPT ![h] = "out"]
        /\ table' = Dangling(table, h)
        /\ \A g \in Hook : g # h => saved'[g] = Dangling(saved[g], h)
    BY <1>8 DEF ExitReturns
  <2>2. /\ TopOf(stack') = UnderOf(stack, h) /\ UnderOf(stack, h) # h
        /\ \A g : g # h /\ Listed(stack, g) =>
             UnderOf(stack, g) = "core" /\ UnderOf(stack', g) = "core"
    <3>1. stack \in Seq(Hook) /\ Len(stack) <= 2 /\ Distinct(stack)
      OBVIOUS
    <3>2. /\ TopOf(Without(stack, h)) = UnderOf(stack, h) /\ UnderOf(stack, h) # h
          /\ \A g : g # h /\ Listed(stack, g) =>
               UnderOf(stack, g) = "core" /\ UnderOf(Without(stack, h), g) = "core"
      <4> HIDE DEF PlaceInv, EntriesInv, StackInv, ValuesInv
      <4>1. QED
        BY <2>1, <3>1, UnderWithoutTop
    <3>3. QED
      BY <2>1, <3>2
  <2>3. \A e \in Entry : table[e] = UnderOf(stack, h)
    <3>1. \A k : ~Listed(<<>>, k)
      BY DEF Listed
    <3>2. QED
      BY <2>1, <3>1
  <2>4. \A e \in Entry : table'[e] = TopOf(stack')
    BY <2>1, <2>2, <2>3 DEF Dangling
  <2>5. \A g \in Hook : phase'[g] \notin {"init", "exit"}
    BY <1>8, <2>1 DEF ExitReturns
  <2>6. ASSUME NEW g \in Hook, phase'[g] = "in", NEW e \in Entry
        PROVE  saved'[g][e] = UnderOf(stack', g)
    <3>1. g # h /\ phase[g] = "in"
      BY <2>1, <2>6
    <3>2. UnderOf(stack, g) = "core" /\ UnderOf(stack', g) = "core"
      BY <2>2, <3>1
    <3>3. saved[g][e] = "core" /\ "core" # h
      BY <3>1, <3>2 DEF Hook
    <3>4. saved'[g][e] = "core"
      <4>1. saved'[g] = Dangling(saved[g], h)
        BY <2>1, <3>1
      <4>2. QED
        BY <3>3, <4>1 DEF Dangling
    <3>5. QED
      BY <3>2, <3>4
  <2>7. QED
    BY <2>4, <2>5, <2>6
<1>9. CASE UNCHANGED tableVars
  BY <1>9 DEF tableVars, Idle
<1>10. QED
  BY <1>2, <1>3, <1>4, <1>5, <1>6, <1>7, <1>8, <1>9, TableOrNot DEF TableActs

\* Loaded and unloaded one at a time and last in first out, no module leaves
\* an entry that points into its freed memory, no store faults, and when all
\* are gone the table is the kernel's own.
THEOREM EntriesLiveHolds == Spec => []EntriesLive
<1>1. Init => StackInv /\ ValuesInv
  <2>1. <<>> \in Seq(Hook) /\ Len(<<>>) = 0 /\ Distinct(<<>>) /\ \A g : ~Listed(<<>>, g)
    BY DEF Distinct, Listed
  <2>2. QED
    BY <2>1 DEF Init, TableInit, StackInv, ValuesInv, TopOf
<1>2. PlaceInv /\ StackInv /\ ValuesInv => EntriesLive
  <2> SUFFICES ASSUME PlaceInv, StackInv, ValuesInv, orderly
               PROVE  /\ \A e \in Entry : table[e] # "gone"
                      /\ \A h \in Hook : phase[h] # "dead"
                      /\ (\A h \in Hook : phase[h] = "out") => \A e \in Entry : table[e] = "core"
    BY DEF EntriesLive
  <2> USE DEF PlaceInv, StackInv, ValuesInv
  <2>1. TopOf(stack) \in {"core"} \cup Hook /\ \A h : UnderOf(stack, h) \in {"core"} \cup Hook
    BY DEF TopOf, UnderOf
  <2>2. \A e \in Entry : table[e] # "gone"
    <3>1. CASE Idle
      BY <2>1, <3>1 DEF Hook
    <3>2. CASE ~Idle
      <4>1. PICK h \in Hook : phase[h] = "init" \/ phase[h] = "exit"
        BY <3>2 DEF Idle
      <4>2. "gone" \notin Hook
        BY DEF Hook
      <4>3. QED
        BY <2>1, <4>1, <4>2
    <3>3. QED
      BY <3>1, <3>2
  <2>3. (\A h \in Hook : phase[h] = "out") => \A e \in Entry : table[e] = "core"
    <3> SUFFICES ASSUME \A h \in Hook : phase[h] = "out" PROVE TopOf(stack) = "core" /\ Idle
      OBVIOUS
    <3>1. Idle
      BY DEF Idle
    <3>2. Len(stack) = 0
      BY DEF Listed
    <3>3. QED
      BY <3>1, <3>2 DEF TopOf
  <2>4. QED
    BY <2>2, <2>3
<1>3. QED
  BY <1>1, <1>2, TableInvariants, InitTypes, EntriesStep, StackStep, ValuesStep, PTL DEF Spec
=============================================================================
