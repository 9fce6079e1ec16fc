----------------------------- MODULE CallTable -----------------------------
(***************************************************************************)
(* Two modules that replace three entries of the system-call table when    *)
(* they are loaded and put back what they found when they are unloaded:    *)
(* Assignment_1/q3/older_syscall_interception.c, ("older") and             *)
(* Assignment_1/q5/newer_syscall_interception.c ("newer").  Only the       *)
(* saving, replacing and restoring is modelled, not what the handlers do.  *)
(*                                                                         *)
(* Both lift the write protection of the table's page themselves, in the   *)
(* page table, which they share.  "newer" also clears CR0.WP, so that a    *)
(* read-only page does not stop it as long as it stays on that CPU.        *)
(*                                                                         *)
(* A machine with an entry that points into a module that is gone crashes  *)
(* at the next call; no further module is loaded on it.                    *)
(***************************************************************************)
EXTENDS Integers, Sequences

VARIABLES
  table,    \* what each entry points to: the kernel, a module, or nothing
  rw,       \* _PAGE_RW of the table's page
  phase,    \* of each module
  at,       \* the step of its init or exit
  todo,     \* the saves and stores that are left
  was,      \* was_writable
  saved,    \* original_sys_exit, original_getdents, original_getdents64
  stack,    \* history: the loaded modules, in the order they were loaded
  orderly   \* history: no two inits or exits overlapped, last in was first out

tableVars == <<table, rw, phase, at, todo, was, saved, stack, orderly>>

Hook  == {"older", "newer"}
Entry == {"exit", "getdents", "getdents64"}

\* The core kernel, a function of a loaded module, one of a module that is gone.
Target == {"core", "gone"} \cup Hook

Save(e)  == <<"save", e>>
Store(e) == <<"store", e>>

\* Mutant: an entry is saved after it was replaced.
LoadBody_late ==
  [older |-> <<Store("exit"), Save("exit"), Save("getdents"), Store("getdents"),
               Save("getdents64"), Store("getdents64")>>,
   newer |-> <<Save("exit"), Save("getdents"), Save("getdents64"),
               Store("exit"), Store("getdents64"), Store("getdents")>>]
LoadBody ==
  [older |-> <<Save("exit"), Store("exit"), Save("getdents"), Store("getdents"),
               Save("getdents64"), Store("getdents64")>>,
   newer |-> <<Save("exit"), Save("getdents"), Save("getdents64"),
               Store("exit"), Store("getdents64"), Store("getdents")>>]
RestoreBody == <<Store("exit"), Store("getdents"), Store("getdents64")>>

TableInit ==
  /\ table = [e \in Entry |-> "core"]
  /\ rw = FALSE
  /\ phase = [h \in Hook |-> "out"]
  /\ at = [h \in Hook |-> "none"]
  /\ todo = [h \in Hook |-> <<>>]
  /\ was = [h \in Hook |-> 0]
  /\ saved = [h \in Hook |-> [e \in Entry |-> "core"]]
  /\ stack = <<>>
  /\ orderly = TRUE

Idle == \A h \in Hook : at[h] = "none"

\* insmod: custom_init finds the table and starts.  When it does not find it,
\* it fails without a trace.
Insmod(h) ==
  /\ phase[h] = "out"
  /\ \A e \in Entry : table[e] # "gone"
  /\ phase' = [phase EXCEPT ![h] = "init"]
  /\ at' = [at EXCEPT ![h] = "check"]
  /\ todo' = [todo EXCEPT ![h] = LoadBody[h]]
  /\ orderly' = (orderly /\ Idle)
  /\ UNCHANGED <<table, rw, was, saved, stack>>

\* rmmod: custom_exit starts.
Rmmod(h) ==
  /\ phase[h] = "in"
  /\ phase' = [phase EXCEPT ![h] = "exit"]
  /\ at' = [at EXCEPT ![h] = "check"]
  /\ todo' = [todo EXCEPT ![h] = RestoreBody]
  /\ orderly' = (orderly /\ Idle /\ stack[Len(stack)] = h)
  /\ UNCHANGED <<table, rw, was, saved, stack>>

\* make_rw, up to the test of the page-table entry
CheckPte(h) ==
  /\ at[h] = "check"
  /\ was' = [was EXCEPT ![h] = 1]
  /\ at' = [at EXCEPT ![h] = IF rw THEN "body" ELSE "set"]
  /\ UNCHANGED <<table, rw, phase, todo, saved, stack, orderly>>

\* make_rw, the rest: the page was read-only when it was tested.
\* Mutant: was_writable is not taken back.
SetRw_keep(h) ==
  /\ at[h] = "set"
  /\ rw' = TRUE
  /\ at' = [at EXCEPT ![h] = "body"]
  /\ UNCHANGED <<table, phase, todo, was, saved, stack, orderly>>
SetRw(h) ==
  /\ at[h] = "set"
  /\ rw' = TRUE
  /\ was' = [was EXCEPT ![h] = 0]
  /\ at' = [at EXCEPT ![h] = "body"]
  /\ UNCHANGED <<table, phase, todo, saved, stack, orderly>>

NextIs(h, kind) ==
  /\ at[h] = "body"
  /\ todo[h] # <<>>
  /\ Head(todo[h])[1] = kind

SaveEntry(h) ==
  /\ NextIs(h, "save")
  /\ saved' = [saved EXCEPT ![h][Head(todo[h])[2]] = table[Head(todo[h])[2]]]
  /\ todo' = [todo EXCEPT ![h] = Tail(@)]
  /\ UNCHANGED <<table, rw, phase, at, was, stack, orderly>>

\* An entry is replaced (init) or restored (exit).
StoreEntry(h) ==
  /\ NextIs(h, "store")
  /\ rw \/ h = "newer"
  /\ LET e == Head(todo[h])[2] IN
     table' = [table EXCEPT ![e] = IF phase[h] = "init" THEN h ELSE saved[h][e]]
  /\ todo' = [todo EXCEPT ![h] = Tail(@)]
  /\ UNCHANGED <<rw, phase, at, was, saved, stack, orderly>>

\* The page is read-only again and the store faults: the process that loads or
\* unloads is killed and the module stays for ever.  "newer" too, if it has
\* been moved to another CPU, where CR0.WP is set.
StoreFaults(h) ==
  /\ NextIs(h, "store")
  /\ ~rw
  /\ phase' = [phase EXCEPT ![h] = "dead"]
  /\ at' = [at EXCEPT ![h] = "none"]
  /\ todo' = [todo EXCEPT ![h] = <<>>]
  /\ UNCHANGED <<table, rw, was, saved, stack, orderly>>

MakeRo(h) ==
  /\ at[h] = "body"
  /\ todo[h] = <<>>
  /\ rw' = (rw /\ was[h] # 0)
  /\ at' = [at EXCEPT ![h] = "return"]
  /\ UNCHANGED <<table, phase, todo, was, saved, stack, orderly>>

InitReturns(h) ==
  /\ at[h] = "return"
  /\ phase[h] = "init"
  /\ phase' = [phase EXCEPT ![h] = "in"]
  /\ at' = [at EXCEPT ![h] = "none"]
  /\ stack' = Append(stack, h)
  /\ UNCHANGED <<table, rw, todo, was, saved, orderly>>

\* What pointed to h when its memory was freed points to nothing now.
Dangling(entries, h) ==
  [e \in Entry |-> IF entries[e] = h THEN "gone" ELSE entries[e]]

\* The list without h, which it has once.
Without(list, h) ==
  LET i == CHOOSE i \in DOMAIN list : list[i] = h
  IN SubSeq(list, 1, i - 1) \o SubSeq(list, i + 1, Len(list))

\* exit is over and the kernel frees the module, its variables included.
ExitReturns(h) ==
  /\ at[h] = "return"
  /\ phase[h] = "exit"
  /\ phase' = [phase EXCEPT ![h] = "out"]
  /\ at' = [at EXCEPT ![h] = "none"]
  /\ was' = [was EXCEPT ![h] = 0]
  /\ table' = Dangling(table, h)
  /\ saved' = [g \in Hook |-> IF g = h THEN [e \in Entry |-> "core"]
                                       ELSE Dangling(saved[g], h)]
  /\ stack' = Without(stack, h)
  /\ UNCHANGED <<rw, todo, orderly>>

HookStep(h) ==
  \/ CheckPte(h) \/ SetRw(h)
  \/ SaveEntry(h) \/ StoreEntry(h) \/ StoreFaults(h)
  \/ MakeRo(h) \/ InitReturns(h) \/ ExitReturns(h)

TableNext(hooks) == \E h \in hooks : Insmod(h) \/ Rmmod(h) \/ HookStep(h)

-----------------------------------------------------------------------------

Instruction == {"save", "store"} \X Entry

\* The variables of the table and of the modules have the values they can have.
TableTypeOK ==
  /\ table \in [Entry -> Target]
  /\ rw \in BOOLEAN
  /\ phase \in [Hook -> {"out", "init", "in", "exit", "dead"}]
  /\ at \in [Hook -> {"none", "check", "set", "body", "return"}]
  /\ todo \in [Hook -> Seq(Instruction)]
  /\ was \in [Hook -> {0, 1}]
  /\ saved \in [Hook -> [Entry -> Target]]
  /\ \A h \in Hook : (at[h] = "none") <=> (phase[h] \in {"out", "in", "dead"})
  /\ orderly \in BOOLEAN

\* If modules are loaded and unloaded one at a time, last in first out, then
\* no entry and no saved entry ever points into a module that is gone, no
\* store faults, and without a module the table is the kernel's own.
EntriesLive ==
  orderly =>
    /\ \A e \in Entry : table[e] # "gone"
    /\ \A h \in Hook : phase[h] # "dead"
    /\ (\A h \in Hook : phase[h] = "out") => \A e \in Entry : table[e] = "core"

\* In whatever order inits and exits interleave, even when one of them dies:
\* when none is under way the page of the table is read-only.  Every make_rw
\* that lifted the protection is followed by a make_ro that restores it.
TableProtected == Idle => ~rw
=============================================================================
