------------------------------ MODULE IpcRing -------------------------------
(***************************************************************************)
(* Assignment_0/q1: parent_pgm.c and child_pgm.c.  A parent and the two    *)
(* children it forks take turns on a System V shared-memory segment.  The  *)
(* turn is handed on through named POSIX semaphores, which outlive the     *)
(* processes: a session that is interrupted leaves them as they are and    *)
(* the next session opens them again (sem_open with O_CREAT, no O_EXCL).   *)
(*                                                                         *)
(* A message is abstracted to its author and to the number of times it has *)
(* been copied to the output file.                                         *)
(***************************************************************************)
EXTENDS Naturals

CONSTANT MaxInterrupts   \* bound: Ctrl-C's in a behaviour

ASSUME MaxInterruptsAssumption == MaxInterrupts \in Nat

Children == {"ChildOne", "ChildTwo"}
Procs    == {"Parent"} \cup Children

\* The semaphore a process posts at the end of its turn.
NextOf == [Parent |-> "ChildOne", ChildOne |-> "ChildTwo", ChildTwo |-> "Parent"]

VARIABLES
  pc,          \* where each process is in main()
  sem,         \* value of each process's named semaphore (0 if unlinked)
  shm,         \* the message in the segment: its author, its copies in the file
  doomed,      \* processes with a fatal signal (SIGTERM, SIGINT) pending
  stale,       \* history: the sum of the semaphores when the session began
  aborted,     \* history: a session was interrupted since the last full cleanup
  interrupts   \* number of Ctrl-C's so far (bounded by MaxInterrupts)

vars == <<pc, sem, shm, doomed, stale, aborted, interrupts>>

\* The body of the loop, between sem_wait and sem_post.
InTurn == {"turn", "logged", "written"}
\* Only the parent: before its first sem_post, and after TERMINATE.
Setup   == {"fork1", "fork2", "send", "init"}
Cleanup == {"reap1", "reap2", "unlink1", "unlink2", "unlink3", "rmid"}

NoMessage == [by |-> "none", copies |-> 0]

TypeOK ==
  /\ pc \in [Procs -> {"off", "setup", "wait", "zombie"} \cup InTurn \cup Setup \cup Cleanup]
  /\ pc["Parent"] \notin {"setup", "zombie"}
  /\ \A c \in Children : pc[c] \notin Setup \cup Cleanup
  /\ sem \in [Procs -> Nat]
  /\ shm \in [by : Procs \cup {"none"}, copies : 0..2]
  /\ doomed \in SUBSET Procs
  /\ stale \in Nat
  /\ aborted \in BOOLEAN
  /\ interrupts \in Nat

Init ==
  /\ pc = [p \in Procs |-> "off"]
  /\ sem = [p \in Procs |-> 0]
  /\ shm = NoMessage
  /\ doomed = {}
  /\ stale = 0
  /\ aborted = FALSE
  /\ interrupts = 0

Goto(p, from, to) == pc[p] = from /\ pc' = [pc EXCEPT ![p] = to]
Alive(p) == pc[p] \notin {"off", "zombie"}

SemSum == sem["Parent"] + sem["ChildOne"] + sem["ChildTwo"]

-----------------------------------------------------------------------------
(* The parent's setup.                                                     *)

\* Mutant of Start: a child's semaphore is created with the value 1.
Start_posted ==
  /\ \A c \in Children : pc[c] = "off"
  /\ Goto("Parent", "off", "fork1")
  /\ stale' = SemSum
  /\ sem' = [sem EXCEPT !["ChildOne"] = @ + 1]
  /\ UNCHANGED <<shm, doomed, aborted, interrupts>>

\* shmget, shmat, the sem_opens, pipe and open: what an earlier session left
\* in the semaphores and in the segment is still there.
Start ==
  /\ \A c \in Children : pc[c] = "off"
  /\ Goto("Parent", "off", "fork1")
  /\ stale' = SemSum
  /\ UNCHANGED <<sem, shm, doomed, aborted, interrupts>>

\* fork and execl of one child; a pending signal makes fork start over.
Fork(c, from, to) ==
  /\ pc["Parent"] = from
  /\ "Parent" \notin doomed
  /\ pc' = [pc EXCEPT !["Parent"] = to, ![c] = "setup"]
  /\ UNCHANGED <<sem, shm, doomed, stale, aborted, interrupts>>

\* The segment's id and the file descriptor go down both pipes.
Send ==
  /\ Goto("Parent", "send", "init")
  /\ UNCHANGED <<sem, shm, doomed, stale, aborted, interrupts>>

InitialWrite ==
  /\ Goto("Parent", "init", "written")
  /\ shm' = [by |-> "Parent", copies |-> 0]
  /\ UNCHANGED <<sem, doomed, stale, aborted, interrupts>>

\* A child reads its pipe, so it waits for Send; then it attaches the
\* segment, opens the semaphores and installs the SIGTERM handler.
ChildSetup(c) ==
  /\ pc["Parent"] \notin {"off"} \cup (Setup \ {"init"})
  /\ Goto(c, "setup", "wait")
  /\ UNCHANGED <<sem, shm, doomed, stale, aborted, interrupts>>

-----------------------------------------------------------------------------
(* The loop of the three processes.                                        *)

\* Mutant of SemWait: it does not wait.
SemWait_try(p) ==
  /\ Goto(p, "wait", "turn")
  /\ sem' = [sem EXCEPT ![p] = @ - 1]
  /\ UNCHANGED <<shm, doomed, stale, aborted, interrupts>>

SemWait(p) ==
  /\ sem[p] > 0
  /\ Goto(p, "wait", "turn")
  /\ sem' = [sem EXCEPT ![p] = @ - 1]
  /\ UNCHANGED <<shm, doomed, stale, aborted, interrupts>>

\* The message in the segment is appended to the output file.
Log(p) ==
  /\ Goto(p, "turn", "logged")
  /\ shm' = [shm EXCEPT !.copies = IF @ < 2 THEN @ + 1 ELSE 2]
  /\ UNCHANGED <<sem, doomed, stale, aborted, interrupts>>

\* Mutant of Write: the message may be replaced before it is logged.
Write_early(p) ==
  /\ pc[p] \in {"turn", "logged"}
  /\ pc' = [pc EXCEPT ![p] = "written"]
  /\ shm' = [by |-> p, copies |-> 0]
  /\ UNCHANGED <<sem, doomed, stale, aborted, interrupts>>

\* fgets, then the new message replaces the old one.
Write(p) ==
  /\ Goto(p, "logged", "written")
  /\ shm' = [by |-> p, copies |-> 0]
  /\ UNCHANGED <<sem, doomed, stale, aborted, interrupts>>

\* Mutants of SemPost: the post is forgotten; ChildOne posts the parent's.
SemPost_none(p) ==
  /\ Goto(p, "written", "wait")
  /\ UNCHANGED <<sem, shm, doomed, stale, aborted, interrupts>>
SemPost_back(p) ==
  /\ Goto(p, "written", "wait")
  /\ sem' = [sem EXCEPT ![IF p = "ChildOne" THEN "Parent" ELSE NextOf[p]] = @ + 1]
  /\ UNCHANGED <<shm, doomed, stale, aborted, interrupts>>

SemPost(p) ==
  /\ Goto(p, "written", "wait")
  /\ sem' = [sem EXCEPT ![NextOf[p]] = @ + 1]
  /\ UNCHANGED <<shm, doomed, stale, aborted, interrupts>>

\* A dead child is a zombie while its parent lives.
Gone == IF pc["Parent"] = "off" THEN "off" ELSE "zombie"

\* A child whose write fails, or whose fgets meets the end of stdin, exits
\* in the middle of its turn and posts nothing.
ChildFails(c) ==
  /\ pc[c] \in {"turn", "logged"}
  /\ pc' = [pc EXCEPT ![c] = Gone]
  /\ doomed' = doomed \ {c}
  /\ UNCHANGED <<sem, shm, stale, aborted, interrupts>>

-----------------------------------------------------------------------------
(* The end of a session.                                                   *)

\* Mutant of Terminate: only the first child is killed.
Terminate_one ==
  /\ Goto("Parent", "logged", "reap1")
  /\ doomed' = doomed \cup {c \in {"ChildOne"} : Alive(c)}
  /\ UNCHANGED <<sem, shm, stale, aborted, interrupts>>

\* The user enters TERMINATE in the parent's turn: SIGTERM to both children.
Terminate ==
  /\ Goto("Parent", "logged", "reap1")
  /\ doomed' = doomed \cup {c \in Children : Alive(c)}
  /\ UNCHANGED <<sem, shm, stale, aborted, interrupts>>

\* Mutant of Reap: waitpid returns at once, as for a pid that is not a child.
Reap_nowait(from, to) ==
  /\ Goto("Parent", from, to)
  /\ UNCHANGED <<sem, shm, doomed, stale, aborted, interrupts>>

\* waitpid on child1_pid and on child2_pid, which are never assigned: pid 0
\* waits for any child of the process group, and fails if there is none.
Reap(from, to) ==
  /\ pc["Parent"] = from
  /\ \/ \E c \in Children :
          /\ pc[c] = "zombie"
          /\ pc' = [pc EXCEPT !["Parent"] = to, ![c] = "off"]
     \/ /\ \A c \in Children : pc[c] = "off"
        /\ pc' = [pc EXCEPT !["Parent"] = to]
  /\ UNCHANGED <<sem, shm, doomed, stale, aborted, interrupts>>

\* Mutant of Unlink: the semaphore is closed and not unlinked.
Unlink_close(p, from, to) ==
  /\ Goto("Parent", from, to)
  /\ UNCHANGED <<sem, shm, doomed, stale, aborted, interrupts>>

Unlink(p, from, to) ==
  /\ Goto("Parent", from, to)
  /\ sem' = [sem EXCEPT ![p] = 0]
  /\ UNCHANGED <<shm, doomed, stale, aborted, interrupts>>

\* shmctl(IPC_RMID), and the parent returns.
RemoveShm ==
  /\ Goto("Parent", "rmid", "off")
  /\ shm' = NoMessage
  /\ doomed' = doomed \ {"Parent"}
  /\ aborted' = (aborted /\ "Parent" \in doomed)
  /\ UNCHANGED <<sem, stale, interrupts>>

\* Ctrl-C: SIGINT to the whole foreground process group.
Interrupt ==
  /\ interrupts < MaxInterrupts
  /\ pc["Parent"] # "off" /\ "Parent" \notin doomed
  /\ doomed' = {p \in Procs : Alive(p)}
  /\ aborted' = TRUE
  /\ interrupts' = interrupts + 1
  /\ UNCHANGED <<pc, sem, shm, stale>>

\* A pending signal takes effect; until then its process may go on.  The
\* semaphores keep their values, whatever the process was doing.
ChildDies(c) ==
  /\ c \in doomed
  /\ pc' = [pc EXCEPT ![c] = Gone]
  /\ doomed' = doomed \ {c}
  /\ UNCHANGED <<sem, shm, stale, aborted, interrupts>>

ParentDies ==
  /\ "Parent" \in doomed
  /\ pc' = [p \in Procs |-> IF p = "Parent" \/ pc[p] = "zombie" THEN "off" ELSE pc[p]]
  /\ doomed' = doomed \ {"Parent"}
  /\ UNCHANGED <<sem, shm, stale, aborted, interrupts>>

-----------------------------------------------------------------------------
Turn(p) == SemWait(p) \/ Log(p) \/ Write(p) \/ SemPost(p)

ParentStep ==
  \/ Fork("ChildOne", "fork1", "fork2") \/ Fork("ChildTwo", "fork2", "send")
  \/ Send \/ InitialWrite \/ Turn("Parent") \/ Terminate
  \/ Reap("reap1", "reap2") \/ Reap("reap2", "unlink1")
  \/ Unlink("Parent", "unlink1", "unlink2")
  \/ Unlink("ChildOne", "unlink2", "unlink3")
  \/ Unlink("ChildTwo", "unlink3", "rmid")
  \/ RemoveShm

ChildStep(c) == ChildSetup(c) \/ Turn(c)

Next ==
  \/ Start \/ ParentStep \/ Interrupt \/ ParentDies
  \/ \E c \in Children : ChildStep(c) \/ ChildFails(c) \/ ChildDies(c)

Spec == Init /\ [][Next]_vars

\* The scheduler runs every process, the user answers every prompt, and a
\* pending signal is delivered.  Nobody has to start, interrupt or end a
\* session, and no child has to fail.
Fairness ==
  /\ WF_vars(ParentStep) /\ WF_vars(ParentDies)
  /\ \A c \in Children : WF_vars(ChildStep(c)) /\ WF_vars(ChildDies(c))

FairSpec == Spec /\ Fairness

-----------------------------------------------------------------------------
(* Properties.                                                             *)

\* The right to use the segment: the parent has it from the start of the
\* session to its first post, and again from its turn to the end.
Holds(p) == pc[p] \in InTurn \cup Setup \cup Cleanup

\* A session that found no value left in the semaphores never has two
\* processes between sem_wait and sem_post: segment and output file are used
\* by one process at a time, and TERMINATE never kills a child in its turn.
MutualExclusion ==
  stale = 0 => \A p, q \in Procs : Holds(p) /\ Holds(q) => p = q

\* The readme's "round-robin fashion" without the proviso of a clean start:
\* two processes are never in their turns together (readme.md:43, :52).
OneTurnAtATime ==
  \A p, q \in Procs : pc[p] \in InTurn /\ pc[q] \in InTurn => p = q

\* In a session with a clean start every message is copied to the file
\* exactly once, by the process after its author, before it is replaced.
LoggedOnceByNext ==
  [][ \A p \in Procs : stale = 0 =>
        /\ Log(p) => NextOf[shm.by] = p /\ shm.copies = 0
        /\ Write(p) => shm.copies = 1 ]_vars

\* The parent unlinks the semaphores only when both children are dead and
\* collected, although it waits for the pids in two unassigned variables.
ReapedBeforeUnlink ==
  pc["Parent"] \in Cleanup \ {"reap1", "reap2"} => \A c \in Children : pc[c] = "off"

\* A session ended with TERMINATE leaves every semaphore at zero, even if it
\* began with stale values: only an interrupt can make the next start stale.
CleanAfterCleanup ==
  pc["Parent"] = "off" /\ ~aborted => \A p \in Procs : sem[p] = 0 /\ pc[p] = "off"

\* A process that waits gets its turn unless a child has failed or a signal
\* is pending.
TurnComes ==
  \A p \in Procs :
    pc[p] = "wait" ~> \/ pc[p] # "wait"
                      \/ doomed # {} \/ \E c \in Children : pc[c] = "zombie"

\* TERMINATE ends the session: both waits return and the cleanup completes.
TerminateCompletes == pc["Parent"] = "reap1" ~> pc["Parent"] = "off"

\* The refinement: the turn is where the token is, in a semaphore or in the
\* hands of a process.
HasTurn(p) == Holds(p) \/ sem[p] > 0
AbstractTurn ==
  IF pc["Parent"] = "off" \/ "Parent" \in doomed THEN "off"
  ELSE IF stale > 0 THEN "broken"
  ELSE IF HasTurn("Parent") THEN "Parent"
  ELSE IF HasTurn("ChildOne") THEN "ChildOne"
  ELSE IF HasTurn("ChildTwo") THEN "ChildTwo"
  ELSE "dead"

Abstract == INSTANCE TurnRing WITH turn <- AbstractTurn, clean <- ~aborted

\* The program hands one turn round the ring as TurnRing says, for any number
\* of sessions, interrupted or not.
ImplementsTurnRing == Abstract!Spec
=============================================================================
