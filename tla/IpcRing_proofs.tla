--------------------------- MODULE IpcRing_proofs ---------------------------
(***************************************************************************)
(* Proofs about IpcRing, for any number of sessions and interrupts.  The   *)
(* inductive invariant counts tokens: the values of the semaphores plus    *)
(* one for each process that holds the segment.                            *)
(***************************************************************************)
EXTENDS IpcRing, TLAPS

\* Type correctness: every variable keeps its type, and only the parent is
\* ever in the setup or the cleanup of a session.
THEOREM TypeCorrect == Spec => []TypeOK
<1>1. Init => TypeOK
  <2> SUFFICES ASSUME Init PROVE TypeOK
    OBVIOUS
  <2>1. shm \in [by : Procs \cup {"none"}, copies : 0..2]
    BY DEF Init, NoMessage
  <2>2. /\ pc \in [Procs -> {"off", "setup", "wait", "zombie"} \cup InTurn \cup Setup \cup Cleanup]
        /\ pc["Parent"] \notin {"setup", "zombie"}
        /\ sem \in [Procs -> Nat] /\ doomed \in SUBSET Procs
    BY DEF Init, Procs
  <2>3. \A c \in Children : pc[c] \notin Setup \cup Cleanup
    BY DEF Init, Procs, Setup, Cleanup
  <2>4. QED
    BY <2>1, <2>2, <2>3 DEF TypeOK, Init
<1>2. TypeOK /\ [Next]_vars => TypeOK'
  <2> SUFFICES ASSUME TypeOK, [Next]_vars PROVE TypeOK'
    OBVIOUS
  <2>0. doomed' \in SUBSET Procs
    <3>1. doomed \in SUBSET Procs /\ Children \subseteq Procs
      BY DEF TypeOK, Procs
    <3>2. doomed' \subseteq doomed \cup {p \in Procs : Alive(p)} \cup {c \in Children : Alive(c)}
      BY DEF Next, Start, ParentStep, Fork, Send, InitialWrite, Turn, SemWait, Log, Write,
             SemPost, Terminate, Reap, Unlink, RemoveShm, Interrupt, ParentDies, ChildStep,
             ChildSetup, ChildFails, ChildDies, vars
    <3>3. QED
      BY <3>1, <3>2
  <2> USE DEF TypeOK, Procs, Children, InTurn, Setup, Cleanup, Goto, NoMessage
  <2>1. CASE Start
    BY <2>1 DEF Start, SemSum
  <2>2. CASE ParentStep
    <3>1. ASSUME NEW c \in Children, NEW from, NEW to \in {"fork2", "send"}, Fork(c, from, to)
          PROVE  TypeOK'
      BY <3>1 DEF Fork
    <3>2. CASE Send \/ InitialWrite
      <4>1. shm' \in [by : Procs \cup {"none"}, copies : 0..2]
        BY <3>2 DEF Send, InitialWrite
      <4>2. /\ pc' \in [Procs -> {"off", "setup", "wait", "zombie"} \cup InTurn \cup Setup \cup Cleanup]
            /\ pc'["Parent"] \notin {"setup", "zombie"}
            /\ \A c \in Children : pc'[c] \notin Setup \cup Cleanup
        BY <3>2 DEF Send, InitialWrite
      <4>3. QED
        BY <3>2, <4>1, <4>2 DEF Send, InitialWrite
    <3>3. CASE Turn("Parent")
      BY <3>3 DEF Turn, SemWait, Log, Write, SemPost, NextOf
    <3>4. CASE Terminate
      BY <3>4 DEF Terminate
    <3>5. ASSUME NEW from, NEW to \in {"reap2", "unlink1"}, Reap(from, to)
          PROVE  TypeOK'
      BY <3>5 DEF Reap
    <3>6. ASSUME NEW p \in Procs, NEW from, NEW to \in {"unlink2", "unlink3", "rmid"},
                 Unlink(p, from, to)
          PROVE  TypeOK'
      BY <3>6 DEF Unlink
    <3>7. CASE RemoveShm
      BY <3>7 DEF RemoveShm
    <3>8. QED
      BY <2>2, <3>1, <3>2, <3>3, <3>4, <3>5, <3>6, <3>7 DEF ParentStep
  <2>3. CASE Interrupt \/ ParentDies
    <3>2. /\ pc' \in [Procs -> {"off", "setup", "wait", "zombie"} \cup InTurn \cup Setup \cup Cleanup]
          /\ pc'["Parent"] \notin {"setup", "zombie"}
          /\ \A c \in Children : pc'[c] \notin Setup \cup Cleanup
      BY <2>3 DEF Interrupt, ParentDies
    <3>3. UNCHANGED <<sem, shm, stale>> /\ aborted' \in BOOLEAN
      BY <2>3, Zenon DEF Interrupt, ParentDies
    <3>4. interrupts' \in {interrupts, interrupts + 1}
      BY <2>3, Zenon DEF Interrupt, ParentDies
    <3>5. QED
      BY <2>0, <3>2, <3>3, <3>4
  <2>4. ASSUME NEW c \in Children, ChildStep(c)
        PROVE  TypeOK'
    BY <2>4 DEF ChildStep, ChildSetup, Turn, SemWait, Log, Write, SemPost, NextOf
  <2>5. ASSUME NEW c \in Children, ChildFails(c) \/ ChildDies(c)
        PROVE  TypeOK'
    <3>2. /\ pc' \in [Procs -> {"off", "setup", "wait", "zombie"} \cup InTurn \cup Setup \cup Cleanup]
          /\ pc'["Parent"] \notin {"setup", "zombie"}
          /\ \A d \in Children : pc'[d] \notin Setup \cup Cleanup
      BY <2>5 DEF ChildFails, ChildDies, Gone
    <3>3. QED
      BY <2>0, <2>5, <3>2 DEF ChildFails, ChildDies
  <2>6. CASE UNCHANGED vars
    BY <2>6 DEF vars
  <2>7. QED
    BY <2>1, <2>2, <2>3, <2>4, <2>5, <2>6 DEF Next
<1>3. QED
  BY <1>1, <1>2, PTL DEF Spec

-----------------------------------------------------------------------------
(* Mutual exclusion: a post makes a token of the one its process held, a   *)
(* wait takes one, everything else creates none.                           *)

Held(p) == IF Holds(p) THEN 1 ELSE 0
Tokens  == SemSum + Held("Parent") + Held("ChildOne") + Held("ChildTwo")

\* A session has at most the token it began with and the stale ones.
TokenInv == Tokens <= stale + 1

LEMMA TokenInvariant == Spec => []TokenInv
<1>1. Init => TokenInv
  BY DEF Init, TokenInv, Tokens, SemSum, Held, Holds, Procs, Children, InTurn, Setup, Cleanup
<1>2. TypeOK /\ TokenInv /\ [Next]_vars => TokenInv'
  <2> SUFFICES ASSUME TypeOK, TokenInv, [Next]_vars PROVE TokenInv'
    OBVIOUS
  <2>0. /\ sem \in [Procs -> Nat] /\ stale \in Nat
        /\ \E S : pc \in [Procs -> S]
        /\ pc["Parent"] \notin {"setup", "zombie"}
        /\ \A c \in Children : pc[c] \notin Setup \cup Cleanup
    BY DEF TypeOK
  <2> USE DEF TokenInv, Tokens, SemSum, Held, Holds, Procs, Children, InTurn, Setup, Cleanup, Goto
  <2>1. CASE Start
    BY <2>0, <2>1 DEF Start
  <2>2. CASE ParentStep
    <3>1. CASE Fork("ChildOne", "fork1", "fork2")
      BY <2>0, <3>1 DEF Fork
    <3>2. CASE Fork("ChildTwo", "fork2", "send")
      BY <2>0, <3>2 DEF Fork
    <3>3. CASE Send \/ InitialWrite
      BY <2>0, <3>3 DEF Send, InitialWrite
    <3>4. CASE SemWait("Parent")
      BY <2>0, <3>4 DEF SemWait
    <3>5. CASE Log("Parent") \/ Write("Parent")
      BY <2>0, <3>5 DEF Log, Write
    <3>6. CASE SemPost("Parent")
      BY <2>0, <3>6 DEF SemPost, NextOf
    <3>7. CASE Terminate \/ RemoveShm
      BY <2>0, <3>7 DEF Terminate, RemoveShm
    <3>8. CASE Reap("reap1", "reap2") \/ Reap("reap2", "unlink1")
      BY <2>0, <3>8 DEF Reap
    <3>9. CASE \/ Unlink("Parent", "unlink1", "unlink2")
               \/ Unlink("ChildOne", "unlink2", "unlink3")
               \/ Unlink("ChildTwo", "unlink3", "rmid")
      BY <2>0, <3>9 DEF Unlink
    <3>10. QED
      BY <2>2, <3>1, <3>2, <3>3, <3>4, <3>5, <3>6, <3>7, <3>8, <3>9 DEF ParentStep, Turn
  <2>3. CASE Interrupt
    BY <2>0, <2>3 DEF Interrupt
  <2>4. CASE ParentDies
    BY <2>0, <2>4 DEF ParentDies
  <2>5. ASSUME NEW c \in Children, ChildStep(c)
        PROVE  TokenInv'
    <3>1. CASE ChildSetup(c)
      BY <2>0, <2>5, <3>1 DEF ChildSetup
    <3>2. CASE SemWait(c)
      BY <2>0, <2>5, <3>2 DEF SemWait
    <3>3. CASE Log(c) \/ Write(c)
      BY <2>0, <2>5, <3>3 DEF Log, Write
    <3>4. CASE SemPost(c)
      BY <2>0, <2>5, <3>4 DEF SemPost, NextOf
    <3>5. QED
      BY <2>5, <3>1, <3>2, <3>3, <3>4 DEF ChildStep, Turn
  <2>6. ASSUME NEW c \in Children, ChildFails(c) \/ ChildDies(c)
        PROVE  TokenInv'
    BY <2>0, <2>6 DEF ChildFails, ChildDies, Gone
  <2>7. CASE UNCHANGED vars
    BY <2>7 DEF vars
  <2>8. QED
    BY <2>1, <2>2, <2>3, <2>4, <2>5, <2>6, <2>7 DEF Next
<1>3. QED
  BY <1>1, <1>2, TypeCorrect, PTL DEF Spec

\* Mutual exclusion on the segment and the output file, in every session
\* that starts from semaphores at zero.
THEOREM MutualExclusionHolds == Spec => []MutualExclusion
<1>1. TypeOK /\ TokenInv => MutualExclusion
  BY DEF TypeOK, TokenInv, Tokens, SemSum, Held, MutualExclusion, Procs, Children
<1>2. QED
  BY <1>1, TypeCorrect, TokenInvariant, PTL

-----------------------------------------------------------------------------
(* The end of a session: what is already collected and unlinked, and who   *)
(* can have a signal pending.                                              *)

Unlinking == {"unlink1", "unlink2", "unlink3", "rmid"}

\* The two waits collect both children, and the names go one after another.
CollectInv ==
  /\ pc["Parent"] = "reap2" => pc["ChildOne"] = "off" \/ pc["ChildTwo"] = "off"
  /\ pc["Parent"] \in Unlinking => pc["ChildOne"] = "off" /\ pc["ChildTwo"] = "off"
  /\ pc["Parent"] \in {"unlink2", "unlink3", "rmid"} => sem["Parent"] = 0
  /\ pc["Parent"] \in {"unlink3", "rmid"} => sem["ChildOne"] = 0
  /\ pc["Parent"] = "rmid" => sem["ChildTwo"] = 0

\* Only an interrupt dooms the parent; a child is doomed by an interrupt or
\* by TERMINATE.
DoomInv ==
  /\ "Parent" \in doomed => aborted /\ pc["Parent"] # "off"
  /\ \A c \in Children : c \in doomed =>
        /\ pc[c] \notin {"off", "zombie"}
        /\ "Parent" \in doomed \/ pc["Parent"] \in {"off", "reap1", "reap2"}

LEMMA CollectStep == TypeOK /\ DoomInv /\ CollectInv /\ [Next]_vars => CollectInv'
<1> SUFFICES ASSUME TypeOK, DoomInv, CollectInv, [Next]_vars PROVE CollectInv'
  OBVIOUS
<1>0. /\ sem \in [Procs -> Nat]
      /\ \E S : pc \in [Procs -> S]
      /\ pc["Parent"] \notin {"setup", "zombie"}
  BY DEF TypeOK
<1> USE DEF CollectInv, Unlinking, Procs, Children, Goto
<1>1. CASE Start \/ Interrupt \/ ParentDies
  BY <1>0, <1>1 DEF Start, Interrupt, ParentDies
<1>2. CASE ParentStep
  <2>1. CASE Fork("ChildOne", "fork1", "fork2") \/ Fork("ChildTwo", "fork2", "send")
    BY <1>0, <2>1 DEF Fork
  <2>2. CASE Send \/ InitialWrite \/ Turn("Parent") \/ Terminate \/ RemoveShm
    BY <1>0, <2>2 DEF Send, InitialWrite, Turn, SemWait, Log, Write, SemPost, Terminate, RemoveShm
  <2>3. CASE Reap("reap1", "reap2") \/ Reap("reap2", "unlink1")
    BY <1>0, <2>3 DEF Reap
  <2>4. CASE \/ Unlink("Parent", "unlink1", "unlink2")
             \/ Unlink("ChildOne", "unlink2", "unlink3")
             \/ Unlink("ChildTwo", "unlink3", "rmid")
    BY <1>0, <2>4 DEF Unlink
  <2>5. QED
    BY <1>2, <2>1, <2>2, <2>3, <2>4 DEF ParentStep
<1>3. ASSUME NEW c \in Children, ChildStep(c)
      PROVE  CollectInv'
  BY <1>0, <1>3 DEF ChildStep, ChildSetup, Turn, SemWait, Log, Write, SemPost, Setup
<1>4. ASSUME NEW c \in Children, ChildFails(c)
      PROVE  CollectInv'
  BY <1>0, <1>4 DEF ChildFails, Gone
<1>5. ASSUME NEW c \in Children, ChildDies(c)
      PROVE  CollectInv'
  BY <1>0, <1>5 DEF ChildDies, Gone, DoomInv
<1>6. CASE UNCHANGED vars
  BY <1>6 DEF vars
<1>7. QED
  BY <1>1, <1>2, <1>3, <1>4, <1>5, <1>6 DEF Next

LEMMA DoomStep == TypeOK /\ DoomInv /\ CollectInv /\ [Next]_vars => DoomInv'
<1> SUFFICES ASSUME TypeOK, DoomInv, CollectInv, [Next]_vars PROVE DoomInv'
  OBVIOUS
<1>0. /\ \E S : pc \in [Procs -> S]
      /\ pc["Parent"] \notin {"setup", "zombie"}
      /\ \A c \in Children : pc[c] \notin Setup \cup Cleanup
  BY DEF TypeOK
<1> USE DEF DoomInv, Procs, Children, Goto
<1>1. CASE Start
  BY <1>0, <1>1 DEF Start
<1>2. CASE ParentStep
  <2>1. CASE Fork("ChildOne", "fork1", "fork2") \/ Fork("ChildTwo", "fork2", "send")
    BY <1>0, <2>1 DEF Fork
  <2>2. CASE Send \/ InitialWrite \/ Turn("Parent")
    BY <1>0, <2>2 DEF Send, InitialWrite, Turn, SemWait, Log, Write, SemPost
  <2>3. CASE Terminate
    BY <1>0, <2>3 DEF Terminate, Alive
  <2>4. CASE Reap("reap1", "reap2") \/ Reap("reap2", "unlink1")
    BY <1>0, <2>4 DEF Reap, CollectInv
  <2>5. CASE \/ Unlink("Parent", "unlink1", "unlink2")
             \/ Unlink("ChildOne", "unlink2", "unlink3")
             \/ Unlink("ChildTwo", "unlink3", "rmid")
    BY <1>0, <2>5 DEF Unlink, CollectInv, Unlinking
  <2>6. CASE RemoveShm
    BY <1>0, <2>6 DEF RemoveShm
  <2>7. QED
    BY <1>2, <2>1, <2>2, <2>3, <2>4, <2>5, <2>6 DEF ParentStep
<1>3. CASE Interrupt
  BY <1>0, <1>3 DEF Interrupt, Alive
<1>4. CASE ParentDies
  BY <1>0, <1>4 DEF ParentDies
<1>5. ASSUME NEW c \in Children, ChildStep(c)
      PROVE  DoomInv'
  BY <1>0, <1>5 DEF ChildStep, ChildSetup, Turn, SemWait, Log, Write, SemPost
<1>6. ASSUME NEW c \in Children, ChildFails(c) \/ ChildDies(c)
      PROVE  DoomInv'
  BY <1>0, <1>6 DEF ChildFails, ChildDies
<1>7. CASE UNCHANGED vars
  BY <1>7 DEF vars
<1>8. QED
  BY <1>1, <1>2, <1>3, <1>4, <1>5, <1>6, <1>7 DEF Next

LEMMA SessionInvariant == Spec => [](DoomInv /\ CollectInv)
<1>1. Init => DoomInv /\ CollectInv
  BY DEF Init, DoomInv, CollectInv, Procs, Children, Unlinking
<1>2. QED
  BY <1>1, CollectStep, DoomStep, TypeCorrect, PTL DEF Spec

\* No name is unlinked while a child is alive or uncollected.
THEOREM ReapedBeforeUnlinkHolds == Spec => []ReapedBeforeUnlink
<1>1. CollectInv => ReapedBeforeUnlink
  BY DEF CollectInv, ReapedBeforeUnlink, Unlinking, Cleanup, Children
<1>2. QED
  BY <1>1, SessionInvariant, PTL

\* A session that ends with the cleanup leaves no process and no value.
THEOREM CleanAfterCleanupHolds == Spec => []CleanAfterCleanup
<1>1. Init => CleanAfterCleanup
  BY DEF Init, CleanAfterCleanup, Procs
<1>2. TypeOK /\ DoomInv /\ CollectInv /\ CleanAfterCleanup /\ [Next]_vars => CleanAfterCleanup'
  <2> SUFFICES ASSUME TypeOK, DoomInv, CollectInv, CleanAfterCleanup, [Next]_vars
               PROVE  CleanAfterCleanup'
    OBVIOUS
  <2>0. /\ \E S : pc \in [Procs -> S]
        /\ pc["Parent"] \notin {"setup", "zombie"}
    BY DEF TypeOK
  <2> USE DEF CleanAfterCleanup, Procs, Children, Goto
  <2>1. CASE Start \/ Interrupt \/ ParentDies \/ UNCHANGED vars
    BY <2>0, <2>1 DEF Start, Interrupt, ParentDies, DoomInv, vars
  <2>2. CASE RemoveShm
    BY <2>0, <2>2 DEF RemoveShm, CollectInv, Unlinking, DoomInv
  <2>3. CASE ParentStep /\ ~RemoveShm
    <3>1. pc'["Parent"] # "off"
      BY <2>0, <2>3 DEF ParentStep, Fork, Send, InitialWrite, Turn, SemWait, Log,
         Write, SemPost, Terminate, Reap, Unlink
    <3>2. QED
      BY <3>1
  <2>4. ASSUME NEW c \in Children, ChildStep(c)
        PROVE  CleanAfterCleanup'
    BY <2>0, <2>4 DEF ChildStep, ChildSetup, Turn, SemWait, Log, Write, SemPost
  <2>5. ASSUME NEW c \in Children, ChildFails(c) \/ ChildDies(c)
        PROVE  CleanAfterCleanup'
    BY <2>0, <2>5 DEF ChildFails, ChildDies, DoomInv
  <2>6. QED
    BY <2>1, <2>2, <2>3, <2>4, <2>5 DEF Next
<1>3. QED
  BY <1>1, <1>2, TypeCorrect, SessionInvariant, PTL DEF Spec

-----------------------------------------------------------------------------
(* The refinement of TurnRing.                                             *)

\* Without stale values the token is in one place.
LEMMA OneToken ==
  ASSUME TypeOK, TokenInv, stale = 0, NEW p \in Procs, HasTurn(p)
  PROVE  /\ \A q \in Procs : q # p => ~Holds(q) /\ sem[q] = 0
         /\ Holds(p) => sem[p] = 0
         /\ sem[p] <= 1
  BY DEF TypeOK, TokenInv, Tokens, SemSum, Held, HasTurn, Procs, Children

\* The abstract turn of a running session without stale values.
LEMMA TurnIs ==
  ASSUME TypeOK, TokenInv, stale = 0, pc["Parent"] # "off", "Parent" \notin doomed,
         NEW p \in Procs, HasTurn(p)
  PROVE  AbstractTurn = p
  BY OneToken DEF AbstractTurn, HasTurn, Procs, Children, TypeOK

LEMMA StartRefines ==
  ASSUME TypeOK, DoomInv, CleanAfterCleanup, Start
  PROVE  Abstract!Start
<1>1. AbstractTurn = "off" /\ UNCHANGED (~aborted)
  BY DEF Start, Goto, AbstractTurn
<1>2. pc'["Parent"] = "fork1" /\ "Parent" \notin doomed'
  BY DEF Start, Goto, TypeOK, DoomInv, Procs
<1>3. CASE SemSum = 0
  <2>1. HasTurn("Parent")' /\ stale' = 0
    BY <1>2, <1>3 DEF HasTurn, Holds, Setup, Start
  <2>2. AbstractTurn' = "Parent"
    BY <1>2, <2>1 DEF AbstractTurn
  <2>3. QED
    BY <1>1, <2>2 DEF Abstract!Start
<1>4. CASE SemSum # 0
  <2>1. aborted /\ stale' > 0
    BY <1>4 DEF Start, Goto, CleanAfterCleanup, SemSum, TypeOK, Procs, Children
  <2>2. AbstractTurn' = "broken"
    BY <1>2, <2>1 DEF AbstractTurn
  <2>3. QED
    BY <1>1, <2>1, <2>2 DEF Abstract!Start
<1>5. QED
  BY <1>3, <1>4

\* While the parent is gone or about to be, nothing but Start is visible.
LEMMA OffStutters ==
  ASSUME TypeOK, DoomInv, [Next]_vars, ~Start, pc["Parent"] = "off" \/ "Parent" \in doomed
  PROVE  UNCHANGED Abstract!vars
<1> USE DEF Goto
<1>1. aborted' = aborted /\ (pc'["Parent"] = "off" \/ "Parent" \in doomed')
  <2>1. CASE ParentStep
    <3>1. pc["Parent"] # "off" /\ "Parent" \in doomed
      BY <2>1 DEF ParentStep, Fork, Send, InitialWrite, Turn, SemWait, Log,
           Write, SemPost, Terminate, Reap, Unlink, RemoveShm
    <3>2. CASE RemoveShm
      BY <3>1, <3>2 DEF RemoveShm, TypeOK, DoomInv, Procs
    <3>3. CASE ~RemoveShm
      BY <2>1, <3>1, <3>3 DEF ParentStep, Fork, Send, InitialWrite, Turn, SemWait, Log,
           Write, SemPost, Terminate, Reap, Unlink
    <3>4. QED
      BY <3>2, <3>3
  <2>2. CASE Interrupt \/ ParentDies \/ UNCHANGED vars
    BY <2>2 DEF Interrupt, ParentDies, Procs, vars
  <2>3. ASSUME NEW c \in Children, ChildStep(c) \/ ChildFails(c) \/ ChildDies(c)
        PROVE  aborted' = aborted /\ (pc'["Parent"] = "off" \/ "Parent" \in doomed')
    BY <2>3 DEF ChildStep, ChildSetup, Turn, SemWait, Log, Write, SemPost, ChildFails,
         ChildDies, TypeOK, Procs, Children
  <2>4. QED
    BY <2>1, <2>2, <2>3 DEF Next
<1>2. AbstractTurn = "off" /\ AbstractTurn' = "off"
  BY <1>1 DEF AbstractTurn
<1>3. QED
  BY <1>1, <1>2 DEF Abstract!vars

\* A step of a running session that neither starts, ends nor interrupts it,
\* and its effect on the abstract turn.
Running == pc["Parent"] # "off" /\ "Parent" \notin doomed

LEMMA BrokenStutters ==
  ASSUME Running, Running', UNCHANGED <<stale, aborted>>, stale > 0
  PROVE  UNCHANGED Abstract!vars
BY DEF Running, AbstractTurn, Abstract!vars

LEMMA SameTurnStutters ==
  ASSUME Running, Running', UNCHANGED <<stale, aborted>>,
         \A p \in Procs : HasTurn(p)' = HasTurn(p)
  PROVE  UNCHANGED Abstract!vars
BY DEF Running, AbstractTurn, Abstract!vars, Procs, Children

LEMMA PostPasses ==
  ASSUME TypeOK, TokenInv, TypeOK', TokenInv', Running, Running', stale = 0, stale' = 0,
         NEW p \in Procs, SemPost(p)
  PROVE  Abstract!Pass
<1>1. HasTurn(p) /\ NextOf[p] \in Procs
  BY DEF SemPost, Goto, HasTurn, Holds, InTurn, NextOf, Procs, Children
<1>2. HasTurn(NextOf[p])'
  BY <1>1 DEF SemPost, HasTurn, TypeOK
<1>3. AbstractTurn = p
  BY <1>1, TurnIs DEF Running
<1>4. AbstractTurn' = NextOf[p]
  <2>1. /\ \A q \in Procs : sem[q] = 0
        /\ \A q \in Procs : q # p => ~Holds(q)
    BY <1>1, OneToken DEF SemPost, Goto, Holds, InTurn
  <2>2. \A q \in Procs : q # NextOf[p] => ~HasTurn(q)'
    BY <2>1 DEF SemPost, Goto, HasTurn, Holds, TypeOK, InTurn, Setup, Cleanup, Procs, Children
  <2>3. QED
    BY <1>1, <1>2, <2>2 DEF AbstractTurn, Running, Procs, Children
<1>5. UNCHANGED (~aborted)
  BY DEF SemPost
<1>6. QED
  BY <1>3, <1>4, <1>5 DEF Abstract!Pass, Abstract!Procs, Abstract!Children, Abstract!NextOf,
     NextOf, Procs, Children

LEMMA FailLoses ==
  ASSUME TypeOK, TokenInv, Running, Running', stale = 0, stale' = 0,
         NEW c \in Children, ChildFails(c)
  PROVE  Abstract!Lose
<1>1. c \in Procs /\ HasTurn(c) /\ Holds(c)
  BY DEF ChildFails, HasTurn, Holds, InTurn, Procs
<1>2. AbstractTurn = c
  BY <1>1, TurnIs DEF Running
<1>3. \A q \in Procs : ~HasTurn(q)'
  <2>1. /\ \A q \in Procs : sem[q] = 0
        /\ \A q \in Procs : q # c => ~Holds(q)
    BY <1>1, OneToken
  <2>2. QED
    BY <2>1 DEF ChildFails, Gone, HasTurn, Holds, TypeOK, InTurn, Setup, Cleanup, Procs, Children
<1>4. AbstractTurn' = "dead"
  BY <1>3 DEF AbstractTurn, Running, Procs, Children
<1>5. QED
  BY <1>2, <1>4 DEF Abstract!Lose, Abstract!Children, Children, ChildFails

LEMMA ChildDiesKeepsTurn ==
  ASSUME TypeOK, TokenInv, DoomInv, Running, stale = 0, NEW c \in Children, ChildDies(c)
  PROVE  \A p \in Procs : HasTurn(p)' = HasTurn(p)
<1>1. pc["Parent"] \in {"reap1", "reap2"} /\ "Parent" \in Procs /\ c \in Procs /\ c # "Parent"
  BY DEF ChildDies, DoomInv, Running, Procs, Children
<1>2. Holds("Parent") /\ HasTurn("Parent")
  BY <1>1 DEF Holds, HasTurn, Cleanup
<1>3. ~Holds(c)
  BY <1>1, <1>2, OneToken
<1>4. ~Holds(c)'
  BY <1>1 DEF ChildDies, Gone, Holds, TypeOK, InTurn, Setup, Cleanup
<1>5. \A p \in Procs : p # c => pc'[p] = pc[p]
  BY DEF ChildDies, TypeOK
<1>6. QED
  BY <1>1, <1>3, <1>4, <1>5 DEF ChildDies, HasTurn, Holds

LEMMA EndStops ==
  ASSUME TypeOK, TokenInv, Running, RemoveShm
  PROVE  Abstract!Stop
<1>1. Holds("Parent") /\ HasTurn("Parent")
  BY DEF RemoveShm, Goto, Holds, HasTurn, Cleanup
<1>2. AbstractTurn \in {"Parent", "broken"}
  BY <1>1 DEF AbstractTurn, Running
<1>3. AbstractTurn' = "off" /\ aborted' = FALSE
  BY DEF RemoveShm, Goto, AbstractTurn, Running, TypeOK, Procs
<1>4. QED
  BY <1>2, <1>3 DEF Abstract!Stop

LEMMA InterruptAborts ==
  ASSUME TypeOK, Running, Interrupt
  PROVE  Abstract!Abort
<1>1. AbstractTurn # "off"
  BY DEF Running, AbstractTurn
<1>2. "Parent" \in doomed' /\ aborted' = TRUE
  BY DEF Interrupt, Alive, TypeOK, Procs
<1>3. QED
  BY <1>1, <1>2 DEF AbstractTurn, Abstract!Abort

\* The parent's setup and cleanup: it holds the one token throughout.
LEMMA ParentKeepsTurn ==
  ASSUME TypeOK, TokenInv, stale = 0, pc["Parent"] \in Setup \cup Cleanup,
         pc'["Parent"] \in InTurn \cup Setup \cup Cleanup,
         \A p \in Procs : sem'[p] \in {0, sem[p]},
         \A c \in Children : pc'[c] \in {"off", "setup", pc[c]}
  PROVE  \A p \in Procs : HasTurn(p)' = HasTurn(p)
<1>1. Holds("Parent") /\ HasTurn("Parent") /\ Holds("Parent")'
  BY DEF Holds, HasTurn
<1>2. \A c \in Children : ~HasTurn(c) /\ ~Holds(c) /\ sem[c] = 0
  BY <1>1, OneToken DEF HasTurn, Procs, Children
<1>3. \A c \in Children : ~HasTurn(c)'
  BY <1>2 DEF HasTurn, Holds, InTurn, Setup, Cleanup, Procs
<1>4. QED
  BY <1>1, <1>2, <1>3 DEF Procs, HasTurn

LEMMA RunningRefines ==
  ASSUME TypeOK, TokenInv, DoomInv, CollectInv, TypeOK', TokenInv', Running, [Next]_vars
  PROVE  [Abstract!Next]_(Abstract!vars)
<1> USE DEF Goto
<1>1. CASE Interrupt
  BY <1>1, InterruptAborts DEF Abstract!Next
<1>2. CASE RemoveShm
  BY <1>2, EndStops DEF Abstract!Next
<1>3. CASE ~Interrupt /\ ~RemoveShm
  <2>1. Running' /\ UNCHANGED <<stale, aborted>>
    BY <1>3 DEF Running, Next, Start, ParentStep, Fork, Send, InitialWrite, Turn, SemWait, Log,
       Write, SemPost, Terminate, Reap, Unlink, Interrupt, ParentDies, ChildStep,
       ChildSetup, ChildFails, ChildDies, vars, TypeOK, Procs, Children
  <2>2. CASE stale > 0
    BY <2>1, <2>2, BrokenStutters
  <2>3. CASE stale = 0
    <3>1. ASSUME NEW p \in Procs, SemPost(p) PROVE [Abstract!Next]_(Abstract!vars)
      BY <2>1, <2>3, <3>1, PostPasses DEF Abstract!Next
    <3>2. ASSUME NEW c \in Children, ChildFails(c) PROVE [Abstract!Next]_(Abstract!vars)
      BY <2>1, <2>3, <3>2, FailLoses DEF Abstract!Next
    <3>3. ASSUME NEW c \in Children, ChildDies(c) PROVE [Abstract!Next]_(Abstract!vars)
      BY <2>1, <2>3, <3>3, ChildDiesKeepsTurn, SameTurnStutters
    <3>4. ASSUME NEW p \in Procs, SemWait(p) \/ Log(p) \/ Write(p)
          PROVE  [Abstract!Next]_(Abstract!vars)
      <4>1. \A q \in Procs : HasTurn(q)' = HasTurn(q)
        BY <3>4 DEF SemWait, Log, Write, HasTurn, Holds, TypeOK, InTurn
      <4>2. QED
        BY <2>1, <4>1, SameTurnStutters
    <3>5. ASSUME NEW c \in Children, ChildSetup(c) PROVE [Abstract!Next]_(Abstract!vars)
      <4>1. \A q \in Procs : HasTurn(q)' = HasTurn(q)
        BY <3>5 DEF ChildSetup, HasTurn, Holds, TypeOK, InTurn, Setup, Cleanup
      <4>2. QED
        BY <2>1, <4>1, SameTurnStutters
    <3>6. CASE Terminate
      <4>1. \A q \in Procs : HasTurn(q)' = HasTurn(q)
        BY <3>6 DEF Terminate, HasTurn, Holds, TypeOK, InTurn, Cleanup
      <4>2. QED
        BY <2>1, <4>1, SameTurnStutters
    <3>7. ASSUME \/ Fork("ChildOne", "fork1", "fork2") \/ Fork("ChildTwo", "fork2", "send")
                 \/ Send \/ InitialWrite
                 \/ Reap("reap1", "reap2") \/ Reap("reap2", "unlink1")
          PROVE  [Abstract!Next]_(Abstract!vars)
      <4>1. /\ pc["Parent"] \in Setup \cup Cleanup
            /\ pc'["Parent"] \in InTurn \cup Setup \cup Cleanup
            /\ \A c \in Children : pc'[c] \in {"off", "setup", pc[c]}
            /\ sem' = sem
        BY <3>7 DEF Fork, Send, InitialWrite, Reap, InTurn, Setup, Cleanup, TypeOK, Procs, Children
      <4>2. QED
        BY <2>1, <2>3, <4>1, ParentKeepsTurn, SameTurnStutters
    <3>8. ASSUME \/ Unlink("Parent", "unlink1", "unlink2")
                 \/ Unlink("ChildOne", "unlink2", "unlink3")
                 \/ Unlink("ChildTwo", "unlink3", "rmid")
          PROVE  [Abstract!Next]_(Abstract!vars)
      <4>1. /\ pc["Parent"] \in Setup \cup Cleanup
            /\ pc'["Parent"] \in InTurn \cup Setup \cup Cleanup
            /\ \A c \in Children : pc'[c] = pc[c]
            /\ \A p \in Procs : sem'[p] \in {0, sem[p]}
        BY <3>8 DEF Unlink, InTurn, Setup, Cleanup, TypeOK, Procs, Children
      <4>2. QED
        BY <2>1, <2>3, <4>1, ParentKeepsTurn, SameTurnStutters
    <3>9. CASE UNCHANGED vars
      <4>1. \A q \in Procs : HasTurn(q)' = HasTurn(q)
        BY <3>9 DEF vars, HasTurn, Holds
      <4>2. QED
        BY <2>1, <4>1, SameTurnStutters
    <3>10. ~Start /\ ~ParentDies
      BY DEF Running, Start, ParentDies
    <3>11. QED
      BY <1>3, <3>1, <3>2, <3>3, <3>4, <3>5, <3>6, <3>7, <3>8, <3>9, <3>10
         DEF Next, ParentStep, ChildStep, Turn, Procs
  <2>4. QED
    BY <2>2, <2>3 DEF TypeOK
<1>4. QED
  BY <1>1, <1>2, <1>3

\* The program implements TurnRing: one turn is handed round in order, a
\* session ends in the parent's turn, and only an interrupted session can
\* make a later one start with more than one turn.
THEOREM Refinement == Spec => ImplementsTurnRing
<1>1. Init => Abstract!Init
  BY DEF Init, Abstract!Init, AbstractTurn, Procs
<1>2. ASSUME TypeOK, TokenInv, DoomInv, CollectInv, CleanAfterCleanup, TypeOK', TokenInv',
             [Next]_vars
      PROVE  [Abstract!Next]_(Abstract!vars)
  <2>1. CASE Start
    BY <1>2, <2>1, StartRefines DEF Abstract!Next
  <2>2. CASE ~Start /\ ~Running
    BY <1>2, <2>2, OffStutters DEF Running
  <2>3. CASE Running
    BY <1>2, <2>3, RunningRefines
  <2>4. QED
    BY <2>1, <2>2, <2>3
<1>3. QED
  BY <1>1, <1>2, TypeCorrect, TokenInvariant, SessionInvariant, CleanAfterCleanupHolds, PTL
     DEF Spec, ImplementsTurnRing, Abstract!Spec

-----------------------------------------------------------------------------
(* The turn is not lost: the safety behind TurnComes.                      *)

\* A running session has somebody whose turn it is, whatever its semaphores
\* were at the start, until a child dies.
TurnNotLost ==
  pc["Parent"] # "off" /\ (\A c \in Children : pc[c] # "zombie") => \E p \in Procs : HasTurn(p)

\* With a clean start it is exactly one.
ExactlyOneTurn ==
  stale = 0 /\ pc["Parent"] # "off" /\ (\A c \in Children : pc[c] # "zombie") =>
    \E p \in Procs : HasTurn(p) /\ \A q \in Procs : HasTurn(q) => q = p

LEMMA TurnNotLostStep == TypeOK /\ TurnNotLost /\ [Next]_vars => TurnNotLost'
<1> SUFFICES ASSUME TypeOK, TurnNotLost, [Next]_vars,
                    pc'["Parent"] # "off", \A c \in Children : pc'[c] # "zombie"
             PROVE  \E p \in Procs : HasTurn(p)'
  BY DEF TurnNotLost
<1>0. /\ sem \in [Procs -> Nat] /\ \E S : pc \in [Procs -> S]
      /\ "Parent" \in Procs /\ "Parent" \notin Children /\ Children \subseteq Procs
  BY DEF TypeOK, Procs, Children
<1>1. CASE pc'["Parent"] \in Setup \cup Cleanup
  BY <1>0, <1>1 DEF HasTurn, Holds
<1>2. ASSUME NEW p \in Procs, SemWait(p) \/ Log(p) \/ Write(p)
      PROVE  \E q \in Procs : HasTurn(q)'
  <2>1. pc'[p] \in InTurn
    BY <1>0, <1>2 DEF SemWait, Log, Write, Goto, InTurn
  <2>2. QED
    BY <2>1 DEF HasTurn, Holds
<1>3. ASSUME NEW p \in Procs, SemPost(p) PROVE \E q \in Procs : HasTurn(q)'
  <2>1. NextOf[p] \in Procs
    BY DEF NextOf, Procs, Children
  <2>2. sem'[NextOf[p]] > 0
    BY <1>0, <1>3, <2>1 DEF SemPost
  <2>3. QED
    BY <2>1, <2>2 DEF HasTurn
<1>4. CASE InitialWrite
  <2>1. pc'["Parent"] \in InTurn
    BY <1>0, <1>4 DEF InitialWrite, Goto, InTurn
  <2>2. QED
    BY <1>0, <2>1 DEF HasTurn, Holds
<1>5. CASE Interrupt \/ UNCHANGED vars
  BY <1>0, <1>5 DEF Interrupt, vars, TurnNotLost, HasTurn, Holds
<1>6. ASSUME NEW c \in Children, ChildSetup(c) PROVE \E q \in Procs : HasTurn(q)'
  <2>1. pc["Parent"] # "off" /\ \A d \in Children : pc[d] # "zombie"
    BY <1>0, <1>6 DEF ChildSetup, Goto
  <2>2. PICK q \in Procs : HasTurn(q)
    BY <2>1 DEF TurnNotLost
  <2>3. HasTurn(q)'
    BY <1>0, <1>6, <2>2 DEF ChildSetup, Goto, HasTurn, Holds, InTurn, Setup, Cleanup
  <2>4. QED
    BY <2>3
<1>7. ASSUME NEW c \in Children, ChildFails(c) \/ ChildDies(c) PROVE FALSE
  <2>1. pc'["Parent"] = pc["Parent"]
    BY <1>0, <1>7 DEF ChildFails, ChildDies
  <2>2. pc'[c] = "zombie"
    BY <1>0, <1>7, <2>1 DEF ChildFails, ChildDies, Gone
  <2>3. QED
    BY <2>2
<1>8. ~ParentDies
  BY <1>0 DEF ParentDies, Procs
<1>9. ~RemoveShm
  BY <1>0 DEF RemoveShm, Goto
<1>10. ASSUME \/ Start \/ Send \/ Terminate
              \/ Fork("ChildOne", "fork1", "fork2") \/ Fork("ChildTwo", "fork2", "send")
              \/ Reap("reap1", "reap2") \/ Reap("reap2", "unlink1")
              \/ Unlink("Parent", "unlink1", "unlink2")
              \/ Unlink("ChildOne", "unlink2", "unlink3")
              \/ Unlink("ChildTwo", "unlink3", "rmid")
       PROVE  pc'["Parent"] \in Setup \cup Cleanup
  BY <1>0, <1>10 DEF Start, Send, Terminate, Fork, Reap, Unlink, Goto, Setup, Cleanup, Children
<1>11. QED
  BY <1>0, <1>1, <1>2, <1>3, <1>4, <1>5, <1>6, <1>7, <1>8, <1>9, <1>10
  DEF Next, ParentStep, ChildStep, Turn

\* Only a child's death loses the turn: as long as both live, a process has
\* it, and in a session with a clean start no other process has one as well.
THEOREM TurnNotLostHolds == Spec => [](TurnNotLost /\ ExactlyOneTurn)
<1>1. Init => TurnNotLost
  BY DEF Init, TurnNotLost, Procs
<1>2. TypeOK /\ TokenInv /\ TurnNotLost => ExactlyOneTurn
  BY OneToken DEF TurnNotLost, ExactlyOneTurn, HasTurn
<1>3. QED
  BY <1>1, <1>2, TurnNotLostStep, TypeCorrect, TokenInvariant, PTL DEF Spec

-----------------------------------------------------------------------------
(* The messages.                                                           *)

\* Where the token is, it says what has become of the message: it is new for
\* who has written it and for who may log it next, and copied once for who has
\* logged it.
MessageInv ==
  stale = 0 =>
    \A p \in Procs :
      /\ pc[p] = "written" => shm.by = p /\ shm.copies = 0
      /\ sem[p] > 0 \/ pc[p] = "turn" => NextOf[shm.by] = p /\ shm.copies = 0
      /\ pc[p] = "logged" => NextOf[shm.by] = p /\ shm.copies = 1

\* Who holds the token may change the message: nobody else looks at it.
LEMMA MessageAlone ==
  ASSUME TypeOK, TokenInv, stale = 0, NEW p \in Procs, Holds(p)
  PROVE  \A q \in Procs : q # p => sem[q] = 0 /\ pc[q] \notin InTurn
BY OneToken DEF HasTurn, Holds

LEMMA MessageStep == TypeOK /\ TokenInv /\ MessageInv /\ [Next]_vars => MessageInv'
<1> SUFFICES ASSUME TypeOK, TokenInv, MessageInv, [Next]_vars, stale' = 0 PROVE MessageInv'
  BY DEF MessageInv
<1>0. /\ sem \in [Procs -> Nat] /\ \E S : pc \in [Procs -> S]
      /\ shm \in [by : Procs \cup {"none"}, copies : 0 .. 2]
      /\ "Parent" \in Procs /\ Children \subseteq Procs
  BY DEF TypeOK, Procs
<1>1. CASE Start
  <2>1. SemSum = 0 /\ \A c \in Children : pc[c] = "off"
    BY <1>1 DEF Start
  <2>2. \A p \in Procs : sem'[p] = 0 /\ pc'[p] \in {"off", "fork1"}
    <3>1. \A p \in Procs : sem[p] = 0
      <4>1. sem["Parent"] \in Nat /\ sem["ChildOne"] \in Nat /\ sem["ChildTwo"] \in Nat
        BY <1>0 DEF Procs, Children
      <4>2. sem["Parent"] + sem["ChildOne"] + sem["ChildTwo"] = 0
        BY <2>1 DEF SemSum
      <4>3. sem["Parent"] = 0 /\ sem["ChildOne"] = 0 /\ sem["ChildTwo"] = 0
        BY <4>1, <4>2
      <4>4. QED
        BY <4>3 DEF Procs, Children
    <3>2. sem' = sem /\ pc["Parent"] = "off" /\ pc' = [pc EXCEPT !["Parent"] = "fork1"]
      BY <1>1 DEF Start, Goto
    <3>3. QED
      BY <1>0, <2>1, <3>1, <3>2 DEF Procs
  <2>3. QED
    BY <2>2 DEF MessageInv
<1>2. ASSUME NEW p \in Procs, stale = 0, Log(p) \/ Write(p) PROVE MessageInv'
  <2>1. Holds(p) /\ pc[p] \in {"turn", "logged"} /\ sem[p] = 0
    BY <1>2, OneToken DEF Log, Write, Goto, Holds, InTurn, HasTurn
  <2>2. \A q \in Procs : q # p => sem[q] = 0 /\ pc[q] \notin InTurn
    BY <1>2, <2>1, MessageAlone
  <2>3. \A q \in Procs : q # p => sem'[q] = 0 /\ pc'[q] \notin InTurn
    BY <1>0, <1>2, <2>2 DEF Log, Write, Goto
  <2>4. CASE Log(p)
    <3>1. NextOf[shm.by] = p /\ shm.copies = 0
      BY <1>2, <2>4 DEF MessageInv, Log, Goto
    <3>2. pc'[p] = "logged" /\ sem'[p] = 0 /\ shm'.by = shm.by /\ shm'.copies = 1
      BY <1>0, <2>1, <2>4, <3>1 DEF Log, Goto
    <3>3. QED
      BY <2>3, <3>1, <3>2 DEF MessageInv, InTurn
  <2>5. CASE Write(p)
    <3>1. pc'[p] = "written" /\ sem'[p] = 0 /\ shm'.by = p /\ shm'.copies = 0
      BY <1>0, <2>1, <2>5 DEF Write, Goto
    <3>2. QED
      BY <2>3, <3>1 DEF MessageInv, InTurn
  <2>6. QED
    BY <1>2, <2>4, <2>5
<1>3. ASSUME NEW p \in Procs, stale = 0, SemWait(p) PROVE MessageInv'
  BY <1>0, <1>3 DEF SemWait, Goto, MessageInv
<1>4. ASSUME NEW p \in Procs, stale = 0, SemPost(p) PROVE MessageInv'
  <2>1. NextOf[p] \in Procs
    BY DEF NextOf, Procs, Children
  <2>2. QED
    BY <1>0, <1>4, <2>1 DEF SemPost, Goto, MessageInv
<1>5. CASE stale = 0 /\ InitialWrite
  <2>1. Holds("Parent") /\ sem["Parent"] = 0
    BY <1>0, <1>5, OneToken DEF InitialWrite, Goto, Holds, Setup, HasTurn
  <2>2. \A q \in Procs : q # "Parent" => sem[q] = 0 /\ pc[q] \notin InTurn
    BY <1>0, <1>5, <2>1, MessageAlone
  <2>3. \A q \in Procs : q # "Parent" => sem'[q] = 0 /\ pc'[q] \notin InTurn
    BY <1>0, <1>5, <2>2 DEF InitialWrite, Goto
  <2>4. pc'["Parent"] = "written" /\ sem'["Parent"] = 0 /\ shm'.by = "Parent" /\ shm'.copies = 0
    BY <1>0, <1>5, <2>1 DEF InitialWrite, Goto
  <2>5. QED
    BY <2>3, <2>4 DEF MessageInv, InTurn
<1>6. CASE stale = 0 /\ (Send \/ Terminate \/ Interrupt \/ ParentDies \/ UNCHANGED vars)
  BY <1>0, <1>6 DEF Send, Terminate, Interrupt, ParentDies, vars, Goto, MessageInv
<1>7. ASSUME NEW c \in Children, NEW from, NEW to \in {"fork2", "send"}, stale = 0, Fork(c, from, to)
      PROVE  MessageInv'
  BY <1>0, <1>7 DEF Fork, MessageInv
<1>8. ASSUME NEW from, NEW to \in {"reap2", "unlink1"}, stale = 0, Reap(from, to)
      PROVE  MessageInv'
  BY <1>0, <1>8 DEF Reap, MessageInv
<1>9. ASSUME NEW p \in Procs, NEW from, NEW to \in {"unlink2", "unlink3", "rmid"},
             stale = 0, Unlink(p, from, to)
      PROVE  MessageInv'
  BY <1>0, <1>9 DEF Unlink, Goto, MessageInv
<1>10. CASE stale = 0 /\ RemoveShm
  <2>1. Holds("Parent")
    BY <1>10 DEF RemoveShm, Goto, Holds, Cleanup
  <2>2. sem["Parent"] = 0 /\ \A q \in Procs : q # "Parent" => sem[q] = 0 /\ pc[q] \notin InTurn
    BY <1>0, <1>10, <2>1, MessageAlone, OneToken DEF HasTurn
  <2>3. \A q \in Procs : sem'[q] = 0 /\ pc'[q] \notin InTurn
    BY <1>0, <1>10, <2>2 DEF RemoveShm, Goto, InTurn
  <2>4. QED
    BY <2>3 DEF MessageInv, InTurn
<1>11. ASSUME NEW c \in Children, stale = 0, ChildSetup(c) \/ ChildFails(c) \/ ChildDies(c)
       PROVE  MessageInv'
  BY <1>0, <1>11 DEF ChildSetup, ChildFails, ChildDies, Gone, Goto, MessageInv
<1>12. Start \/ stale = 0
  BY DEF Next, Start, ParentStep, ChildStep, Turn, Fork, Send, InitialWrite, SemWait, Log, Write,
         SemPost, Terminate, Reap, Unlink, RemoveShm, Interrupt, ParentDies, ChildSetup,
         ChildFails, ChildDies, vars
<1>13. QED
  BY <1>0, <1>1, <1>2, <1>3, <1>4, <1>5, <1>6, <1>7, <1>8, <1>9, <1>10, <1>11, <1>12
  DEF Next, ParentStep, ChildStep, Turn, Procs, Children

\* In a session with a clean start every message is logged once, by the next
\* process, before it is replaced.
THEOREM LoggedOnceByNextHolds == Spec => LoggedOnceByNext
<1>1. Init => MessageInv
  BY DEF Init, MessageInv
<1>2. MessageInv =>
        \A p \in Procs : stale = 0 =>
          /\ Log(p) => NextOf[shm.by] = p /\ shm.copies = 0
          /\ Write(p) => shm.copies = 1
  BY DEF MessageInv, Log, Write, Goto
<1>3. QED
  BY <1>1, <1>2, MessageStep, TypeCorrect, TokenInvariant, PTL DEF Spec, LoggedOnceByNext
=============================================================================
