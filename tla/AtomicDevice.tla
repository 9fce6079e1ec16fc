---------------------------- MODULE AtomicDevice ----------------------------
(***************************************************************************)
(* What the readme of Assignment_1/q2 promises of the character device     *)
(* ("spinlock-based for atomic operations", readme.md:20): a buffer that   *)
(* is read and written in one step each, at a position that the call took  *)
(* over before and leaves with the file afterwards.  A call may be short,  *)
(* and one that fails leaves the position where it was.                    *)
(***************************************************************************)
EXTENDS Integers

CONSTANTS Proc, File, Size

VARIABLES
  file,       \* the open file each process uses
  content,    \* the buffer
  position,   \* of each file
  doing,      \* each process's call
  view        \* what the read that a process has just done has returned

vars == <<file, content, position, doing, view>>

Cells == 0 .. Size - 1

\* The bytes from a position on; there are none behind the buffer.
Bytes(at, n) == {i \in Cells : at <= i /\ i < at + n}

Nothing == [stage |-> "none", op |-> "none", length |-> 0, at |-> 0]
Blank   == [i \in Cells |-> "none"]

Init ==
  /\ file \in [Proc -> File]
  /\ content = [i \in Cells |-> "init"]
  /\ position = [f \in File |-> 0]
  /\ doing = [p \in Proc |-> Nothing]
  /\ view = [p \in Proc |-> Blank]

\* A file that no call is using is opened anew.
Rewind(f) ==
  /\ \A p \in Proc : file[p] = f => doing[p] = Nothing
  /\ position' = [position EXCEPT ![f] = 0]
  /\ UNCHANGED <<file, content, doing, view>>

Seek(p) ==
  /\ doing[p] = Nothing
  /\ \E new \in 0 .. Size : position' = [position EXCEPT ![file[p]] = new]
  /\ UNCHANGED <<file, content, doing, view>>

Ask(p) ==
  /\ doing[p] = Nothing
  /\ \E op \in {"read", "write"}, length \in 0 .. Size :
       doing' = [doing EXCEPT ![p] = [stage |-> "asked", op |-> op, length |-> length,
                                      at |-> position[file[p]]]]
  /\ UNCHANGED <<file, content, position, view>>

\* A call that has read or written n bytes.
Answered(c, n) == [stage |-> "answered", op |-> c.op, length |-> c.length, at |-> c.at + n]

\* What a read returns, and the buffer that a write leaves.
Shown(at, n)      == [i \in Cells |-> IF i \in Bytes(at, n) THEN content[i] ELSE "none"]
Written(p, at, n) == [i \in Cells |-> IF i \in Bytes(at, n) THEN p ELSE content[i]]

\* The call takes effect, all of it at once.
Perform(p) ==
  /\ doing[p].stage = "asked"
  /\ \E n \in 0 .. doing[p].length :
       /\ doing' = [doing EXCEPT ![p] = Answered(doing[p], n)]
       /\ IF doing[p].op = "read"
          THEN /\ view' = [view EXCEPT ![p] = Shown(doing[p].at, n)]
               /\ UNCHANGED content
          ELSE /\ content' = Written(p, doing[p].at, n)
               /\ UNCHANGED view
  /\ UNCHANGED <<file, position>>

\* The call fails.  What a failing write did write, and the zeros after it,
\* are there all at once, too.
Fail(p) ==
  /\ doing[p].stage = "asked"
  /\ doing' = [doing EXCEPT ![p] = Nothing]
  /\ IF doing[p].op = "read" THEN UNCHANGED content
     ELSE \E n \in 0 .. doing[p].length : \E k \in 0 .. n :
            content' = [i \in Cells |-> IF i \in Bytes(doing[p].at, k) THEN p
                                        ELSE IF i \in Bytes(doing[p].at, n) THEN "zero"
                                        ELSE content[i]]
  /\ UNCHANGED <<file, position, view>>

\* The position that the call has reached becomes that of the file.
Answer(p) ==
  /\ doing[p].stage = "answered"
  /\ position' = [position EXCEPT ![file[p]] = doing[p].at]
  /\ doing' = [doing EXCEPT ![p] = Nothing]
  /\ view' = [view EXCEPT ![p] = Blank]
  /\ UNCHANGED <<file, content>>

Next ==
  \/ \E f \in File : Rewind(f)
  \/ \E p \in Proc : Seek(p) \/ Ask(p) \/ Perform(p) \/ Fail(p) \/ Answer(p)

Spec == Init /\ [][Next]_vars
=============================================================================
