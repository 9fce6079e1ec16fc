------------------------------- MODULE CharDev -------------------------------
(***************************************************************************)
(* Assignment_1/q2/chardev.c: a character device over a buffer of Size     *)
(* bytes, and the part of the kernel's read and write calls that handles   *)
(* the file position.  A call takes a copy of the position, the driver     *)
(* works with the copy under its spinlock, and the copy is stored back     *)
(* after the driver has returned.  The kernel locks the position of        *)
(* regular files only, so processes that share an open file (by fork) may  *)
(* do all this at the same time.                                           *)
(*                                                                         *)
(* A byte is abstracted to who wrote it; what lies behind the buffer to    *)
(* whether it has been overwritten.                                        *)
(***************************************************************************)
EXTENDS Integers

CONSTANTS
  Proc, File,
  Size,          \* BUFFER_SIZE, 1024 in the code
  MaxPosition    \* bound: no write is begun that could end beyond it

ASSUME SizeAssumption == Size \in Nat \ {0}
ASSUME MaxPositionAssumption == MaxPosition \in Nat

VARIABLES
  file,      \* the open file each process uses; it never changes
  opened,    \* the files that are open
  fpos,      \* f_pos of each file
  data,      \* custom_chardrv_data
  spilled,   \* history: bytes behind the buffer have been overwritten
  holder,    \* the processes that hold your_lock
  pc,        \* where each process is in its call
  call,      \* each process's call: its arguments and local variables
  buf        \* what each process's read has copied to the user so far

vars == <<file, opened, fpos, data, spilled, holder, pc, call, buf>>

Cells == 0..(Size - 1)
Value == Proc \cup {"init", "zero"}

\* length and *offset are the handler's; n is bytes_to_read or
\* bytes_to_write; done counts the bytes copied so far.
Call == [op : {"none", "read", "write"}, length : Nat, offset : Nat, n : Int, done : Nat]
NoCall == [op |-> "none", length |-> 0, offset |-> 0, n |-> 0, done |-> 0]
NoBytes == [i \in Cells |-> "none"]

TypeOK ==
  /\ file \in [Proc -> File]
  /\ opened \in SUBSET File
  /\ fpos \in [File -> Nat]
  /\ data \in [Cells -> Value]
  /\ spilled \in BOOLEAN
  /\ holder \in SUBSET Proc
  /\ pc \in [Proc -> {"idle", "spin", "copy", "return"}]
  /\ call \in [Proc -> Call]
  /\ buf \in [Proc -> [Cells -> Value \cup {"none"}]]

\* custom_init fills the buffer; who shares a file is decided beforehand.
Init ==
  /\ file \in [Proc -> File]
  /\ opened = {}
  /\ fpos = [f \in File |-> 0]
  /\ data = [i \in Cells |-> "init"]
  /\ spilled = FALSE
  /\ holder = {}
  /\ pc = [p \in Proc |-> "idle"]
  /\ call = [p \in Proc |-> NoCall]
  /\ buf = [p \in Proc |-> NoBytes]

-----------------------------------------------------------------------------
Open(f) ==
  /\ f \notin opened
  /\ opened' = opened \cup {f}
  /\ fpos' = [fpos EXCEPT ![f] = 0]
  /\ UNCHANGED <<file, data, spilled, holder, pc, call, buf>>

\* The kernel releases a file when its last user has closed it.
Release(f) ==
  /\ f \in opened
  /\ \A p \in Proc : file[p] = f => pc[p] = "idle"
  /\ opened' = opened \ {f}
  /\ UNCHANGED <<file, fpos, data, spilled, holder, pc, call, buf>>

\* Mutants of Llseek: a missing lower bound, and an upper bound that is off by one.
Llseek_negative(p) ==
  /\ pc[p] = "idle" /\ file[p] \in opened
  /\ \E newpos \in -1..Size : fpos' = [fpos EXCEPT ![file[p]] = newpos]
  /\ UNCHANGED <<file, opened, data, spilled, holder, pc, call, buf>>
Llseek_beyond(p) ==
  /\ pc[p] = "idle" /\ file[p] \in opened
  /\ \E newpos \in 0..(Size + 1) : fpos' = [fpos EXCEPT ![file[p]] = newpos]
  /\ UNCHANGED <<file, opened, data, spilled, holder, pc, call, buf>>

\* Whatever whence and offset are, the new position is checked against both
\* ends of the buffer and stored without any lock.
Llseek(p) ==
  /\ pc[p] = "idle" /\ file[p] \in opened
  /\ \E newpos \in 0..Size : fpos' = [fpos EXCEPT ![file[p]] = newpos]
  /\ UNCHANGED <<file, opened, data, spilled, holder, pc, call, buf>>

\* The kernel's side of a call: the handler gets a copy of the position.
Begin(p, op, length) ==
  /\ pc[p] = "idle" /\ file[p] \in opened
  /\ pc' = [pc EXCEPT ![p] = "spin"]
  /\ call' = [call EXCEPT ![p] = [op |-> op, length |-> length,
                                  offset |-> fpos[file[p]], n |-> 0, done |-> 0]]
  /\ UNCHANGED <<file, opened, fpos, data, spilled, holder, buf>>

Read(p) == \E length \in 0..Size : Begin(p, "read", length)

\* A write of length 0 is refused.
Write(p) ==
  \E length \in 1..Size :
    /\ fpos[file[p]] + length <= MaxPosition
    /\ Begin(p, "write", length)

BytesToRead(offset, length) ==
  IF offset + length < Size THEN length ELSE Size - offset

\* The room for a write is one byte less than there is, so that the last byte
\* is never written; the comparison is unsigned: a room of -1 is larger than
\* any length.
BytesToWrite(offset, length) ==
  LET room == Size - offset - 1
  IN  IF room >= 0 /\ length > room THEN room ELSE length

\* Mutant of SpinLock: the lock is not waited for.
SpinLock_nowait(p) ==
  /\ pc[p] = "spin"
  /\ holder' = holder \cup {p}
  /\ pc' = [pc EXCEPT ![p] = "copy"]
  /\ call' = [call EXCEPT ![p].n =
                IF call[p].op = "read"
                THEN BytesToRead(call[p].offset, call[p].length)
                ELSE BytesToWrite(call[p].offset, call[p].length)]
  /\ UNCHANGED <<file, opened, fpos, data, spilled, buf>>

SpinLock(p) ==
  /\ pc[p] = "spin" /\ holder = {}
  /\ holder' = {p}
  /\ pc' = [pc EXCEPT ![p] = "copy"]
  /\ call' = [call EXCEPT ![p].n =
                IF call[p].op = "read"
                THEN BytesToRead(call[p].offset, call[p].length)
                ELSE BytesToWrite(call[p].offset, call[p].length)]
  /\ UNCHANGED <<file, opened, fpos, data, spilled, buf>>

\* copy_to_user and copy_from_user, one byte.
CopyByte(p) ==
  LET i == call[p].offset + call[p].done IN
  /\ pc[p] = "copy" /\ call[p].done < call[p].n
  /\ call' = [call EXCEPT ![p].done = @ + 1]
  /\ IF call[p].op = "read"
     THEN buf' = [buf EXCEPT ![p] = [@ EXCEPT ![i] = data[i]]] /\ UNCHANGED <<data, spilled>>
     ELSE /\ data' = [k \in Cells |-> IF k = i THEN p ELSE data[k]]
          /\ spilled' = (spilled \/ i >= Size)
          /\ UNCHANGED buf
  /\ UNCHANGED <<file, opened, fpos, holder, pc>>

\* Mutant of CopyFails: the error path returns with the lock held.
CopyFails_locked(p) ==
  /\ pc[p] = "copy" /\ call[p].done # call[p].n
  /\ pc' = [pc EXCEPT ![p] = "idle"]
  /\ call' = [call EXCEPT ![p] = NoCall]
  /\ buf' = [buf EXCEPT ![p] = NoBytes]
  /\ UNCHANGED <<file, opened, fpos, data, spilled, holder>>

\* The user's memory is not accessible, or n is negative.  copy_from_user
\* fills what it could not copy with zeros.  The position is not stored.
CopyFails(p) ==
  LET rest == {call[p].offset + k : k \in call[p].done..(call[p].n - 1)} IN
  /\ pc[p] = "copy" /\ call[p].done # call[p].n
  /\ IF call[p].op = "read" THEN UNCHANGED <<data, spilled>>
     ELSE /\ data' = [i \in Cells |-> IF i \in rest THEN "zero" ELSE data[i]]
          /\ spilled' = (spilled \/ \E i \in rest : i >= Size)
  /\ holder' = holder \ {p}
  /\ pc' = [pc EXCEPT ![p] = "idle"]
  /\ call' = [call EXCEPT ![p] = NoCall]
  /\ buf' = [buf EXCEPT ![p] = NoBytes]
  /\ UNCHANGED <<file, opened, fpos>>

SpinUnlock(p) ==
  /\ pc[p] = "copy" /\ call[p].done = call[p].n
  /\ call' = [call EXCEPT ![p].offset = @ + call[p].n]
  /\ holder' = holder \ {p}
  /\ pc' = [pc EXCEPT ![p] = "return"]
  /\ UNCHANGED <<file, opened, fpos, data, spilled, buf>>

\* Back in the kernel: the copy of the position is stored.
Return(p) ==
  /\ pc[p] = "return"
  /\ fpos' = [fpos EXCEPT ![file[p]] = call[p].offset]
  /\ pc' = [pc EXCEPT ![p] = "idle"]
  /\ call' = [call EXCEPT ![p] = NoCall]
  /\ buf' = [buf EXCEPT ![p] = NoBytes]
  /\ UNCHANGED <<file, opened, data, spilled, holder>>

-----------------------------------------------------------------------------
InCall(p) == CopyByte(p) \/ CopyFails(p) \/ SpinUnlock(p) \/ Return(p)

Next ==
  \/ \E f \in File : Open(f) \/ Release(f)
  \/ \E p \in Proc : Llseek(p) \/ Read(p) \/ Write(p) \/ SpinLock(p) \/ InCall(p)

Spec == Init /\ [][Next]_vars

\* A process in a call runs, and a spinlock of the kernel is given to those
\* who wait for it in the order they came.
Fairness == \A p \in Proc : WF_vars(InCall(p)) /\ SF_vars(SpinLock(p))

FairSpec == Spec /\ Fairness

-----------------------------------------------------------------------------
(* Properties.                                                             *)

\* "Spinlock-based for atomic operations": while a call copies, nobody else
\* changes what it has copied, so a read returns the buffer as it was at one
\* moment and a write leaves all its bytes there.
CopyIsAtomic ==
  \A p \in Proc : \A i \in Cells :
    /\ pc[p] = "copy" =>
         /\ buf[p][i] # "none" => buf[p][i] = data[i]
         /\ call[p].op = "write" /\ i >= call[p].offset /\ i < call[p].offset + call[p].done
              => data[i] = p

\* No position is beyond the end of the buffer, unless a write that began
\* at the end has gone past it.
PositionInside == ~spilled => \A f \in File : fpos[f] <= Size

\* "Simulates a fixed-size device of 1024 bytes" (readme.md:10, :19): what is
\* written is in the buffer.
WritesStayInside == ~spilled

\* Every call returns, whatever it is given: no path keeps the lock.
CallsReturn == \A p \in Proc : pc[p] = "spin" ~> pc[p] = "idle"
=============================================================================
