--------------------------- MODULE CharDev_proofs ---------------------------
(***************************************************************************)
(* Theorems about CharDev for every number of processes and files and      *)
(* every size of the buffer.                                               *)
(***************************************************************************)
EXTENDS CharDev, TLAPS

\* BytesToRead never goes past the end of the buffer; it is negative if the
\* position is already past it.
LEMMA ReadBound ==
  ASSUME NEW offset \in Nat, NEW length \in Nat
  PROVE  /\ BytesToRead(offset, length) \in Int
         /\ offset + BytesToRead(offset, length) <= Size
BY SizeAssumption DEF BytesToRead

\* BytesToWrite stops before the last byte of the buffer, unless the
\* position is at the end or past it.
LEMMA WriteBound ==
  ASSUME NEW offset \in Nat, NEW length \in Nat
  PROVE  /\ BytesToWrite(offset, length) \in Nat
         /\ offset < Size => offset + BytesToWrite(offset, length) < Size
BY SizeAssumption DEF BytesToWrite

-----------------------------------------------------------------------------
(* Type correctness.                                                       *)

LEMMA NoCallIsCall == NoCall \in Call
BY DEF NoCall, Call

LEMMA MovedCall ==
  ASSUME NEW c \in Call, NEW x \in Nat
  PROVE  [c EXCEPT !.offset = x] \in Call
BY DEF Call

LEMMA TypeInit == Init => TypeOK
<1> SUFFICES ASSUME Init PROVE TypeOK
    OBVIOUS
<1>1. call \in [Proc -> Call]
  BY NoCallIsCall DEF Init
<1>2. buf \in [Proc -> [Cells -> Value \cup {"none"}]] /\ data \in [Cells -> Value]
  BY DEF Init, NoBytes, Value
<1>3. QED  BY <1>1, <1>2 DEF Init, TypeOK

LEMMA TypeStep == TypeOK /\ [Next]_vars => TypeOK'
<1> SUFFICES ASSUME TypeOK, [Next]_vars PROVE TypeOK'
    OBVIOUS
<1> USE DEF TypeOK
<1>1. ASSUME NEW f \in File, Open(f) PROVE TypeOK'
  BY <1>1 DEF Open
<1>2. ASSUME NEW f \in File, Release(f) PROVE TypeOK'
  BY <1>2 DEF Release
<1>3. ASSUME NEW p \in Proc, Llseek(p) PROVE TypeOK'
  BY <1>3, SizeAssumption DEF Llseek
<1>4. ASSUME NEW p \in Proc, NEW length \in Nat, NEW op \in {"read", "write"},
             Begin(p, op, length)
      PROVE  TypeOK'
  <2>1. fpos[file[p]] \in Nat
    OBVIOUS
  <2>2. [op |-> op, length |-> length, offset |-> fpos[file[p]], n |-> 0, done |-> 0] \in Call
    BY <2>1 DEF Call
  <2>3. call' \in [Proc -> Call]
    BY <1>4, <2>2 DEF Begin
  <2>4. QED  BY <1>4, <2>3 DEF Begin
<1>5. ASSUME NEW p \in Proc, SpinLock(p) PROVE TypeOK'
  <2>1. call[p].offset \in Nat /\ call[p].length \in Nat
    BY DEF Call
  <2> HIDE DEF TypeOK
  <2>2. BytesToRead(call[p].offset, call[p].length) \in Int
    BY <2>1, ReadBound
  <2>3. BytesToWrite(call[p].offset, call[p].length) \in Nat
    BY <2>1, WriteBound
  <2>4. call' \in [Proc -> Call]
    BY <1>5, <2>2, <2>3 DEF SpinLock, Call, TypeOK
  <2>5. QED  BY <1>5, <2>4 DEF SpinLock, TypeOK
<1>6. ASSUME NEW p \in Proc, CopyByte(p) PROVE TypeOK'
  <2>1. call' \in [Proc -> Call]
    BY <1>6 DEF CopyByte, Call
  <2>2. data' \in [Cells -> Value] /\ spilled' \in BOOLEAN
    BY <1>6 DEF CopyByte, Value
  <2>3. buf' \in [Proc -> [Cells -> Value \cup {"none"}]]
    <3>1. CASE call[p].op = "read" /\ call[p].offset + call[p].done \in Cells
      <4>1. data[call[p].offset + call[p].done] \in Value
        BY <3>1
      <4>2. QED  BY <1>6, <3>1, <4>1 DEF CopyByte
    <3>2. CASE call[p].op = "read" /\ call[p].offset + call[p].done \notin Cells
      BY <1>6, <3>2 DEF CopyByte
    <3>3. CASE call[p].op # "read"
      BY <1>6, <3>3 DEF CopyByte
    <3>4. QED  BY <3>1, <3>2, <3>3
  <2>4. QED  BY <1>6, <2>1, <2>2, <2>3 DEF CopyByte
<1>7. ASSUME NEW p \in Proc, CopyFails(p) PROVE TypeOK'
  <2>1. data' \in [Cells -> Value] /\ spilled' \in BOOLEAN
    BY <1>7 DEF CopyFails, Value
  <2>2. call' \in [Proc -> Call]
    BY <1>7, NoCallIsCall DEF CopyFails
  <2>3. buf' \in [Proc -> [Cells -> Value \cup {"none"}]]
    BY <1>7 DEF CopyFails, NoBytes
  <2>4. QED  BY <1>7, <2>1, <2>2, <2>3 DEF CopyFails
<1>8. ASSUME NEW p \in Proc, SpinUnlock(p) PROVE TypeOK'
  <2>1. call[p].n \in Nat /\ call[p].offset \in Nat
    BY <1>8 DEF SpinUnlock, Call
  <2>2. [call[p] EXCEPT !.offset = @ + call[p].n] \in Call
    BY <2>1, call[p].offset + call[p].n \in Nat, MovedCall
  <2>3. call' = [call EXCEPT ![p] = [call[p] EXCEPT !.offset = @ + call[p].n]]
    BY <1>8 DEF SpinUnlock
  <2>4. call' \in [Proc -> Call]
    BY <2>2, <2>3
  <2>5. QED  BY <1>8, <2>4 DEF SpinUnlock
<1>9. ASSUME NEW p \in Proc, Return(p) PROVE TypeOK'
  <2>1. fpos' \in [File -> Nat]
    BY <1>9 DEF Return, Call
  <2>2. call' \in [Proc -> Call]
    BY <1>9, NoCallIsCall DEF Return
  <2>3. buf' \in [Proc -> [Cells -> Value \cup {"none"}]]
    BY <1>9 DEF Return, NoBytes
  <2>4. QED  BY <1>9, <2>1, <2>2, <2>3 DEF Return
<1>10. CASE UNCHANGED vars
  BY <1>10 DEF vars
<1>11. QED
  BY <1>1, <1>2, <1>3, <1>4, <1>5, <1>6, <1>7, <1>8, <1>9, <1>10, SizeAssumption
     DEF Next, InCall, Read, Write

\* The type invariant of the device, the kernel's files and the calls.
THEOREM TypeCorrect == Spec => []TypeOK
BY TypeInit, TypeStep, PTL DEF Spec

-----------------------------------------------------------------------------
(* The inductive invariant.                                                *)

\* The lock is held by the process that copies, by one at a time.
LockInv ==
  /\ \A p \in Proc : pc[p] = "copy" <=> p \in holder
  /\ \A p, q \in holder : p = q

\* What a call knows before it takes the lock, and while it copies.
CallInv == \A p \in Proc :
  /\ pc[p] \in {"idle", "spin"} => buf[p] = NoBytes
  /\ pc[p] = "spin" =>
       /\ call[p].op \in {"read", "write"} /\ call[p].n = 0 /\ call[p].done = 0
       /\ call[p].op = "write" => call[p].length >= 1
  /\ pc[p] = "copy" =>
       /\ call[p].op \in {"read", "write"}
       /\ call[p].op = "read" => call[p].offset + call[p].n <= Size
       /\ call[p].op = "write" =>
            /\ buf[p] = NoBytes
            /\ call[p].done <= call[p].n
            /\ call[p].offset < Size => call[p].offset + call[p].n < Size
            /\ call[p].offset >= Size => call[p].n >= 1

\* A position past the end comes from a write that went past the end.
PositionInv ==
  /\ ~spilled => \A f \in File : fpos[f] <= Size
  /\ \A p \in Proc : ~spilled =>
       /\ pc[p] # "idle" => call[p].offset <= Size
       /\ pc[p] = "copy" /\ call[p].op = "write" /\ call[p].offset >= Size => call[p].done = 0

\* The file of a call is open.
OpenInv == \A p \in Proc : pc[p] # "idle" => file[p] \in opened

\* The steps of the system, one by one.
LEMMA Actions ==
  ASSUME [Next]_vars
  PROVE  \/ \E f \in File : Open(f) \/ Release(f)
         \/ \E p \in Proc : \/ Llseek(p) \/ SpinLock(p) \/ CopyByte(p)
                            \/ CopyFails(p) \/ SpinUnlock(p) \/ Return(p)
         \/ \E p \in Proc : \E length \in Nat : Begin(p, "read", length)
         \/ \E p \in Proc : \E length \in Nat : length >= 1 /\ Begin(p, "write", length)
         \/ UNCHANGED vars
<1>1. ASSUME NEW p \in Proc, Read(p)
      PROVE  \E length \in Nat : Begin(p, "read", length)
  BY <1>1, SizeAssumption DEF Read
<1>2. ASSUME NEW p \in Proc, Write(p)
      PROVE  \E length \in Nat : length >= 1 /\ Begin(p, "write", length)
  BY <1>2, SizeAssumption DEF Write
<1>3. QED  BY <1>1, <1>2 DEF Next, InCall

LEMMA LockStep == TypeOK /\ LockInv /\ [Next]_vars => LockInv'
<1> SUFFICES ASSUME TypeOK, LockInv, [Next]_vars PROVE LockInv'
    OBVIOUS
<1>1. ASSUME NEW f \in File, Open(f) \/ Release(f) PROVE LockInv'
  BY <1>1 DEF LockInv, Open, Release
<1>2. ASSUME NEW p \in Proc, NEW op, NEW length, Begin(p, op, length) PROVE LockInv'
  BY <1>2 DEF LockInv, Begin, TypeOK
<1>3. ASSUME NEW p \in Proc, Llseek(p) \/ CopyByte(p) PROVE LockInv'
  BY <1>3 DEF LockInv, Llseek, CopyByte
<1>4. ASSUME NEW p \in Proc, SpinLock(p) PROVE LockInv'
  BY <1>4 DEF LockInv, SpinLock, TypeOK
<1>5. ASSUME NEW p \in Proc, CopyFails(p) \/ SpinUnlock(p) PROVE LockInv'
  <2>1. holder' = holder \ {p} /\ \E s \in {"idle", "return"} : pc' = [pc EXCEPT ![p] = s]
    BY <1>5 DEF CopyFails, SpinUnlock
  <2>2. QED  BY <2>1 DEF LockInv, TypeOK
<1>6. ASSUME NEW p \in Proc, Return(p) PROVE LockInv'
  BY <1>6 DEF LockInv, Return, TypeOK
<1>7. CASE UNCHANGED vars
  BY <1>7 DEF LockInv, vars
<1>8. QED  BY <1>1, <1>2, <1>3, <1>4, <1>5, <1>6, <1>7, Actions

LEMMA CallStep == TypeOK /\ CallInv /\ [Next]_vars => CallInv'
<1> SUFFICES ASSUME TypeOK, CallInv, [Next]_vars, NEW q \in Proc
             PROVE  CallInv!(q)'
    BY DEF CallInv
<1> USE DEF CallInv
<1>1. ASSUME NEW f \in File, Open(f) \/ Release(f) PROVE CallInv!(q)'
  BY <1>1 DEF Open, Release
<1>2. ASSUME NEW p \in Proc, NEW op \in {"read", "write"}, NEW length \in Nat,
             op = "write" => length >= 1, Begin(p, op, length)
      PROVE  CallInv!(q)'
  BY <1>2 DEF Begin, TypeOK
<1>3. ASSUME NEW p \in Proc, Llseek(p) PROVE CallInv!(q)'
  BY <1>3 DEF Llseek
<1>4. ASSUME NEW p \in Proc, SpinLock(p) PROVE CallInv!(q)'
  <2>1. CASE p # q
    BY <1>4, <2>1 DEF SpinLock, TypeOK
  <2>2. CASE p = q
    <3>1. /\ call[q].offset \in Nat /\ call[q].length \in Nat
          /\ call'[q].op = call[q].op /\ call'[q].offset = call[q].offset
          /\ call'[q].done = call[q].done
          /\ call'[q].n = IF call[q].op = "read"
                          THEN BytesToRead(call[q].offset, call[q].length)
                          ELSE BytesToWrite(call[q].offset, call[q].length)
      BY <1>4, <2>2 DEF SpinLock, TypeOK, Call
    <3>2. CASE call[q].op = "read"
      BY <1>4, <2>2, <3>1, <3>2, ReadBound DEF SpinLock, TypeOK
    <3>3. CASE call[q].op = "write"
      <4>1. call[q].offset >= Size => call'[q].n = call[q].length
        BY <3>1, <3>3, SizeAssumption DEF BytesToWrite
      <4>2. /\ call'[q].n \in Nat
            /\ call[q].offset < Size => call[q].offset + call'[q].n < Size
        BY <3>1, <3>3, WriteBound
      <4>3. QED  BY <1>4, <2>2, <3>1, <3>3, <4>1, <4>2 DEF SpinLock, TypeOK
    <3>4. QED  BY <1>4, <2>2, <3>2, <3>3 DEF SpinLock
  <2>3. QED  BY <2>1, <2>2
<1>5. ASSUME NEW p \in Proc, CopyByte(p) PROVE CallInv!(q)'
  <2>1. CASE p # q
    BY <1>5, <2>1 DEF CopyByte, TypeOK
  <2>2. CASE p = q
    BY <1>5, <2>2 DEF CopyByte, TypeOK, Call
  <2>3. QED  BY <2>1, <2>2
<1>6. ASSUME NEW p \in Proc, CopyFails(p) \/ Return(p) PROVE CallInv!(q)'
  BY <1>6 DEF CopyFails, Return, TypeOK
<1>7. ASSUME NEW p \in Proc, SpinUnlock(p) PROVE CallInv!(q)'
  BY <1>7 DEF SpinUnlock, TypeOK
<1>8. CASE UNCHANGED vars
  BY <1>8 DEF vars
<1>9. QED
  BY <1>1, <1>2, <1>3, <1>4, <1>5, <1>6, <1>7, <1>8, Actions

\* The parts of PositionInv that hold while nothing has been spilled.
Inside(f) == fpos[f] <= Size
InsideCall(p) ==
  /\ pc[p] # "idle" => call[p].offset <= Size
  /\ pc[p] = "copy" /\ call[p].op = "write" /\ call[p].offset >= Size => call[p].done = 0

LEMMA PositionStep == TypeOK /\ CallInv /\ PositionInv /\ [Next]_vars => PositionInv'
<1> SUFFICES ASSUME TypeOK, CallInv, PositionInv, [Next]_vars, ~spilled',
                    NEW g, NEW q
             PROVE  (g \in File => Inside(g)') /\ (q \in Proc => InsideCall(q)')
    BY DEF PositionInv, Inside, InsideCall
<1> DEFINE Kept == (g \in File => Inside(g)) /\ (q \in Proc => InsideCall(q))
<1>1. ~spilled
  BY Actions DEF TypeOK, Open, Release, Llseek, Begin, SpinLock, CopyByte, CopyFails,
                 SpinUnlock, Return, vars
<1>2. /\ \A f \in File : Inside(f)
      /\ \A p \in Proc : InsideCall(p)
  BY <1>1 DEF PositionInv, Inside, InsideCall
<1> USE DEF Inside, InsideCall
<1>3. ASSUME NEW f \in File, Open(f) \/ Release(f) PROVE Kept'
  <2>1. CASE Open(f)
    BY <1>2, <2>1, SizeAssumption DEF Open, TypeOK
  <2>2. CASE Release(f)
    BY <1>2, <2>2 DEF Release
  <2>3. QED  BY <1>3, <2>1, <2>2
<1>4. ASSUME NEW p \in Proc, NEW op, NEW length, Begin(p, op, length)
      PROVE  Kept'
  BY <1>2, <1>4 DEF Begin, TypeOK
<1>5. ASSUME NEW p \in Proc, Llseek(p) PROVE Kept'
  BY <1>2, <1>5, SizeAssumption DEF Llseek, TypeOK
<1>6. ASSUME NEW p \in Proc, SpinLock(p) PROVE Kept'
  BY <1>2, <1>6 DEF SpinLock, TypeOK, CallInv, Call
<1>7. ASSUME NEW p \in Proc, CopyByte(p) PROVE Kept'
  <2>1. call[p].offset \in Nat /\ call[p].done \in Nat
    BY DEF TypeOK, Call
  <2>2. call[p].op = "write" => call[p].offset + call[p].done < Size
    <3>1. call[p].op = "write" /\ call[p].offset + call[p].done >= Size => spilled'
      BY <1>7 DEF CopyByte
    <3>2. QED  BY <2>1, <3>1, SizeAssumption
  <2>3. QED  BY <1>2, <1>7, <2>1, <2>2, SizeAssumption DEF CopyByte, TypeOK
<1>8. ASSUME NEW p \in Proc, CopyFails(p) PROVE Kept'
  BY <1>2, <1>8 DEF CopyFails, TypeOK
<1>9. ASSUME NEW p \in Proc, SpinUnlock(p) PROVE Kept'
  <2>1. call[p].offset + call[p].n <= Size
    <3>1. /\ pc[p] = "copy" /\ call[p].done = call[p].n
          /\ call[p].offset \in Nat /\ call[p].n \in Int
      BY <1>9 DEF SpinUnlock, TypeOK, Call
    <3>2. CASE call[p].op = "read"
      BY <3>1, <3>2 DEF CallInv
    <3>3. CASE call[p].op = "write"
      BY <1>2, <3>1, <3>3, SizeAssumption DEF CallInv
    <3>4. QED  BY <3>1, <3>2, <3>3 DEF CallInv
  <2>2. QED  BY <1>2, <1>9, <2>1 DEF SpinUnlock, TypeOK
<1>10. ASSUME NEW p \in Proc, Return(p) PROVE Kept'
  BY <1>2, <1>10 DEF Return, TypeOK
<1>11. CASE UNCHANGED vars
  BY <1>2, <1>11 DEF vars
<1>12. QED
  BY <1>3, <1>4, <1>5, <1>6, <1>7, <1>8, <1>9, <1>10, <1>11, Actions

\* While one process copies, the lock keeps the others from the buffer.
LEMMA CopyStep ==
  TypeOK /\ LockInv /\ CallInv /\ CopyIsAtomic /\ [Next]_vars => CopyIsAtomic'
<1> SUFFICES ASSUME TypeOK, LockInv, CallInv, CopyIsAtomic, [Next]_vars,
                    NEW q \in Proc, NEW i \in Cells
             PROVE  CopyIsAtomic!(q)!(i)'
    BY DEF CopyIsAtomic
<1>1. CopyIsAtomic!(q)!(i) /\ i \in Int
  BY DEF CopyIsAtomic, Cells
<1>2. ASSUME data' = data, pc'[q] = pc[q], call'[q] = call[q], buf'[q] = buf[q]
      PROVE  CopyIsAtomic!(q)!(i)'
  BY <1>1, <1>2
<1>3. ASSUME NEW f \in File, Open(f) \/ Release(f) PROVE CopyIsAtomic!(q)!(i)'
  BY <1>2, <1>3 DEF Open, Release
<1>4. ASSUME NEW p \in Proc, NEW op, NEW length, Begin(p, op, length)
      PROVE  CopyIsAtomic!(q)!(i)'
  BY <1>2, <1>4 DEF Begin, TypeOK
<1>5. ASSUME NEW p \in Proc, Llseek(p) PROVE CopyIsAtomic!(q)!(i)'
  BY <1>2, <1>5 DEF Llseek
<1>6. ASSUME NEW p \in Proc, SpinLock(p) PROVE CopyIsAtomic!(q)!(i)'
  <2>1. CASE p # q
    BY <1>2, <1>6, <2>1 DEF SpinLock, TypeOK
  <2>2. CASE p = q
    <3>1. /\ buf'[q] = NoBytes
          /\ call'[q].offset = call[q].offset /\ call'[q].done = 0
          /\ call[q].offset \in Nat
      BY <1>6, <2>2 DEF SpinLock, CallInv, TypeOK, Call
    <3>2. buf'[q][i] = "none"
      BY <3>1 DEF NoBytes
    <3>3. QED  BY <1>1, <3>1, <3>2
  <2>3. QED  BY <2>1, <2>2
<1>7. ASSUME NEW p \in Proc, CopyByte(p) \/ CopyFails(p), p # q, pc[q] = "copy" PROVE FALSE
  <2>1. pc[p] = "copy"
    BY <1>7 DEF CopyByte, CopyFails
  <2>2. QED  BY <1>7, <2>1 DEF LockInv
<1>8. ASSUME NEW p \in Proc, CopyByte(p) PROVE CopyIsAtomic!(q)!(i)'
  <2>1. CASE p # q
    <3>1. pc'[q] # "copy"
      BY <1>7, <1>8, <2>1 DEF CopyByte
    <3>2. QED  BY <3>1
  <2>2. CASE p = q
    <3>1. /\ call[q].offset \in Nat /\ call[q].done \in Nat
          /\ call'[q].op = call[q].op /\ call'[q].offset = call[q].offset
          /\ call'[q].done = call[q].done + 1
          /\ pc[q] = "copy"
      BY <1>8, <2>2 DEF CopyByte, TypeOK, Call
    <3>2. CASE call[q].op = "read"
      <4>1. /\ data' = data
            /\ buf'[q] = [buf[q] EXCEPT ![call[q].offset + call[q].done]
                                          = data[call[q].offset + call[q].done]]
        BY <1>8, <2>2, <3>2 DEF CopyByte, TypeOK
      <4>2. buf'[q][i] = buf[q][i] \/ buf'[q][i] = data[i]
        BY <4>1 DEF TypeOK
      <4>3. QED  BY <1>1, <3>1, <3>2, <4>1, <4>2
    <3>3. CASE call[q].op = "write"
      <4>1. /\ data'[i] = IF i = call[q].offset + call[q].done THEN q ELSE data[i]
            /\ buf' = buf
        BY <1>8, <2>2, <3>3 DEF CopyByte
      <4>2. buf[q][i] = "none"
        BY <3>1, <3>3 DEF CallInv, NoBytes
      <4>3. QED  BY <1>1, <3>1, <3>3, <4>1, <4>2
    <3>4. QED  BY <3>1, <3>2, <3>3 DEF CallInv
  <2>3. QED  BY <2>1, <2>2
<1>9. ASSUME NEW p \in Proc, CopyFails(p) PROVE CopyIsAtomic!(q)!(i)'
  <2>1. pc'[q] # "copy"
    BY <1>7, <1>9 DEF CopyFails, TypeOK
  <2>2. QED  BY <2>1
<1>10. ASSUME NEW p \in Proc, SpinUnlock(p) PROVE CopyIsAtomic!(q)!(i)'
  BY <1>2, <1>10, <1>1 DEF SpinUnlock, TypeOK
<1>11. ASSUME NEW p \in Proc, Return(p) PROVE CopyIsAtomic!(q)!(i)'
  BY <1>2, <1>11, <1>1 DEF Return, TypeOK
<1>12. CASE UNCHANGED vars
  BY <1>2, <1>12 DEF vars
<1>13. QED
  BY <1>3, <1>4, <1>5, <1>6, <1>8, <1>9, <1>10, <1>11, <1>12, Actions

\* A file is not released, or opened anew, under a call.
LEMMA OpenStep == TypeOK /\ OpenInv /\ [Next]_vars => OpenInv'
<1> SUFFICES ASSUME TypeOK, OpenInv, [Next]_vars PROVE OpenInv'
    OBVIOUS
<1> USE DEF OpenInv, TypeOK
<1>1. ASSUME NEW f \in File, Open(f) \/ Release(f) PROVE OpenInv'
  BY <1>1 DEF Open, Release
<1>2. ASSUME NEW p \in Proc, NEW op, NEW length, Begin(p, op, length) PROVE OpenInv'
  BY <1>2 DEF Begin
<1>3. ASSUME NEW p \in Proc,
             \/ Llseek(p) \/ SpinLock(p) \/ CopyByte(p)
             \/ CopyFails(p) \/ SpinUnlock(p) \/ Return(p)
      PROVE  OpenInv'
  BY <1>3 DEF Llseek, SpinLock, CopyByte, CopyFails, SpinUnlock, Return
<1>4. CASE UNCHANGED vars
  BY <1>4 DEF vars
<1>5. QED
  BY <1>1, <1>2, <1>3, <1>4, Actions

-----------------------------------------------------------------------------
(* The theorems.                                                           *)

IInv == TypeOK /\ LockInv /\ CallInv /\ CopyIsAtomic /\ PositionInv /\ OpenInv

LEMMA IInvInit == Init => IInv
<1> SUFFICES ASSUME Init PROVE IInv
    OBVIOUS
<1>1. TypeOK
  BY TypeInit
<1>2. LockInv /\ CallInv /\ CopyIsAtomic /\ PositionInv /\ OpenInv
  BY SizeAssumption DEF Init, LockInv, CallInv, CopyIsAtomic, PositionInv, OpenInv, NoBytes
<1>3. QED  BY <1>1, <1>2 DEF IInv

THEOREM Inductive == Spec => []IInv
<1>1. IInv /\ [Next]_vars => IInv'
  BY TypeStep, LockStep, CallStep, CopyStep, PositionStep, OpenStep DEF IInv
<1>2. QED  BY IInvInit, <1>1, PTL DEF Spec

\* A call sees and leaves the buffer as if it were alone.
THEOREM CopyIsAtomicHolds == Spec => []CopyIsAtomic
BY Inductive, PTL DEF IInv

\* A position past the end needs a write that went past the end.
THEOREM PositionInsideHolds == Spec => []PositionInside
<1>1. IInv => PositionInside
  BY DEF IInv, PositionInv, PositionInside
<1>2. QED  BY Inductive, <1>1, PTL

-----------------------------------------------------------------------------
(* What it takes to leave the buffer (WritesStayInside does not hold).     *)

\* The first byte behind the buffer is the first byte of a write that began
\* at the position Size.
SpillsFromTheEnd ==
  [][ ~spilled /\ spilled' =>
        \E p \in Proc : /\ pc[p] = "copy" /\ call[p].op = "write"
                        /\ call[p].offset = Size /\ call[p].done = 0 ]_vars

\* A write that begins inside the buffer stays inside, however long it is and
\* whoever moves the position meanwhile: the one position that llseek should
\* not admit is the only way out.
THEOREM SpillsFromTheEndHolds == Spec => SpillsFromTheEnd
<1>1. ASSUME IInv, [Next]_vars, ~spilled, spilled'
      PROVE  \E p \in Proc : /\ pc[p] = "copy" /\ call[p].op = "write"
                             /\ call[p].offset = Size /\ call[p].done = 0
  <2>1. PICK p \in Proc : CopyByte(p) \/ CopyFails(p)
    BY <1>1, Actions DEF Open, Release, Llseek, SpinLock, SpinUnlock, Return, Begin, vars
  <2>2. /\ pc[p] = "copy" /\ call[p].op = "write"
        /\ \E k \in call[p].done .. call[p].n - 1 : call[p].offset + k >= Size
    <3>1. /\ call[p].done \in Nat /\ call[p].n \in Int /\ call[p].offset \in Nat
      BY <1>1 DEF IInv, TypeOK, Call
    <3>2. CASE CopyByte(p)
      <4>1. /\ pc[p] = "copy" /\ call[p].done < call[p].n /\ call[p].op \in {"read", "write"}
            /\ call[p].op # "read" /\ call[p].offset + call[p].done >= Size
        BY <1>1, <3>2, Zenon DEF CopyByte, IInv, CallInv
      <4>2. call[p].done \in call[p].done .. call[p].n - 1
        BY <3>1, <4>1
      <4>3. QED
        BY <4>1, <4>2
    <3>3. CASE CopyFails(p)
      <4>1. /\ pc[p] = "copy" /\ call[p].op # "read"
            /\ \E k \in call[p].done .. call[p].n - 1 : call[p].offset + k >= Size
        BY <1>1, <3>3 DEF CopyFails
      <4>2. call[p].op \in {"read", "write"}
        BY <1>1, <4>1 DEF IInv, CallInv
      <4>3. QED
        BY <4>1, <4>2
    <3>4. QED
      BY <2>1, <3>2, <3>3
  <2>3. /\ call[p].done \in Nat /\ call[p].n \in Int /\ call[p].offset \in Nat
        /\ call[p].offset <= Size
        /\ call[p].offset < Size => call[p].offset + call[p].n < Size
        /\ call[p].offset >= Size => call[p].done = 0
    BY <1>1, <2>2 DEF IInv, TypeOK, Call, CallInv, PositionInv
  <2>4. call[p].offset = Size /\ call[p].done = 0
    BY <2>2, <2>3, SizeAssumption
  <2>5. QED
    BY <2>2, <2>4
<1>2. IInv /\ [Next]_vars =>
        [ ~spilled /\ spilled' =>
            \E p \in Proc : /\ pc[p] = "copy" /\ call[p].op = "write"
                            /\ call[p].offset = Size /\ call[p].done = 0 ]_vars
  BY <1>1
<1>3. QED  BY Inductive, <1>2, PTL DEF Spec, SpillsFromTheEnd
=============================================================================
