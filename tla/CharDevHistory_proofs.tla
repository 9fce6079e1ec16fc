----------------------- MODULE CharDevHistory_proofs -----------------------
(***************************************************************************)
(* The device implements AtomicDevice, for every number of processes and   *)
(* files and every size of the buffer.                                     *)
(***************************************************************************)
EXTENDS CharDevHistory, CharDev_proofs

\* The history variable watches and does not interfere.
LEMMA OnlyHistory == HSpec => Spec
<1>1. HInit => Init
  BY DEF HInit
<1>2. [HNext]_hvars => [Next]_vars
  BY DEF HNext, hvars
<1>3. QED
  BY <1>1, <1>2, PTL DEF HSpec, Spec

LEMMA DeviceInvariant == HSpec => []IInv
BY OnlyHistory, Inductive, PTL

-----------------------------------------------------------------------------
(* What is committed and what is in the making.                            *)

Bytes(at, n) == {i \in Cells : at <= i /\ i < at + n}

\* No call copies more than it was asked to.
AmountInv == \A p \in Proc : pc[p] = "copy" => call[p].n <= call[p].length

\* The buffer is the committed one but for the bytes that a write has copied.
CommitInv ==
  /\ committed \in [Cells -> Value]
  /\ holder = {} => committed = data
  /\ \A p \in Proc : pc[p] = "copy" =>
       /\ call[p].op = "read" => committed = data
       /\ call[p].op = "write" =>
            data = [i \in Cells |-> IF i \in Bytes(call[p].offset, call[p].done) THEN p
                                    ELSE committed[i]]

\* A read has copied, up to where it is, the buffer as it is now.
ViewInv == \A p \in Proc : pc[p] = "copy" /\ call[p].op = "read" =>
  buf[p] = [i \in Cells |-> IF i \in Bytes(call[p].offset, call[p].done) THEN data[i] ELSE "none"]

LEMMA NoneYet ==
  ASSUME NEW at \in Nat
  PROVE  Bytes(at, 0) = {}
BY DEF Bytes, Cells

LEMMA OneMore ==
  ASSUME NEW at \in Nat, NEW n \in Nat, NEW i \in Cells
  PROVE  i \in Bytes(at, n + 1) <=> i \in Bytes(at, n) \/ i = at + n
BY DEF Bytes, Cells

LEMMA AmountStep == TypeOK /\ AmountInv /\ [Next]_vars => AmountInv'
<1> SUFFICES ASSUME TypeOK, AmountInv, [Next]_vars, NEW q \in Proc, pc'[q] = "copy"
             PROVE  call'[q].n <= call'[q].length
  BY DEF AmountInv
<1>1. ASSUME pc[q] = "copy", call'[q].n = call[q].n, call'[q].length = call[q].length
      PROVE  call'[q].n <= call'[q].length
  BY <1>1 DEF AmountInv
<1>2. ASSUME NEW p \in Proc, SpinLock(p) PROVE call'[q].n <= call'[q].length
  <2>1. CASE p = q
    <3>1. /\ call[q].offset \in Nat /\ call[q].length \in Nat
          /\ call'[q].length = call[q].length
          /\ call'[q].n = IF call[q].op = "read"
                          THEN BytesToRead(call[q].offset, call[q].length)
                          ELSE BytesToWrite(call[q].offset, call[q].length)
      BY <1>2, <2>1 DEF SpinLock, TypeOK, Call
    <3>2. QED
      BY <3>1, SizeAssumption DEF BytesToRead, BytesToWrite
  <2>2. CASE p # q
    BY <1>1, <1>2, <2>2 DEF SpinLock, TypeOK
  <2>3. QED
    BY <2>1, <2>2
<1>3. ASSUME NEW p \in Proc, CopyByte(p) PROVE call'[q].n <= call'[q].length
  <2>1. call'[q].n = call[q].n /\ call'[q].length = call[q].length /\ pc' = pc
    BY <1>3 DEF CopyByte, TypeOK, Call
  <2>2. QED
    BY <1>1, <2>1
<1>4. ASSUME NEW p \in Proc, CopyFails(p) \/ SpinUnlock(p) \/ Return(p)
      PROVE  call'[q].n <= call'[q].length
  <2>1. p # q /\ pc[q] = "copy" /\ call'[q] = call[q]
    BY <1>4 DEF CopyFails, SpinUnlock, Return, TypeOK
  <2>2. QED
    BY <1>1, <2>1
<1>5. ASSUME NEW p \in Proc, NEW op, NEW length, Begin(p, op, length)
      PROVE  call'[q].n <= call'[q].length
  <2>1. p # q /\ pc[q] = "copy" /\ call'[q] = call[q]
    BY <1>5 DEF Begin, TypeOK
  <2>2. QED
    BY <1>1, <2>1
<1>6. ASSUME UNCHANGED <<pc, call>> PROVE call'[q].n <= call'[q].length
  BY <1>1, <1>6
<1>7. QED
  BY <1>2, <1>3, <1>4, <1>5, <1>6, Actions DEF Open, Release, Llseek, vars

\* While a process copies, it is the only one, and copying keeps it there.
LEMMA CopyAlone ==
  ASSUME LockInv, NEW p \in Proc, NEW q \in Proc, pc[p] = "copy", pc[q] = "copy"
  PROVE  p = q
BY DEF LockInv

\* The steps that change neither the buffer nor what the copying process sees.
LEMMA CommitKept ==
  ASSUME TypeOK, CommitInv, data' = data,
         committed' = IF holder' = {} THEN data' ELSE committed,
         \A q \in Proc : pc'[q] = "copy" =>
           /\ pc[q] = "copy" /\ holder' = holder
           /\ call'[q].op = call[q].op /\ call'[q].offset = call[q].offset
           /\ call'[q].done = call[q].done,
         holder' # {} => holder' = holder \/ committed = data
  PROVE  CommitInv'
<1>1. committed' \in [Cells -> Value]
  BY DEF CommitInv, TypeOK
<1>2. committed' = committed \/ committed' = data
  OBVIOUS
<1>3. ASSUME NEW q \in Proc, pc'[q] = "copy"
      PROVE  /\ call'[q].op = "read" => committed' = data'
             /\ call'[q].op = "write" =>
                  data' = [i \in Cells |-> IF i \in Bytes(call[q].offset, call[q].done) THEN q
                                           ELSE committed'[i]]
  <2>1. committed' = committed
    BY <1>3 DEF CommitInv
  <2>2. QED
    BY <1>3, <2>1 DEF CommitInv
<1>4. \A q \in Proc : pc'[q] = "copy" =>
        Bytes(call[q].offset, call[q].done) = Bytes(call'[q].offset, call'[q].done)
  OBVIOUS
<1>5. QED
  BY <1>1, <1>3, <1>4 DEF CommitInv

LEMMA CommitStep == IInv /\ CommitInv /\ [HNext]_hvars => CommitInv'
<1> SUFFICES ASSUME IInv, CommitInv, [HNext]_hvars PROVE CommitInv'
  OBVIOUS
<1>1. TypeOK /\ LockInv /\ CallInv /\ TypeOK' /\ LockInv'
  <2>1. [Next]_vars
    BY DEF HNext, hvars
  <2>2. QED
    BY <2>1, TypeStep, LockStep DEF IInv
<1>2. CASE UNCHANGED hvars
  BY <1>2 DEF hvars, vars, CommitInv, Bytes
<1>3. CASE HNext
  <2>1. committed' = (IF holder' = {} THEN data' ELSE committed) /\ [Next]_vars
    BY <1>3 DEF HNext
  <2>2. ASSUME NEW p \in Proc, SpinLock(p) PROVE CommitInv'
    <3>1. data' = data /\ holder = {} /\ holder' = {p} /\ committed = data /\ committed' = data'
      BY <2>1, <2>2 DEF SpinLock, CommitInv
    <3>2. \A q \in Proc : pc'[q] = "copy" => q = p
      BY <1>1, <3>1 DEF LockInv
    <3>3. call'[p].done = 0 /\ call'[p].offset \in Nat
      BY <1>1, <2>2 DEF SpinLock, CallInv, TypeOK, Call
    <3>4. Bytes(call'[p].offset, call'[p].done) = {}
      BY <3>3, NoneYet
    <3>5. data' = [i \in Cells |-> data'[i]]
      BY <1>1 DEF TypeOK
    <3>6. \A q \in Proc : pc'[q] = "copy" =>
            data' = [i \in Cells |-> IF i \in Bytes(call'[q].offset, call'[q].done) THEN q
                                     ELSE committed'[i]]
      BY <3>1, <3>2, <3>4, <3>5
    <3>7. QED
      BY <1>1, <3>1, <3>6 DEF CommitInv, TypeOK
  <2>3. ASSUME NEW p \in Proc, CopyByte(p) PROVE CommitInv'
    <3>1. /\ pc[p] = "copy" /\ UNCHANGED <<pc, holder>> /\ p \in holder /\ committed' = committed
          /\ call[p].offset \in Nat /\ call[p].done \in Nat
          /\ call'[p].op = call[p].op /\ call'[p].offset = call[p].offset
          /\ call'[p].done = call[p].done + 1
      BY <1>1, <2>1, <2>3 DEF CopyByte, LockInv, TypeOK, Call
    <3>2. \A q \in Proc : pc'[q] = "copy" => q = p
      BY <1>1, <3>1, CopyAlone
    <3>3. CASE call[p].op = "read"
      <4>1. data' = data
        BY <2>3, <3>3 DEF CopyByte
      <4>2. QED
        BY <1>1, <3>1, <3>2, <3>3, <4>1 DEF CommitInv
    <3>4. CASE call[p].op = "write"
      <4>1. data' = [i \in Cells |-> IF i = call[p].offset + call[p].done THEN p ELSE data[i]]
        BY <2>3, <3>4 DEF CopyByte
      <4>2. data = [i \in Cells |-> IF i \in Bytes(call[p].offset, call[p].done) THEN p
                                    ELSE committed[i]]
        BY <3>1, <3>4 DEF CommitInv
      <4>3. data' = [i \in Cells |-> IF i \in Bytes(call'[p].offset, call'[p].done) THEN p
                                     ELSE committed'[i]]
        BY <3>1, <4>1, <4>2, OneMore
      <4>4. QED
        BY <1>1, <3>1, <3>2, <3>4, <4>3 DEF CommitInv
    <3>5. QED
      BY <1>1, <3>1, <3>3, <3>4 DEF CallInv
  <2>4. ASSUME NEW p \in Proc, CopyFails(p) \/ SpinUnlock(p) PROVE CommitInv'
    <3>1. pc[p] = "copy" /\ holder' = holder \ {p} /\ pc'[p] # "copy"
      BY <1>1, <2>4 DEF CopyFails, SpinUnlock, TypeOK
    <3>2. holder' = {}
      BY <1>1, <3>1 DEF LockInv
    <3>3. \A q \in Proc : pc'[q] # "copy"
      BY <1>1, <3>2 DEF LockInv
    <3>4. QED
      BY <1>1, <2>1, <3>2, <3>3 DEF CommitInv, TypeOK
  <2>5. ASSUME NEW p \in Proc, NEW op, NEW length, Begin(p, op, length) PROVE CommitInv'
    <3>1. /\ data' = data /\ holder' = holder
          /\ \A q \in Proc : pc'[q] = "copy" => pc[q] = "copy" /\ call'[q] = call[q]
      BY <1>1, <2>5 DEF Begin, TypeOK
    <3>2. QED
      BY <1>1, <2>1, <3>1, CommitKept
  <2>6. ASSUME NEW p \in Proc, Return(p) PROVE CommitInv'
    <3>1. /\ data' = data /\ holder' = holder
          /\ \A q \in Proc : pc'[q] = "copy" => pc[q] = "copy" /\ call'[q] = call[q]
      BY <1>1, <2>6 DEF Return, TypeOK
    <3>2. QED
      BY <1>1, <2>1, <3>1, CommitKept
  <2>7. ASSUME UNCHANGED <<data, holder, pc, call>> PROVE CommitInv'
    BY <1>1, <2>1, <2>7, CommitKept
  <2>8. QED
    BY <2>1, <2>2, <2>3, <2>4, <2>5, <2>6, <2>7, Actions DEF Open, Release, Llseek, vars
<1>4. QED
  BY <1>2, <1>3

LEMMA ViewStep == IInv /\ ViewInv /\ [Next]_vars => ViewInv'
<1> SUFFICES ASSUME IInv, ViewInv, [Next]_vars, NEW q \in Proc, pc'[q] = "copy", call'[q].op = "read"
             PROVE  buf'[q] = [i \in Cells |-> IF i \in Bytes(call'[q].offset, call'[q].done)
                                               THEN data'[i] ELSE "none"]
  BY DEF ViewInv
<1> DEFINE Seen == buf'[q] = [i \in Cells |-> IF i \in Bytes(call'[q].offset, call'[q].done)
                                              THEN data'[i] ELSE "none"]
<1>1. TypeOK /\ LockInv /\ CallInv
  BY DEF IInv
<1>2. ASSUME pc[q] = "copy", data' = data, buf'[q] = buf[q], call'[q] = call[q] PROVE Seen
  BY <1>2 DEF ViewInv
<1>3. ASSUME NEW p \in Proc, SpinLock(p) PROVE Seen
  <2>1. CASE p = q
    <3>1. /\ buf'[q] = NoBytes /\ call'[q].done = 0 /\ call'[q].offset \in Nat
      BY <1>1, <1>3, <2>1 DEF SpinLock, CallInv, TypeOK, Call
    <3>2. Bytes(call'[q].offset, call'[q].done) = {}
      BY <3>1, NoneYet
    <3>3. QED
      BY <3>1, <3>2 DEF NoBytes
  <2>2. CASE p # q
    BY <1>1, <1>2, <1>3, <2>2 DEF SpinLock, TypeOK
  <2>3. QED
    BY <2>1, <2>2
<1>4. ASSUME NEW p \in Proc, CopyByte(p) PROVE Seen
  <2>1. pc[p] = "copy" /\ pc[q] = "copy"
    BY <1>4 DEF CopyByte
  <2>2. p = q
    BY <1>1, <2>1, CopyAlone
  <2>3. /\ call[q].offset \in Nat /\ call[q].done \in Nat
        /\ call[q].op = "read" /\ call'[q].offset = call[q].offset
        /\ call'[q].done = call[q].done + 1
        /\ call[q].done < call[q].n /\ call[q].n \in Int
    BY <1>1, <1>4, <2>2 DEF CopyByte, TypeOK, Call
  <2>4. call[q].offset + call[q].done \in Cells
    BY <1>1, <2>1, <2>3, SizeAssumption DEF CallInv, Cells
  <2>5. /\ data' = data
        /\ buf'[q] = [buf[q] EXCEPT ![call[q].offset + call[q].done]
                                      = data[call[q].offset + call[q].done]]
    BY <1>1, <1>4, <2>2, <2>3 DEF CopyByte, TypeOK
  <2>6. buf[q] = [i \in Cells |-> IF i \in Bytes(call[q].offset, call[q].done)
                                  THEN data[i] ELSE "none"]
    BY <2>1, <2>3 DEF ViewInv
  <2>7. buf'[q] = [i \in Cells |-> IF i = call[q].offset + call[q].done
                                   THEN data[i] ELSE buf[q][i]]
    BY <2>4, <2>5, <2>6
  <2>8. QED
    BY <2>3, <2>5, <2>6, <2>7, OneMore
<1>5. ASSUME NEW p \in Proc, CopyFails(p) PROVE Seen
  <2>1. pc[p] = "copy" /\ p # q /\ pc[q] = "copy"
    BY <1>1, <1>5 DEF CopyFails, TypeOK
  <2>2. QED
    BY <1>1, <2>1, CopyAlone
<1>6. ASSUME NEW p \in Proc, SpinUnlock(p) \/ Return(p) PROVE Seen
  <2>1. p # q
    BY <1>1, <1>6 DEF SpinUnlock, Return, TypeOK
  <2>2. pc[q] = "copy" /\ data' = data /\ buf'[q] = buf[q] /\ call'[q] = call[q]
    BY <1>1, <1>6, <2>1 DEF SpinUnlock, Return, TypeOK
  <2>3. QED
    BY <1>2, <2>2
<1>7. ASSUME NEW p \in Proc, NEW op, NEW length, Begin(p, op, length) PROVE Seen
  BY <1>1, <1>2, <1>7 DEF Begin, TypeOK
<1>8. ASSUME UNCHANGED <<pc, data, buf, call>> PROVE Seen
  BY <1>2, <1>8
<1>9. QED
  BY <1>3, <1>4, <1>5, <1>6, <1>7, <1>8, Actions DEF Open, Release, Llseek, vars

HistoryInv == IInv /\ AmountInv /\ CommitInv /\ ViewInv

LEMMA HistoryInvariant == HSpec => []HistoryInv
<1>1. HInit => IInv /\ AmountInv /\ CommitInv /\ ViewInv
  <2> SUFFICES ASSUME HInit PROVE IInv /\ AmountInv /\ CommitInv /\ ViewInv
    OBVIOUS
  <2>1. Init /\ committed = data /\ IInv /\ \A p \in Proc : pc[p] = "idle"
    BY IInvInit DEF HInit, Init
  <2>2. QED
    BY <2>1 DEF IInv, TypeOK, AmountInv, CommitInv, ViewInv
<1>2. HistoryInv /\ [HNext]_hvars => AmountInv' /\ CommitInv' /\ ViewInv'
  <2>1. [HNext]_hvars => [Next]_vars
    BY DEF HNext, hvars
  <2>2. QED
    BY <2>1, AmountStep, CommitStep, ViewStep DEF HistoryInv, IInv
<1>3. QED
  BY <1>1, <1>2, DeviceInvariant, PTL DEF HSpec, HistoryInv

-----------------------------------------------------------------------------
(* The refinement.                                                         *)

\* The two functions that the refinement substitutes for variables.
Doing == [p \in Proc |-> AbstractCall(p)]
View  == [p \in Proc |-> IF pc[p] = "return" THEN buf[p] ELSE NoBytes]

\* A step of one process changes its own call only.
LEMMA OwnCall ==
  ASSUME NEW p \in Proc, \A q \in Proc : q # p => pc'[q] = pc[q] /\ call'[q] = call[q]
  PROVE  Doing' = [Doing EXCEPT ![p] = AbstractCall(p)']
BY DEF Doing, AbstractCall

LEMMA OwnView ==
  ASSUME NEW p \in Proc, \A q \in Proc : q # p => pc'[q] = pc[q] /\ buf'[q] = buf[q]
  PROVE  View' = [View EXCEPT ![p] = IF pc'[p] = "return" THEN buf'[p] ELSE NoBytes]
BY DEF View, NoBytes

\* What the abstract device sees of a call.
LEMMA Stages ==
  ASSUME TypeOK, NEW p \in Proc
  PROVE  /\ pc[p] = "idle" => Doing[p] = Atomic!Nothing
         /\ pc[p] \in {"spin", "copy"} =>
              Doing[p] = [stage |-> "asked", op |-> call[p].op, length |-> call[p].length,
                          at |-> call[p].offset]
         /\ pc[p] = "return" =>
              Doing[p] = [stage |-> "answered", op |-> call[p].op, length |-> call[p].length,
                          at |-> call[p].offset]
BY DEF TypeOK, Doing, AbstractCall, Atomic!Nothing

LEMMA BeginAsks ==
  ASSUME TypeOK, committed' = committed, NEW p \in Proc, NEW op \in {"read", "write"},
         NEW length \in 0 .. Size, Begin(p, op, length)
  PROVE  Atomic!Ask(p)
<1>1. /\ pc[p] = "idle" /\ UNCHANGED <<file, fpos, buf>>
      /\ \A q \in Proc : q # p => pc'[q] = pc[q] /\ call'[q] = call[q]
      /\ pc'[p] = "spin"
      /\ call'[p] = [op |-> op, length |-> length, offset |-> fpos[file[p]], n |-> 0, done |-> 0]
  BY DEF Begin, TypeOK
<1>2. Doing[p] = Atomic!Nothing
  BY <1>1, Stages
<1>3. Doing' = [Doing EXCEPT ![p] = [stage |-> "asked", op |-> op, length |-> length,
                                     at |-> fpos[file[p]]]]
  <2>1. AbstractCall(p)' = [stage |-> "asked", op |-> op, length |-> length, at |-> fpos[file[p]]]
    BY <1>1 DEF AbstractCall
  <2>2. QED
    BY <1>1, <2>1, OwnCall
<1>4. View' = View
  <2>1. View' = [View EXCEPT ![p] = IF pc'[p] = "return" THEN buf'[p] ELSE NoBytes]
    BY <1>1, OwnView
  <2>2. View[p] = NoBytes /\ View = [q \in Proc |-> View[q]]
    BY <1>1 DEF View
  <2>3. QED
    BY <1>1, <2>1, <2>2
<1>5. QED
  BY <1>1, <1>2, <1>3, <1>4 DEF Atomic!Ask, Doing, View

LEMMA UnlockPerforms ==
  ASSUME HistoryInv, NEW p \in Proc, SpinUnlock(p),
         committed' = IF holder' = {} THEN data' ELSE committed
  PROVE  Atomic!Perform(p)
<1> DEFINE n == call[p].n
<1>1. TypeOK /\ LockInv /\ CallInv /\ AmountInv /\ CommitInv /\ ViewInv
  BY DEF HistoryInv, IInv
<1>2. /\ pc[p] = "copy" /\ call[p].done = n /\ UNCHANGED <<file, fpos, data, buf>>
      /\ \A q \in Proc : q # p => pc'[q] = pc[q] /\ call'[q] = call[q]
      /\ pc'[p] = "return"
      /\ call'[p] = [call[p] EXCEPT !.offset = @ + n]
      /\ holder' = {}
  BY <1>1 DEF SpinUnlock, TypeOK, LockInv
<1>3. /\ n \in Nat /\ n <= call[p].length /\ call[p].length \in Nat /\ call[p].offset \in Nat
      /\ call[p].op \in {"read", "write"}
  BY <1>1, <1>2 DEF TypeOK, Call, AmountInv, CallInv
<1>4. Doing[p] = [stage |-> "asked", op |-> call[p].op, length |-> call[p].length,
                  at |-> call[p].offset]
  BY <1>1, <1>2, Stages
<1>5. Doing' = [Doing EXCEPT ![p] = Atomic!Answered(Doing[p], n)]
  <2>1. AbstractCall(p)' = [stage |-> "answered", op |-> call[p].op, length |-> call[p].length,
                            at |-> call[p].offset + n]
    BY <1>1, <1>2, <1>3 DEF AbstractCall, TypeOK, Call
  <2>2. AbstractCall(p)' = Atomic!Answered(Doing[p], n)
    BY <1>4, <2>1 DEF Atomic!Answered
  <2>3. QED
    BY <1>2, <2>2, OwnCall
<1>6. View' = [View EXCEPT ![p] = buf[p]]
  BY <1>2, OwnView
<1>7. committed' = data
  BY <1>2
<1>8. Doing[p].stage = "asked" /\ n \in 0 .. Doing[p].length /\ Doing[p].op = call[p].op
  BY <1>3, <1>4
<1>9. CASE call[p].op = "read"
  <2>1. View' = [View EXCEPT ![p] =
                   [i \in Cells |-> IF i \in Bytes(call[p].offset, call[p].done)
                                    THEN committed[i] ELSE "none"]]
    BY <1>1, <1>2, <1>6, <1>9 DEF ViewInv, CommitInv
  <2>2. committed' = committed
    BY <1>1, <1>2, <1>7, <1>9 DEF CommitInv
  <2>3. View' = [View EXCEPT ![p] = Atomic!Shown(Doing[p].at, n)]
    BY <1>2, <1>4, <2>1 DEF Atomic!Shown, Atomic!Bytes, Atomic!Cells, Bytes, Cells
  <2> HIDE DEF n
  <2>4. QED
    BY <1>2, <1>5, <1>8, <1>9, <2>2, <2>3 DEF Atomic!Perform, Doing, View
<1>10. CASE call[p].op = "write"
  <2>1. committed' = [i \in Cells |-> IF i \in Bytes(call[p].offset, call[p].done) THEN p
                                      ELSE committed[i]]
    BY <1>1, <1>2, <1>7, <1>10 DEF CommitInv
  <2>2. View' = View
    <3>1. buf[p] = NoBytes
      BY <1>1, <1>2, <1>10 DEF CallInv
    <3>2. View[p] = NoBytes /\ View = [q \in Proc |-> View[q]]
      BY <1>2 DEF View
    <3>3. QED
      BY <1>6, <3>1, <3>2
  <2>3. committed' = Atomic!Written(p, Doing[p].at, n)
    BY <1>2, <1>4, <2>1 DEF Atomic!Written, Atomic!Bytes, Atomic!Cells, Bytes, Cells
  <2> HIDE DEF n
  <2>4. QED
    BY <1>2, <1>5, <1>8, <1>10, <2>2, <2>3 DEF Atomic!Perform, Doing, View
<1>11. QED
  BY <1>3, <1>9, <1>10

LEMMA FaultFails ==
  ASSUME HistoryInv, NEW p \in Proc, CopyFails(p),
         committed' = IF holder' = {} THEN data' ELSE committed
  PROVE  Atomic!Fail(p)
<1> DEFINE n == call[p].n
           k == call[p].done
           at == call[p].offset
<1>1. TypeOK /\ LockInv /\ CallInv /\ AmountInv /\ CommitInv
  BY DEF HistoryInv, IInv
<1>2. /\ pc[p] = "copy" /\ UNCHANGED <<file, fpos>>
      /\ \A q \in Proc : q # p => pc'[q] = pc[q] /\ call'[q] = call[q] /\ buf'[q] = buf[q]
      /\ pc'[p] = "idle"
      /\ holder' = {}
  BY <1>1 DEF CopyFails, TypeOK, LockInv
<1>3. /\ n \in Int /\ n <= call[p].length /\ k \in Nat /\ call[p].length \in Nat /\ at \in Nat
      /\ call[p].op \in {"read", "write"}
  BY <1>1, <1>2 DEF TypeOK, Call, AmountInv, CallInv
<1>4. Doing[p] = [stage |-> "asked", op |-> call[p].op, length |-> call[p].length, at |-> at]
  BY <1>1, <1>2, Stages
<1>5. Doing' = [Doing EXCEPT ![p] = Atomic!Nothing]
  <2>1. AbstractCall(p)' = Atomic!Nothing
    BY <1>2 DEF AbstractCall, Atomic!Nothing
  <2>2. QED
    BY <1>2, <2>1, OwnCall
<1>6. View' = View
  <2>1. View' = [View EXCEPT ![p] = NoBytes]
    BY <1>2, OwnView
  <2>2. View[p] = NoBytes /\ View = [q \in Proc |-> View[q]]
    BY <1>2 DEF View
  <2>3. QED
    BY <2>1, <2>2
<1>7. committed' = data'
  BY <1>2
<1>8. CASE call[p].op = "read"
  <2>1. committed' = committed
    BY <1>1, <1>2, <1>7, <1>8 DEF CopyFails, CommitInv
  <2>2. QED
    BY <1>2, <1>4, <1>5, <1>6, <1>8, <2>1 DEF Atomic!Fail, Doing, View
<1>9. CASE call[p].op = "write"
  <2>1. n \in 0 .. call[p].length /\ k \in 0 .. n
    BY <1>1, <1>2, <1>3, <1>9 DEF CallInv
  <2>2. data = [i \in Cells |-> IF i \in Bytes(at, k) THEN p ELSE committed[i]]
    BY <1>1, <1>2, <1>9 DEF CommitInv
  <2> DEFINE rest == {at + j : j \in k .. n - 1}
  <2>3. data' = [i \in Cells |-> IF i \in rest THEN "zero" ELSE data[i]]
    BY <1>9 DEF CopyFails
  <2>4. \A i \in Cells : i \in rest <=> i \in Bytes(at, n) /\ i \notin Bytes(at, k)
    <3>1. ASSUME NEW i \in Cells PROVE i \in rest <=> at + k <= i /\ i < at + n
      <4>1. i \in Int /\ i = at + (i - at)
        BY <1>3 DEF Cells
      <4>2. ASSUME at + k <= i, i < at + n PROVE i \in rest
        <5>1. i - at \in k .. n - 1
          BY <1>3, <4>1, <4>2
        <5>2. QED
          BY <4>1, <5>1
      <4>3. ASSUME i \in rest PROVE at + k <= i /\ i < at + n
        BY <1>3, <4>3
      <4>4. QED
        BY <4>2, <4>3
    <3>2. QED
      BY <1>3, <2>1, <3>1 DEF Bytes, Cells
  <2>5. committed' = [i \in Cells |-> IF i \in Bytes(at, k) THEN p
                                      ELSE IF i \in Bytes(at, n) THEN "zero"
                                      ELSE committed[i]]
    <3>1. \A i \in Cells : i \in Bytes(at, k) => i \in Bytes(at, n)
      BY <1>3, <2>1 DEF Bytes, Cells
    <3>2. QED
      BY <1>7, <2>2, <2>3, <2>4, <3>1
  <2>6. /\ Atomic!Bytes(Doing[p].at, k) = Bytes(at, k)
        /\ Atomic!Bytes(Doing[p].at, n) = Bytes(at, n)
        /\ Atomic!Cells = Cells
    BY <1>4 DEF Atomic!Bytes, Atomic!Cells, Bytes, Cells
  <2>7. /\ Doing[p].stage = "asked" /\ Doing[p].op = "write"
        /\ n \in 0 .. Doing[p].length /\ k \in 0 .. n
    BY <1>4, <1>9, <2>1
  <2>8. committed' = [i \in Atomic!Cells |->
                        IF i \in Atomic!Bytes(Doing[p].at, k) THEN p
                        ELSE IF i \in Atomic!Bytes(Doing[p].at, n) THEN "zero"
                        ELSE committed[i]]
    BY <2>5, <2>6
  <2> HIDE DEF n, k, at
  <2>9. QED
    BY <1>2, <1>5, <1>6, <2>7, <2>8 DEF Atomic!Fail, Doing, View
<1>10. QED
  BY <1>3, <1>8, <1>9

LEMMA ReturnAnswers ==
  ASSUME TypeOK, committed' = committed, NEW p \in Proc, Return(p)
  PROVE  Atomic!Answer(p)
<1>1. /\ pc[p] = "return" /\ UNCHANGED file
      /\ fpos' = [fpos EXCEPT ![file[p]] = call[p].offset]
      /\ \A q \in Proc : q # p => pc'[q] = pc[q] /\ call'[q] = call[q] /\ buf'[q] = buf[q]
      /\ pc'[p] = "idle"
  BY DEF Return, TypeOK
<1>2. Doing[p].stage = "answered" /\ Doing[p].at = call[p].offset
  <2>1. Doing[p] = [stage |-> "answered", op |-> call[p].op, length |-> call[p].length,
                    at |-> call[p].offset]
    BY <1>1, Stages
  <2>2. QED
    BY <2>1
<1>3. Doing' = [Doing EXCEPT ![p] = Atomic!Nothing]
  <2>1. AbstractCall(p)' = Atomic!Nothing
    BY <1>1 DEF AbstractCall, Atomic!Nothing
  <2>2. QED
    BY <1>1, <2>1, OwnCall
<1>4. View' = [View EXCEPT ![p] = Atomic!Blank]
  BY <1>1, OwnView DEF NoBytes, Atomic!Blank, Atomic!Cells, Cells
<1>5. QED
  BY <1>1, <1>2, <1>3, <1>4 DEF Atomic!Answer, Doing, View

\* Taking the lock and copying a byte are not seen.
LEMMA InsideStutters ==
  ASSUME HistoryInv, CommitInv', NEW p \in Proc, SpinLock(p) \/ CopyByte(p),
         committed' = IF holder' = {} THEN data' ELSE committed
  PROVE  UNCHANGED Atomic!vars
<1>1. TypeOK /\ LockInv
  BY DEF HistoryInv, IInv
<1>2. /\ UNCHANGED <<file, fpos>> /\ holder' # {}
      /\ pc[p] \in {"spin", "copy"} /\ pc'[p] = "copy"
      /\ \A q \in Proc : q # p => pc'[q] = pc[q] /\ call'[q] = call[q] /\ buf'[q] = buf[q]
      /\ call'[p].op = call[p].op /\ call'[p].length = call[p].length
      /\ call'[p].offset = call[p].offset
  <2>1. CASE SpinLock(p)
    BY <1>1, <2>1 DEF SpinLock, TypeOK, Call
  <2>2. CASE CopyByte(p)
    BY <1>1, <2>2 DEF CopyByte, TypeOK, Call, LockInv
  <2>3. QED
    BY <2>1, <2>2
<1>3. committed' = committed
  BY <1>2
<1>4. Doing' = Doing
  BY <1>2 DEF Doing, AbstractCall
<1>5. View' = View
  BY <1>2 DEF View
<1>6. QED
  BY <1>2, <1>3, <1>4, <1>5 DEF Atomic!vars, Doing, View

\* Every step of the device is a step of the atomic one, or is not seen.
LEMMA StepRefines ==
  ASSUME HistoryInv, CommitInv', HNext
  PROVE  [Atomic!Next]_(Atomic!vars)
<1>1. TypeOK /\ CommitInv /\ Next /\ committed' = (IF holder' = {} THEN data' ELSE committed)
  BY DEF HistoryInv, IInv, HNext
<1>2. ASSUME data' = data, holder' = holder PROVE committed' = committed
  BY <1>1, <1>2 DEF CommitInv
<1>3. ASSUME NEW f \in File, Open(f) PROVE Atomic!Rewind(f)
  <2>1. /\ fpos' = [fpos EXCEPT ![f] = 0] /\ UNCHANGED <<file, data, holder, pc, call, buf>>
    BY <1>3 DEF Open
  <2>2. Doing' = Doing /\ View' = View /\ committed' = committed
    BY <1>2, <2>1 DEF Doing, View, AbstractCall
  <2>3. \A p \in Proc : file[p] = f => Doing[p] = Atomic!Nothing
    <3>1. \A p \in Proc : file[p] = f => pc[p] = "idle"
      BY <1>3 DEF Open, HistoryInv, IInv, OpenInv
    <3>2. QED
      BY <1>1, <3>1, Stages
  <2>4. QED
    BY <2>1, <2>2, <2>3 DEF Atomic!Rewind, Doing, View
<1>4. ASSUME NEW f \in File, Release(f) PROVE UNCHANGED Atomic!vars
  <2>1. UNCHANGED <<file, fpos, data, holder, pc, call, buf>>
    BY <1>4 DEF Release
  <2>2. Doing' = Doing /\ View' = View /\ committed' = committed
    BY <1>2, <2>1 DEF Doing, View, AbstractCall
  <2>3. QED
    BY <2>1, <2>2 DEF Atomic!vars, Doing, View
<1>5. ASSUME NEW p \in Proc, Llseek(p) PROVE Atomic!Seek(p)
  <2>1. /\ pc[p] = "idle" /\ UNCHANGED <<file, data, holder, pc, call, buf>>
        /\ \E new \in 0 .. Size : fpos' = [fpos EXCEPT ![file[p]] = new]
    BY <1>5 DEF Llseek
  <2>2. Doing' = Doing /\ View' = View /\ committed' = committed /\ Doing[p] = Atomic!Nothing
    BY <1>1, <1>2, <2>1, Stages DEF Doing, View, AbstractCall
  <2>3. QED
    BY <2>1, <2>2 DEF Atomic!Seek, Doing, View
<1>6. ASSUME NEW p \in Proc, Read(p) \/ Write(p) PROVE Atomic!Ask(p)
  <2>1. PICK op \in {"read", "write"}, length \in 0 .. Size : Begin(p, op, length)
    BY <1>6, SizeAssumption DEF Read, Write
  <2>2. committed' = committed
    BY <1>2, <2>1 DEF Begin
  <2>3. QED
    BY <1>1, <2>1, <2>2, BeginAsks
<1>7. ASSUME NEW p \in Proc, Return(p) PROVE Atomic!Answer(p)
  <2>1. committed' = committed
    BY <1>2, <1>7 DEF Return
  <2>2. QED
    BY <1>1, <1>7, <2>1, ReturnAnswers
<1>8. ASSUME NEW p \in Proc, SpinLock(p) \/ CopyByte(p) PROVE UNCHANGED Atomic!vars
  BY <1>1, <1>8, InsideStutters
<1>9. ASSUME NEW p \in Proc, SpinUnlock(p) PROVE Atomic!Perform(p)
  BY <1>1, <1>9, UnlockPerforms
<1>10. ASSUME NEW p \in Proc, CopyFails(p) PROVE Atomic!Fail(p)
  BY <1>1, <1>10, FaultFails
<1>11. QED
  BY <1>1, <1>3, <1>4, <1>5, <1>6, <1>7, <1>8, <1>9, <1>10 DEF Next, InCall, Atomic!Next

\* The device implements the atomic one: whatever any number of processes
\* read and write at the same time, byte by byte and with faults in the middle,
\* could have come about one whole call after the other.
THEOREM DeviceIsAtomic == HSpec => ImplementsAtomicDevice
<1>1. HInit => Atomic!Init
  <2> SUFFICES ASSUME HInit PROVE Atomic!Init
    OBVIOUS
  <2>1. /\ file \in [Proc -> File] /\ committed = [i \in Cells |-> "init"]
        /\ fpos = [f \in File |-> 0] /\ pc = [p \in Proc |-> "idle"]
    BY DEF HInit, Init
  <2>2. /\ Doing = [p \in Proc |-> Atomic!Nothing]
        /\ View = [p \in Proc |-> Atomic!Blank]
    BY <2>1 DEF Doing, View, AbstractCall, NoBytes, Atomic!Nothing, Atomic!Blank, Atomic!Cells, Cells
  <2>3. QED
    BY <2>1, <2>2 DEF Atomic!Init, Atomic!Cells, Cells, Doing, View
<1>2. HistoryInv /\ HistoryInv' /\ [HNext]_hvars => [Atomic!Next]_(Atomic!vars)
  <2>1. ASSUME UNCHANGED hvars PROVE UNCHANGED Atomic!vars
    BY <2>1 DEF hvars, vars, Atomic!vars, AbstractCall
  <2>2. QED
    BY <2>1, StepRefines DEF HistoryInv
<1>3. QED
  BY <1>1, <1>2, HistoryInvariant, PTL DEF HSpec, ImplementsAtomicDevice, Atomic!Spec
=============================================================================
