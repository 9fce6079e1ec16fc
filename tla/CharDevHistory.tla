--------------------------- MODULE CharDevHistory ---------------------------
(***************************************************************************)
(* CharDev with a history variable, and the proof obligation it is for:    *)
(* the device implements AtomicDevice.  While a write is copying, the      *)
(* buffer is none that the atomic device ever has; committed is the buffer *)
(* as it was when the lock was last free.                                  *)
(***************************************************************************)
EXTENDS CharDev

VARIABLE committed

hvars == <<vars, committed>>

HInit == Init /\ committed = data

HNext == Next /\ committed' = IF holder' = {} THEN data' ELSE committed

HSpec == HInit /\ [][HNext]_hvars

HFairSpec == HSpec /\ Fairness

\* The refinement: a call takes effect when it gives the lock back.
AbstractCall(p) ==
  IF pc[p] = "idle" THEN [stage |-> "none", op |-> "none", length |-> 0, at |-> 0]
  ELSE [stage  |-> IF pc[p] = "return" THEN "answered" ELSE "asked",
        op     |-> call[p].op,
        length |-> call[p].length,
        at     |-> call[p].offset]

Atomic == INSTANCE AtomicDevice WITH
  content  <- committed,
  position <- fpos,
  doing    <- [p \in Proc |-> AbstractCall(p)],
  view     <- [p \in Proc |-> IF pc[p] = "return" THEN buf[p] ELSE NoBytes]

\* Reads and writes of any processes, interleaved byte by byte, are those of a
\* device on which each of them is one step: a read returns the buffer as it
\* was at one moment, a write is there as a whole or not at all, one that
\* faults is there as a whole with the zeros after it and leaves the position
\* alone, and a call moves the position its file had at the start by what it
\* has done, once, and nothing else but a seek moves it.
ImplementsAtomicDevice == Atomic!Spec
=============================================================================
