----------------------------- MODULE Xdp_proofs -----------------------------
(***************************************************************************)
(* Proofs about Xdp for any set of CPUs, any size of a word and any bounds *)
(* on the clock and the number of packets.                                 *)
(***************************************************************************)
EXTENDS Xdp, FiniteSetTheorems, TLAPS

LEMMA Actions ==
  ASSUME [Next]_vars
  PROVE  \/ \E c \in Cpu : Receive(c)
         \/ \E c \in Cpu : Choose(c) \/ Forward(c) \/ Return(c)
         \/ \E c \in Cpu : LoadCount(c) \/ StoreCount(c) \/ ReadTime(c)
         \/ \E c \in Cpu : ResetCount(c) \/ Stamp(c) \/ SameWindow(c)
         \/ Tick
         \/ UNCHANGED vars
BY DEF Next, Balance, Count

-----------------------------------------------------------------------------
(* The types.                                                              *)

Places == {"idle", "balance", "forward", "count", "store", "time", "window", "stamp"}

PacketInv ==
  /\ program \in {"balance", "count"}
  /\ pc \in [Cpu -> Places]
  /\ pkt \in [Cpu -> IpHeader \cup {NoPacket, [syn |-> TRUE]}]
  /\ received \in 0 .. MaxPackets
  /\ busy \in 0 .. MaxPackets
  /\ busy <= received

BalanceTypeInv ==
  /\ round_robin \in {0, 1}
  /\ key \in [Cpu -> {0, 1}]
  /\ sent \in [{0, 1} -> Nat]

CountTypeInv ==
  /\ syn_count \in Nat
  /\ last_syn_time \in 0 .. MaxTime
  /\ loaded \in [Cpu -> Nat]
  /\ time \in [Cpu -> 0 .. MaxTime]
  /\ now \in 0 .. MaxTime
  /\ syns \in Seq(0 .. MaxTime)
  /\ last_syn_time <= now
  /\ \A c \in Cpu : time[c] <= now

TypeInv == PacketInv /\ BalanceTypeInv /\ CountTypeInv

LEMMA PacketStep == PacketInv /\ [Next]_vars => PacketInv'
<1> SUFFICES ASSUME PacketInv, [Next]_vars PROVE PacketInv'
  OBVIOUS
<1> USE DEF PacketInv, Places, Goto
<1>1. ASSUME NEW c \in Cpu, Receive(c) PROVE PacketInv'
  <2>1. pkt' \in [Cpu -> IpHeader \cup {NoPacket, [syn |-> TRUE]}]
    BY <1>1 DEF Receive, Packet
  <2>2. received' \in 0 .. MaxPackets /\ busy' \in 0 .. MaxPackets /\ busy' <= received'
    BY <1>1, XdpAssumption DEF Receive
  <2>3. pc' \in [Cpu -> Places] /\ program' = program
    BY <1>1 DEF Receive
  <2>4. QED
    BY <2>1, <2>2, <2>3
<1>2. ASSUME NEW c \in Cpu, Choose(c) \/ Forward(c) \/ Return(c) PROVE PacketInv'
  BY <1>2 DEF Choose, Forward, Return, arrivals
<1>3. ASSUME NEW c \in Cpu, LoadCount(c) \/ StoreCount(c) \/ ReadTime(c) PROVE PacketInv'
  BY <1>3 DEF LoadCount, StoreCount, ReadTime, arrivals
<1>4. ASSUME NEW c \in Cpu, ResetCount(c) \/ Stamp(c) \/ SameWindow(c) PROVE PacketInv'
  BY <1>4 DEF ResetCount, Stamp, SameWindow, arrivals
<1>5. CASE Tick \/ UNCHANGED vars
  BY <1>5 DEF Tick, vars, arrivals
<1>6. QED
  BY <1>1, <1>2, <1>3, <1>4, <1>5, Actions

LEMMA BalanceTypeStep == BalanceTypeInv /\ [Next]_vars => BalanceTypeInv'
<1> SUFFICES ASSUME BalanceTypeInv, [Next]_vars PROVE BalanceTypeInv'
  OBVIOUS
<1> USE DEF BalanceTypeInv
<1>1. ASSUME NEW c \in Cpu, Choose(c) PROVE BalanceTypeInv'
  BY <1>1 DEF Choose
<1>2. ASSUME NEW c \in Cpu, Forward(c) PROVE BalanceTypeInv'
  BY <1>2 DEF Forward
<1>3. ASSUME NEW c \in Cpu, Receive(c) \/ Return(c) PROVE BalanceTypeInv'
  BY <1>3 DEF Receive, Return, balancer
<1>4. ASSUME NEW c \in Cpu, LoadCount(c) \/ StoreCount(c) \/ ReadTime(c) PROVE BalanceTypeInv'
  BY <1>4 DEF LoadCount, StoreCount, ReadTime, balancer
<1>5. ASSUME NEW c \in Cpu, ResetCount(c) \/ Stamp(c) \/ SameWindow(c) PROVE BalanceTypeInv'
  BY <1>5 DEF ResetCount, Stamp, SameWindow, balancer
<1>6. CASE Tick \/ UNCHANGED vars
  BY <1>6 DEF Tick, vars, balancer
<1>7. QED
  BY <1>1, <1>2, <1>3, <1>4, <1>5, <1>6, Actions

LEMMA CountTypeStep == CountTypeInv /\ [Next]_vars => CountTypeInv'
<1> SUFFICES ASSUME CountTypeInv, [Next]_vars PROVE CountTypeInv'
  OBVIOUS
<1> USE DEF CountTypeInv
<1>1. ASSUME UNCHANGED counter PROVE CountTypeInv'
  BY <1>1 DEF counter
<1>2. ASSUME NEW c \in Cpu, Receive(c) \/ Choose(c) \/ Forward(c) \/ Return(c) PROVE CountTypeInv'
  <2>1. UNCHANGED counter
    BY <1>2 DEF Receive, Choose, Forward, Return, counter
  <2>2. QED
    BY <1>1, <2>1
<1>3. ASSUME NEW c \in Cpu, LoadCount(c) PROVE CountTypeInv'
  <2>1. loaded' = [loaded EXCEPT ![c] = syn_count] /\ UNCHANGED <<syn_count, last_syn_time, time, now, syns>>
    BY <1>3 DEF LoadCount
  <2>2. loaded' \in [Cpu -> Nat]
    BY <2>1
  <2>3. QED
    BY <2>1, <2>2
<1>4. ASSUME NEW c \in Cpu, StoreCount(c) PROVE CountTypeInv'
  <2>1. syn_count' = loaded[c] + 1 /\ UNCHANGED <<last_syn_time, loaded, time, now, syns>>
    BY <1>4 DEF StoreCount
  <2>2. syn_count' \in Nat
    BY <2>1
  <2>3. QED
    BY <2>1, <2>2
<1>5. ASSUME NEW c \in Cpu, ReadTime(c) PROVE CountTypeInv'
  <2>1. /\ time' = [time EXCEPT ![c] = now] /\ syns' = Append(syns, now)
        /\ UNCHANGED <<syn_count, last_syn_time, loaded, now>>
    BY <1>5 DEF ReadTime
  <2>2. time' \in [Cpu -> 0 .. MaxTime] /\ \A d \in Cpu : time'[d] <= now
    BY <2>1
  <2>3. syns' \in Seq(0 .. MaxTime)
    BY <2>1
  <2>4. QED
    BY <2>1, <2>2, <2>3
<1>6. ASSUME NEW c \in Cpu, ResetCount(c) PROVE CountTypeInv'
  BY <1>6 DEF ResetCount
<1>7. ASSUME NEW c \in Cpu, Stamp(c) PROVE CountTypeInv'
  <2>1. last_syn_time' = time[c] /\ UNCHANGED <<syn_count, loaded, time, now, syns>>
    BY <1>7 DEF Stamp
  <2>2. QED
    BY <2>1
<1>8. ASSUME NEW c \in Cpu, SameWindow(c) PROVE CountTypeInv'
  <2>1. UNCHANGED counter
    BY <1>8 DEF SameWindow
  <2>2. QED
    BY <1>1, <2>1
<1>9. CASE Tick
  <2>1. now < MaxTime /\ now' = now + 1 /\ UNCHANGED <<syn_count, last_syn_time, loaded, time, syns>>
    BY <1>9 DEF Tick
  <2>2. now' \in 0 .. MaxTime
    BY <2>1, XdpAssumption
  <2>3. last_syn_time <= now' /\ \A d \in Cpu : time[d] <= now'
    BY <2>1, XdpAssumption
  <2>4. QED
    BY <2>1, <2>2, <2>3
<1>10. CASE UNCHANGED vars
  <2>1. UNCHANGED counter
    BY <1>10 DEF vars
  <2>2. QED
    BY <1>1, <2>1
<1>11. QED
  BY <1>2, <1>3, <1>4, <1>5, <1>6, <1>7, <1>8, <1>9, <1>10, Actions

LEMMA TypeInvariant == Spec => []TypeInv
<1>1. Init => TypeInv
  BY XdpAssumption DEF Init, TypeInv, PacketInv, BalanceTypeInv, CountTypeInv, Places
<1>2. TypeInv /\ [Next]_vars => TypeInv'
  BY PacketStep, BalanceTypeStep, CountTypeStep DEF TypeInv
<1>3. QED
  BY <1>1, <1>2, PTL DEF Spec

\* Type correctness; in particular the key that the load balancer looks up is
\* an index of the map of backends.
THEOREM TypeCorrect == Spec => []TypeOK
<1>1. TypeInv => TypeOK
  BY DEF TypeInv, PacketInv, BalanceTypeInv, CountTypeInv, TypeOK, Places
<1>2. QED
  BY <1>1, TypeInvariant, PTL

-----------------------------------------------------------------------------
(* The load balancer.                                                      *)

Active == {c \in Cpu : pc[c] # "idle"}

\* How far the backends are from the turn that round_robin says it is.
Drift == sent[0] - sent[1] - round_robin

\* Every packet that comes while others are handled allows for a drift of two,
\* half of which is in use until it is sent.  The one packet that came first
\* allows for none, but as long as nobody has overtaken it, its key is the one
\* that it is the turn of.
Within(bound) == -2 * bound <= Drift /\ Drift <= 2 * bound

BalanceInv ==
  /\ IsFiniteSet(Active)
  /\ \/ Within(busy - Cardinality(Active))
     \/ /\ Within(busy - Cardinality(Active) + 1)
        /\ Active # {}
        /\ \A c \in Cpu : pc[c] = "forward" => key[c] = round_robin

\* A packet leaves: one CPU is active no more.
LEMMA Leaves ==
  ASSUME TypeInv, BalanceInv, NEW c \in Cpu, pc[c] # "idle", pc' = [pc EXCEPT ![c] = "idle"]
  PROVE  IsFiniteSet(Active') /\ Cardinality(Active') = Cardinality(Active) - 1
<1>1. c \in Active /\ Active' = Active \ {c}
  BY DEF Active, TypeInv, PacketInv
<1>2. QED
  BY <1>1, FS_RemoveElement DEF BalanceInv

LEMMA BalanceStep == TypeInv /\ BalanceInv /\ [Next]_vars => BalanceInv'
<1> SUFFICES ASSUME TypeInv, BalanceInv, [Next]_vars PROVE BalanceInv'
  OBVIOUS
<1>1. /\ pc \in [Cpu -> Places] /\ round_robin \in {0, 1} /\ key \in [Cpu -> {0, 1}]
      /\ sent[0] \in Nat /\ sent[1] \in Nat /\ sent \in [{0, 1} -> Nat] /\ busy \in Nat
      /\ IsFiniteSet(Active) /\ Cardinality(Active) \in Nat
  BY FS_CardinalityType DEF TypeInv, PacketInv, BalanceTypeInv, BalanceInv
<1>2. ASSUME NEW c \in Cpu, Receive(c) PROVE BalanceInv'
  <2>1. Active' = Active \cup {c} /\ c \notin Active
    BY <1>1, <1>2 DEF Receive, Goto, Active, TypeInv, PacketInv
  <2>2. IsFiniteSet(Active') /\ Cardinality(Active') = Cardinality(Active) + 1
    BY <1>1, <2>1, FS_AddElement
  <2>3. Drift' = Drift /\ UNCHANGED <<round_robin, key>>
    BY <1>2 DEF Receive, Drift, balancer
  <2>4. \A d \in Cpu : pc'[d] = "forward" => pc[d] = "forward"
    BY <1>1, <1>2 DEF Receive, Goto, TypeInv, PacketInv
  <2>5. CASE Active = {}
    <3>1. busy' = busy /\ Cardinality(Active) = 0
      BY <1>2, <2>5, FS_EmptySet DEF Receive, Active
    <3>2. Within(busy - Cardinality(Active)) /\ \A d \in Cpu : pc'[d] # "forward"
      BY <2>4, <2>5 DEF BalanceInv, Active
    <3>3. QED
      BY <1>1, <2>1, <2>2, <2>3, <3>1, <3>2 DEF BalanceInv, Within, Drift
  <2>6. CASE Active # {}
    <3>1. busy' = busy + 1
      BY <1>2, <2>6 DEF Receive, Active
    <3>2. busy' - Cardinality(Active') = busy - Cardinality(Active)
      BY <1>1, <2>2, <3>1
    <3>3. \A bound : Within(bound)' <=> Within(bound)
      BY <2>3 DEF Within
    <3>4. QED
      BY <1>1, <2>1, <2>2, <2>3, <2>4, <3>2, <3>3 DEF BalanceInv, Within
  <2>7. QED
    BY <2>5, <2>6
<1>3. ASSUME NEW c \in Cpu, Choose(c) PROVE BalanceInv'
  <2>1. Active' = Active
    BY <1>1, <1>3 DEF Choose, Goto, Active
  <2>2. UNCHANGED <<busy, round_robin, sent>> /\ key'[c] = round_robin
    BY <1>1, <1>3 DEF Choose, arrivals
  <2>3. \A d \in Cpu : d # c => pc'[d] = pc[d] /\ key'[d] = key[d]
    BY <1>1, <1>3 DEF Choose, Goto
  <2>4. \A bound : Within(bound)' <=> Within(bound)
    BY <2>2 DEF Within, Drift
  <2>5. QED
    BY <2>1, <2>2, <2>3, <2>4 DEF BalanceInv, Within, Drift
<1>4. ASSUME NEW c \in Cpu, Forward(c) PROVE BalanceInv'
  <2>1. IsFiniteSet(Active') /\ Cardinality(Active') = Cardinality(Active) - 1
    BY <1>4, Leaves DEF Forward, Goto
  <2>2. PICK v \in {round_robin, key[c]} : round_robin' = (v + 1) % 2
    BY <1>4 DEF Forward
  <2>3. /\ key[c] \in {0, 1} /\ busy' = busy
        /\ key[c] = 0 => sent'[0] = sent[0] + 1 /\ sent'[1] = sent[1]
        /\ key[c] = 1 => sent'[1] = sent[1] + 1 /\ sent'[0] = sent[0]
    BY <1>1, <1>4 DEF Forward, arrivals
  <2>4. /\ v = 0 => round_robin' = 1
        /\ v = 1 => round_robin' = 0
        /\ v \in {0, 1}
    BY <1>1, <2>2, <2>3
  <2>5. /\ Drift - 2 <= Drift' /\ Drift' <= Drift + 2
        /\ key[c] = round_robin => Drift' = Drift
    BY <1>1, <2>2, <2>3, <2>4 DEF Drift
  <2>6. Drift \in Int /\ Drift' \in Int
    BY <1>1, <2>3, <2>4 DEF Drift
  <2>7. pc[c] = "forward"
    BY <1>4 DEF Forward
  <2>8. Within(busy - Cardinality(Active))'
    <3>1. CASE Within(busy - Cardinality(Active))
      <4>1. busy' - Cardinality(Active') = busy - Cardinality(Active) + 1
        BY <1>1, <2>1, <2>3
      <4>2. busy - Cardinality(Active) \in Int
        BY <1>1
      <4>3. QED
        BY <2>5, <2>6, <3>1, <4>1, <4>2 DEF Within
    <3>2. CASE Within(busy - Cardinality(Active) + 1) /\ key[c] = round_robin
      BY <1>1, <2>1, <2>3, <2>5, <2>6, <3>2 DEF Within
    <3>3. QED
      BY <2>7, <3>1, <3>2 DEF BalanceInv
  <2>9. QED
    BY <2>1, <2>8 DEF BalanceInv
<1>5. ASSUME NEW c \in Cpu, Return(c) \/ Stamp(c) \/ SameWindow(c) PROVE BalanceInv'
  <2>1. IsFiniteSet(Active') /\ Cardinality(Active') = Cardinality(Active) - 1
    BY <1>5, Leaves DEF Return, Stamp, SameWindow, Goto
  <2>2. UNCHANGED <<busy, round_robin, sent>>
    BY <1>5 DEF Return, Stamp, SameWindow, arrivals, balancer
  <2>3. Drift' = Drift /\ Drift \in Int
    BY <1>1, <2>2 DEF Drift
  <2>4. Within(busy - Cardinality(Active))'
    BY <1>1, <2>1, <2>2, <2>3 DEF BalanceInv, Within
  <2>5. QED
    BY <2>1, <2>4 DEF BalanceInv
<1>6. ASSUME NEW c \in Cpu, LoadCount(c) \/ StoreCount(c) \/ ReadTime(c) \/ ResetCount(c)
      PROVE  BalanceInv'
  <2>1. /\ Active' = Active
        /\ \A d \in Cpu : pc'[d] = "forward" => pc[d] = "forward"
    BY <1>1, <1>6 DEF LoadCount, StoreCount, ReadTime, ResetCount, Goto, Active
  <2>2. UNCHANGED <<busy, round_robin, key, sent>>
    BY <1>6 DEF LoadCount, StoreCount, ReadTime, ResetCount, arrivals, balancer
  <2>3. QED
    BY <2>1, <2>2 DEF BalanceInv, Within, Drift
<1>7. CASE Tick \/ UNCHANGED vars
  <2>1. UNCHANGED <<pc, busy, round_robin, key, sent>>
    BY <1>7 DEF Tick, vars, arrivals, balancer
  <2>2. QED
    BY <2>1 DEF BalanceInv, Within, Drift, Active
<1>8. QED
  BY <1>2, <1>3, <1>4, <1>5, <1>6, <1>7, Actions

\* Whatever overtakes whatever, the backends share the packets but for one,
\* and two more for each packet that came while another was handled.
THEOREM BalancedHolds == Spec => []Balanced
<1>1. Init => BalanceInv
  <2> SUFFICES ASSUME Init PROVE BalanceInv
    OBVIOUS
  <2>1. Active = {}
    BY DEF Init, Active
  <2>2. IsFiniteSet(Active) /\ Cardinality(Active) = 0
    BY <2>1, FS_EmptySet
  <2>3. busy = 0 /\ Drift = 0
    BY DEF Init, Drift
  <2>4. QED
    BY <2>2, <2>3 DEF BalanceInv, Within
<1>2. TypeInv /\ BalanceInv => Balanced
  <2> SUFFICES ASSUME TypeInv, BalanceInv PROVE Balanced
    OBVIOUS
  <2>1. /\ Cardinality(Active) \in Nat /\ (Active # {} => Cardinality(Active) > 0)
        /\ busy \in Nat /\ sent[0] \in Nat /\ sent[1] \in Nat /\ round_robin \in {0, 1}
    BY FS_CardinalityType, FS_EmptySet DEF BalanceInv, TypeInv, PacketInv, BalanceTypeInv
  <2>2. -2 * busy <= Drift /\ Drift <= 2 * busy
    BY <2>1 DEF BalanceInv, Within, Drift
  <2>3. QED
    BY <2>1, <2>2 DEF Balanced, Drift
<1>3. QED
  BY <1>1, <1>2, TypeInvariant, BalanceStep, PTL DEF Spec

-----------------------------------------------------------------------------
(* The SYN counter.                                                        *)

\* The SYN packets since the window began.
InWindow == {i \in 1 .. Len(syns) : syns[i] >= last_syn_time}

\* Without packets that overlap: one CPU is active at most; the count is no
\* more than the packets in the window, but for the one that has been counted
\* and whose time has not been read; and between packets the latest is no
\* further from the beginning of the window than the window is long.
CountInv ==
  busy = 0 =>
    /\ \A c, d \in Cpu : pc[c] # "idle" /\ pc[d] # "idle" => c = d
    /\ (\A c \in Cpu : pc[c] \notin {"time", "stamp"}) => syn_count <= Cardinality(InWindow)
    /\ \A c \in Cpu :
         /\ pc[c] = "store" => loaded[c] = syn_count
         /\ pc[c] = "time" => syn_count <= Cardinality(InWindow) + 1
         /\ pc[c] = "stamp" => syn_count = 0
         /\ pc[c] \in {"window", "stamp"} => syns # <<>> /\ time[c] = syns[Len(syns)]
    /\ (\A c \in Cpu : pc[c] \in {"idle", "balance", "forward"}) /\ syns # <<>> =>
         syns[Len(syns)] - last_syn_time <= Second

LEMMA WindowFinite ==
  ASSUME TypeInv
  PROVE  IsFiniteSet(InWindow) /\ Cardinality(InWindow) \in Nat
<1>1. Len(syns) \in Nat /\ InWindow \subseteq 1 .. Len(syns)
  BY DEF TypeInv, CountTypeInv, InWindow
<1>2. IsFiniteSet(1 .. Len(syns))
  BY <1>1, FS_Interval
<1>3. QED
  BY <1>1, <1>2, FS_Subset, FS_CardinalityType

LEMMA CountStep == TypeInv /\ CountInv /\ [Next]_vars => CountInv'
<1> SUFFICES ASSUME TypeInv, CountInv, [Next]_vars, busy' = 0 PROVE CountInv'
  BY DEF CountInv
<1>1. /\ pc \in [Cpu -> Places] /\ busy \in Nat
      /\ syn_count \in Nat /\ loaded \in [Cpu -> Nat] /\ time \in [Cpu -> Int]
      /\ last_syn_time \in Int /\ now \in Int /\ last_syn_time <= now
      /\ syns \in Seq(Int) /\ Second \in Int
      /\ IsFiniteSet(InWindow) /\ Cardinality(InWindow) \in Nat
  BY WindowFinite, XdpAssumption DEF TypeInv, PacketInv, CountTypeInv
<1>2. ASSUME UNCHANGED <<syns, last_syn_time>> PROVE InWindow' = InWindow
  BY <1>2 DEF InWindow
<1>3. busy = 0
  BY <1>1, Actions
  DEF Receive, Choose, Forward, Return, LoadCount, StoreCount, ReadTime, ResetCount, Stamp,
      SameWindow, Tick, vars, arrivals
<1> USE <1>3 DEF CountInv, Goto
<1>4. ASSUME NEW c \in Cpu, Receive(c) PROVE CountInv'
  <2>1. \A d \in Cpu : pc[d] = "idle"
    BY <1>1, <1>4 DEF Receive
  <2>2. /\ pc' = [pc EXCEPT ![c] = program] /\ program \in {"balance", "count"}
        /\ UNCHANGED <<syn_count, last_syn_time, loaded, time, syns>>
    BY <1>4 DEF Receive, counter, TypeInv, PacketInv
  <2>3. InWindow' = InWindow
    BY <1>2, <2>2
  <2>4. QED
    BY <1>1, <2>1, <2>2, <2>3
<1>5. ASSUME NEW c \in Cpu, Choose(c) \/ Forward(c) \/ Return(c) PROVE CountInv'
  <2>1. /\ pc[c] \in {"balance", "forward"}
        /\ pc' = [pc EXCEPT ![c] = "forward"] \/ pc' = [pc EXCEPT ![c] = "idle"]
        /\ UNCHANGED <<syn_count, last_syn_time, loaded, time, syns>>
    BY <1>5 DEF Choose, Forward, Return, counter
  <2>2. InWindow' = InWindow
    BY <1>2, <2>1
  <2>3. QED
    BY <1>1, <2>1, <2>2
<1>6. ASSUME NEW c \in Cpu, LoadCount(c) PROVE CountInv'
  <2>1. InWindow' = InWindow
    BY <1>2, <1>6 DEF LoadCount
  <2>2. QED
    BY <1>1, <1>6, <2>1 DEF LoadCount
<1>7. ASSUME NEW c \in Cpu, StoreCount(c) PROVE CountInv'
  <2>1. InWindow' = InWindow
    BY <1>2, <1>7 DEF StoreCount
  <2>2. \A d \in Cpu : d # c => pc[d] = "idle"
    BY <1>7 DEF StoreCount
  <2>3. QED
    BY <1>1, <1>7, <2>1, <2>2 DEF StoreCount
<1>8. ASSUME NEW c \in Cpu, ReadTime(c) PROVE CountInv'
  <2>1. /\ Len(syns') = Len(syns) + 1 /\ syns'[Len(syns) + 1] = now /\ syns' # <<>>
        /\ \A i \in 1 .. Len(syns) : syns'[i] = syns[i]
    BY <1>1, <1>8 DEF ReadTime
  <2>2. InWindow' = InWindow \cup {Len(syns) + 1} /\ Len(syns) + 1 \notin InWindow
    <3>1. last_syn_time' = last_syn_time /\ Len(syns) \in Nat
      BY <1>1, <1>8 DEF ReadTime
    <3>2. \A i \in 1 .. Len(syns) + 1 : i \in 1 .. Len(syns) \/ i = Len(syns) + 1
      BY <3>1
    <3>3. QED
      BY <1>1, <2>1, <3>1, <3>2 DEF InWindow
  <2>3. Cardinality(InWindow') = Cardinality(InWindow) + 1
    BY <1>1, <2>2, FS_AddElement
  <2>4. \A d \in Cpu : d # c => pc[d] = "idle"
    BY <1>8 DEF ReadTime
  <2>5. QED
    BY <1>1, <1>8, <2>1, <2>3, <2>4 DEF ReadTime
<1>9. ASSUME NEW c \in Cpu, ResetCount(c) PROVE CountInv'
  <2>1. \A d \in Cpu : d # c => pc[d] = "idle"
    BY <1>9 DEF ResetCount
  <2>2. QED
    BY <1>1, <1>9, <2>1 DEF ResetCount
<1>10. ASSUME NEW c \in Cpu, Stamp(c) PROVE CountInv'
  <2>1. \A d \in Cpu : d # c => pc[d] = "idle"
    BY <1>10 DEF Stamp
  <2>2. TypeInv'
    BY PacketStep, BalanceTypeStep, CountTypeStep DEF TypeInv
  <2>3. Cardinality(InWindow') \in Nat
    <3>1. Len(syns') \in Nat /\ InWindow' \subseteq 1 .. Len(syns')
      BY <2>2 DEF TypeInv, CountTypeInv, InWindow
    <3>2. IsFiniteSet(1 .. Len(syns'))
      BY <3>1, FS_Interval
    <3>3. QED
      BY <3>1, <3>2, FS_Subset, FS_CardinalityType
  <2>4. /\ syn_count' = 0 /\ last_syn_time' = syns[Len(syns)] /\ syns' = syns /\ syns # <<>>
        /\ pc' = [pc EXCEPT ![c] = "idle"]
    BY <1>10 DEF Stamp
  <2>5. syns[Len(syns)] - syns[Len(syns)] <= Second
    <3>1. syns[Len(syns)] \in Int
      BY <1>1, <2>4
    <3>2. QED
      BY <3>1, XdpAssumption
  <2>6. QED
    BY <1>1, <2>1, <2>3, <2>4, <2>5
<1>11. ASSUME NEW c \in Cpu, SameWindow(c) PROVE CountInv'
  <2>1. \A d \in Cpu : d # c => pc[d] = "idle"
    BY <1>11 DEF SameWindow
  <2>2. /\ pc[c] = "window" /\ pc' = [pc EXCEPT ![c] = "idle"]
        /\ UNCHANGED <<syn_count, last_syn_time, loaded, time, syns>>
    BY <1>11 DEF SameWindow, counter
  <2>3. InWindow' = InWindow
    BY <1>2, <2>2
  <2>4. time[c] - last_syn_time <= Second
    BY <1>1, <1>11 DEF SameWindow, Passed
  <2>5. QED
    BY <1>1, <2>1, <2>2, <2>3, <2>4
<1>12. CASE Tick \/ UNCHANGED vars
  <2>1. UNCHANGED <<pc, syn_count, last_syn_time, loaded, time, syns>>
    BY <1>12 DEF Tick, vars, counter
  <2>2. InWindow' = InWindow
    BY <1>2, <2>1
  <2>3. QED
    BY <2>1, <2>2
<1>13. QED
  BY <1>4, <1>5, <1>6, <1>7, <1>8, <1>9, <1>10, <1>11, <1>12, Actions

\* If no packet came while another was handled, the count that a flood is
\* recognised by is never more than the SYN packets of the last second.
THEOREM NoFalseAlarmHolds == Spec => []NoFalseAlarm
<1>1. Init => CountInv
  <2> SUFFICES ASSUME Init PROVE CountInv
    OBVIOUS
  <2>1. /\ \A c \in Cpu : pc[c] = "idle"
        /\ syn_count = 0 /\ syns = <<>>
    BY DEF Init
  <2>2. InWindow = {}
    BY <2>1 DEF InWindow
  <2>3. Cardinality(InWindow) = 0
    BY <2>2, FS_EmptySet
  <2>4. QED
    BY <2>1, <2>3 DEF CountInv
<1>2. TypeInv /\ CountInv => NoFalseAlarm
  <2> SUFFICES ASSUME TypeInv, CountInv, busy = 0, \A c \in Cpu : pc[c] = "idle", syns # <<>>
               PROVE  syn_count <= Cardinality({i \in 1 .. Len(syns) :
                                                  syns[Len(syns)] - syns[i] <= Second})
    BY DEF NoFalseAlarm
  <2> DEFINE Last == {i \in 1 .. Len(syns) : syns[Len(syns)] - syns[i] <= Second}
  <2>1. /\ syn_count \in Nat /\ last_syn_time \in Int /\ Second \in Int
        /\ Len(syns) \in Nat \ {0} /\ \A i \in 1 .. Len(syns) : syns[i] \in Int
    BY XdpAssumption DEF TypeInv, CountTypeInv
  <2>2. /\ syn_count <= Cardinality(InWindow)
        /\ syns[Len(syns)] - last_syn_time <= Second
    BY DEF CountInv
  <2>3. InWindow \subseteq Last
    BY <2>1, <2>2 DEF InWindow
  <2>4. IsFiniteSet(Last)
    <3>1. IsFiniteSet(1 .. Len(syns)) /\ Last \subseteq 1 .. Len(syns)
      BY <2>1, FS_Interval
    <3>2. QED
      BY <3>1, FS_Subset
  <2>5. Cardinality(InWindow) <= Cardinality(Last) /\ Cardinality(Last) \in Nat
    BY <2>3, <2>4, FS_Subset, FS_CardinalityType
  <2>6. QED
    BY <2>1, <2>2, <2>5, WindowFinite
<1>3. QED
  BY <1>1, <1>2, TypeInvariant, CountStep, PTL DEF Spec

-----------------------------------------------------------------------------
(* Division, from the one property that the provers know of it.            *)

LEMMA DivMod ==
  ASSUME NEW a \in Nat, NEW b \in Nat \ {0}
  PROVE  /\ a \div b \in Nat /\ a % b \in Nat /\ a % b < b
         /\ a = ((a \div b) * b) + (a % b)
BY SMT

LEMMA Between ==
  ASSUME NEW q \in Nat, NEW p \in Nat, NEW b \in Nat, q < p
  PROVE  q * b + b <= p * b
<1>1. PICK d \in Nat : p = q + 1 + d
  <2>1. p - q - 1 \in Nat /\ p = q + 1 + (p - q - 1)
    OBVIOUS
  <2>2. QED
    BY <2>1
<1>2. p * b = q * b + b + d * b
  BY <1>1
<1>3. d * b \in Nat
  OBVIOUS
<1>4. q * b \in Nat
  OBVIOUS
<1>5. QED
  BY <1>2, <1>3, <1>4

LEMMA DivModUnique ==
  ASSUME NEW b \in Nat \ {0}, NEW q \in Nat, NEW r \in Nat, r < b
  PROVE  (q * b + r) \div b = q /\ (q * b + r) % b = r
<1> DEFINE a == q * b + r
           p == a \div b
           s == a % b
<1>1. a \in Nat
  OBVIOUS
<1>2. p \in Nat /\ s \in Nat /\ s < b /\ a = p * b + s
  BY <1>1, DivMod
<1> HIDE DEF p, s
<1>3. ~(q < p)
  <2>1. ASSUME q < p PROVE q * b + b <= p * b
    BY <1>2, <2>1, Between
  <2>2. QED
    BY <1>2, <2>1
<1>4. ~(p < q)
  <2>1. ASSUME p < q PROVE p * b + b <= q * b
    BY <1>2, <2>1, Between
  <2>2. QED
    BY <1>2, <2>1
<1>5. p = q
  BY <1>2, <1>3, <1>4
<1>6. s = r
  BY <1>2, <1>5
<1>7. QED
  BY <1>5, <1>6 DEF p, s


LEMMA ModShift ==
  ASSUME NEW a \in Nat, NEW b \in Nat \ {0}, NEW q \in Nat
  PROVE  (a + q * b) % b = a % b
<1>1. /\ a \div b \in Nat /\ a % b \in Nat /\ a % b < b
      /\ a = ((a \div b) * b) + (a % b)
  BY DivMod
<1> DEFINE p == a \div b
           s == a % b
<1> HIDE DEF p, s
<1>2. p \in Nat /\ s \in Nat /\ s < b /\ a = p * b + s
  BY <1>1 DEF p, s
<1>3. a + q * b = (p + q) * b + s
  BY <1>2
<1>4. ((p + q) * b + s) % b = s
  BY <1>2, DivModUnique
<1>5. QED
  BY <1>3, <1>4 DEF s

\* The number that repeated folding ends with.
Folded == [n \in Nat |-> IF n = 0 THEN 0 ELSE ((n - 1) % (Base - 1)) + 1]

LEMMA FoldedFolds ==
  Folded = [n \in Nat |-> IF n < Base THEN n ELSE Folded[(n % Base) + (n \div Base)]]
<1>1. Base \in Nat /\ Base >= 4
  BY XdpAssumption
<1>2. ASSUME NEW n \in Nat, n < Base
      PROVE  Folded[n] = n
  <2>1. CASE n = 0
    BY <2>1 DEF Folded
  <2>2. CASE n # 0
    <3>1. (0 * (Base - 1) + (n - 1)) % (Base - 1) = n - 1
      <4>1. n - 1 \in Nat /\ Base - 1 \in Nat \ {0} /\ n - 1 < Base - 1
        BY <1>1, <1>2, <2>2
      <4>2. QED
        BY <4>1, DivModUnique
    <3>2. (n - 1) % (Base - 1) = n - 1
      <4>1. 0 * (Base - 1) + (n - 1) = n - 1
        BY <1>1
      <4>2. QED
        BY <3>1, <4>1
    <3>3. Folded[n] = ((n - 1) % (Base - 1)) + 1
      BY <2>2 DEF Folded
    <3>4. QED
      BY <3>2, <3>3
  <2>3. QED
    BY <2>1, <2>2
<1>3. ASSUME NEW n \in Nat, ~(n < Base)
      PROVE  Folded[n] = Folded[(n % Base) + (n \div Base)]
  <2> DEFINE q == n \div Base
             r == n % Base
  <2>1. q \in Nat /\ r \in Nat /\ r < Base /\ n = q * Base + r
    BY <1>1, DivMod
  <2> HIDE DEF q, r
  <2>2. q # 0
    BY <1>1, <1>3, <2>1
  <2>3. r + q - 1 \in Nat /\ Base - 1 \in Nat \ {0}
    BY <1>1, <2>1, <2>2
  <2>4. n - 1 = (r + q - 1) + q * (Base - 1)
    <3>1. q * (Base - 1) = q * Base - q
      BY <1>1, <2>1
    <3>2. q * Base \in Nat
      BY <1>1, <2>1
    <3>3. QED
      BY <2>1, <3>1, <3>2
  <2>5. (n - 1) % (Base - 1) = (r + q - 1) % (Base - 1)
    BY <2>1, <2>3, <2>4, ModShift
  <2>6. Folded[n] = ((n - 1) % (Base - 1)) + 1
    BY <1>1, <1>3 DEF Folded
  <2>7. Folded[r + q] = ((r + q - 1) % (Base - 1)) + 1
    BY <2>1, <2>2 DEF Folded
  <2>8. Folded[n] = Folded[r + q]
    BY <2>5, <2>6, <2>7
  <2>9. QED
    BY <2>8 DEF q, r
<1>4. QED
  BY <1>2, <1>3 DEF Folded

LEMMA OnesSumFolds ==
  OnesSum = [n \in Nat |-> IF n < Base THEN n ELSE OnesSum[(n % Base) + (n \div Base)]]
<1> DEFINE F(f) == [n \in Nat |-> IF n < Base THEN n ELSE f[(n % Base) + (n \div Base)]]
<1>1. \E f : f = F(f)
  BY FoldedFolds
<1>2. OnesSum = CHOOSE f : f = F(f)
  BY DEF OnesSum
<1> HIDE DEF F
<1>3. OnesSum = F(OnesSum)
  BY <1>1, <1>2
<1>4. QED
  BY <1>3 DEF F

\* The words of a header add up to all ones if their sum is a positive
\* multiple of the largest word.
LEMMA OnesSumMultiple ==
  ASSUME NEW m \in Nat, 1 <= m, m <= Base
  PROVE  OnesSum[m * (Base - 1)] = Base - 1
<1>1. Base \in Nat /\ Base >= 4
  BY XdpAssumption
<1>2. OnesSum[Base - 1] = Base - 1
  BY <1>1, OnesSumFolds
<1>3. CASE m = 1
  <2>1. m * (Base - 1) = Base - 1
    BY <1>1, <1>3
  <2>2. QED
    BY <1>2, <2>1
<1>4. CASE m > 1
  <2>1. m - 1 \in Nat \ {0} /\ Base - m \in Nat /\ Base - m < Base /\ Base \in Nat \ {0}
    BY <1>1, <1>4
  <2>2. m * (Base - 1) = (m - 1) * Base + (Base - m)
    BY <1>1
  <2>3. /\ ((m - 1) * Base + (Base - m)) \div Base = m - 1
        /\ ((m - 1) * Base + (Base - m)) % Base = Base - m
    BY <2>1, DivModUnique
  <2>4. m * (Base - 1) \in Nat /\ ~(m * (Base - 1) < Base)
    <3>1. 1 * Base + Base <= m * Base
      BY <1>1, <1>4, Between
    <3>2. m * (Base - 1) = m * Base - m
      BY <1>1
    <3>3. m * Base \in Nat
      BY <1>1
    <3>4. QED
      BY <1>1, <3>1, <3>2, <3>3
  <2>5. (Base - m) + (m - 1) = Base - 1
    BY <1>1
  <2>6. QED
    BY <1>2, <2>2, <2>3, <2>4, <2>5, OnesSumFolds
<1>5. QED
  BY <1>3, <1>4

\* The complement of an unsigned long, modulo Base - 1, is what is missing to
\* a multiple of Base - 1.
LEMMA Complement ==
  ASSUME NEW fold \in Nat, NEW k \in {1, 2}, (k - 1) * (Base - 1) < fold, fold <= k * (Base - 1)
  PROVE  (Base * Base * Base * Base - 1 - fold) % (Base - 1) = k * (Base - 1) - fold
<1>1. Base \in Nat /\ Base >= 4
  BY XdpAssumption
<1> DEFINE h == Base * Base * Base + Base * Base + Base + 1
<1>2. h \in Nat /\ h >= 2
  <2>1. Base * Base \in Nat /\ Base * Base * Base \in Nat
    BY <1>1
  <2>2. QED
    BY <1>1, <2>1
<1>3. Base * Base * Base * Base - 1 - fold = (h - k) * (Base - 1) + (k * (Base - 1) - fold)
  BY <1>1
<1>4. h - k \in Nat /\ Base - 1 \in Nat \ {0}
      /\ k * (Base - 1) - fold \in Nat /\ k * (Base - 1) - fold < Base - 1
  <2>1. CASE k = 1
    BY <1>1, <1>2, <2>1
  <2>2. CASE k = 2
    BY <1>1, <1>2, <2>2
  <2>3. QED
    BY <2>1, <2>2
<1> HIDE DEF h
<1>5. ((h - k) * (Base - 1) + (k * (Base - 1) - fold)) % (Base - 1) = k * (Base - 1) - fold
  BY <1>4, DivModUnique
<1>6. QED
  BY <1>3, <1>5

\* Folding a sum once is enough for a checksum, however many words are added,
\* as long as the carry is small against a word: the sum and its checksum are
\* a multiple of the largest word.  (The nine words of the code are far below
\* the bound.)
LEMMA SumWithCheck ==
  ASSUME NEW sum \in Nat, 1 <= sum, sum <= (Base - 2) * Base
  PROVE  LET check == (Base * Base * Base * Base - 1 - ((sum % Base) + (sum \div Base))) % (Base - 1)
         IN  /\ check \in Word
             /\ \E m \in Nat : 1 <= m /\ m <= Base - 1 /\ sum + check = m * (Base - 1)
<1>1. Base \in Nat /\ Base >= 4
  BY XdpAssumption
<1> DEFINE q == sum \div Base
           r == sum % Base
           check == (Base * Base * Base * Base - 1 - (r + q)) % (Base - 1)
<1>2. q \in Nat /\ r \in Nat /\ r < Base /\ sum = q * Base + r
  BY <1>1, DivMod
<1> HIDE DEF q, r
<1>3. q <= Base - 2
  <2>1. ASSUME Base - 2 < q PROVE FALSE
    <3>1. (Base - 2) * Base + Base <= q * Base
      BY <1>1, <1>2, <2>1, Between
    <3>2. q * Base \in Nat /\ (Base - 2) * Base \in Nat /\ q * Base <= sum
      BY <1>1, <1>2
    <3>3. QED
      BY <1>1, <3>1, <3>2
  <2>2. QED
    BY <1>1, <1>2, <2>1
<1>4. /\ q = Base - 2 => r = 0
      /\ q = 0 => 1 <= r
  <2>1. ASSUME q = Base - 2 PROVE r = 0
    <3>1. (Base - 2) * Base \in Nat /\ (Base - 2) * Base + r <= (Base - 2) * Base
      BY <1>1, <1>2, <2>1
    <3>2. QED
      BY <1>2, <3>1
  <2>2. ASSUME q = 0 PROVE 1 <= r
    BY <1>1, <1>2, <2>2
  <2>3. QED
    BY <2>1, <2>2
<1>5. \E k \in {1, 2} : /\ (k - 1) * (Base - 1) < r + q
                        /\ r + q <= k * (Base - 1)
                        /\ q + k <= Base - 1
  <2>1. CASE r + q <= Base - 1
    <3>1. (1 - 1) * (Base - 1) < r + q /\ r + q <= 1 * (Base - 1) /\ q + 1 <= Base - 1
      BY <1>1, <1>2, <1>3, <1>4, <2>1
    <3>2. QED
      BY <3>1
  <2>2. CASE r + q > Base - 1
    <3>1. (2 - 1) * (Base - 1) < r + q /\ r + q <= 2 * (Base - 1) /\ q + 2 <= Base - 1
      BY <1>1, <1>2, <1>3, <1>4, <2>2
    <3>2. QED
      BY <3>1
  <2>3. QED
    BY <1>1, <1>2, <2>1, <2>2
<1>6. PICK k \in {1, 2} : /\ (k - 1) * (Base - 1) < r + q
                          /\ r + q <= k * (Base - 1)
                          /\ q + k <= Base - 1
  BY <1>5
<1>7. check = k * (Base - 1) - (r + q)
  <2>1. r + q \in Nat
    BY <1>2
  <2>2. QED
    BY <1>6, <2>1, Complement
<1> HIDE DEF check
<1>8. check \in Word
  BY <1>1, <1>2, <1>6, <1>7 DEF Word
<1>9. sum + check = (q + k) * (Base - 1)
  BY <1>1, <1>2, <1>7
<1>10. q + k \in Nat /\ 1 <= q + k
  BY <1>2
<1>11. QED
  BY <1>6, <1>8, <1>9, <1>10 DEF check, q, r

\* The words of a header from the load balancer stay below that bound.
LEMMA HeaderSum ==
  ASSUME NEW daddr \in {0, 1, 3}, NEW rest \in Word
  PROVE  /\ 2 + daddr + rest \in Nat
         /\ 1 <= 2 + daddr + rest
         /\ 2 + daddr + rest <= (Base - 2) * Base
<1>1. Base \in Nat /\ Base >= 4 /\ rest \in Nat /\ rest <= Base - 1
  BY XdpAssumption DEF Word
<1>2. (Base - 2) * Base = Base + Base + (Base - 4) * Base
  BY <1>1
<1>3. (Base - 4) * Base \in Nat
  BY <1>1
<1>4. QED
  BY <1>1, <1>2, <1>3

\* What has been sent is a header from the load balancer, with its checksum.
Sent == [saddr : {LoadBalancer}, daddr : {0, 1, 3}, rest : Word, check : Word, option : Word]

OutInv ==
  /\ \A c \in Cpu : pc[c] \in {"balance", "forward"} => pkt[c] \in IpHeader
  /\ out # NoPacket => out \in Sent /\ out.check = Csum(out)

LEMMA SendSends ==
  ASSUME NEW c \in Cpu, NEW daddr \in {0, 1, 3}, pkt[c] \in IpHeader, Send(c, daddr)
  PROVE  out' \in Sent /\ out'.check = Csum(out')
<1> DEFINE p == [pkt[c] EXCEPT !.saddr = LoadBalancer, !.daddr = daddr]
<1>1. /\ p.saddr = 2 /\ p.daddr = daddr /\ p.rest \in Word /\ p.option \in Word
      /\ p \in [saddr : {LoadBalancer}, daddr : {0, 1, 3}, rest : Word, check : {0}, option : Word]
  BY DEF IpHeader, LoadBalancer
<1>2. Csum(p) \in Word
  <2> DEFINE sum == p.saddr + p.daddr + p.rest
  <2>1. sum \in Nat /\ 1 <= sum /\ sum <= (Base - 2) * Base
    BY <1>1, HeaderSum
  <2> HIDE DEF sum
  <2>2. (Base * Base * Base * Base - 1 - ((sum % Base) + (sum \div Base))) % (Base - 1) \in Word
    BY <2>1, SumWithCheck
  <2>3. QED
    BY <2>2 DEF Csum, sum
<1>3. out' = [p EXCEPT !.check = Csum(p)]
  BY DEF Send
<1> HIDE DEF p
<1>4. out' \in Sent /\ out'.check = Csum(p)
  BY <1>1, <1>2, <1>3 DEF Sent
<1>5. out'.saddr = p.saddr /\ out'.daddr = p.daddr /\ out'.rest = p.rest
  BY <1>1, <1>3
<1>6. QED
  BY <1>4, <1>5 DEF Csum

LEMMA OutStep == TypeInv /\ OutInv /\ [Next]_vars => OutInv'
<1> SUFFICES ASSUME TypeInv, OutInv, [Next]_vars PROVE OutInv'
  OBVIOUS
<1>1. pc \in [Cpu -> Places] /\ pkt \in [Cpu -> IpHeader \cup {NoPacket, [syn |-> TRUE]}]
      /\ key \in [Cpu -> {0, 1}] /\ program \in {"balance", "count"}
  BY DEF TypeInv, PacketInv, BalanceTypeInv
<1>2. ASSUME NEW c \in Cpu, Receive(c) PROVE OutInv'
  <2>1. pc' = [pc EXCEPT ![c] = program] /\ out' = out
    BY <1>2 DEF Receive, Goto, balancer
  <2>2. PICK p \in Packet : pkt' = [pkt EXCEPT ![c] = p]
    BY <1>2 DEF Receive
  <2>3. program = "balance" => p \in IpHeader
    BY <2>2 DEF Packet
  <2>4. \A d \in Cpu : pc'[d] \in {"balance", "forward"} => pkt'[d] \in IpHeader
    BY <1>1, <2>1, <2>2, <2>3 DEF OutInv
  <2>5. QED
    BY <2>1, <2>4 DEF OutInv, Csum
<1>3. ASSUME NEW c \in Cpu, Choose(c) PROVE OutInv'
  <2>1. pc' = [pc EXCEPT ![c] = "forward"] /\ pc[c] = "balance" /\ UNCHANGED <<out, pkt>>
    BY <1>3 DEF Choose, Goto
  <2>2. QED
    BY <1>1, <2>1 DEF OutInv, Csum
<1>4. ASSUME NEW c \in Cpu, NEW daddr \in {0, 1, 3}, pc[c] \in {"balance", "forward"},
             Send(c, daddr), Goto(c, "idle"), pkt' = [pkt EXCEPT ![c] = NoPacket]
      PROVE  OutInv'
  <2>1. out' \in Sent /\ out'.check = Csum(out')
    BY <1>4, SendSends DEF OutInv
  <2>2. \A d \in Cpu : pc'[d] \in {"balance", "forward"} => pkt'[d] \in IpHeader
    BY <1>1, <1>4 DEF OutInv, Goto
  <2>3. QED
    BY <2>1, <2>2 DEF OutInv, Csum
<1>5. ASSUME NEW c \in Cpu, Forward(c) PROVE OutInv'
  <2>1. BackendIp[key[c]] \in {0, 1, 3}
    BY <1>1 DEF BackendIp
  <2>2. QED
    BY <1>4, <1>5, <2>1 DEF Forward
<1>6. ASSUME NEW c \in Cpu, Return(c) PROVE OutInv'
  <2>1. Client \in {0, 1, 3}
    BY DEF Client
  <2>2. QED
    BY <1>4, <1>6, <2>1 DEF Return
<1>7. ASSUME NEW c \in Cpu, NEW place \in {"store", "time", "window", "stamp", "idle"},
             Goto(c, place), UNCHANGED <<out, pkt>>
      PROVE  OutInv'
  BY <1>1, <1>7 DEF OutInv, Goto, Csum
<1>8. ASSUME NEW c \in Cpu, LoadCount(c) \/ StoreCount(c) \/ ReadTime(c) PROVE OutInv'
  BY <1>7, <1>8 DEF LoadCount, StoreCount, ReadTime, balancer
<1>9. ASSUME NEW c \in Cpu, ResetCount(c) \/ Stamp(c) \/ SameWindow(c) PROVE OutInv'
  BY <1>7, <1>9 DEF ResetCount, Stamp, SameWindow, balancer
<1>10. CASE Tick \/ UNCHANGED vars
  BY <1>10 DEF Tick, vars, balancer, OutInv, Csum
<1>11. QED
  BY <1>2, <1>3, <1>5, <1>6, <1>8, <1>9, <1>10, Actions

\* Every packet without options that count is sent with a checksum that the
\* receiver accepts, although the carry is folded in once only and the
\* complement is taken of a wider word.
THEOREM ChecksumValidHolds == Spec => []ChecksumValid
<1>1. Init => OutInv
  BY DEF Init, OutInv
<1>2. OutInv => ChecksumValid
  <2> SUFFICES ASSUME OutInv, out # NoPacket, out.option % (Base - 1) = 0
               PROVE  /\ out.check \in Word
                      /\ OnesSum[out.saddr + out.daddr + out.rest + out.check + out.option] = Base - 1
    BY DEF ChecksumValid
  <2> DEFINE sum == out.saddr + out.daddr + out.rest
  <2>1. Base \in Nat /\ Base >= 4
    BY XdpAssumption
  <2>2. /\ out.saddr = 2 /\ out.daddr \in {0, 1, 3} /\ out.rest \in Word
        /\ out.check \in Word /\ out.option \in Word /\ out.check = Csum(out)
    BY DEF OutInv, Sent, LoadBalancer
  <2>3. sum \in Nat /\ 1 <= sum /\ sum <= (Base - 2) * Base
    BY <2>2, HeaderSum
  <2>4. out.check = (Base * Base * Base * Base - 1 - ((sum % Base) + (sum \div Base))) % (Base - 1)
    BY <2>2 DEF Csum
  <2> HIDE DEF sum
  <2>5. PICK m \in Nat : 1 <= m /\ m <= Base - 1 /\ sum + out.check = m * (Base - 1)
    BY <2>3, <2>4, SumWithCheck
  <2>6. out.option \in {0, Base - 1}
    <3>1. ASSUME out.option < Base - 1 PROVE out.option = 0
      <4>1. Base - 1 \in Nat \ {0} /\ out.option \in Nat
        BY <2>1, <2>2 DEF Word
      <4>2. (0 * (Base - 1) + out.option) % (Base - 1) = out.option
        BY <3>1, <4>1, DivModUnique
      <4>3. 0 * (Base - 1) + out.option = out.option
        BY <4>1
      <4>4. QED
        BY <4>2, <4>3
    <3>2. out.option \in 0 .. Base - 1
      BY <2>2 DEF Word
    <3>3. QED
      BY <2>1, <3>1, <3>2
  <2>7. PICK k \in {0, 1} : out.option = k * (Base - 1)
    <3>1. 0 = 0 * (Base - 1) /\ Base - 1 = 1 * (Base - 1)
      BY <2>1
    <3>2. QED
      BY <2>6, <3>1
  <2>8. sum + out.check + out.option = (m + k) * (Base - 1)
    BY <2>1, <2>5, <2>7
  <2>9. OnesSum[(m + k) * (Base - 1)] = Base - 1
    <3>1. m + k \in Nat /\ 1 <= m + k /\ m + k <= Base
      BY <2>1, <2>5
    <3>2. QED
      BY <3>1, OnesSumMultiple
  <2>10. QED
    BY <2>2, <2>8, <2>9 DEF sum
<1>3. QED
  BY <1>1, <1>2, TypeInvariant, OutStep, PTL DEF Spec
=============================================================================
