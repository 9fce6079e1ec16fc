-------------------------------- MODULE Xdp --------------------------------
(***************************************************************************)
(* The two XDP programs, each run for every packet on the CPU that receives*)
(* it: the load balancer (Assignment_3/q3/load_balancer.bpf.c), which      *)
(* rewrites the packet and sends it back, and the SYN counter              *)
(* (Assignment_3/q2/minimal.bpf.c).  Packets that is_tcp and the tests of  *)
(* the lengths refuse are passed on without any effect and left out.       *)
(*                                                                         *)
(* Header words have Base values, 2^16 in the code, and unsigned long four *)
(* words.  Three words stand for the nine that are not the checksum.       *)
(***************************************************************************)
EXTENDS Integers, Sequences, FiniteSets

CONSTANTS
  Cpu,
  Base,        \* the number of values of a header word
  Second,      \* the SYN counter's window
  MaxTime,     \* bound: the clock
  MaxPackets   \* bound: how many packets are received

ASSUME XdpAssumption ==
  /\ Base \in Nat /\ Base >= 4
  /\ Second \in Nat
  /\ MaxTime \in Nat /\ MaxPackets \in Nat

VARIABLES
  program,       \* which of the two is attached; it never changes
  pc,            \* where each CPU is in handle_xdp
  pkt,           \* the packet it handles
  received,      \* history: how many packets have been received
  busy,          \* history: how many of them while another CPU was busy
  round_robin,
  key,           \* the backend each CPU has chosen
  sent,          \* history: packets from the client sent to each backend
  out,           \* the last packet sent
  syn_count,
  last_syn_time,
  loaded,        \* syn_count, as a CPU has loaded it
  time,          \* current_time, as a CPU has read it
  now,           \* bpf_ktime_get_ns
  syns           \* history: the times of the SYN packets

arrivals == <<received, busy>>
balancer == <<round_robin, key, sent, out>>
counter  == <<syn_count, last_syn_time, loaded, time, now, syns>>
vars == <<program, pc, pkt, arrivals, balancer, counter>>

Word == 0 .. Base - 1

\* The addresses, one word each.
Client       == 1
LoadBalancer == 2
BackendIp    == [k \in {0, 1} |-> IF k = 0 THEN 0 ELSE 3]

\* What the load balancer looks at; the word of the options is 0 without any.
IpHeader == [saddr : {Client, 3}, daddr : {LoadBalancer}, rest : Word, check : {0},
             option : Word]
Packet == IF program = "balance" THEN IpHeader ELSE {[syn |-> TRUE]}

NoPacket == [syn |-> FALSE]

Init ==
  /\ program \in {"balance", "count"}
  /\ pc = [c \in Cpu |-> "idle"]
  /\ pkt = [c \in Cpu |-> NoPacket]
  /\ received = 0
  /\ busy = 0
  /\ round_robin = 0
  /\ key = [c \in Cpu |-> 0]
  /\ sent = [k \in {0, 1} |-> 0]
  /\ out = NoPacket
  /\ syn_count = 0
  /\ last_syn_time = 0
  /\ loaded = [c \in Cpu |-> 0]
  /\ time = [c \in Cpu |-> 0]
  /\ now = 0
  /\ syns = <<>>

Goto(c, place) == pc' = [pc EXCEPT ![c] = place]

\* A CPU receives a packet that passes the tests.
Receive(c) ==
  /\ pc[c] = "idle"
  /\ received < MaxPackets
  /\ \E p \in Packet : pkt' = [pkt EXCEPT ![c] = p]
  /\ Goto(c, program)
  /\ received' = received + 1
  /\ busy' = IF \E d \in Cpu : pc[d] # "idle" THEN busy + 1 ELSE busy
  /\ UNCHANGED <<program, balancer, counter>>

-----------------------------------------------------------------------------
(* The load balancer.                                                      *)

\* iph_csum: the sum of the words before the options, the carry added once,
\* then the complement of an unsigned long, modulo Base - 1.
\* Mutant: the carry is dropped.
Csum_nocarry(p) ==
  LET sum == p.saddr + p.daddr + p.rest
      fold == sum % Base
  IN (Base * Base * Base * Base - 1 - fold) % (Base - 1)
Csum(p) ==
  LET sum == p.saddr + p.daddr + p.rest
      fold == (sum % Base) + (sum \div Base)
  IN (Base * Base * Base * Base - 1 - fold) % (Base - 1)

\* The packet with its new addresses and checksum, sent with XDP_TX.
Send(c, daddr) ==
  LET p == [pkt[c] EXCEPT !.saddr = LoadBalancer, !.daddr = daddr]
  IN out' = [p EXCEPT !.check = Csum(p)]

\* A packet from the client: a backend is chosen.
Choose(c) ==
  /\ pc[c] = "balance"
  /\ pkt[c].saddr = Client
  /\ key' = [key EXCEPT ![c] = round_robin % 2]
  /\ Goto(c, "forward")
  /\ UNCHANGED <<program, pkt, arrivals, round_robin, sent, out, counter>>

\* round_robin++ and %= 2 are compiled to one store; the value may be read
\* again or still be in a register.  Then the packet goes to the backend.
\* Mutant: the remainder is taken before the increment.
Forward_over(c) ==
  /\ pc[c] = "forward"
  /\ round_robin' \in {(v % 2) + 1 : v \in {round_robin, key[c]}}
  /\ sent' = [sent EXCEPT ![key[c]] = @ + 1]
  /\ Send(c, BackendIp[key[c]])
  /\ Goto(c, "idle")
  /\ pkt' = [pkt EXCEPT ![c] = NoPacket]
  /\ UNCHANGED <<program, arrivals, key, counter>>
\* Mutant: the counter is not advanced.
Forward_stuck(c) ==
  /\ pc[c] = "forward"
  /\ sent' = [sent EXCEPT ![key[c]] = @ + 1]
  /\ Send(c, BackendIp[key[c]])
  /\ Goto(c, "idle")
  /\ pkt' = [pkt EXCEPT ![c] = NoPacket]
  /\ UNCHANGED <<program, arrivals, round_robin, key, counter>>
Forward(c) ==
  /\ pc[c] = "forward"
  /\ round_robin' \in {(v + 1) % 2 : v \in {round_robin, key[c]}}
  /\ sent' = [sent EXCEPT ![key[c]] = @ + 1]
  /\ Send(c, BackendIp[key[c]])
  /\ Goto(c, "idle")
  /\ pkt' = [pkt EXCEPT ![c] = NoPacket]
  /\ UNCHANGED <<program, arrivals, key, counter>>

\* A packet from anybody else goes to the client.
Return(c) ==
  /\ pc[c] = "balance"
  /\ pkt[c].saddr # Client
  /\ Send(c, Client)
  /\ Goto(c, "idle")
  /\ pkt' = [pkt EXCEPT ![c] = NoPacket]
  /\ UNCHANGED <<program, arrivals, round_robin, key, sent, counter>>

-----------------------------------------------------------------------------
(* The SYN counter: is_syn_flood.  Its verdict is not used by handle_xdp.   *)

\* syn_count++ is a load and a store.
LoadCount(c) ==
  /\ pc[c] = "count"
  /\ loaded' = [loaded EXCEPT ![c] = syn_count]
  /\ Goto(c, "store")
  /\ UNCHANGED <<program, pkt, arrivals, balancer, syn_count, last_syn_time, time, now, syns>>

StoreCount(c) ==
  /\ pc[c] = "store"
  /\ syn_count' = loaded[c] + 1
  /\ Goto(c, "time")
  /\ UNCHANGED <<program, pkt, arrivals, balancer, last_syn_time, loaded, time, now, syns>>

ReadTime(c) ==
  /\ pc[c] = "time"
  /\ time' = [time EXCEPT ![c] = now]
  /\ syns' = Append(syns, now)
  /\ Goto(c, "window")
  /\ UNCHANGED <<program, pkt, arrivals, balancer, syn_count, last_syn_time, loaded, now>>

\* current_time - last_syn_time is unsigned: when another CPU has stored a
\* later time, it is huge.
Passed(c) == time[c] < last_syn_time \/ time[c] - last_syn_time > Second

\* A new window begins ...
\* Mutant: the count goes on.
ResetCount_keep(c) ==
  /\ pc[c] = "window"
  /\ Passed(c)
  /\ Goto(c, "stamp")
  /\ UNCHANGED <<program, pkt, arrivals, balancer, counter>>
ResetCount(c) ==
  /\ pc[c] = "window"
  /\ Passed(c)
  /\ syn_count' = 0
  /\ Goto(c, "stamp")
  /\ UNCHANGED <<program, pkt, arrivals, balancer, last_syn_time, loaded, time, now, syns>>

\* ... at the time of this packet.
Stamp(c) ==
  /\ pc[c] = "stamp"
  /\ last_syn_time' = time[c]
  /\ Goto(c, "idle")
  /\ UNCHANGED <<program, pkt, arrivals, balancer, syn_count, loaded, time, now, syns>>

SameWindow(c) ==
  /\ pc[c] = "window"
  /\ ~Passed(c)
  /\ Goto(c, "idle")
  /\ UNCHANGED <<program, pkt, arrivals, balancer, counter>>

Tick ==
  /\ program = "count"
  /\ now < MaxTime
  /\ now' = now + 1
  /\ UNCHANGED <<program, pc, pkt, arrivals, balancer, syn_count, last_syn_time, loaded, time, syns>>

Balance(c) == Choose(c) \/ Forward(c) \/ Return(c)

Count(c) ==
  \/ LoadCount(c) \/ StoreCount(c) \/ ReadTime(c)
  \/ ResetCount(c) \/ Stamp(c) \/ SameWindow(c)

Next ==
  \/ \E c \in Cpu : Receive(c) \/ Balance(c) \/ Count(c)
  \/ Tick

Spec == Init /\ [][Next]_vars

-----------------------------------------------------------------------------

\* The variables of both programs have the values they can have; round_robin
\* is an index of the map of backends whenever it is read.
TypeOK ==
  /\ program \in {"balance", "count"}
  /\ pc \in [Cpu -> {"idle", "balance", "forward", "count", "store", "time", "window", "stamp"}]
  /\ pkt \in [Cpu -> IpHeader \cup {NoPacket, [syn |-> TRUE]}]
  /\ received \in 0 .. MaxPackets
  /\ busy \in 0 .. MaxPackets
  /\ round_robin \in {0, 1}
  /\ key \in [Cpu -> {0, 1}]
  /\ sent \in [{0, 1} -> Nat]
  /\ syn_count \in Nat
  /\ last_syn_time \in 0 .. MaxTime
  /\ loaded \in [Cpu -> Nat]
  /\ time \in [Cpu -> 0 .. MaxTime]
  /\ now \in 0 .. MaxTime
  /\ syns \in Seq(0 .. MaxTime)

\* The CPUs read, use and advance round_robin without synchronisation, and a
\* packet may be overtaken by any number of others in between.  Still, the two
\* backends get the same number of packets but for one, and two more for each
\* packet that came while another was handled.
Balanced ==
  /\ sent[0] - sent[1] <= 1 + 2 * busy
  /\ sent[1] - sent[0] <= 1 + 2 * busy

\* The sum of one's complement arithmetic, as RFC 1071 defines it.
OnesSum[n \in Nat] == IF n < Base THEN n ELSE OnesSum[(n % Base) + (n \div Base)]

\* The checksum is folded once only and the complement taken of a wider word;
\* and the options are left out of the sum.  Still, a packet is sent with a
\* checksum that the receiver accepts, the words of the header adding up to all
\* ones, unless it has options that add something to the sum.
ChecksumValid ==
  out # NoPacket /\ out.option % (Base - 1) = 0 =>
    /\ out.check \in Word
    /\ OnesSum[out.saddr + out.daddr + out.rest + out.check + out.option] = Base - 1

\* The counter is advanced before the window is tested, and the window starts
\* with any packet.  If no packet came while another was handled, then the
\* count, with which a flood is recognised, never exceeds the number of SYN
\* packets in the last second before the latest one: there is no false alarm.
NoFalseAlarm ==
  busy = 0 /\ (\A c \in Cpu : pc[c] = "idle") /\ syns # <<>> =>
    syn_count <= Cardinality({i \in 1 .. Len(syns) : syns[Len(syns)] - syns[i] <= Second})
=============================================================================
