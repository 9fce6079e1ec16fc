# Advance-OS: a verification development

The repository collects the programs of an advanced operating-systems course:
user programs that share memory and take turns, character drivers, modules that
hook the system-call table, work queues, a container ("capsule") built from
namespaces and shell scripts, and eBPF programs. Each is small; what is hard in
each is the order in which independent actors take their steps. This directory
models those orders in TLA+, checks them with TLC and proves the safety part
with TLAPS. Paths below are relative to `src/`.

## 1. The system's parts

| part | sources | state | operations | interacts through | hard behaviour |
|---|---|---|---|---|---|
| IPC ring | `Assignment_0/q1/parent_pgm.c`, `child_pgm.c` | three (four, one unused) named semaphores, a shared segment, an output file, pids | start, fork, take a turn, log, write, post, TERMINATE, reap, unlink | semaphores, segment, pipes, SIGTERM | IPC objects outlive a crash; signals at any point; waits on unassigned pids |
| capsule network | `Assignment_3/q1/2root` with `src/networks.h`, `src/scripts/*.sh` | bridge, veth pairs, forwarding, NAT rules, namespaces, a pipe | clone, build the host side, signal, configure the container side, clean up | kernel network objects shared by all capsules | handshake; concurrent cleanups under `set -e`; kill; leftovers |
| character device | `Assignment_1/q2/chardev.c` | 1024-byte buffer, positions, spinlock | open, release, llseek, read, write | system calls, shared open files | concurrent copies; faulting copies; the bounds at the end |
| temperature driver | `Assignment_2/q2/tasklets/char_drv.c` | class, device, kobject, attribute, interrupt, tasklet, value | init with unwinding, interrupt, tasklet, sysfs show/store, exit | interrupt, softirq, sysfs | partial failure of init; tasklet against exit |
| work-queue checker | `Assignment_2/q2/workqueues/work_queues_task.c` | queue, delayed work, timer | arm, run, re-arm, flush, destroy | timer, worker, `sys_parth` | re-arming against unload |
| work-queue example | `Assignment_2/q2/workqueues/example.c` | queue of tasks | write, handle, signal | procfs | tasks are never freed; does not compile |
| call-table hooks | `Assignment_1/q3`, `Assignment_1/q5` | table entries, saved entries | save and replace, restore | the system-call table | several modules, unload order |
| call-table scan | `Assignment_2/q1/customsys/sys_parth.c`, client in `q2/cron` | a static kprobe and the pointer found with it | scan | the same table | a scan during a replacement; two scans with one probe |
| kprobe logger | `Assignment_1/q4` | a registered probe | print | kprobes | none |
| capsule with cgroups | `Assignment_2/Q4/root` (earlier: `Assignment_2/q4`) | cgroup, limits, child | set limits, clone, enter the group, wait, remove | cgroup files | the child runs before it is limited; partial failure |
| earlier network capsule | `Assignment_3/q1/root` | as the capsule network | as above | as above | as above |
| zip extraction | `src/zip_utility.h` of the capsules | an open archive | extract each entry | files | end of the copy loop |
| XDP load balancer | `Assignment_3/q3` | map of backends, round-robin counter | rewrite, forward | packets on every CPU | counter without synchronisation; checksum |
| TCP SYN counter | `Assignment_3/q2` | counter, window start, ring buffer | count, capture, report | packets, ring buffer | window against counter; full buffer |
| container monitoring | `Assignment_3/q4` | one record of the clone in progress, map of tasks | clone entry and return, exec, exit | tracepoints, kretprobes | overlapping clones |
| statistics parser | `Assignment_1/q1/proc_parse.c` | running sums | sample, average, reset | `/proc` | intervals, division |
| seccomp sandbox | `Assignment_2/q3` | a filter program | evaluate | system calls | jump offsets |
| demonstrations, sniffer, test programs | `Assignment_0/q2,q3`, `packet_sniffer.c`, `Assignment_2/q5`, `test_progs` | none | print | | none |
| vendored and generated code | bpftool, libbpf, kernel headers | | | | out of scope |

What makes the modelled parts correct is in section 3. What the others would
have to promise: the statistics parser's averages are those of the samples of
one period, the seccomp filter returns for every call number the action its table
gives, and extraction ends for every archive.

## 2. Modules

| module | what it is |
|---|---|
| `TurnRing` | abstract: what the readme of `Assignment_0/q1` promises of the three processes |
| `IpcRing` | the two programs, one action per step; implements `TurnRing` |
| `IpcRing_proofs` | type correctness, three invariants, one action property, the refinement, and that the turn is not lost |
| `CapsuleNet` | the capsule's `main` and `child_function` and the scripts they run |
| `CapsuleNet_proofs` | type correctness, three invariants |
| `CharDev` | the driver's five file operations under the kernel's `read`/`write` |
| `AtomicDevice` | abstract: what the readme of `Assignment_1/q2` promises, reads and writes in one step each |
| `CharDevHistory` | `CharDev` with a history variable, with which it implements `AtomicDevice` |
| `CharDev_proofs` | type correctness, two invariants, one action property |
| `CharDevHistory_proofs` | the refinement of `AtomicDevice` |
| `TempDriver` | the temperature driver's init, labels, exit, interrupt, tasklet and users |
| `TempDriver_proofs` | type correctness, five invariants |
| `CallTable` | two modules that replace entries of the system-call table |
| `TableCheck` | `CallTable` with the scan `sys_parth`, the checker module that runs it from a work queue, and the program that cron starts |
| `MCTableCheck` | the machines `TableCheck` is checked on |
| `TableCheck_proofs` | type correctness, four invariants of the two modules above |
| `CloneMonitor` | the monitor's probes of clone |
| `CapsuleCgroup` | the capsule with resource limits, watched by `CloneMonitor` |
| `MCCapsuleCgroup` | `CapsuleCgroup` with the symmetry of capsules, for TLC |
| `CapsuleCgroup_proofs` | type correctness, two invariants |
| `Xdp` | the load balancer and the SYN counter, on several CPUs |
| `Xdp_proofs` | type correctness, three invariants, and what they need of division |

Four modules are composed of others: `TableCheck` extends `CallTable` (the scan
reads the table while modules change it), `CapsuleCgroup` extends `CloneMonitor`
(the monitor's probes run inside the capsule's `clone`), `IpcRing` is shown to
implement `TurnRing`, and `CharDev`, through `CharDevHistory`, `AtomicDevice`. Modules without an `MC` module declare few constants, so
their `.cfg` files instantiate them for TLC directly. A definition whose name ends in `_something` (`SemPost_none`) is the
mutated form of the definition before the underscore: it shows, in the place
where it would be made, a mistake that one of the properties detects. No
behaviour of a specification uses it.

### IpcRing

`pc` is the place of each process in its `main`, `sem` the values of the named
semaphores, `shm` the message (its author, how often it was logged), `doomed`
the processes with a fatal signal pending. `stale`, `aborted` and `interrupts`
are history.

* `Start` is `parent_pgm.c:60-113`: `sem_open` with `O_CREAT` keeps the values it
  finds, which the model keeps too. `Fork`, `Send`, `InitialWrite` are the rest of
  the parent's setup; `ChildSetup` is the child's, up to its loop.
* `SemWait`, `Log`, `Write`, `SemPost` are the loop bodies of the three processes,
  with the parent entering its first turn at the post (it writes before it waits).
* `Terminate`, `Reap`, `Unlink`, `RemoveShm` end a session. `Reap` is `waitpid(0)`,
  because `child1_pid` and `child2_pid` are never assigned.
* `ChildFails` is a child that leaves in its turn (failed write, end of input).
* `Interrupt`, `ChildDies`, `ParentDies` are Ctrl-C and the delivery of signals:
  a doomed process may take further steps before the signal takes effect.
* A new session starts only when no process of the last one lives.

Left out: setup calls that fail (the process ends before any turn), an `execl`
that fails, a pipe that ends before the identifiers arrive, the end of the
parent's input (its loop goes on with the old buffer), the fourth semaphore,
which nobody waits for, and the text of messages.

### CapsuleNet

`main[c]` and `child[c]` are the two processes of capsule `c`; `bridge`, `uplink`
(veth0/veth-br-0), `forward`, `nat` are shared by all capsules, `link`, `port`,
`addr` belong to one. `intact` and `aborted` are history: `intact[c]` is cleared
when anything a capsule shares is taken from it.

Every command that makes, brings up or removes something the capsules share is a
step. The creating scripts ignore errors and leave an object they find as it is:
`FindBridge`, `AddBridge`, `BridgeUp` are `create_bridge.sh`, `FindPair`, `AddPair`,
`Attach` are `create_pair.sh`. `cleanup.sh` runs under `set -e`,
so that a command whose object is gone aborts it: `StopForward`, `CheckBridge`,
`BridgeDown`, `DeleteBridge`, `CheckUplink`, `DeleteUplink`, `RemovePair`,
`AbortCleanup`. So `bridge` may be `"down"`: between `AddBridge` and `BridgeUp`, between
`BridgeDown` and `DeleteBridge`, and, after a kill there, for good, since a capsule
that finds br0 does not bring it up. What belongs to one capsule is made in one
step (`CreatePairNs`, `SetupNat`). The handshake is the pipe: `ReadCheckpoint` is enabled when no writer is left, that
is, after `Signal` or after the parent's death. `NetnsGone` is the kernel
destroying a namespace without processes, some time after the last one ended,
and the pair in it. `Kill` ends a capsule (not its child) anywhere.

Left out: two capsules with the same number at a time; mounts, which a capsule
has for itself; the cgroup part of `cleanup_resources`, without effect because
`set_resource_limits` is commented out; failing `clone`, `malloc` and extraction,
which end the program before it touches the network; the number of iptables
rules (`nat` says that there are some).

### CharDev

`file[p]` is the open file of a process; two processes may have the same one, as
after `fork`. `fpos` are the kernel's positions. A call is a record: operation,
length, the position copied at its start, bytes to copy, bytes copied. The
kernel's `read` and `write` (external) copy the position before and store it
after the driver's handler; `SpinLock`, `CopyByte`, `CopyFails`, `SpinUnlock` are
the handler, a byte at a time, so that other processes' steps fall between
bytes. A byte is the process that wrote it. `BytesToWrite` follows the C
expression: at the end of the buffer the bound is -1 and, compared unsigned, does
not bound. For the same reason a write that begins inside never reaches the last of
the 1024 bytes; no property states that as a promise. Bytes behind the buffer are not modelled: `spilled` says that some
were written. `Llseek` covers the three values of `whence`, which reach the same
set of positions.

`AtomicDevice` is the device without a lock and without bytes in progress: a call
asks, takes effect in one step (`Perform`, or `Fail` for one that faults), and
answers, when the position is stored. `CharDevHistory` adds `committed`, the buffer
as it was when the lock was last free, which changes with the step that gives the
lock back. The mapping takes `committed` for the abstract buffer and lets a call
take effect at its `SpinUnlock` or `CopyFails`. The two share the kernel's part:
the position is read before and stored after that step, so calls on a shared file
may still overtake each other there. Nothing else moves a position but a seek and
`Rewind`, the opening of a file that no call is using: a call that fails does not.
`opened` and `spilled` are not visible: a
write behind the buffer is, there, one that leaves the buffer alone.

Left out: `device_open_count` (nothing reads it), module removal, writes longer
than the buffer (at the end the kernel's own size check on the copy refuses them,
elsewhere they are cut like one of the length of the buffer), null buffers, which
return before any effect, and a zero-length write, refused the same way.

### TempDriver

`gpio` is the build: `GPIO_INTERRUPT` is a choice of the first state. `phase` and
`at` are the place of the module: in init the call to be made, in the labels of
init and in exit the release to be made. `NextCall`, `Label`, `Unwind` and `Exit`
are the control flow of `temperature_driver_init` and `ioexpander_driver_exit`
as tables; one action each (`Acquire`, `NoKobject`, `CallFails`, `InitReturns`;
`Remove`, `FallThrough`, `Free`) walks them. `held` are the resources.

* A release is two steps: `Remove` takes the resource away, so that nobody new
  can use it, and `FallThrough` goes on when those who still use it are gone, as
  `free_irq`, `kobject_put` and `tasklet_kill` do (`Drained`). To release what is
  not held (a line that was refused, a pin freed twice) is only `FallThrough`.
* `Released("kobject")` holds the attribute too: `sysfs_remove_file` on
  `kernel_kobj` finds nothing, the directory's removal takes the file away.
* `Interrupt`, `HandlerReturns`, `TaskletRuns`, `TaskletReturns` are the two
  halves of the interrupt. The handler may run in all phases the line is held in,
  since the line is shared; the tasklet may be scheduled again while it runs.
* `Open` is possible while init is still running, and while it unwinds: the
  kernel refuses only a module that is leaving through exit.

Left out: the temperature (one word that sysfs writes and reads), the device's
read and write, which only print, except that a read raises the interrupt; and
what happens in a kernel that has used freed memory: `Load` waits until nothing
is left of the module before.

### CallTable and TableCheck

`table` says for each of the three entries what it points to: the kernel, a
function of a loaded module, or memory of a module that is gone. `rw` is the
write permission of the table's page. A module (`older` is
`older_syscall_interception.c`, `newer` is `newer_syscall_interception.c`) has a
`phase`, a place `at` in its init or exit, the list `todo` of saves and stores that
are left of `LoadBody` or `RestoreBody`, `was` (its `was_writable`) and what it
`saved`. `stack` and `orderly` are history: whether inits and exits came one at a
time and last in first out.

* `CheckPte` and `SetRw` are `make_rw`, in two steps, because the other module may
  change the page between the test and the setting; `MakeRo` is `make_ro`.
* `StoreFaults` is a store to a read-only page. `newer` clears CR0.WP and so need
  not fault, but CR0 belongs to a CPU and the process may have been moved.
* `ExitReturns` is followed by the kernel's freeing the module: what pointed into
  it, in the table or among the saved entries of the other, is `"gone"`.

In `TableCheck` the static `struct kprobe` is `addr` (its address is set) and
`registered`; `lookup` is the pointer found with it; `scan[c]` is the place of a
caller in `sys_parth`. Registering and unregistering (external) are modelled as
the kernel does it: a probe that has a symbol and an address at once is refused;
unregistering leaves the address of a probe that was registered and clears that of
one that was not. So one scan in two registers nothing and lives on the address
of the scan before. The pointer is called twice: `Call` looks up the table and
`CallAgain` the function that tests an entry, and between them another scan may
have cleared it (`CallNull`). `NotFound` returns -1 where the kernel's symbol table
does not have `sys_call_table`, the value that otherwise says that nothing was
intercepted. `Look` tests the two of the entries 0 to 171 that somebody
replaces; `getdents64`, number 217, is never looked at. `Load`, `TimerFires`,
`HandlerStarts`, `HandlerReturns`, `Unload`, `Drain`, `Destroy` are the checker module
`work_queues_task.c` with the kernel's delayed work. `foreign[c]` is history: the
entries that have been foreign ever since the scan began.

`machine` is which modules there are and whether the kernel's symbol table has
`sys_call_table`. The hook modules look it up in the same way, so that they are
loaded only where it is found. Everything is explored on each machine of
the constant `Machine`; the proofs hold for all of them at once.

Left out: what the replaced handlers do; loading a module on a machine whose
table points into freed memory (the next call crashes it); loading the checker
again while the timer it left behind is armed.

### CloneMonitor and CapsuleCgroup

`CloneMonitor` is the global `child_data` (`comm`, `parent`, `task`) and the two
probes of `clone`. The entry probe is two steps, because it writes the name into
the record before it reads it back: `EnterClone`, `ProbeClone`. `CloneExit` is the
return probe, `Cloned` the kernel's clone between them. The monitor's three
reporting programs are the test `Reported`. `last` and `overlap` are history.

`CapsuleCgroup` is `main` and `child` of each capsule with the group they share:
`group` (the directory), `limits`, `mainIn` and `childIn` (who is in it). `removes` is
the build: `cleanup.h` compiles its cgroup part only if `ADD_TO_CGROUPS` is
defined before it is included. `capsule.c` includes it at line 19 and defines the
macro at line 30, and the makefile passes no `-D`, so the repository's capsule does
not remove the group. The constant `Builds` says which builds are looked at: the
part can be compiled with `-DADD_TO_CGROUPS=1`, and what its `rmdir` does to the
other capsules is checked too. `clean` and
`abandoned` are history: whether a call of the set-up failed, and whether a main
ended before its cleanup was complete.

* `Mkdir`, `Join`, `CreateFails` are `create_cgroup`; writing the controllers to
  the root group is part of `Mkdir`, since it changes nothing a capsule can lose.
* `SetLimit`, `SetLimitFails` are the three writes, each of which may fail, for
  instance because another capsule has removed the group meanwhile.
* `CallClone`, `CloneChild`, `CloneFails`, `CloneReturns`, `AddChild`, `AddChildFails`
  are the middle of `main`; the child runs (`ChildSetup`, `ChildEnds`) as soon as
  it is born, in its parent's group.
* `Leave`, `LeaveFails`, `Rmdir` are `cleanup_resources`; the kernel refuses to
  remove a group that somebody is in.
* `Kill` ends a main anywhere outside `clone`. Its child lives on.

Left out: extraction and mounts, which a capsule has for itself; the processes
that `system()` starts in a capsule; what the monitor prints; a process that
changes its name. `system()` is called by a process named "capsule" like any other
clone of it, but a current glibc makes its process with `clone3`, where the monitor
has no probe. With a C library that calls `clone` there, it would enter the record.

### Xdp

`program` is which of the two is attached; `pc` is the place of each CPU in its
`handle_xdp`, `pkt` its packet. For the load balancer `round_robin`, the chosen
`key` of each CPU, and, as history, what was `sent` to each backend and the last
packet `out`. For the SYN counter `syn_count`, `last_syn_time`, the value a CPU has
`loaded`, the `time` it has read, and, as history, the times of all SYN packets.
`busy` counts the packets that came while another was handled.

* `Choose`, `Forward`, `Return` are the load balancer. Reading the counter and
  storing it are different steps; the increment may use the value read before or
  read again, as the compiler likes.
* `LoadCount`, `StoreCount`, `ReadTime`, `ResetCount`, `Stamp`, `SameWindow` are
  `is_syn_flood`, one access of a shared variable at a time. `Passed` follows the
  unsigned subtraction: a time before `last_syn_time` is far after it.
* `Csum` is `iph_csum` with words of `Base` values: the sum without the options,
  the carry added once, the complement of an unsigned long, which has four words,
  reduced modulo `Base - 1`. Three words stand for the nine of a header that are
  not the checksum.

`load_balancer.c:175` fills the map of backends before load has created it, so
that the loader fails as it stands; `Xdp` takes the program as attached and the
map as filled. Left out: MAC addresses, packets that are not TCP, the capture
through the ring buffer, the verdict on a flood, which `handle_xdp` ignores.

## 3. Runs

| run | instance | states | shows |
|---|---|---|---|
| `ipc_ring` | two interrupts | 5,442 | the eight properties below |
| `ipc_ring_restart` | the same | counterexample | an interrupted session breaks the next one's turns |
| `capsule_net` | two capsules, one kill | 420,000 | six properties |
| `chardev` | two processes that share an open file, three bytes, positions to 5 | 684,488 | four properties |
| `temp_driver` | two users, both builds | 1,122 | six properties |
| `temp_driver_isa` | one user | counterexample | a tasklet outlives the module in the ISA build |
| `chardev_end` | one process, one file, positions to 6 | counterexample | a write at the end leaves the buffer |
| `table_check` | both hook modules alone; each with the checker and one client, with and without the symbol | 607,326 | six properties |
| `table_check_unload` | the checker alone | counterexample | its timer outlives its queue |
| `capsule_monitor` | two capsules, one other process, both builds of the cleanup, up to symmetry | 6.18 million | three properties |
| `capsule_cleanup` | one capsule, the makefile's build | counterexample | the control group outlives the capsule |
| `xdp` | two CPUs, four packets, words of 4 values, a window of 2 on a clock to 5 | 1.45 million | four properties |

**ipc_ring.** `MutualExclusion` (at most one process in its turn if the session
found the semaphores at zero), `LoggedOnceByNext` (each message is logged once,
by the next process, before it is replaced), `ReapedBeforeUnlink`,
`CleanAfterCleanup` (TERMINATE repairs even a stale session), `TurnComes`,
`TerminateCompletes`, and `ImplementsTurnRing`. The number of sessions is not
bounded. Two interrupts are enough for the worst case: a session that starts
stale is interrupted again, leaving more than one post behind, and the next one
must still be ended properly.

**capsule_net.** `ShellIsConnected`, `NetworkBeforeShell`, `HostRestored`,
`ChildReleased`, `CapsuleEnds`. The program knows two container numbers, so two
capsules are not a bound but the program. Each may be started again and again,
which is how a leftover of one session meets the next. One kill is enough to
orphan a child, to leave a pair behind, or a bridge that is down, with the other
capsule anywhere. `ShellIsConnected` speaks of capsules that are `intact`: when they
started there was no leftover and no half made object that nobody was finishing,
and since then no cleanup has taken, or set down, what they share and no capsule
was killed while it made it. All others may have a shell without a network.
Deadlock is checked: a capsule can always be started or ended.

**chardev.** `PositionInside`, `CallsReturn` (no path keeps the lock), and
`ImplementsAtomicDevice`: a read returns the buffer as it was at one moment, a
write is there as a whole or not at all, one that faults as a whole with its
zeros, and a position moves by what a call has done, from where the call found
it, or not at all. `CopyIsAtomic`, the invariant behind it, is proved and is not run.
The two processes share one open file: their calls race for its position as well
as for the buffer, which is one for all files; what two files could add is that
the calls do not share a position, and the proofs hold for any number of them. Three bytes
allow a write that starts inside, ends before the last byte, and is interleaved
with a copy that overlaps it in part. `MaxPosition` bounds the position, which
nothing else bounds once a write has started at the end; 5 lets a write of two
bytes start there, and `CharDev_end.cfg` one of the whole length. The run checks a
liveness property and uses no symmetry.

**temp_driver.** `NothingLeft`, `ReleasedInReverse`, `CallbacksInside`,
`TaskletKilled`, `ReleaseEnds`. Every checked call may fail in
every load, and the number of loads is not bounded. Two users are enough to have
one enter as another leaves; no property relates more of them, and the proofs
hold for any set. Deadlock is checked: an absent module can be loaded.
`FilesInside`, which is proved and not among the run's properties, excuses a file
opened during an init that then failed: the kernel frees the module all the same.

**table_check.** `EntriesLive` (used one at a time and last in first out, the
modules leave nothing behind), `TableProtected` (in any order, even if one dies),
`OneScanIsSafe` (nobody dies before two scans have overlapped), `CleanMeansClean`
(what a scan that finds nothing means), `HookReported` (a hook that stays is
reported by one scan of the worker after the other: it asks for infinitely many
steps that report, not for a result that stays). The two hook modules are the program, not a bound. What they
do to each other is explored without scans, and what the scans do with one of
them at a time: a scan writes nothing the modules read, and no property relates
a scan to two modules. One client and the worker are two scans at a time, the
least that can overlap, and each may die. Deadlock is not checked: a dead worker
or module stays, and then nothing need be possible.

**capsule_monitor.** `ShellIsLimited`, `ReportsLastClone`. Two
capsules are the least that share a group; the third process clones between and
during their clones. Each starts again and again, so that one meets what another
left. Capsules are interchangeable, and all properties are invariants, so
symmetry is sound. Deadlock is checked: a capsule can be started.

**xdp.** `Balanced`, `ChecksumValid`, `NoFalseAlarm`. The header is any of those
with words of 4 values, which reaches sums with and without a carry, a carry of
the carry, and sums that are all ones; larger words, and more of them, repeat
these cases. Four packets on two CPUs allow one
to be overtaken by three. A window of 2 on a clock to 5 has a packet on each side
of its end and a second window. The clock and the packets are bounded, so the
runs end: deadlock is not checked.

**The five violations** are disagreements between code and documentation.
(1) `readme.md:43` and `:52` of `Assignment_0/q1` promise that the communication
cycles through the three processes, with no proviso. `sem_open` with `O_CREAT`
alone keeps what an interrupted session left. `MutualExclusion` is what remains
true: with a clean start. `CleanAfterCleanup` adds that one session ended with
TERMINATE makes the next start clean. (2) `readme.md:10` of `Assignment_1/q2`
calls the device "fixed-size" with 1024 bytes. A write after a seek to 1024 goes
behind it. `PositionInside` is what remains true: positions are inside until
that has happened; and the theorem `SpillsFromTheEndHolds`, that only a write begun
at 1024 exactly can make it happen. (3) `readme.md:156` of `Assignment_2/q2/tasklets` lists "proper
cleanup in module exit". In the ISA build exit does not kill the tasklet.
`TaskletKilled` is what remains true: with GPIO interrupts. (4)
`work_queues_task.c:16` promises "Proper cleanup and resource management" and `:235`
that the queue is flushed and destroyed before unload. A delayed work that still
waits for its timer is not in the queue, so flush and destroy do not see it. (5)
`src/cleanup.h:9` of `Assignment_2/Q4/root` says that `cleanup_resources` "Cleans up all
resources, unmounts filesystems, and removes cgroups". The build of the makefile
has no code for the last: the group stays when every capsule has ended completely.

### Fairness

* `IpcRing`: weak fairness of the parent, of each child and of signal delivery.
  The scheduler is fair, the user answers prompts, and pending signals are
  delivered. Nobody must start, interrupt or end a session, and no child must
  fail. `TurnComes` therefore excuses a wait behind a dead child or a pending
  signal, but not behind a user who never ends.
* `CapsuleNet`: weak fairness of `main`, of the child up to its shell, and of
  `NetnsGone`. Leaving the shell (`ChildExit`) and `Kill` are not fair.
* `CharDev`: weak fairness inside a call, strong fairness of `SpinLock`: the
  kernel's queued spinlock serves its waiters in the order they came, so a
  process that finds the lock free again and again gets it.
* `TempDriver`: weak fairness of init's and exit's own steps, of the handler, of
  the softirq and of leaving a sysfs function: the kernel runs to its end what it
  has started. Nobody must load, unload, open or close, and no interrupt need
  come. That is enough for `ReleaseEnds`, because a release bars new users before
  it waits for the old ones.
* `TableCheck`: weak fairness of `CheckerStep` (timers fire, the worker runs what is
  queued, flush and destroy go on) and of each caller's steps in `sys_parth`: the
  kernel runs what it has begun. Nobody must load, unload or call. `HookReported`
  requires that the module stays, with its queue, and, once two scans have
  overlapped, that its worker is alive; before, `OneScanIsSafe` says that it is.
* `CapsuleCgroup` and `Xdp` have safety properties only and state no fairness.

## 4. Proofs

Each `_proofs` module proves an inductive invariant, then what follows from it,
for every value of the constants. Assumed are only the named assumptions on
constants (`MaxInterruptsAssumption`, `MaxKillsAssumption`, `SizeAssumption`,
`MaxPositionAssumption`, `MachineAssumption`, `NameAssumption`, `BuildsAssumption`,
`XdpAssumption`), which the runs evaluate.

* **Ring.** Mutual exclusion is not inductive: a process enters its turn by
  taking a semaphore, so the invariant counts tokens. With a clean start the sum
  of the three semaphores plus the number of holders never exceeds one, and the
  parent's own phases (setup, cleanup) count as holding. For `ReapedBeforeUnlink`
  the invariant relates how many children are left to how many waits have
  returned, and says that both are doomed from TERMINATE on. The refinement
  (`Refinement`) uses the same count to show that the refinement mapping finds at
  most one place for the turn, and maps each action to one of `TurnRing`'s or to
  a stutter.
  `TurnNotLostHolds` is the other half of the count, and the safety behind
  `TurnComes`: while no child is dead there is at least one token, in stale
  sessions too, hence exactly one after a clean start.
* **Capsule.** `NetworkBeforeShell` needs that the child has not passed its read
  before `Signal`. `ShellIsConnected` needs, for each stage of `main`, which
  objects an intact capsule has already built or is about to finish, that a cleanup
  by another capsule clears `intact`, and that a bridge it found down, or a pair it
  found loose, has somebody at the command that finishes it. `HostRestored` follows each object from its creation
  to the cleanup step that removes it.
* **Device.** The lock is held by exactly the process in the locked region;
  during a copy the bytes already copied agree with the buffer; the number of
  bytes to copy fits between offset and end unless the call is a write at the
  end.
  `SpillsFromTheEndHolds` says what the violated `WritesStayInside` comes down to:
  `spilled` becomes true with the first byte of a write that began at `Size`.
* **Device, refinement.** `DeviceIsAtomic` rests on three more invariants: a call
  copies no more than it was asked for (`AmountInv`); the buffer is `committed` but
  for the bytes the write in progress has copied, and equal to it while a read
  copies (`CommitInv`); what a read has copied is the buffer as it is now
  (`ViewInv`). They are inductive with the lock's invariant, because only the
  process that holds the lock changes the buffer. Each action then has its step:
  `Begin` asks, `SpinUnlock` performs, `CopyFails` fails, `Return` answers, `Open`
  rewinds (`OpenInv`: a file that is not open is not in use), `Llseek` seeks; the others are stutters, because `committed` stays.
* **Temperature driver.** Neither release property is inductive, because both
  depend on the place in the code. The invariant gives, for each call of init, the
  resources held before it, and for each label and each step of exit the ones
  that may still be held there; two tables, checked entry by entry against
  `NextCall`, `Label`, `Unwind` and `Exit`, so a wrong jump would break a step of
  the proof. `CallbacksInside` and `TaskletKilled` need in addition that what a
  release waits for stays away until the end; `FilesInside` that a file is
  opened only while the device is held and the module not leaving.

* **Table.** `TableProtected` needs only that a writable page has a module at work
  on it that found it read-only. `EntriesLive` needs the place in the lists: a
  list never has an instruction twice and never stores an entry before it saves
  it, so what is left of it says, entry by entry, whether `table` still has the
  value below the module in the stack or already the module's own, and what it
  has saved. The lists of both modules satisfy this by inspection, entry by entry.
* **Scan.** Until scans overlap, one is under way at most and it leaves the probe
  unregistered, so the next one either registers it or finds the address of the
  last; the pointer it has read is not cleared before its second call. `CleanMeansClean` needs that what has been foreign since the beginning
  still is, and that a scan past `exit` has no `exit` in that set.
* **Capsule with cgroups.** `ShellIsLimited` needs that a main whose set-up
  succeeded so far is in the group, which therefore nobody can remove, with the
  limits it has written; and that its child is born there.
  `ReportsLastClone` relates the record to the place in the clone that is under
  way, for clones that do not overlap.
* **Packets.** `Balanced` is a budget: the drift of the backends from the counter
  plus two for each packet under way is at most two for each packet that came
  to a busy machine, except that the first of several may have no budget but then
  still has the key the counter shows. `NoFalseAlarm` follows the count against
  the packets since `last_syn_time` through the steps of one packet.
* **Checksum.** `ChecksumValid` compares `Csum`, which folds the carry once, with
  `OnesSum`, which folds until nothing is left. `OnesSum` is a recursive function;
  that it satisfies its equation needs a function that does, and `FoldedFolds`
  gives one in closed form (the remainder by `Base - 1`, or `Base - 1` itself). From
  then on the equation is used twice and no induction is needed: a multiple
  `m * (Base - 1)` with `m` up to `Base` folds to `Base - 1` at once
  (`OnesSumMultiple`). The lemmas on division (`DivModUnique`, `ModShift`) rest on
  the one property of `\div` and `%` that the provers know. `SumWithCheck` is stated
  for any sum from 1 to `(Base - 2) * Base`: the nine words of the code, of 16
  bits, stay below that as the three of the model do.
* **Messages of the ring.** `LoggedOnceByNext` follows the message with the token:
  fresh for its author and for who is next, logged once for who has logged it.

Only model-checked: all liveness properties (`TurnComes`, `TerminateCompletes`,
`ChildReleased`, `CapsuleEnds`, `CallsReturn`, `ReleaseEnds`, `HookReported`), for
which the prover has no rule here. Every invariant, action property and
refinement of the passing runs is a theorem.

## 5. Plan

1. (done) IPC ring, capsule network, character device, temperature driver.
2. (done) Module life cycles: the hook modules, the scan and the checker module;
   the capsule with cgroups.
3. (done) Packets and monitoring: load balancer, SYN counter, clone monitor.
4. (done) Proofs of the safety properties of 1 to 3, and of the two refinements.
5. Open: the capture of packets through the ring buffer and a full buffer; the
   seccomp filter and the averages of the statistics parser as functions compared
   with reference definitions; the monitor's map of tasks.

## 6. Not modelled

See the table in section 1 and the notes in `PROJECT.json`. Without state or
interleavings to speak of: programs that print (`virt_memory.c`,
`parent_child_vml.c`, the sniffer, the kprobe logger), test programs, the setup
scripts run by hand. Sequential: the statistics parser, the seccomp filter, zip
extraction, whose end depends on a library that is not in the repository.
`example.c` does not compile. Removing the character device while a file is open
ends in freed memory, of which a model of the driver says nothing; so does the
checker's timer after unload, whose arming `table_check_unload` shows. What the
replaced system-call handlers do with their results is not modelled, only how
they are installed and removed. Vendored libraries, bpftool and the generated
kernel headers, which are nearly all of the repository's lines, are not this
program's code.

To check: `tlc -config X.cfg M` for the runs of `PROJECT.json`, `tlapm
M_proofs.tla` for the proofs.
