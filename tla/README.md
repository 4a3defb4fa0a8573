# A TLA+ verification of Liquorice

Liquorice is a small real-time operating system and TCP/IP stack for the AVR and
the i386. This project models its kernel and its network stack in TLA+, checks
the models with TLC on small instances and proves the central results about
the scheduler, the locks, the timers and the routes with TLAPS.

To check a run: `tlc -config MCContext.cfg MCContext`. To check the proofs of a
module: `tlapm ContextProofs.tla`. `PROJECT.json` lists the runs, which source
lines each definition models, the hazards the properties are aimed at and the
theorems.

## 1. The system

One CPU, no memory protection. Everything runs in *contexts*; a *thread* is a
context with a time slice and a heap block. Priorities are bytes, 0 most urgent.

| Part | State | Operations | Where it is hard |
|---|---|---|---|
| context | `run_queue`, `current_context`, per context priority, state and queue links, per lock flag and saved priority | create, exit, yield, spinlock lock/unlock, wait / signal / interrupt with and without sleep queues, broadcast, context switch | Spinlocks never test their flag: exclusion rests on priority ceilings and on where a pre-empted context is put back. A sleeping context hands its lock over and takes it back when it is switched in |
| traps | isr locks at priority 0 | device and timer handlers signal a context; the timer handler also slices threads | they run on the current context's stack between any two of its steps |
| thread | `thread_list`, `idle_free`, `t_next` | create, exit, the idle thread's reclaiming | the idle thread walks a list that exiting threads extend |
| rwlock, sem, condvar | counters and sleep queues | lock/unlock, wait/post, interrupt | hand-over to sleepers; interrupted waits; counters of 8 bits |
| oneshot | `oneshot_list`, ticks left, reference counts | alloc, attach, detach, release, tick | callbacks run without the lock; several timers expire at once |
| heap | list of holes, `free_ram` | alloc, free, add | splitting and merging |
| membuf, netbuf | reference counts | alloc, ref, deref, clone | freeing outside the lock; shared buffers |
| slip, ppp_ahdlc | frame being received, send queue | receive octet, send, attach/detach | one damaged octet must not cost more than its frame |
| ppp, ppp_ip | LCP / IPCP automaton, restart counter and timer, identifiers | events, receive, time-out | a thread gives up the lock in the middle of an event; late time-outs; counters at zero |
| ip, udp, ethernet, ethernet_ip | clients and their references, ARP cache, routes | receive, send, attach, detach | callbacks without the lock, replacement by age, route order, byte order |
| tcp | sockets: state, sequence numbers, send flags, two timers, reference counts | receive, send, close, connect, listen, accept, reject, timer callbacks | timers against segments, deferred ACK and FIN |

Layers talk by direct calls: an octet goes up through slip or ppp_ahdlc to ip and
tcp in the receive thread, a packet goes down through send queues. Timers call
back from the timer thread (priority 0x7f), which the receive thread of a serial
line (0x40) can pre-empt; that of an Ethernet device (0x90) cannot.

What correctness means, most important first: the most urgent runnable context
runs; no two contexts are in one critical section; no wake-up is lost; memory is
handed out once and given back once; timers fire when due and not after they were
given up; locks and semaphores let in whom they should, and in the end everybody;
data arrive in order; protocol automata never get stuck.

## 2. Modules

| Module | Models | Notes |
|---|---|---|
| `Context` | `context.c`, `spinlock.c`, `isr_context_switch.c`, `thread_yield`, `isr_thread_schedule`, trap handlers; through it `condvar.c` | 14 variables, 20 actions |
| `Lists` | linking, unlinking and the two priority insertion points | shared |
| `Thread` | `thread.c`: creation, exit, idle thread | real `t_next` pointers in recycled memory |
| `RWLock`, `Sem` | `rwlock.c`, `sem.c` | each call one action, by `SpinlocksExclude` |
| `Oneshot` | `oneshot.c` with its use of `membuf.c` | |
| `Heap`, `Allocator` | `heap.c`; what it promises | `Heap` implements `Allocator` |
| `Netbuf` | `netbuf.c` and `membuf.c` | threads that share buffers |
| `Slip`, `Ahdlc` | `slip.c` with `ip_datalink.c`, `ppp_ahdlc.c` | a sender, a noisy line, a receiver |
| `Ppp`, `PppIp` | the LCP of `ppp.c`, the IPCP of `ppp_ip.c`: tables, actions, packets | operators on an instance |
| `PppLink` | two hosts with both protocols over a lossy line | composes the two above |
| `EthernetIp`, `Ip` | `ethernet_ip.c` and `ethernet.c`; `ip.c` and `udp.c` | operators on a host |
| `Lan` | hosts on one Ethernet | composes the two above |
| `Tcp` | `tcp.c`: two hosts and a network that loses, repeats and reorders | |
| `MCContext`, `MCTcp`, `MCLan`, `MCRWLock`, `MCThread` | instances of one module | |
| `MCServices`, `MCNetwork` | instances of several modules | one part per behaviour |
| `SeqLemmas`, `ContextQueue`, `ContextProofs`, `SleepQueues`, `RWLockProofs`, `SemProofs`, `OneshotProofs`, `LanProofs` | lemmas and theorems | section 5 |

Definitions whose names start with `Mut` are deliberately wrong variants of the
definition that follows them; no specification uses them.

**Context.** Every function of the library disables interrupts from its first to
its last access to shared state, so each is one action up to the point where
`isr_context_switch()` leaves the caller. What the call still has to do when the
caller is switched in again is kept in `resume`: `"wait"` (retake the lock in
`__isr_context_wait`), the tail of a trap handler, or `"none"`. While the current
context has such work no other action is enabled. `context_broadcast_queue()` is
one step per iteration (`bcast_q`), as each iteration may switch. `run_queue` is
the list along `c_run_queue`; `held` is the stack of locks of a context, whose
length is `c_spinlocks_held`; `base` is a context's priority without locks, a
history variable the properties compare with.

The callers obey the contract that the library's `DEBUG` checks spell out: locks
nest, and each is taken from a priority no more urgent than its ceiling; a context
sleeps with only the lock it hands over; a sleeper is signalled by the holder of
its lock or from a trap. Ceilings are below 0x80 (the least urgent lock of the
repository is `ppp_crc_lock` at 0x78, all others are at 0x50 or more urgent), so a
lock holder is not time-sliced.

**RWLock, Sem, Oneshot, Heap.** Each call runs under one spinlock, so it is one
action. A context taken off a sleep queue has what it waited for from then on:
the rest of its call only returns. `RWLock`'s `rwl_writers` starts with any of
several values because `rwlock_init()` does not set it. `Sem`'s count is an s8_t
with its wrap; `timeouts` counts interrupted waits and bounds them. `Oneshot`'s
`due` is a history variable: the ticks a timer really has left. `Heap` counts in
bytes with the AVR's structure sizes and the magic numbers of `HEAP_DEBUG`; a
block remembers the size asked for, which only the promise refers to. A request
that cannot be met changes nothing.

**Thread.** The idle thread's loop is four steps (read `idle_free`, take the next
thread, free it, clear `idle_free`), since it runs with interrupts on. Freed and
unbuilt memory holds `Junk` in `t_next`.

**Netbuf.** A membuf is an identifier that `heap_alloc()` hands out again once
it is free. `mb_refs` is its count, `layer` which membuf a netbuf has for each
layer, `held` the references of each thread, `freeing` how far a thread has come
with the free callback of a netbuf, which gives back one layer per step with no
lock held, before `heap_free()`.

**Slip, Ahdlc.** The state is what the send thread and the octet handler keep,
plus the octets on the line. An octet is a name: the ones the protocol gives a
meaning, and one that stands for all others. The line loses and changes octets,
`noise` of them. The check sequence of `Ahdlc` is an abstract octet that depends
on what it covers. The sender escapes control characters under the ACCM of the
packet's hint, which is what `pai_accm` was when the packet was queued.

**Ppp, PppIp, PppLink.** An instance is a record of the fields of `ppp_instance`
(state, phase, identifier, restart counter, timer, packet to send, options in
use). `ppp_trans` is the transition table, `handle_event` takes the actions and
stores the state. `handle_action()` gives up `pi_lock` while it hands a packet
to the framing layer. The receive thread is the most urgent one and is not
overtaken there; the timer thread and the creating thread are. So their events
take three actions: the event up to the packet (`lcp_tick_timeout`,
`ppp_instance_alloc`), `SlowSend` and `SlowStore`, and packets that arrive in
between are handled first. `overtaken` is a history variable: the hosts where
such a packet moved the automaton. Options are names: the ones a request of this
code has, one with an unacceptable value and one unknown. `Foreign` are packets
that a peer with other code may send. The timer callback of IPCP works on a
structure of the wrong type, and the transition it looks up lies outside the
table; followed is the outcome in which that transition does nothing.

**EthernetIp, Ip, Lan.** A host is a record: ARP cache, routes, clients with their
references, the clients being called, and the frames a handler has sent. An
address is a number with its byte order, since `hton32()` is not the identity on
either processor and one finding is about it. A frame is handled in one action up
to the callback of a client, which is an action of its own as it runs without the
lock: the client may be detached there, by itself or by a thread that runs while
the callback waits. A UDP client is called through UDP's own client of IP, and
both have a reference then. The age of an ARP entry is the number of its last
use in 0..`MAX_AGE`, after which it starts again from 0. `depth` is a history
variable that counts how many frames provoked each other, `recent` one with the
order in which addresses were used, and `uses` counts the uses.

**Tcp.** A socket is a record of the fields of `tcp_socket`. The hosts are
connected by a serial line, so that the receive thread is the most urgent one
and handles a segment in one action, although it gives up `ti_lock` where it
sends. The timer thread is overtaken between the expiry of a timer
(`WaitExpires`, `AckExpires`) and the callback, the application between the
halves of a close (`tcp_close`, `SendClose`) and on its way back from
`tcp_connect()` (`ConnectReturns`), and both where they have released `ti_lock`
to send what they built under it (`Sends`, `SendsAtLast`): the segment then goes
out with the acknowledgement of that later moment. A payload is its number.

`hurt` is a history variable, the set of ways in which a socket was used as it
must not be: `"late"` if the reference of a timer whose callback is due was
dropped, `"twice"` if a timer was attached that was attached already, `"freed"`
if a thread without a reference used the socket after it was freed, `"client"` if
a client was called that was freed. What a C program does after that is not
determined, and the model stops there. `torn` remembers that a segment came
between the halves of a close. A thread that frees a socket and looks at it again
before it releases `ti_lock` (`close_socket()`, `send_reset_close_socket()`, the
reset in SYN-SENT, an interrupted `tcp_connect()`) still finds what it left:
`heap_free()` writes only to the header of the block, and nobody else has run.
These reads are followed and not marked.

## 3. Runs

| Run | Checks | States |
|---|---|---|
| `context` | the scheduler's queues, priorities and locks (9 invariants), `PreemptedByMoreUrgent` | 398,971 |
| `services` | rwlock, sem, thread list, timers, heap, time slices: 8 invariants, 7 temporal properties, of which `Allocates` is a refinement and `MostUrgentServed`, `FoundAreFreed` and `RoundRobin` are liveness | 52,192 |
| `tcp` | `TypeOK`, `InOrder`, `AckedWasReceived`, `RefsHeld` | 866,846 |
| `tcp_live` | `Arrives`: what was sent is received in the end | about 113,000 |
| `ppp_live` | `Settles`: the negotiation ends | 11,016 |
| `network` | PPP's restart timer, framing, shared buffers, ARP cache, routes, clients (9 invariants) | about 1,188,000 |
| `rwlock_readers` | `ReadersImmediate`, **violated** | |
| `thread_leak` | `NoneLeaked`, **violated** | |
| `tcp_deferred_fin` | `FinOwed`, **violated** | |
| `tcp_late_timer` | `RefsExact`, **violated** | |
| `ipcp_timeout` | `IpcpMovesOn`, **violated** | |
| `arp_reply` | `ReplyLearnt`, **violated** | |

The components of `services` do not share state, and neither do those of
`network`. A behaviour of these runs chooses one component in its first state
(`part`) and runs it alone, so the number of states is the sum and not the
product. The violated properties state what a document or a comment of the
repository says; `findings` in `PROJECT.json` quotes it.

**Bounds.**

* `context` has the smallest cast in which every relation between two contexts
  occurs: two equals, one more urgent, one less urgent (idle); an isr lock, a
  lock at the threads' own priority and a more urgent one that nests in it; a
  priority queue under the one and a plain queue under the other. Slices are one
  tick here and two in `services`, which has two sliced threads.
* `services`: four contexts on a rwlock give two waiters of each kind behind a
  holder; five on two units of a semaphore give three waiters of which two are
  equals, and `MaxTimeouts` 3 lets all units be lost. Three blocks let one
  thread be created and another exit while a third is freed. Three timers with
  ticks of one or two are due alone or together, in any list order. The heap's
  two regions of 29 and 13 bytes hold up to five blocks; in the smaller one a
  request for 9 fits exactly and one for 1 leaves a rest that is just too small
  to split off, in the larger one every first request splits.
* `tcp`: A sends two payloads, so that one is queued behind the other, B one.
  `MaxFaults` 1 is a loss, a repetition, a reordering, an early timer, a thread
  overtaken as it sends, or a rare turn of an application (both connect, a
  connect is interrupted, the listener is detached, a connection rejected).
  `MaxNet` 4 segments under way to a host; more are lost. One connection.
  `tcp_live` has one payload and `MaxNet` 3.
* `network`: the PPP counters `RESTART_MAX_*` are 2, so that they reach zero;
  one loss and one packet of other code out of 18. Framing: three packets each,
  with octets that need an escape, one of them just too long; two damaged octets
  on SLIP and one on HDLC. Buffers: two threads, two layers, four buffers. An
  Ethernet of four hosts with an ARP cache of two slots, one fewer than the
  destinations, and six packets of an application, sent when at most one frame is
  under way to a host (`MaxQueue` 2), so that the ages (`MAX_AGE` 4) start again
  and one use more follows; one of three hosts where three clients besides UDP come and go,
  with routes to a host and to two networks of different size, and a lost frame.
  Addresses have four bits.
* `ppp_live` has `RESTART_MAX_CONFIGURE` 3 and one fault.

**Deadlock** is checked in `context` and `services`, where the system never
stops, except that a semaphore that has lost its units to interrupted waits does;
`MCServices` has a stuttering step for that state. In the protocol runs the
packets of a bounded run come to an end, and the runs stop.

**Fairness.** `RoundRobin`: a call that was switched out ends once its context is
current again (weak, it only needs the CPU); the timer keeps ticking outside
critical sections, and threads leave their critical sections and `init()` returns
(strong, as other contexts come between). `MostUrgentServed`: whoever uses the
resource gives it back. `FoundAreFreed`: the idle thread gets to run, that is the
other threads sleep now and then. `Arrives`: the network delivers what it does
not lose (weak), a thread that was overtaken goes on (weak), and the timer thread
runs (strong, since a received segment stops and starts the timer). `Settles`, `IpcpMovesOn`: the same of the line, and
a thread that has given up the lock goes on. No fairness is assumed of threads
that want to lock, wait or exit, nor of applications.

## 4. What the code promises and does not keep

Shown by runs:

* A reader/writer lock that its only writer has released stays shut for ever
  (`rwlock_readers`).
* The idle thread forgets threads that exit between its reading and its clearing
  of `idle_free`; their memory is lost (`thread_leak`).
* A close behind two unacknowledged segments forgets its FIN, since
  `tcp_send_netbuf_now()` assigns the flags (`tcp_deferred_fin`).
* An ACK between the expiry of the wait timer and its callback makes both drop
  the timer's reference to the socket (`tcp_late_timer`).
* The timer of IPCP works on the wrong structure: a request that is refused or
  gets no answer is never repeated (`ipcp_timeout`).
* ARP replies have the bytes of the target address reversed, and another host
  with this code ignores them (`arp_reply`).

Found while modelling, without a run of their own; the models follow the code:

* A semaphore loses a unit with every interrupted wait (`sem.c:77`), which
  `doc/architecture/sem.txt` does not allow for, and after enough of them the
  s8_t wraps and lets everybody in. `CountExact` says exactly what the count is.
* One tick expires at most one timer, and those behind it in the list are not
  counted down in that tick (`oneshot.c:59`, against the comment at line 48). A
  timer that re-attaches itself goes to the head of the list and delays the
  others each time it expires.
* A packet that arrives while the timer thread has given up `pi_lock` moves the
  automaton, and the timer thread then stores the state of its own event over it
  (`ppp.c:719`), so that the timer may run in a state that has none, which the
  comment at line 707 rules out. `TimerRuns` and `Settles` exempt
  the hosts where that has happened.
* The acceptance test of a HDLC frame joins its conditions with `||`
  (`ppp_ahdlc.c:82`), so a wrong check sequence does not reject a frame whose
  first octets are right.
  `Contained` therefore promises nothing about the content of damaged frames.
* A segment that comes between the halves of `client_close_socket()`
  (`tcp.c:1858`) finds FIN-WAIT1 although no FIN was sent. An ACK of everything
  takes the socket to FIN-WAIT2, a FIN on to TIME-WAIT; the application then
  sends its FIN without looking at the state again and attaches the wait timer,
  which the TIME-WAIT timer may be using. Or the peer's FIN comes after the
  retransmission timer of the FIN was attached and finds FIN-WAIT2. Run `tcp`
  reaches both, and `RefsHeld` shows that no other sequence attaches a timer
  twice.
* The application has no reference to its socket. A reset frees the socket while
  the application sleeps in `tcp_connect()` or is about to call, and
  `tcp_connect()` (`tcp.c:1814`), `tcp_send_netbuf()`, `tcp_close()`
  (`tcp.c:1880`) and the second half of a close then use freed memory;
  so does `tcp_tick_deferred_ack()`, which drops its reference before it sends
  (`tcp.c:283`). `tcp_client_detach()` leaves `ts_client` pointing to a client
  that it frees, and a segment or a reset that follows calls it. Run `tcp` reaches
  each of these (`hurt`) and follows none of them further; `Arrives` ends there.
* ARP entries are replaced by a u32_t age (`ethernet_ip.c:67`, `86`), which makes
  the cache replace the least recently used entry for 2^32 uses
  (`ArpKeepsRecent`). From then on the entries that are used are the "oldest" and
  are replaced first, while one that is not used any more stays. The ages have
  nothing to do with time: an entry never expires. The comment at line 61 says "I
  know this is wrong, but it's only for a short time (the age bit's screwed up)".
* After a simultaneous close the segments still queued are not sent.
  `Arrives` ends with the first side that is closed.

## 5. Proofs

Everything here is proved for every value of the constants that satisfies the
named assumption.

| Module | Assumption | Theorem | Statement |
|---|---|---|---|
| `ContextProofs` | `ContextAssumption` | `ContextInvariant` | `Spec => []IInv` |
| | | `TypeCorrect` | `Spec => []TypeOK` |
| | | `SpinlocksExclude` | `Spec => []MutualExclusion` |
| | | `MostUrgentRuns` | `Spec => [](CurrentIsHead /\ RunQueueSorted)` |
| | | `RunQueueComplete` | `Spec => []NoneLost` |
| | | `SleepQueuesComplete` | `Spec => []SleepersQueued` |
| | | `PrioritiesRestored` | `Spec => []PriorityRestored` |
| | | `PreemptionByUrgency` | `Spec => PreemptedByMoreUrgent` |
| `RWLockProofs` | `RWLockAssumption` | `RWLockInvariant` | `Spec => []IInv` |
| | | `WritersExclude` | `Spec => []WritersAlone` |
| | | `ReadersExact` | `Spec => [](ReadersCounted /\ QueuedOnce)` |
| | | `ReadersWait` | `Spec => WritersFirst` |
| | | `UrgentWriters` | `Spec => UrgentWritersFirst` |
| `SemProofs` | `SemAssumption`, `NoWrap` | `SemInvariant` | `Spec => []IInv` |
| | | `UnitsExact` | `Spec => [](AtMostCount /\ CountExact)` |
| | | `UnitsBusy` | `Spec => []NoneIdle` |
| | | `UrgentServed` | `Spec => UrgentFirst` |
| `OneshotProofs` | `OneshotAssumption` | `OneshotInvariant` | `Spec => []IInv` |
| | | `ReferencesKept` | `Spec => []RefsConserved` |
| | | `TimersNotEarly` | `Spec => []NeverEarly` |
| | | `CallbacksWanted` | `Spec => CallsOwners` |
| `LanProofs` | `LanAssumption` | `RoutesMostSpecific` | `Spec => []RoutesSpecific` |

The assumptions are on the constants only: TLC evaluates `ContextAssumption` in
`context`, those of the services in `services` and `LanAssumption` in `network`.
`NoWrap` says that contexts and interrupted waits together are at most 128, so
that the s8_t count does not wrap; without it `AtMostCount` is false. The
properties are those that the runs check, in `services` and `network` under the
same names or as conjuncts of `AccessCounted`, `UnitsCounted` and `UrgentFirst`;
`NoneIdle` is only proved. `NoWrap` holds of the instance in `services`.

**The scheduler.** `MutualExclusion` is far from inductive. No step tests the
lock, so why is it free when a context takes it? Because a holder runs at the
lock's ceiling or above, and a context that takes the lock is at the ceiling or
below and is the current one, so the holder would be ahead of it in the run
queue. This needs, all at once: the current context is the head of the queue
(`CurrentIsHead`), the queue is sorted (`RunQueueSorted`) and complete
(`NoneLost`), holders are runnable (`SleepersCanResume`), a pre-empted holder
stays ahead even of its equals (`HoldersFirst`), and priorities follow the stack
of held locks (`LockStack`). The inductive invariant is their conjunction:

    IInv == TypeOK /\ RunQueueInv /\ LockInv /\ SleepInv

The proof that a step keeps it has one lemma per part (`TypeNext`,
`RunQueueNext`, `LockNext`, `SleepNext`), each with one case per action:

* `SeqLemmas`: what linking into and unlinking from a sequence does to its
  entries, and that a walk along a list stops somewhere.
* `ContextQueue`: the run queue as a value. `SwitchRQ`, `YieldRQ`, `ReschedRQ`,
  `LeaveRQ`, `CreateRQ`, `UnlockRQ` and `TrapRQ` each show that one way of
  changing it keeps it sorted, complete and with holders first.
* `ContextProofs`: stacks of locks (`PushLock`, `PopLock`, `HolderMoreUrgent`),
  sleep queues (`JoinQueue`, `LeaveQueue`), the steps and the theorems.

**Locks, semaphores and timers** share `SleepQueues`: a queue is a value without
duplicates (`OnceIn`) and by urgency (`ByUrgency`), and lemmas say what linking,
unlinking and taking the head do to both and to the set of `Sleepers`. The
invariants add what relates the counters to the queues. For the rwlock,
exclusion depends on `rwl_writers` being non-zero while somebody writes and on
`rwl_readers` being exact, through hand-overs that move many contexts at once;
for the semaphore, that nobody inside is queued and that `s_count` is exact,
since its sign decides who sleeps; for the timers, that a timer's references are
its owner's and the list's, and that the count of a listed timer is never below
the ticks it really has left, although a tick's walk ends at the first expired
timer.

**Routes.** `ip_route_find()` takes the first match. The invariant is that every
list is `BySpecificity`: no entry is more specific than one before it.
`RouteAdded` shows it of `ip_route_add()`, `FirstMatch` that it makes the first
match a most specific one, and the lemmas on `SameRoutes` that no other operation
of a host touches the routes.

Only model-checked: liveness (`RoundRobin`, `MostUrgentServed`, `FoundAreFreed`,
`Arrives`, `Settles`), as fairness and ENABLED are out of the prover's reach;
`PriQueueSorted`; the heap's refinement, whose sums over sets of blocks would
need an induction over data that the prover cannot do, like `Thread`'s pointer
lists and the sums of references in `Netbuf`; and the protocols except for the
routes.

## 6. Not modelled

* Register saving, stacks and boot code (mechanism below the model); device
  drivers and registers; checksums (pure arithmetic); debug output. Statistics
  functions only read. Running out of memory stops a `DEBUG` system.
* The test programs, and of their services the UART's fifo, jiffies and the load
  average.
* `tcp.c`: the estimate of the retransmission timeout (`calc_round_trip()`; the
  model's timers expire when the network is idle, or early as a fault), the MSS
  option, a second connection in `ti_socks`, calls of `tcp.c` from inside
  `tc_recv`, and the wrap of sequence numbers, which needs four billion octets.
  `ts_rcv_nxt` is read without `ti_lock` where a segment is sent (line 1537); that
  the AVR reads it octet by octet is not followed, nor is a thread that is
  overtaken after it has sent and before it takes `ti_lock` again.
* `ethernet.c`: `ethernet_client_detach()`, which nothing calls; `ethdev.c`, the
  thin layer over drivers that `Lan`'s Ethernet stands for.
* Header fields of IP, ICMP and UDP other than addresses, protocol, type and
  port; fragments, which the code does not look for.
* TCP over Ethernet: there the timer thread is the more urgent one. It may come
  in wherever the handling of a segment or a frame gives up its lock, which
  neither `Tcp` nor `Lan` follows, and `tcp_late_timer` does not apply.
