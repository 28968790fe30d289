# A TLA+ model of ANT-AODV

The repository adds AntNet, ant-colony routing, to the network simulator ns-2.35:
routing agents (`AntNet/`), changed ns-2 files (`Ns2.35Files/`: the queues of the
links and interfaces, the packet pool, trace formats), two Tcl scripts that set up
simulations (`antnet.tcl`, 12 wired nodes; `antaodv.tcl`, 70 wireless nodes) and
scripts that evaluate traces. ns-2 itself is not in the repository; what the code
uses of it is modelled from that use.

## 1. Inventory

| component | state | operations | works with |
|---|---|---|---|
| AntNet agent (`antnet.cc`) | timer, ant counter, table; the global factor `r` | `start`, `stop`, `add-neighbor`; timer expiry; receiving forward and backward ants | routing table (calls), links (packets), simulator's scheduler (timer callbacks), Tcl |
| Routing table (`antnet_rtable.cc`) | destination -> row of (neighbour, pheromone) | `add_entry`, `calc_destination`, `calc_next`, `update` | called by the agent; reads neighbour lists and queue lengths |
| Local traffic model (`update_traffic`) | windows of trip times, mean, variance, best | `update_traffic`, `get_win_size` | nothing calls it |
| DropTail (`drop-tail.cc`) | queue, limit, blocked flag | `enque`, `deque`, `shrink-queue`, `packetqueue-attach`, `reset` | the link (hand-over, resume callback), packet pool |
| Interface queue (`priqueue.cc`) | the same | `recv`, `recvHighPriority`, `filter` (two), `Terminate` | the wireless stack |
| Packet pool and types (`packet.h`) | free list, flags and reference counts; table of names | `alloc`, `free`, `refcopy`, `copy`; `initName`, `name`, `getType`, `classify` | everybody |
| Scripts (`antnet.tcl`, `antaodv.tcl`) | -- | order of commands, parameters | agents |
| Trace objects (`cmu-trace.cc`) | format of the lines | write a line for a packet, with the fields of its MAC, type and format, or release it if the node has no energy | stand between agent, router, queue and MAC |
| Trace analysers (`Delay.pl`, `antnetanalizer.pl`, `*.awk`) | counters, first and last times per packet | read a trace line by line | the trace file |
| ns-2 library, run driver | -- | object wiring, plots | -- |

What is hard here: ants of many sources change shared rows in an order that delays
decide; ants are lost at full queues half-way through teaching a path; random walks
circle; the only bound on a walk is a time-to-live shared by the way out and home;
arrays are searched and appended to without a bound; three globals (`r`, `N`,
`NUM_NODES`) are shared by all agents; `calc_next` has paths without a return value;
queues have limits, priorities and a limit that can change while packets wait.
`PROJECT.json` lists each hazard at its line with the properties that watch it.

Correctness, per component:

* agent and ants: a memory is a loop-free path of links from source to here
  (`MemoryLoopFree`, `PathFollowsLinks`), it fits its array (`MemoryFits`), a backward
  ant is always on it (`BackwardOnPath`), ants are released, but not while they walk
  without loops (`AntsReleased`, `StraightAntsSurvive`, `NoLoopback`), and the whole
  exchange is one abstract round per ant (`ImplementsRound`);
* ants over links: no buffer is leaked, doubled or used after it was freed by a queue that
  drops inside the agent's call (`InOnePlace`), no ant waits at an idle link
  (`LinksBusy`), queues and delay lines are a network as the agents assume it
  (`ImplementsAntNet`), and what was found is taught up to the node that launched the ant, if
  the time-to-live reaches there and no queue is full (`FoundPathsAreTaught`);
* routing table: rows keep all neighbours and the sum 1.0 (`RowConserved`), draws miss
  the parent (`NoUTurn`), pheromone rises only towards real routes (`LearnsRealRoutes`);
* queues: every packet is accounted for (`Accounted`, `PriAccounted`), order
  (`InOrder`, `NormalInOrder`, `UrgentAhead`), limits (`GrowsBelowLimit`,
  `PriGrowsBelowLimit`, `UrgentEvictsNormal`), no idling (`WorkConserving`);
* packets: reference counts, free list and ownership agree (`CountsReferences`,
  `FreeListSound`, `OwnedOnce`, `SharedUntouched`), no assertion of `alloc` or `free`
  fails (`AssertionsHold`); a name is found as the first type registered by it
  (`NamesRoundTrip`) and every classifier is asked (`AllAsked`);
* traces: which packets and which of their lines enter a script's figure, whatever is lost,
  overtaken or relayed (`DelayMeasured`, `RatioMeasured`, which are what happened in the
  simulation; `HopDelayMeasured`, `ThroughputMeasured`, which in link traces are not);
* trip times: those in memory are the times of the hops the loop-free path keeps
  (`TimesAreHops`), and so is what nodes are told (`SamplesAddUp`), and no ratio of them divides by zero or exceeds 1 (`FactorSound`).

## 2. Modules

**`AntNet`** models the agents, their tables and the ants, from the Tcl set-up on. The
packet buffers `pkt` hold headers; `kind` is the direction flag (`DOWN` forward, `UP`
backward, or `free` for a buffer on the free list, whose header `Packet::free` zeroes).
The handlers are actions: `AddNeighbor`, `Start` (`initialize_rtable` and the timer),
`Stop`, `Expire` (`send_ant_pkt`, reschedule), and `recv`, whose disjuncts are the
branches of `recv_ant_pkt` with everything they call: `TurnBack` (memorize, create the
backward ant), `ForwardAnt` and `DeadEnd` (memorize, choose a next hop, forward or
release), `Home` and `BackwardAnt` (update the table, release or go on).
`TurnedBack`, `Forwarded` and `SentBack` are the headers they send; `Send` is the call into
the network, which may drop the packet before it returns, as a full queue does.
Links are abstracted to "in flight": a packet may wait, be overtaken, run out of
time-to-live (`ExpireTtl`) or be dropped later (`Lose`), which covers every queue.

* Pheromone values are fixed-point numbers with 1.0 = `Unit`. The configurations choose
  `Unit` and the factor so that every value in a run is exact; `RowConserved` would fail
  if one were rounded. In the program the sum of a row is off by about 1e-14 while
  `RNG::uniform` yields multiples of about 4.7e-10, so the gap that rounding opens in a
  row is practically never drawn; exact values are the faithful abstraction.
* `calc_next` is the set of its possible results. Where the C++ function ends without
  `return` (no row, or a draw beyond the last entry), any node may result; an address
  that belongs to no node makes a lost ant.
* Every row is written at most once per ant at a node, as `memorize` leaves no node
  twice in a memory; so `update_table` needs no order.
* Trip times and queue lengths are left out: the first are read by `update_traffic`
  only and are the subject of `AntTraffic`, the second go into `thisprob`, which nothing
  reads.
* Writing beyond `pkt_memory_` is undefined in C++; the model goes on appending, and
  `MemoryFits` says where that starts.
* `recv` drops what an agent sent and never forwarded, hands packets that are no ants to
  the classifier behind it, and asserts the ports (`antnet.cc:101-119`, `175-176`). All packets
  of the model are ants of these agents; that none is heard by its own sender, which is when
  the first test matters, is `NoLoopback`.
* Both scripts start all agents at one instant, and the scheduler runs simultaneous events in
  the order they were scheduled; hence `Expire` waits for all starts.

**`AntNetProperties`** has the properties; **`AntRound`** the abstract specification: an
ant finds a simple path, its nodes learn one by one from the last but one to the first,
each the next node of the path for exactly the destinations behind it, and a round may
be lost at any point. `AntNetProperties` maps a backward ant's memory and place to a
route; a forward walk maps to stuttering. **`MCAntNet`** has topologies for TLC.
**`AntNetProofs`** has the theorems for every script, lemmas about sums and draws in a row, and
behind them the theorems for wired agents.

**`AntLinks`** composes the agents with the links of `antnet.tcl`: on each simplex link a
DropTail queue (`enque` is an instance of `DropTail`'s), blocked while the link
transmits, and behind it a delay line that keeps the order and ends at the time-to-live
check. `Enqueue` is an agent's send down to the hand-over to an idle link; `Resume` the
end of a transmission, which starts the next; `Arrive` an arrival with everything the
agent does in it, its own send included. Nothing is lost by choice: a full queue drops and
the time-to-live runs out. Its variables are those of `AntNet` and the links', and
`ImplementsAntNet` says that it implements `AntNet` with its fairness. Ants go to
neighbours only, so it is for wired agents; an agent that is stopped just expires no
more. **`MCAntLinks`** has a line for TLC, **`AntLinksProofs`** the theorems.

**`DropTail`** models one queue below ns-2's `Queue` class (`recv`, `resume`,
`SendUnlessBlocked`, external): counted in packets or bytes, dropping at the tail or the
front, all of which Tcl may change while packets wait (`Configure`). `packetqueue-attach`
replaces the queue object and deletes the old one; the packets in it are in `lost`.
**`PriQueue`** extends it with the priority of backward ants and routing packets.
`filter` takes the first packet for a next hop out of the queue, `filterAll`
all of them. `MCDropTail`, `MCQueue` instantiate them; **`QueueProofs`** has the theorems about both.

**`PacketPool`** models the memory of packets: `alloc`, `alloc(n)`, `refcopy`, `setdata`,
`copy` and `free`, with the free list, `fflag_`, `ref_count_`, the sign of `uid_`, and the
two things a packet owns on the heap, its user data and its DCCP options. Clients are
the references they hold (`refs`, which the code does not store); each gives its own
back once. `freeAgain` is the `free` of a packet on the list, which the code ignores. The
scheduler (external) takes over one reference while an event is pending. `MCPacketPool`
adds symmetry: packets and heap objects are interchangeable.

**`PacketInfo`** models the table of type names, which `initName` rebuilds when a type is
registered, and the chain of classifiers. `PT_NTYPE` is a static variable of a header, so
every source file (`File`) has its own. `p_info::addPacket` is ns-2's, in `packet.cc` (`Lib`, external),
and raises the copy there. `initName` and `getType` are inline functions of a class, of
which the linker keeps one body; whose copy that body reads is not determined by the
source, so `initCopy` is any file, for good, and `getType` has the file as a parameter.
Nothing keeps a module from registering a name twice, and the model allows it: the
second type of a name is not found by it. `given` is what was registered so far. The 74 built-in
types are scaled to four and their names represented by the types themselves; modules
register other names (`NamesAssumption`). That a classifier is added once is an assumption: one
added twice would be its own successor. A name that the program never set is `Garbage`.
`NamesRoundTrip` is stated for `initCopy = Lib`: where `initName` reads another copy it thinks the table
large enough, and the name is written behind its end. **`PacketInfoProofs`** has the theorems.

**`AntTraffic`** follows one ant at a time and models what `AntNet` leaves out: the trip
times of the memory, which `memorize` shifts when it cuts out a loop, and
`update_traffic`. The code builds the times and carries them, but nothing calls
`update_traffic`; the model calls it at every node on the way back, beside `update_table`,
which is what its parameter is made for. So `TimesAreHops` is about the program as it
is, `SamplesAddUp` and `FactorSound` about the function when it is used so. Times are
ticks, means fixed-point numbers of `Scale` to the tick, rounded down, which can only make
`FactorSound` harder to keep. **`AntTrafficProofs`** has the theorems.

**`TraceAnalysis`** models how a trace comes about and what the scripts make of it. The
simulation sends, relays, delivers and drops data packets and drains batteries, and writes
lines in one of three formats: that of a link, that of `cmu-trace.cc`, and the same after
`use-newtrace`. A line is the sequence of its blank-separated fields, put together as the
trace objects do it, by `format_mac_common` (whose MAC part has four fields with 802.11,
three with SMAC, and eight in the new format), `format_ip` and the format of the type
of packet; the scripts pick fields by number, as they do, or look for a word anywhere in
the line. Nothing in the program ties the two together, so the properties are also about
fields in the wrong place. What a field holds is modelled where some script reads it;
`Values` and `Tagged` count the others. Beside data there may be control frames, ARP and ants
(`Overhead`), which no figure may be taken from. Wireless trace objects are on the
packet's way: at a node without energy they release it and write nothing (`Vanish`). Each
script is a function of the trace; the awk scripts are modelled on the formats they have a
branch for. The real history is kept beside the trace: when a packet was sent and delivered
(`sent`, `got`), how many links it has come over and when it came over the last (`hops`, `heard`). ns-2's MAC
filters duplicates, so a packet is delivered at most once; times start at 1, as the scripts'
traffic does, since to `Delay.awk` a time of 0 means "never". `ThroughputMeasured` is
stated for 802.11 only: with SMAC in the new format no tags are written, and the fields
`Throughput.awk` counts on have moved.

The awk scripts report less than their names say, and the properties say what:

* `Delay.awk`'s END block (`delay_awk`) averages over every packet in `recvTime`. In a link trace
  that is every packet that has come over a link, one dropped behind its first link included,
  with the time up to the last link it has come over. Only of a delivered packet is this its delay.
* `Throughput.awk` counts each receive line. In the new format with 802.11 those of agents are
  the deliveries; in a link trace there is one for every link, so that a packet counts as
  often as it has links behind it, and the interval ends with the last arrival at any hop.
* No script of the repository switches the new format on (`use-newtrace`, `ns-lib.tcl:853`).
  `Ant-AODV.py:94-103` gives `Throughput.awk` the old-format wireless traces that
  `antaodv.tcl` writes, where its field 6 is the packet's id and no size. That use is not
  modelled: the numbers it yields are no property of the traffic.
* `Residual_Energy.awk` looks at nodes 0 to 49 (`watched`), of the 70 that `antaodv.tcl` has.

Left out are `-` lines (nothing reads them for a figure), and the divisions that end the
scripts, whose operands are there. **`TraceAnalysisProofs`** has the theorems.

**`SequenceLemmas`** has what several of the proofs need: induction on a bounded set of
numbers (`Climb`), the existence of functions defined by recursion (`Iterates`), and lines of
packets that move from a queue to a wire.

Definitions whose comment says *Mutation* are wrong variants of the definition that
follows them. Nothing uses them; each shows that some property notices that mistake.

## 3. Runs

| run | shows | bounds |
|---|---|---|
| `links` | a line of four agents over queues and delay lines, under fairness: `TypeOK`, `InOnePlace`, `LinksBusy`, `ImplementsAntNet`, `FoundPathsAreTaught` | three ants from one end, three buffers, limits 2 and 3 |
| `walks` | a triangle with a leaf behind a cut node, where ants may circle before they find the leaf: `RowConserved` (of a row with three entries), `NoUTurn`, `PathFollowsLinks`, `MemoryLoopFree`, `MemoryFits`, `StraightAntsSurvive`, `LearnsRealRoutes` (only a cut node separates right from wrong directions), `ImplementsRound` | two ants at once |
| `unwired` | the same nodes with agents that know no neighbours, every next hop arbitrary, under fairness: `BackwardOnPath`, `NoLoopback`, `AntsReleased` | one ant at once, two in all |
| `fifo` | DropTail with a limit of 1, 2 or 4, in packets or bytes, dropping at either end, all changing, with shrinks, resets and replaced queues: `Accounted`, `InOrder`, `GrowsBelowLimit` | 5 arrivals of sizes 1, 3 |
| `priority` | PriQueue with two classes, two next hops, a limit of 1, 2 or 4, in packets or bytes, dropping at either end, all changing: `PriAccounted`, `WorkConserving` (any arrival starts an idle link, urgent or not), `UrgentAhead`, `NormalInOrder`, `UrgentEvictsNormal`, `PriGrowsBelowLimit` | 5 arrivals |
| `pool` | allocation, sharing, copying, scheduling and freeing in any order: `CountsReferences`, `FreeListSound`, `OwnedOnce`, `AssertionsHold`, `SharedUntouched` | 3 packets, 4 heap objects, 3 references to a packet |
| `info` | types and classifiers registered in any order: `NamesRoundTrip`, `AllAsked` | 4 built-in types, 3 names, 3 registrations, 2 source files, 3 classifiers |
| `traffic` | the topology of `walks`: `TimesAreHops`, `SamplesAddUp`, `FactorSound` | 2 ants, 6 hops of 1 or 2 ticks |
| `analysis` | traces of all three formats and two MACs: `DelayMeasured`, `HopDelayMeasured`, `ThroughputMeasured`, `RatioMeasured` | 2 packets, 1 battery, three kinds of other lines, 5 lines |

Two ants at once are enough for every interleaving between two updates of a row, and
`Unit` is 16 in `links` and 48 for a row of three, so that halving is exact as often as it
happens. Four nodes are the least with a circle that does not pass the destination, and
with a cut node. In `links` ants that go out meet those that come home at the nodes in the
middle; a third packet overflows a queue of limit 2, which holds one beside
the one on the link, and a limit of 3 never overflows, which `FoundPathsAreTaught`
needs. The line is 0-3-1-2 and destinations are 0 to 2, so the time-to-live is 6: an ant of
node 0 to node 1, two hops off, has enough of it to come home past node 3 and teach both, one to
node 2, three hops off, may run out of it on the way. In `unwired`
calc_next may return any node, so its walks include those of every table; ants share
nothing there, as all rows are empty, so one at a time is enough. Five
arrivals fill a queue of limit 4 (which holds three, plus one on the link) and overflow it.
Three packets make a free list with a middle, and three references one that is released
after two frees that must not release it; four heap objects let a packet that owns data
and options be copied. Three names
grow the table over names that were carried over before. Six hops let an ant go twice
round the triangle, so that a loop is cut out of a memory already shifted; the second ant
meets samples of the first. Two packets overtake each other, and five lines leave room
to send both and end both with one line of the battery or of another packet anywhere
between, or to relay one of them twice.

Runs that end in a counterexample, each a statement of the code's own comments that the
code does not keep (`findings` in `PROJECT.json`):

* `overflow`: more nodes than `MAX_NUM_NODES` (70 in `antaodv.tcl`) overflow a memory; at scale, 4 nodes and 3 slots.
* `last_one`: `packet.h:159` says of `PT_NTYPE` that it must be the last type; in a file other than
  `packet.cc`, `getType` returns it for an unknown name after it has become a registered type. Nothing
  in the repository registers one.
* `energy`: `Residual_Energy.awk` divides the energy left by one node fewer than it is the sum of.

Deadlock is checked in `pool`, where somebody can always act. Elsewhere the scripts stop
the agents, or the bounds on ants, arrivals and names end every run.

**Fairness.** `FairSpec` assumes only that the scheduler dispatches each packet on a link
in the end, as an arrival or as the end of its time-to-live; ns-2 dispatches every event
in its queue. Nothing is assumed of timers or of losses. `LinksFairSpec` assumes still less
(`Progress`): that the scheduler goes on dispatching ends of transmissions and arrivals,
of whichever link. That this gives every single ant the delivery that `FairSpec` assumes is part of
`ImplementsAntNet`; it rests on the time-to-live, which keeps other ants from holding the
scheduler for ever, and on queues that are served in order.

## 4. Proofs

`AntNetProofs` proves for every topology, script, factor, bound and number of packets:
`TypeCorrect`, `MemoryIsLoopFree`, `BackwardStaysOnPath`, `NeverLoopsBack`, and, if there
are no more nodes than `MAX_NUM_NODES`, `MemoryNeverOverflows`. A call that sends may
drop the packet at once, in which case the step frees its header instead of rewriting it.

None of these is inductive alone. That a backward ant's next search finds a place needs
a memory without repetition that starts at its source; that turning back finds a last
but one entry needs a source different from the destination and a first entry that
memorize never changes; that the walk never reads a missing row's slot needs types. The
inductive invariant `IInv` is `TypeOK` and `HeaderOK` of every buffer: loop-free memory,
right ends, `src # dst`, `saddr # daddr`, and for a backward ant a place `k` with it on
the hop from `mem[k+1]` to `mem[k]`. Each operator on headers has a lemma that it
preserves `HeaderOK`; each step rewrites one header (`OneHeader`). No lemma uses what
calc_next returns beyond its being a node, so the theorems hold for agents with empty
rows as well. That no memory is longer than the number of nodes is the pigeonhole
principle. Rows stay typed because a factor between 0 and 1 moves a share by no more
than there is room (`ShareBounds`).

The second half of `AntNetProofs` is about what agents do in a wired network: `RowsAddUp`,
`AntsFollowLinks`, `AntsGoOn`, `StraightAntsArrive` (if every node is a destination),
`AntsImplementRound` and `AntsTeachRealRoutes`. There are two assumptions. `Wired` is about
the constants: the script declares every link once, each node has one, agents are started
once, with a factor below 1. `antnet.tcl` does all this (lines 91 to 107 repeat the links of
26 to 42, one `start`, a factor of 0.05). `Exact` is about a state: no share of a row and
no part of a value is rounded. The theorems are of the form `Spec /\ []Exact => ...`, because
with fixed-point numbers a sum is 1.0 only so long as that is so. It is so in every state
of `walks`, whose rows of 16 or 24 parts of 48 are halved at most twice.

* Rows and paths need each other. An ant stays on links because calc_next, in a row that
  adds up to 1.0, draws a neighbour; and a row still adds up after an update because the
  neighbour it reinforces has one entry there, which it has because the ant came over a
  link. `PInv` therefore has both, with the facts that neighbour lists are the links declared so
  far, without repetition, and that no ant exists before every agent has started. Without
  the last, an ant at an agent with empty rows could go anywhere.
* A row adds up by induction over its entries. The library's induction theorems cannot be
  used here, but the pigeonhole principle can: if 0 is in a set that is closed under
  successor up to n, the whole of 0 .. n is, or the part below the first gap would be mapped
  one to one into itself without its 0 (`Climb`). `ShareIs` shows in the same way that the
  recursive `Share` is what its definition says. `ReinforcedShares` then has, for the first k entries,
  `Unit * new = (Unit - r) * old`, and `Unit * r` more once k has passed the entry that gains.
* `AntsGoOn` is about the draws: the parent's share is an interval that is not all of
  0 .. Unit - 1, and the draws that are left fall into other entries (`DrawsMiss`).
* `AntsImplementRound` needs the path to be one of links when a walk turns back, and then that a
  stop favours what it should (`Gains`, `Lesson`). `AntsTeachRealRoutes` follows from the same
  `Lesson`: the rest of the path leads to the destination and does not hold the node
  (`RestReaches`, again by `Climb`).

`PacketPoolProofs` proves for any number of packets, heap objects and references
`TypeCorrect`, `LastFreeReleases`, `FreeListIsSound`, `SharingIsSafe`,
`OwnershipIsSingle` and `AssertionsNeverFail`. The argument is circular in the good sense:
the count tells the last reference only if the packet that `alloc` took was used by nobody,
since `alloc` sets one reference and leaves `ref_count_` alone; and the packet was used by
nobody only if the list has no packet in use, which is the count's doing. So
`CountsReferences` and `FreeListSound` are invariants together, with the two facts that a
pending event is held (`PendingHeld`) and that a packet nobody made is not in use
(`UnmadeUnused`). Two lemmas say what taking and putting a head does to a list without
repetitions. `Owners` states ownership slot by slot; it is inductive on top of that, as a
packet not in use owns nothing, and the assertions follow from both. The assumption is
that the null pointer is no object.

`AntLinksProofs` proves `LinksImplementAntNet`, which is `LinksSpec => Spec` for any
topology, limits and number of packets; so what is proved of `AntNet` holds over links,
as `BackwardOnPathOverLinks` shows on an example. The step lemma needs types only: every
`Enqueue` is a `Send`, and it drops or not, as `AntNet` allows. `AntsInOnePlace` and
`LinksKeepBusy` are about the links themselves. Their invariant `LInv` has the ants of a
link as one line, the wire followed by the queue: an ant in flight is in exactly one
line, once. Lemmas of `SequenceLemmas` say that serving a queue leaves the line as it is, that an
arrival joins it at the end, and that a delivery takes its head. An arrival that sends on
does both on two lines, or on one and the same if the ant turns back, so the proof first
pops the packet and shows the invariant with that ant in no place (`PopOK`), then pushes it (`PushOK`).

`QueueProofs` proves for any limits, sizes and number of arrivals `DropTailTyped`,
`DropTailAccounts`, `DropTailConservesWork`, `DropTailInOrder` and
`DropTailGrowsBelowLimit`. `InOrder` is about what left and is not inductive: the invariant
`DInv` says that everything delivered came before the packet on the link, that before
the whole queue, and that the queue is sorted by arrival, whichever end drops. The
places a packet can be in (queue, link, delivered, dropped, lost with a replaced queue) are
kept apart as sets of numbers that together are all arrivals; a move from one to another
keeps that (`ApartMoves`), and disjoint sets add up (`ApartCounts`), which is `Accounted`.

It proves of the priority queue `PriQueueAccounts`, `PriQueueConservesWork`,
`PriQueueKeepsUrgentAhead`, `PriQueueNormalInOrder`, `PriQueueEvictsNormal` and `PriQueueGrowsBelowLimit`. There the
queue is not sorted by arrival: urgent packets stand in the order in which they passed
each other. `PInv` orders it by the relation `Follows`: no urgent packet stands behind one that
is not, and of two that are not urgent the older stands in front. Everything the
queue does keeps some of the packets in their places (`PartOrdered`), puts one in
front (`PushOrdered`), appends one that is not urgent (`AppendOrdered`), or takes one
out of the middle (`WithoutOrdered`); `Others` is shown to keep order by induction along its
recursion. Packets that a filter took are a fifth place, beside the four of DropTail.
Two of the properties could not be proved as they were first stated, for reasons that are
the code's, and now name the case:

* with `drop_front_`, an arrival that is not urgent goes through `DropTail::enque`, which
  drops the head: that may be a backward ant, while data waits behind it. The promise
  that an urgent packet is dropped only if nothing else waits holds for every arrival if the
  queue drops at its tail, and otherwise for urgent arrivals (`UrgentArrives`).
* with `queue_in_bytes_`, `DropTail::enque` compares bytes and `recvHighPriority` compares packets. So a
  queue that is limited in bytes may hold more packets than `qlim_` has units, if packets
  are smaller than the mean size; what is limited by `PriGrowsBelowLimit` is an urgent arrival in any
  case, and every arrival if the limit is in packets.

`PacketInfoProofs` proves `TypesFoundByName` and `EveryClassifierAsked` for any numbers of types,
names, source files and classifiers. `Counted` says that packet.cc's copy of `PT_NTYPE` is the number
of types, which needs nothing of the table. `Table` says that a table has exactly the built-in
types, each with its own name, and behind them the registered names in order; it holds where
`initName` reads that copy, as rebuilding the table then keeps every entry that was
named, and the name that is set afterwards is at the end (`addPacketTable`). `getTypeLeast` and
`getTypeNone` turn that into what `getType` returns, a name registered twice included.
That every classifier is asked needs a rank: `Chained` numbers the registered classifiers so that
`next_` goes from each to the one with the number below, and
from the one with number 1 to nobody. Then `classify`, which stops at the first classifier that
knows the type, has gone past exactly those with higher numbers (`ChainAsked`), and its bound
on steps is never what stops it.

`AntTrafficProofs` proves `MemoryHasHopTimes`, `TripTimesAddUp` and `ReinforcementFactorSound` for
any topology, hop times and number of ants. The memory of an ant is related to the whole walk
(`Remembers`): there is a function from places of the memory to arrivals of the walk, each the last
at its node, such that the next place holds the node of the next arrival, and the two
trip times differ by that hop. When `memorize` cuts out a loop it shifts the times of the places that stay
by one amount, so differences survive, and the function stays the same except at the
end (`memorizeOK`). A walk and a memory have the same last stop at a node, so these hops are `HopTime`, which is
about the walk alone. On the way back, `Taught` says that all nodes the ant has passed have as
their last samples the differences of its times: for the next node the time of the hop
there, and so on as they add up; and `Sound`
that the best time is positive and no sample nor the mean is below it. The mean is an average that is
rounded down after a difference was divided; that it does not sink below the best is `DivLeast`.

The other assumptions about `AntNet` are those it names: nodes numbered from 0, at most as many
destinations as nodes, neighbours declared only along links, factors between 0 and 1.

`TraceAnalysisProofs` proves `DeliveryRatioMeasured`, `PacketDelaysMeasured`, `HopDelaysMeasured`
and `BytesMeasured` for any packets, batteries and length of the trace. The argument has four layers.

* *Lines.* What the scripts read is at fixed places of a line (`WirelessLine`, `WiredLine`,
  `NewLine`, `EnergyLine`), with whatever number of fields the MAC, the energy model and the type of
  packet put before it. `Begins` says that a line starts with given fields; lines are put together
  from parts that do. A field that nothing reads is a star, and stars are never taken for a word.
* *Steps.* Each step adds to the trace one line of an agent that tells of one send (`Sends`) or
  of one delivery (`Delivers`), or the two lines of a packet between two links (`Forwards`), or only
  lines of the side (`Passes`), of routers, queues, MACs and
  batteries. `History` is the invariant: no packet in flight is delivered, all were sent, and no time
  is ahead of the clock.
* *Perl scripts*, which look at the whole trace: `Logged` says that every packet sent has one
  line, every delivered one a second line behind it, and all other lines are `Quiet`. Then the matching lines
  are as many as the packets, and the search of `Delay.pl`, which recurses from the
  last line to the first, adds up the delays of the packets whose first line it has come to.
* *awk scripts*, which read line by line: what they have stored after each line is the history
  (`Linked` in a link trace, `Measured` in the new format). `AwkReadsOn` shows by `Climb` that a longer trace is read as the
  shorter one and then the rest.

Sums over sets (`MapThenSumSet`) are defined by a recursion that takes elements in
the order of CHOOSE; `TotalGrows` shows that any element may be the last to be added. `BytesMeasured` has
the hypothesis `MaxLines < 1000000`: `Throughput.awk` starts with `startTime = 1000000` and lowers it, so
a trace whose first packet is sent later is measured from there. The clock of the model goes
on by one line at most, so the bound on lines bounds it. With SMAC in the new format the
fields move, as section 2 says, and there is no theorem; nor is there one about `Throughput.awk` on
old-format wireless traces, which is not modelled.

Only model-checked:

* `AntsReleased`, `FoundPathsAreTaught` and the fairness in `ImplementsAntNet`, which are
  liveness, out of the prover's reach.

## 5. Not modelled, and the plan

Not modelled: ns-2's Tcl library and defaults, the Makefile and the Python driver: they
hold no state of the protocol. A `start` after `stop` appends a second set of entries to
every row (`antnet.cc:475`); no script does it, and the runs allow an agent one start.

Left out inside modelled components: a `packetqueue-attach` that names no queue, after
which the next packet crashes; `initdata`, which nothing calls; the variance and the factor of
`update_traffic`, which would need square roots; headers and trace formats of protocols that
neither script runs (`cmu-trace.cc` formats some twenty); tagged lines, which no script
here switches on or reads; lines for the animator; the analysers' counts of routing packets.

What could be added, in this order:

1. `PriQueue` as the queue of `AntLinks`, where backward ants overtake: `ImplementsAntNet`
   holds of its safety part by the same argument, but an ant may be starved.
2. `Simulator`: the wiring in `ns-lib.tcl` that scripts rely on (nodes, links, attaching and
   connecting agents, and when `run` allows it).
