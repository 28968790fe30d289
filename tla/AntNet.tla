------------------------------- MODULE AntNet -------------------------------
(***************************************************************************)
(* The AntNet routing agents (AntNet/antnet.cc, antnet_rtable.cc) and the  *)
(* ants they exchange.  Every agent keeps, for every destination, a row of *)
(* pheromone values, one per neighbour.  Its timer launches forward ants   *)
(* that walk at random, weighted by pheromone, and remember their path; at *)
(* the destination an ant turns into a backward ant that walks the         *)
(* remembered path home and reinforces it at every node.                   *)
(*                                                                         *)
(* The links are the network between the agents: a packet in flight waits  *)
(* for an arbitrary time, may overtake another, and may be dropped at a    *)
(* full queue.  AntLinks is this module with the links in place.           *)
(*                                                                         *)
(* Trip times are left out: only update_traffic reads them.  So are queue  *)
(* lengths: calc_next computes a probability from them that it never uses. *)
(***************************************************************************)
EXTENDS Integers, Sequences, FiniteSets

CONSTANTS
    NodeCount,     \* nodes of the topology, with the addresses 0 .. NodeCount-1
    NumNodes,      \* num_nodes_, the same at every agent: the destinations
    MaxNumNodes,   \* MAX_NUM_NODES, the slots of an ant's memory
    Link,          \* the duplex links, as two-element sets of nodes
    LinkScript,    \* the add-neighbor commands of the Tcl script, in order
    Packet,        \* packet buffers: bounds the ants alive at once
    Unit,          \* a pheromone value or probability of 1.0, in fixed point
    RFactor,       \* r_factor_ of every agent, in fixed point
    MaxSeq,        \* bound on the ants each agent launches
    MaxStarts      \* bound on the start commands an agent receives

Node == 0 .. NodeCount - 1
Dest == 0 .. NumNodes - 1

(* The scripts number the nodes from 0 and name no destination beyond them. *)
ASSUME NodesAssumption ==
    NodeCount \in Nat \ {0} /\ NumNodes \in 1 .. NodeCount /\ MaxNumNodes \in Nat

(* Only linked nodes are declared neighbours: calc_next looks up the queue
   of the link to every neighbour.                                          *)
ASSUME LinksAssumption ==
    /\ Link \subseteq {{a, b} : a, b \in Node}
    /\ LinkScript \in Seq(Node \X Node)
    /\ \A i \in 1 .. Len(LinkScript) : {LinkScript[i][1], LinkScript[i][2]} \in Link

(* A reinforcement factor is between 0 and 1. *)
ASSUME FactorAssumption == Unit \in Nat \ {0} /\ RFactor \in [Node -> 0 .. Unit]

(* An agent's counter stays below the wrap-around of ant_seq_num_. *)
ASSUME BoundsAssumption == MaxSeq \in [Node -> 0 .. 255] /\ MaxStarts \in Nat

VARIABLES
    nbrs,     \* neighbor_list_ of every node, head first
    linked,   \* how many commands of LinkScript have run
    starts,   \* how many start commands an agent has received
    timer,    \* status of ant_timer_
    seq,      \* ant_seq_num_
    rtable,   \* rt_ of every agent: destination -> row; <<>> is "no entry"
    r,        \* the global reinforcement factor that all agents share
    pkt       \* the header in every packet buffer

setup == <<nbrs, linked, starts>>
vars  == <<nbrs, linked, starts, timer, seq, rtable, r, pkt>>

-----------------------------------------------------------------------------
(* Packets.  saddr and daddr are the ends of the hop the packet is on, src  *)
(* and dst those of the ant's present journey.  Packet::free zeroes the     *)
(* header.                                                                  *)

Header == [kind : {"free", "fwd", "bwd"}, src : Node, dst : Node, mem : Seq(Node),
           saddr : Node, daddr : Node, ttl : Int]

Freed == [kind |-> "free", src |-> 0, dst |-> 0, mem |-> <<>>,
          saddr |-> 0, daddr |-> 0, ttl |-> 0]

InFlight(p) == pkt[p].kind # "free"

Free(p) == pkt' = [pkt EXCEPT ![p] = Freed]

(* target_->recv: the packet joins the queue of a link, which drops it if it
   is full, all before the handler returns.                                 *)
Send(p, h) == \E left \in {h, Freed} : pkt' = [pkt EXCEPT ![p] = left]

(* Where a node first occurs in an ant's memory. *)
First(mem, x) == CHOOSE i \in 1 .. Len(mem) :
                    mem[i] = x /\ \A j \in 1 .. i - 1 : mem[j] # x

Visited(mem, x) == \E i \in 1 .. Len(mem) : mem[i] = x

(* Mutation: memorize without the search for a loop. *)
memorize_appends(mem, x) == Append(mem, x)

(* A revisited node cuts the loop out of the memory.  The append checks no
   bound: MemoryFits below is about that.                                   *)
memorize(mem, x) == IF Visited(mem, x) THEN SubSeq(mem, 1, First(mem, x))
                                       ELSE Append(mem, x)

-----------------------------------------------------------------------------
(* Rows of the routing table.                                               *)

Entry == [neighbor : Node, phvalue : 0 .. Unit]

Equal(list) == [k \in 1 .. Len(list) |->
                  [neighbor |-> list[k], phvalue |-> Unit \div Len(list)]]

(* The share of 1.0 that the first k entries of a row take. *)
Share(row) ==
    LET sum[k \in 0 .. Len(row)] == IF k = 0 THEN 0 ELSE sum[k-1] + row[k].phvalue
    IN  sum

(* Mutations: the draw is not repeated; it may yield 1.0 itself. *)
Draws_anywhere(row, parent) == 0 .. Unit - 1
Draws_inclusive(row, parent) == 0 .. Unit

(* The draw is uniform on 0 .. Unit-1 and repeated while it falls into the
   share of the parent, the previous node of the walk.                      *)
Draws(row, parent) ==
    LET sum    == Share(row)
        at     == {k \in 1 .. Len(row) : row[k].neighbor = parent}
        first  == CHOOSE k \in at : \A j \in at : k <= j
        lrange == IF at = {} THEN sum[Len(row)] ELSE sum[first - 1]
        urange == IF at = {} \/ sum[first] = 0 THEN Unit ELSE sum[first]
    IN  {t \in 0 .. Unit - 1 : t < lrange \/ t >= urange}

(* The possible results.  No draw is left if the parent's share is all there
   is: the ant goes back.  Without a row, or with a draw beyond the last
   entry, the function ends without a return statement and any address may
   result.  (An address of no node makes a lost ant, which Lose covers.)    *)
calc_next(row, parent) ==
    LET sum   == Share(row)
        draws == Draws(row, parent)
        hits  == {k \in 1 .. Len(row) :
                    \E t \in draws : sum[k-1] <= t /\ t < sum[k]}
    IN  IF row = <<>> THEN Node
        ELSE IF draws = {} THEN {parent}
        ELSE {row[k].neighbor : k \in hits}
             \union {x \in Node : \E t \in draws : t >= sum[Len(row)]}

(* Mutations: the factor is added undiminished; the others never evaporate. *)
Reinforced_fully(row, next) ==
    [k \in 1 .. Len(row) |->
        [row[k] EXCEPT !.phvalue = IF row[k].neighbor = next THEN @ + r
                                   ELSE ((Unit - r) * @) \div Unit]]
Reinforced_alone(row, next) ==
    [k \in 1 .. Len(row) |->
        [row[k] EXCEPT !.phvalue = IF row[k].neighbor = next
                                   THEN @ + (r * (Unit - @)) \div Unit ELSE @]]

(* antnet_rtable::update on one row. *)
Reinforced(row, next) ==
    [k \in 1 .. Len(row) |->
        [row[k] EXCEPT !.phvalue = IF row[k].neighbor = next
                                   THEN @ + (r * (Unit - @)) \div Unit
                                   ELSE ((Unit - r) * @) \div Unit]]

(* Mutation: the loop over the destinations starts at the memory's start. *)
update_table_all(x, mem) ==
    LET next == mem[First(mem, x) + 1]
    IN  rtable' = [rtable EXCEPT ![x] =
            [d \in Dest |-> IF d # x /\ Visited(mem, d)
                            THEN Reinforced(@[d], next) ELSE @[d]]]

(* An agent reinforces the next node of the remembered path for every
   destination from there on.  The path holds no node twice (MemoryLoopFree),
   so no row is updated twice.                                              *)
update_table(x, mem) ==
    LET i == First(mem, x) + 1
    IN  rtable' = [rtable EXCEPT ![x] =
            [d \in Dest |-> IF \E k \in i .. Len(mem) : mem[k] = d
                            THEN Reinforced(@[d], mem[i]) ELSE @[d]]]

-----------------------------------------------------------------------------
Init ==
    /\ nbrs = [n \in Node |-> <<>>]
    /\ linked = 0
    /\ starts = [n \in Node |-> 0]
    /\ timer = [n \in Node |-> "IDLE"]
    /\ seq = [n \in Node |-> 0]
    /\ rtable = [n \in Node |-> [d \in Dest |-> <<>>]]
    /\ r = 0
    /\ pkt = [p \in Packet |-> Freed]

(* Tcl "add-neighbor": both nodes put each other at the head of their lists. *)
AddNeighbor ==
    /\ linked < Len(LinkScript)
    /\ LET a == LinkScript[linked + 1][1]
           b == LinkScript[linked + 1][2]
           one == [nbrs EXCEPT ![a] = <<b>> \o @]
       IN  nbrs' = [one EXCEPT ![b] = <<a>> \o @]
    /\ linked' = linked + 1
    /\ UNCHANGED <<starts, timer, seq, rtable, r, pkt>>

(* Tcl "start", after every add-neighbor command: initialize_rtable appends
   an entry per neighbour to every row, whatever the row holds, and sets the
   factor that all agents share.                                            *)
Start(n) ==
    /\ linked = Len(LinkScript)
    /\ starts[n] < MaxStarts
    /\ starts' = [starts EXCEPT ![n] = @ + 1]
    /\ r' = RFactor[n]
    /\ rtable' = [rtable EXCEPT ![n] =
                    [d \in Dest |-> IF d = n THEN @[d] ELSE @[d] \o Equal(nbrs[n])]]
    /\ timer' = [timer EXCEPT ![n] = "PENDING"]
    /\ UNCHANGED <<nbrs, linked, seq, pkt>>

(* Tcl "stop".  Cancelling a timer that is not pending aborts the program. *)
Stop(n) ==
    /\ timer[n] = "PENDING"
    /\ timer' = [timer EXCEPT ![n] = "IDLE"]
    /\ UNCHANGED <<setup, seq, rtable, r, pkt>>

(* Mutation: the time-to-live counts the way out only. *)
TimeToLive_oneway == NumNodes

TimeToLive == 2 * NumNodes

Launch(n, d, next) ==
    [kind |-> "fwd", src |-> n, dst |-> d, mem |-> <<n>>,
     saddr |-> n, daddr |-> next, ttl |-> TimeToLive]

(* What send_ant_pkt may send: to any destination, unless calc_next names the
   node itself, and then nothing.                                           *)
Launches(n) ==
    UNION {{Launch(n, d, next) : next \in calc_next(rtable[n][d], n) \ {n}}
           : d \in Dest \ {n}}

Expire(n) ==
    /\ timer[n] = "PENDING"
    /\ \A m \in Node : starts[m] > 0
    /\ seq[n] < MaxSeq[n]
    /\ seq' = [seq EXCEPT ![n] = (@ + 1) % 256]
    /\ \/ \E p \in Packet, h \in Launches(n) : ~InFlight(p) /\ Send(p, h)
       \/ /\ \E d \in Dest \ {n} : n \in calc_next(rtable[n][d], n)
          /\ UNCHANGED pkt
    /\ UNCHANGED <<setup, timer, rtable, r>>

-----------------------------------------------------------------------------
(* The network.  Every link decrements the time-to-live and drops a packet  *)
(* that has none left.  A packet for a node that is not adjacent is routed  *)
(* there over several links.                                                *)

Hops(p) == IF {pkt[p].saddr, pkt[p].daddr} \in Link THEN {1} ELSE 2 .. NodeCount

Arriving(p, hops) == [pkt[p] EXCEPT !.ttl = @ - hops]

ExpireTtl(p) ==
    /\ InFlight(p)
    /\ \E hops \in Hops(p) : pkt[p].ttl <= hops
    /\ Free(p)
    /\ UNCHANGED <<setup, timer, seq, rtable, r>>

(* A queue on the way, where static routing carries the packet over several
   links, is full, or the address is that of no node.                       *)
Lose(p) ==
    /\ InFlight(p)
    /\ Free(p)
    /\ UNCHANGED <<setup, timer, seq, rtable, r>>

-----------------------------------------------------------------------------
(* Antnet::recv and recv_ant_pkt.  (The branch for a packet of one's own,   *)
(* which nobody would free, is never taken: NoLoopback.)                    *)

(* Where create_backward_ant_pkt and backward_ant_pkt find the next hop.
   Mutations: the last entry for the last but one; straight to the source.  *)
lastSecond_last(mem) == Len(mem)
lastSecond_source(mem) == 1
lastSecond(mem) == Len(mem) - 1
previous_source(mem, x) == 1
previous(mem, x) == First(mem, x) - 1

TurnedBack(p, hops) ==
    LET x   == pkt[p].daddr
        mem == memorize(pkt[p].mem, x)
    IN  [Arriving(p, hops) EXCEPT
            !.kind = "bwd", !.src = pkt[p].dst, !.dst = pkt[p].src,
            !.mem = mem, !.saddr = x, !.daddr = mem[lastSecond(mem)]]

(* A forward ant at its destination: memorize, create_backward_ant_pkt. *)
TurnBack(p, hops) ==
    /\ pkt[p].kind = "fwd"
    /\ pkt[p].dst = pkt[p].daddr
    /\ Send(p, TurnedBack(p, hops))
    /\ UNCHANGED <<setup, timer, seq, rtable, r>>

(* Mutation: every forwarding node sets the time-to-live anew. *)
Onward_renewed(h, x, next) ==
    [h EXCEPT !.mem = memorize(@, x), !.saddr = x, !.daddr = next, !.ttl = TimeToLive]

Onward(h, x, next) == [h EXCEPT !.mem = memorize(@, x), !.saddr = x, !.daddr = next]

Forwarded(p, hops) ==
    LET x == pkt[p].daddr
    IN  {Onward(Arriving(p, hops), x, next) :
            next \in calc_next(rtable[x][pkt[p].dst], pkt[p].saddr) \ {x, pkt[p].saddr}}

(* A forward ant elsewhere: memorize, forward_ant_pkt. *)
ForwardAnt(p, hops) ==
    /\ pkt[p].kind = "fwd"
    /\ pkt[p].dst # pkt[p].daddr
    /\ \E h \in Forwarded(p, hops) : Send(p, h)
    /\ UNCHANGED <<setup, timer, seq, rtable, r>>

(* The same, when the only way on is the way back: the ant is released. *)
DeadEnd(p) ==
    LET x == pkt[p].daddr
    IN  /\ pkt[p].kind = "fwd"
        /\ pkt[p].dst # x
        /\ \E next \in calc_next(rtable[x][pkt[p].dst], pkt[p].saddr) :
              next \in {x, pkt[p].saddr}
        /\ Free(p)
        /\ UNCHANGED <<setup, timer, seq, rtable, r>>

(* A backward ant back at its source: update_table, then it is released. *)
Home(p) ==
    LET x == pkt[p].daddr
    IN  /\ pkt[p].kind = "bwd"
        /\ pkt[p].dst = x
        /\ update_table(x, pkt[p].mem)
        /\ Free(p)
        /\ UNCHANGED <<setup, timer, seq, r>>

(* The code looks for the node from the end of the memory; it occurs once. *)
SentBack(p, hops) ==
    LET x == pkt[p].daddr
    IN  [Arriving(p, hops) EXCEPT
            !.saddr = x, !.daddr = pkt[p].mem[previous(pkt[p].mem, x)]]

(* A backward ant on its way: update_table, backward_ant_pkt. *)
BackwardAnt(p, hops) ==
    /\ pkt[p].kind = "bwd"
    /\ pkt[p].dst # pkt[p].daddr
    /\ update_table(pkt[p].daddr, pkt[p].mem)
    /\ Send(p, SentBack(p, hops))
    /\ UNCHANGED <<setup, timer, seq, r>>

recv(p) ==
    \E hops \in Hops(p) :
        /\ pkt[p].ttl > hops
        /\ \/ TurnBack(p, hops)
           \/ ForwardAnt(p, hops)
           \/ DeadEnd(p)
           \/ Home(p)
           \/ BackwardAnt(p, hops)

-----------------------------------------------------------------------------
Next ==
    \/ AddNeighbor
    \/ \E n \in Node : Start(n) \/ Stop(n) \/ Expire(n)
    \/ \E p \in Packet : recv(p) \/ ExpireTtl(p) \/ Lose(p)

Spec == Init /\ [][Next]_vars

(* The simulator's scheduler dispatches every event in the end: a packet put
   on a link arrives, or its time-to-live runs out.                         *)
Delivery == \A p \in Packet : WF_vars(recv(p) \/ ExpireTtl(p))

FairSpec == Spec /\ Delivery

=============================================================================
