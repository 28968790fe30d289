-------------------------- MODULE AntNetProperties --------------------------
(***************************************************************************)
(* What AntNet's agents and ants must do, and what the comments of the     *)
(* code say they do.                                                       *)
(***************************************************************************)
EXTENDS AntNet

(* Every variable stays in its type: rows name nodes, every pheromone value
   is between 0 and 1.0, every header holds nodes.                          *)
TypeOK ==
    /\ nbrs \in [Node -> Seq(Node)]
    /\ linked \in 0 .. Len(LinkScript)
    /\ starts \in [Node -> 0 .. MaxStarts]
    /\ timer \in [Node -> {"IDLE", "PENDING"}]
    /\ seq \in [Node -> 0 .. 255]
    /\ rtable \in [Node -> [Dest -> Seq(Entry)]]
    /\ r \in 0 .. Unit
    /\ pkt \in [Packet -> Header]

(* An ant's memory never holds a node twice, starts at the node that launched
   the ant and ends at the node it left last, or, once it travels backwards,
   at its destination: memorize cuts every loop, whatever the walk was.     *)
MemoryLoopFree ==
    \A p \in Packet : InFlight(p) =>
        LET h == pkt[p]
        IN  /\ Len(h.mem) > 0
            /\ \A i, j \in 1 .. Len(h.mem) : h.mem[i] = h.mem[j] => i = j
            /\ h.mem[1] = (IF h.kind = "fwd" THEN h.src ELSE h.dst)
            /\ h.mem[Len(h.mem)] = (IF h.kind = "fwd" THEN h.saddr ELSE h.src)

(* A backward ant is always on the hop between two consecutive nodes of its
   memory, so that the unbounded searches of update_table and
   backward_ant_pkt find their node, with a node after it and one before.   *)
BackwardOnPath ==
    \A p \in Packet : pkt[p].kind = "bwd" =>
        \E k \in 1 .. Len(pkt[p].mem) - 1 :
            pkt[p].daddr = pkt[p].mem[k] /\ pkt[p].saddr = pkt[p].mem[k + 1]

(* No agent receives a packet it sent itself: recv would neither handle nor
   free it.                                                                 *)
NoLoopback == \A p \in Packet : InFlight(p) => pkt[p].saddr # pkt[p].daddr

(* pkt_memory_ has room for every node an ant remembers, although memorize
   appends without a check: the topology must fit MAX_NUM_NODES, "Maximum
   number of nodes in topology".                                            *)
MemoryFits == \A p \in Packet : Len(pkt[p].mem) <= MaxNumNodes

(* calc_next only sends ants over links, so a memory is a path of the
   topology and update_table reinforces a "nieghbor node".                  *)
PathFollowsLinks ==
    \A p \in Packet : InFlight(p) =>
        /\ {pkt[p].saddr, pkt[p].daddr} \in Link
        /\ \A i \in 1 .. Len(pkt[p].mem) - 1 : {pkt[p].mem[i], pkt[p].mem[i+1]} \in Link

(* calc_next excludes the parent exactly: an ant in the middle of its walk
   turns back or is released only where the parent is the one neighbour.    *)
NoUTurn ==
    \A p \in Packet :
        LET x == pkt[p].daddr
        IN  pkt[p].kind = "fwd" /\ x # pkt[p].dst /\ Len(nbrs[x]) > 1
            => calc_next(rtable[x][pkt[p].dst], pkt[p].saddr) \cap {x, pkt[p].saddr} = {}

(* However many ants update a row, in whatever order, it keeps one entry for
   every neighbour, all positive, that add up to 1.0: each neighbour stays a
   possible next hop and every draw lands on one.                           *)
RowConserved ==
    \A n \in Node, d \in Dest : starts[n] > 0 /\ d # n =>
        LET row == rtable[n][d]
        IN  /\ [k \in 1 .. Len(row) |-> row[k].neighbor] = nbrs[n]
            /\ \A k \in 1 .. Len(row) : row[k].phvalue > 0
            /\ row # <<>> => Share(row)[Len(row)] = Unit

(* The hops an ant has behind it are those of its memory, there and, once it
   travels backwards, back again: no loop was cut out of its walk.          *)
Straight(p) ==
    LET links == Len(pkt[p].mem) - 1
    IN  TimeToLive - pkt[p].ttl =
            IF pkt[p].kind = "fwd" THEN links
            ELSE 2 * links - First(pkt[p].mem, pkt[p].daddr)

(* The time-to-live covers out and back together: it never runs out on an ant
   whose walk was without a loop, whatever pair of nodes it joins.          *)
StraightAntsSurvive ==
    \A p \in Packet : InFlight(p) /\ Straight(p) => \A hops \in Hops(p) : pkt[p].ttl > hops

(* y reaches d without passing x: no set of nodes closed under the links
   around x contains y and misses d.                                        *)
ReachesAround(y, d, x) ==
    \A S \in SUBSET (Node \ {x}) :
        y \in S /\ (\A u \in S, v \in Node \ {x} : {u, v} \in Link => v \in S) => d \in S

(* When a node's pheromone for a destination rises on a link, that neighbour
   reaches the destination by a path that does not come back through the
   node: no ant ever teaches a node to route in a circle through itself.    *)
LearnsRealRoutes ==
    [][\A x \in Node, d \in Dest : \A k \in 1 .. Len(rtable[x][d]) :
          rtable'[x][d][k].phvalue > rtable[x][d][k].phvalue
          => ReachesAround(rtable[x][d][k].neighbor, d, x)]_vars

(* Every launched ant is released: its time-to-live bounds a walk that may
   circle for ever and the way home together.                               *)
AntsReleased == \A p \in Packet : InFlight(p) ~> ~InFlight(p)

(* The agents keep the promise of AntRound: a forward walk, however long, is
   one Find, and every step of a backward ant is one Learn at one node.     *)
Route(p) == IF pkt[p].kind = "bwd"
            THEN [path |-> pkt[p].mem, pos |-> First(pkt[p].mem, pkt[p].daddr)]
            ELSE [path |-> <<>>, pos |-> 0]

Round == INSTANCE AntRound WITH
            Ant <- Packet, table <- rtable, route <- [p \in Packet |-> Route(p)]

ImplementsRound == Round!Spec

=============================================================================
