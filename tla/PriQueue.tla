------------------------------ MODULE PriQueue ------------------------------
(***************************************************************************)
(* The interface queue of a wireless node (Ns2.35Files/priqueue.cc): a     *)
(* DropTail queue that puts routing packets, and of the ants those that    *)
(* travel backwards, in front of all others.                               *)
(***************************************************************************)
EXTENDS DropTail

CONSTANTS
    High,    \* classes that jump the queue: routing protocols, backward ants
    Hop,     \* next hops
    HopOf,   \* the next hop of the packet with a given number
    Prefer   \* Prefer_Routing_Protocols

ASSUME HighAssumption == High \subseteq Class /\ Prefer \in BOOLEAN
ASSUME HopAssumption  == HopOf \in [1 .. MaxArrivals -> Hop]

VARIABLE taken    \* the packets that filter took out of the queue

priVars == <<vars, taken>>

Urgent(p) == Prefer /\ p.class \in High

PriInit == Init /\ taken = {}

(* Mutations of what recvHighPriority makes of the queue: the packet goes to
   the end; the limit is forgotten; the head is dropped.                    *)
enqueHead_tail(s, p) == enque(s, p)
enqueHead_unlimited(s, p) == [q |-> <<p>> \o s, drop |-> {}]
enqueHead_evicts(s, p) ==
    LET all == <<p>> \o s
    IN  IF Len(all) >= qlim /\ s # <<>>
        THEN [q |-> <<p>> \o Tail(s), drop |-> {Head(s)}] ELSE [q |-> all, drop |-> {}]

(* The packet goes to the head, and if the queue is full then, the last one
   is dropped, which may be the packet itself.                              *)
enqueHead(s, p) ==
    LET all == <<p>> \o s
        n   == Len(all)
    IN  IF n >= qlim THEN [q |-> SubSeq(all, 1, n - 1), drop |-> {all[n]}]
                     ELSE [q |-> all, drop |-> {}]

(* Mutation: an idle link is not started. *)
recvHighPriority_waits(p) ==
    /\ Arrival(p)
    /\ LET e == enqueHead(q, p)
       IN  q' = e.q /\ dropped' = dropped \union e.drop
    /\ UNCHANGED <<config, blocked, wire, out, lost, taken>>

recvHighPriority(p) ==
    /\ Arrival(p)
    /\ LET e == enqueHead(q, p)
       IN  SendUnlessBlocked(e.q) /\ dropped' = dropped \union e.drop
    /\ UNCHANGED <<config, lost, taken>>

recvNormal(p) == recv(p) /\ UNCHANGED taken

(* PriQueue::recv *)
PriRecv(p) == IF Urgent(p) THEN recvHighPriority(p) ELSE recvNormal(p)

(* The packets for other next hops, in their order. *)
Others(s, hop) ==
    LET kept[k \in 0 .. Len(s)] ==
            IF k = 0 THEN <<>>
            ELSE IF HopOf[s[k].id] = hop THEN kept[k-1] ELSE Append(kept[k-1], s[k])
    IN  kept[Len(s)]

(* Mutation: every packet for the next hop leaves, the caller gets one. *)
filter_greedy(hop) ==
    /\ \E i \in 1 .. Len(q) : /\ HopOf[q[i].id] = hop
                             /\ taken' = taken \union {q[i]}
    /\ q' = Others(q, hop)
    /\ UNCHANGED <<config, blocked, wire, history>>

(* filter(id): the first packet for a next hop, given to the caller. *)
filter(hop) ==
    /\ \E i \in 1 .. Len(q) :
          /\ HopOf[q[i].id] = hop
          /\ \A j \in 1 .. i - 1 : HopOf[q[j].id] # hop
          /\ q' = SubSeq(q, 1, i - 1) \o SubSeq(q, i + 1, Len(q))
          /\ taken' = taken \union {q[i]}
    /\ UNCHANGED <<config, blocked, wire, history>>

(* filter(fn, data): all packets a predicate selects, here those for a hop. *)
filterAll(hop) ==
    /\ \E i \in 1 .. Len(q) : HopOf[q[i].id] = hop
    /\ q' = Others(q, hop)
    /\ taken' = taken \union (Elements(q) \ Elements(q'))
    /\ UNCHANGED <<config, blocked, wire, history>>

(* "reset": Terminate drops everything, then the parents reset. *)
Terminate == reset /\ UNCHANGED taken

PriNext ==
    \/ \E p \in Pkt : PriRecv(p)
    \/ (resume \/ Configure \/ shrink_queue \/ packetqueue_attach) /\ UNCHANGED taken
    \/ Terminate
    \/ \E hop \in Hop : filter(hop) \/ filterAll(hop)

PriSpec == PriInit /\ [][PriNext]_priVars

-----------------------------------------------------------------------------
(* Properties.                                                              *)

PriPlaces == Append(Places, taken)

(* No packet is lost from sight: it waits, was given to the link, was dropped,
   was lost with a replaced queue or was taken by filter, and only one of
   these.                                                                   *)
PriAccounted ==
    /\ UNION {Ids(PriPlaces[k]) : k \in 1 .. 5} = 1 .. arrived
    /\ \A j, k \in 1 .. 5 : j # k => Ids(PriPlaces[j]) \cap Ids(PriPlaces[k]) = {}

(* A backward ant or routing packet never waits behind a data packet or a
   forward ant.                                                             *)
UrgentAhead ==
    \A i, j \in 1 .. Len(q) : Urgent(q[j]) /\ i < j => Urgent(q[i])

(* The priority never reorders the others among themselves. *)
NormalInOrder ==
    LET s == out \o q
    IN  \A i, j \in 1 .. Len(s) :
            i < j /\ ~Urgent(s[i]) /\ ~Urgent(s[j]) => s[i].id < s[j].id

(* The packet that arrives in this step is urgent. *)
UrgentArrives ==
    /\ arrived' > arrived
    /\ \E p \in Elements(q') \union Elements(out') \union dropped' :
          p.id = arrived' /\ Urgent(p)

(* An arrival costs another urgent packet its place only when nothing else
   waits, unless the queue drops from the front, where the urgent are, for an
   arrival that is not urgent.                                              *)
UrgentEvictsNormal ==
    [][\A p \in dropped' \ dropped :
          (arrived' > arrived /\ p.id # arrived' /\ Urgent(p) /\ (UrgentArrives \/ ~front))
          => \A i \in 1 .. Len(q) : Urgent(q[i])]_priVars

(* The queue never grows to its limit.  An urgent arrival is counted in packets
   whatever unit the limit has.                                             *)
PriGrowsBelowLimit ==
    [][Len(q') > Len(q) /\ (UrgentArrives \/ ~qib) => Len(q') < qlim]_priVars

=============================================================================
