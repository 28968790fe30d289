------------------------------ MODULE AntLinks ------------------------------
(***************************************************************************)
(* AntNet's agents over the links of antnet.tcl: every duplex link is two  *)
(* simplex links, each a DropTail queue before a DelayLink.  The queue is  *)
(* blocked while the link transmits its packet; a transmitted packet then  *)
(* propagates, behind those before it, and arrives at the time-to-live     *)
(* check of the node at the other end, which passes it to the agent.       *)
(*                                                                         *)
(* The loss that AntNet allows at any moment is here only what a full      *)
(* queue or the time-to-live does, and the delivery that AntNet assumes    *)
(* follows from the progress of the single links.  Ants go to neighbours   *)
(* here, as they do wherever agents know theirs (PathFollowsLinks).        *)
(***************************************************************************)
EXTENDS AntNetProperties

CONSTANT Limits     \* the values of qlim_; one for all queues

ASSUME QueueAssumption == Limits \subseteq Nat /\ Limits # {}

VARIABLES
    qlim,      \* the limit of the queues
    q,         \* channel -> the ants in its queue, head first
    blocked,   \* channel -> whether it transmits an ant
    wire       \* channel -> the ants on it, the first to arrive first

linkVars == <<qlim, q, blocked, wire>>
allVars  == <<vars, linkVars>>

(* "duplex-link" makes a simplex link in either direction. *)
Channel == {c \in Node \X Node : {c[1], c[2]} \in Link /\ c[1] # c[2]}

Way(h) == <<h.saddr, h.daddr>>

(* What a DropTail queue with its default settings, in packets and dropping
   at the tail, makes of an arrival.                                        *)
Queue == INSTANCE DropTail WITH
            Class <- {}, Size <- {}, Limits <- Limits, MeanSize <- 0,
            InBytes <- {FALSE}, DropFront <- {FALSE}, MaxArrivals <- 0,
            qlim <- qlim, qib <- FALSE, front <- FALSE, q <- <<>>, blocked <- FALSE,
            wire <- <<>>, arrived <- 0, out <- <<>>, dropped <- {},
            lost <- {}

OnChannel(c) == wire[c] \o q[c]

-----------------------------------------------------------------------------
LinksInit ==
    /\ Init
    /\ qlim \in Limits
    /\ q = [c \in Channel |-> <<>>]
    /\ blocked = [c \in Channel |-> FALSE]
    /\ wire = [c \in Channel |-> <<>>]

(* Mutation: the queue is served although the link is busy, so that the link
   gives up on the ant it transmits.                                        *)
Transmit_anew(c, s, w) ==
    IF s = <<>> THEN q' = [q EXCEPT ![c] = s] /\ wire' = w /\ UNCHANGED blocked
    ELSE /\ q' = [q EXCEPT ![c] = Tail(s)]
         /\ wire' = [w EXCEPT ![c] = <<Head(s)>>]
         /\ blocked' = [blocked EXCEPT ![c] = TRUE]

(* Mutation: an idle link waits for the next arrival. *)
Transmit_waits(c, s, w) == q' = [q EXCEPT ![c] = s] /\ wire' = w /\ UNCHANGED blocked

(* Queue::recv from deque on, when s is the queue with the new packet and w
   what is on the wires: an idle link takes the head.                       *)
Transmit(c, s, w) ==
    IF blocked[c] \/ s = <<>>
    THEN q' = [q EXCEPT ![c] = s] /\ wire' = w /\ UNCHANGED blocked
    ELSE /\ q' = [q EXCEPT ![c] = Tail(s)]
         /\ wire' = [w EXCEPT ![c] = Append(@, Head(s))]
         /\ blocked' = [blocked EXCEPT ![c] = TRUE]

(* An agent sends packet p with header h.  A dropped packet is freed. *)
Enqueue(p, h, w) ==
    LET c == Way(h)
        e == Queue!enque(q[c], p)
    IN  /\ c \in Channel
        /\ pkt' = [pkt EXCEPT ![p] = IF p \in e.drop THEN Freed ELSE h]
        /\ Transmit(c, e.q, w)
        /\ UNCHANGED qlim

(* The timer of n expires and the ant, if there is one, is sent.  Which of the
   free buffers the pool hands out makes no difference.                     *)
LinksExpire(n) ==
    /\ timer[n] = "PENDING"
    /\ \/ /\ \E p \in Packet : ~InFlight(p)
          /\ \E h \in Launches(n) : Enqueue(CHOOSE p \in Packet : ~InFlight(p), h, wire)
       \/ /\ \E d \in Dest \ {n} : n \in calc_next(rtable[n][d], n)
          /\ UNCHANGED <<pkt, linkVars>>
    /\ Expire(n)

(* Mutation: what waits is left for the next arrival. *)
Resume_idles(c) ==
    blocked[c] /\ blocked' = [blocked EXCEPT ![c] = FALSE] /\ UNCHANGED <<vars, qlim, q, wire>>

(* The link has transmitted its packet: Queue::resume. *)
Resume(c) ==
    /\ blocked[c]
    /\ IF q[c] = <<>>
       THEN blocked' = [blocked EXCEPT ![c] = FALSE] /\ UNCHANGED <<q, wire>>
       ELSE /\ q' = [q EXCEPT ![c] = Tail(@)]
            /\ wire' = [wire EXCEPT ![c] = Append(@, Head(q[c]))]
            /\ UNCHANGED blocked
    /\ UNCHANGED <<vars, qlim>>

Popped(c) == [wire EXCEPT ![c] = Tail(@)]

(* What the agent may send on, when packet p has come over one link. *)
Outgoing(p) ==
    IF pkt[p].kind = "fwd"
    THEN IF pkt[p].dst = pkt[p].daddr THEN {TurnedBack(p, 1)} ELSE Forwarded(p, 1)
    ELSE IF pkt[p].dst = pkt[p].daddr THEN {} ELSE {SentBack(p, 1)}

(* The first packet on the wire arrives, unless it is still being transmitted.
   It runs out of time-to-live, or the agent handles and sends it on, or
   handles and releases it.                                                 *)
Arrive(c) ==
    /\ Len(wire[c]) > IF blocked[c] THEN 1 ELSE 0
    /\ LET p == Head(wire[c])
       IN  \/ /\ wire' = Popped(c) /\ UNCHANGED <<qlim, q, blocked>>
              /\ ExpireTtl(p)
           \/ /\ \E h \in Outgoing(p) : Enqueue(p, h, Popped(c))
              /\ recv(p)
           \/ /\ wire' = Popped(c) /\ UNCHANGED <<qlim, q, blocked>>
              /\ DeadEnd(p) \/ Home(p)
              /\ recv(p)

(* An agent that is stopped is one whose timer does not expire, which no timer
   here must do; AntNet has the command.                                    *)
LinksNext ==
    \/ (AddNeighbor \/ \E n \in Node : Start(n)) /\ UNCHANGED linkVars
    \/ \E n \in Node : LinksExpire(n)
    \/ \E c \in Channel : Resume(c) \/ Arrive(c)

LinksSpec == LinksInit /\ [][LinksNext]_allVars

(* The scheduler goes on dispatching what is pending on the links: the end of
   a transmission and the arrival of the first packet on a wire.  Which link
   comes first is left open.                                                *)
Progress == WF_allVars(\E c \in Channel : Resume(c) \/ Arrive(c))

LinksFairSpec == LinksSpec /\ Progress

-----------------------------------------------------------------------------
(* Properties.                                                              *)

(* An ant is in one place: once in a queue or on a wire of the hop its header
   names.  No buffer on a link is free, or twice there, and no ant in flight
   is off the links: nothing is leaked and nothing is used after it is freed. *)
InOnePlace ==
    /\ \A c \in Channel : \A i \in 1 .. Len(OnChannel(c)) :
          LET p == OnChannel(c)[i]
          IN  /\ InFlight(p) /\ Way(pkt[p]) = c
              /\ \A j \in 1 .. Len(OnChannel(c)) : OnChannel(c)[j] = p => i = j
    /\ \A p \in Packet : InFlight(p) =>
          \E c \in Channel : \E i \in 1 .. Len(OnChannel(c)) : OnChannel(c)[i] = p

(* Ants wait only for a link that transmits another, and never more of them
   than the limit lets in.                                                  *)
LinksBusy ==
    \A c \in Channel : /\ q[c] # <<>> => blocked[c]
                       /\ blocked[c] => wire[c] # <<>>
                       /\ Len(q[c]) < qlim \/ q[c] = <<>>

(* The links are a network as AntNet assumes it: whatever they do with an ant
   is an arrival, a loss or the end of its time-to-live there, and no ant is
   left behind others on a link for ever.                                   *)
ImplementsAntNet == FairSpec

(* A backward ant with enough of its time-to-live left for the rest of its
   way home, and one on the last hop of that way.                           *)
Enough(p)  == pkt[p].kind = "bwd" /\ pkt[p].ttl > First(pkt[p].mem, pkt[p].daddr)
LastHop(p) == Enough(p) /\ pkt[p].dst = pkt[p].daddr

(* A path that an ant has found is taught to every node on it, up to and with
   the one that launched it.  No hop of a backward ant with enough of its
   time-to-live left lasts for ever or ends but by the update at the node it
   leads to; and where no queue can be full, the ant has another hop after it
   until it is home.                                                        *)
FoundPathsAreTaught ==
    /\ [][\A p \in Packet : Enough(p) /\ pkt'[p] # pkt[p] =>
            /\ update_table(pkt[p].daddr, pkt[p].mem)
            /\ qlim >= Cardinality(Packet) => LastHop(p) \/ Enough(p)']_allVars
    /\ \A p \in Packet : Enough(p) ~> ~Enough(p)

=============================================================================
