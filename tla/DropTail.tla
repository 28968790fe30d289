------------------------------ MODULE DropTail ------------------------------
(***************************************************************************)
(* One DropTail queue of a link (Ns2.35Files/drop-tail.cc) under the       *)
(* Queue class of ns-2, which hands a packet to the link, stays blocked    *)
(* until the link is done with it, and then resumes with the next one.     *)
(*                                                                         *)
(* The limit, its unit and the end to drop from are bound to Tcl variables *)
(* and may be changed while packets wait; "shrink-queue" then drops what   *)
(* is too many.                                                            *)
(***************************************************************************)
EXTENDS Integers, Sequences, FiniteSets

CONSTANTS
    Class,        \* classes of packets: what a subclass tells apart
    Size,         \* the sizes of packets, in bytes
    Limits,       \* the values of limit_
    MeanSize,     \* mean_pktsize_
    InBytes,      \* the values of queue_in_bytes_
    DropFront,    \* the values of drop_front_
    MaxArrivals   \* bound on the packets that arrive

ASSUME LimitsAssumption == Limits \subseteq Nat /\ Limits # {}
ASSUME SizesAssumption  == Size \subseteq Nat /\ MeanSize \in Nat /\ MaxArrivals \in Nat
ASSUME FlagsAssumption  == /\ InBytes \subseteq BOOLEAN /\ InBytes # {}
                           /\ DropFront \subseteq BOOLEAN /\ DropFront # {}

VARIABLES
    qlim,      \* qlim_
    qib,       \* qib_: the limit counts bytes
    front,     \* drop_front_
    q,         \* q_, head first
    blocked,   \* blocked_ of the Queue class
    wire,      \* the packets the link is transmitting: none or one
    arrived,   \* how many packets have arrived; a packet's id is its number
    out,       \* the packets given to the link, in order
    dropped,   \* the packets dropped
    lost       \* the packets that waited in a queue when it was replaced

config  == <<qlim, qib, front>>
history == <<arrived, out, dropped, lost>>
vars    == <<config, q, blocked, wire, history>>

Pkt == [id : 1 .. MaxArrivals, class : Class, size : Size]

Elements(s) == {s[i] : i \in 1 .. Len(s)}

-----------------------------------------------------------------------------
(* enque: what the queue holds after a packet came, and what it dropped.    *)

Bytes(s) == LET sum[k \in 0 .. Len(s)] == IF k = 0 THEN 0 ELSE sum[k-1] + s[k].size
            IN  sum[Len(s)]

(* Mutation: one packet too many. *)
Full_late(s, p) == IF qib THEN Bytes(s) + p.size > qlim * MeanSize ELSE Len(s) + 1 > qlim

Full(s, p) == IF qib THEN Bytes(s) + p.size >= qlim * MeanSize
                         ELSE Len(s) + 1 >= qlim

(* Mutations: there is no limit; a packet that does not fit is not dropped;
   packets are put in at the wrong end.                                     *)
enque_unlimited(s, p) == [q |-> Append(s, p), drop |-> {}]
enque_leaks(s, p) ==
    IF ~Full(s, p) THEN [q |-> Append(s, p), drop |-> {}]
    ELSE [q |-> IF front THEN Tail(Append(s, p)) ELSE s, drop |-> {}]
enque_head(s, p) ==
    IF ~Full(s, p) THEN [q |-> <<p>> \o s, drop |-> {}] ELSE [q |-> s, drop |-> {p}]

enque(s, p) ==
    IF ~Full(s, p) THEN [q |-> Append(s, p), drop |-> {}]
    ELSE IF front THEN [q |-> Tail(Append(s, p)), drop |-> {Head(Append(s, p))}]
    ELSE [q |-> s, drop |-> {p}]

(* The loop of shrink-queue goes on while the queue is over the limit. *)
Over(s) == IF qib THEN Bytes(s) > qlim * MeanSize ELSE Len(s) > qlim

(* The k packets at the end that is not dropped from. *)
Kept(s, k) == IF front THEN SubSeq(s, Len(s) - k + 1, Len(s)) ELSE SubSeq(s, 1, k)

-----------------------------------------------------------------------------
Init ==
    /\ qlim \in Limits /\ qib \in InBytes /\ front \in DropFront
    /\ q = <<>>
    /\ blocked = FALSE
    /\ wire = <<>>
    /\ arrived = 0
    /\ out = <<>>
    /\ dropped = {}
    /\ lost = {}

(* Queue::recv from deque on (recvHighPriority repeats it), when s is the queue
   with the new packet: an unblocked queue gives its head to the link.      *)
SendUnlessBlocked(s) ==
    IF blocked \/ s = <<>>
    THEN q' = s /\ UNCHANGED <<blocked, wire, out>>
    ELSE /\ q' = Tail(s)
         /\ blocked' = TRUE
         /\ wire' = <<Head(s)>>
         /\ out' = Append(out, Head(s))

Arrival(p) ==
    /\ arrived < MaxArrivals
    /\ p.id = arrived + 1
    /\ arrived' = arrived + 1

recv(p) ==
    /\ Arrival(p)
    /\ LET e == enque(q, p)
       IN  SendUnlessBlocked(e.q) /\ dropped' = dropped \union e.drop
    /\ UNCHANGED <<config, lost>>

(* The link is done with a packet. *)
resume ==
    /\ wire # <<>>
    /\ IF q = <<>>
       THEN wire' = <<>> /\ blocked' = FALSE /\ UNCHANGED <<q, out>>
       ELSE /\ q' = Tail(q)
            /\ wire' = <<Head(q)>>
            /\ out' = Append(out, Head(q))
            /\ UNCHANGED blocked
    /\ UNCHANGED <<config, arrived, dropped, lost>>

(* Tcl sets limit_, queue_in_bytes_ or drop_front_. *)
Configure ==
    /\ qlim' \in Limits /\ qib' \in InBytes /\ front' \in DropFront
    /\ UNCHANGED <<q, blocked, wire, history>>

(* Tcl "shrink-queue" drops one packet after the other until the queue is not
   over the limit.                                                          *)
shrink_queue ==
    \E k \in 0 .. Len(q) :
        LET kept == Kept(q, k)
        IN  /\ ~Over(kept)
            /\ k < Len(q) => Over(Kept(q, k + 1))
            /\ q' = kept
            /\ dropped' = dropped \union (Elements(q) \ Elements(kept))
            /\ UNCHANGED <<config, blocked, wire, arrived, out, lost>>

(* Tcl "packetqueue-attach" with a new PacketQueue: what waits in the old one
   is neither sent nor dropped.                                             *)
packetqueue_attach ==
    /\ q' = <<>>
    /\ lost' = lost \union Elements(q)
    /\ UNCHANGED <<config, blocked, wire, arrived, out, dropped>>

(* Tcl "reset": Queue::reset drops what waits and leaves blocked_ alone. *)
reset ==
    /\ q' = <<>>
    /\ dropped' = dropped \union Elements(q)
    /\ UNCHANGED <<config, blocked, wire, arrived, out, lost>>

Next ==
    \/ \E p \in Pkt : recv(p)
    \/ resume
    \/ Configure
    \/ shrink_queue
    \/ packetqueue_attach
    \/ reset

Spec == Init /\ [][Next]_vars

-----------------------------------------------------------------------------
(* Properties.                                                              *)

TypeOK ==
    /\ qlim \in Limits /\ qib \in InBytes /\ front \in DropFront
    /\ q \in Seq(Pkt)
    /\ blocked \in BOOLEAN
    /\ wire \in Seq(Pkt) /\ Len(wire) <= 1
    /\ arrived \in 0 .. MaxArrivals
    /\ out \in Seq(Pkt)
    /\ dropped \subseteq Pkt /\ lost \subseteq Pkt

Ids(S) == {p.id : p \in S}

Places == <<Elements(q), Elements(out), dropped, lost>>

(* Every packet that arrived is in one place and in no other: waiting, given to
   the link, dropped, or lost with a queue that was replaced.               *)
Accounted ==
    /\ UNION {Ids(Places[k]) : k \in 1 .. 4} = 1 .. arrived
    /\ \A j, k \in 1 .. 4 : j # k => Ids(Places[j]) \cap Ids(Places[k]) = {}

(* What waits is served before the link idles: packets wait only while the
   queue is blocked, and it is blocked only while the link has a packet.    *)
WorkConserving == (q # <<>> => blocked) /\ (blocked <=> wire # <<>>)

(* Packets leave in the order they came, whatever is dropped between them. *)
InOrder == LET s == out \o q IN \A i, j \in 1 .. Len(s) : i < j => s[i].id < s[j].id

(* The queue never grows to its limit, even after the limit fell below what
   it holds.                                                                *)
GrowsBelowLimit == [][~qib /\ Len(q') > Len(q) => Len(q') < qlim]_vars

=============================================================================
