--------------------------- MODULE TraceAnalysis ---------------------------
(***************************************************************************)
(* Traces and the scripts that evaluate them.  A simulation carries        *)
(* packets over some hops, loses some, drains batteries, and writes a line *)
(* for what happens, in one of three formats:                              *)
(*   wired    the trace of a link: every hop enqueues (+) and receives (r) *)
(*   wireless the trace of cmu-trace.cc: agents (AGT), routers (RTR),      *)
(*            queues (IFQ) and MACs send, receive, forward and drop        *)
(*   newtrace the same after "use-newtrace", with other fields             *)
(* A line is the sequence of fields that a script gets when it splits it   *)
(* at blanks.  The trace objects put the fields in their places, the       *)
(* scripts look for them by place, and neither knows of the other.         *)
(***************************************************************************)
EXTENDS Integers, Sequences, FiniteSets, FiniteSetsExt, Functions

CONSTANTS
    Packet,      \* uids of packets
    Size,        \* their sizes
    PType,       \* their types
    Node,        \* nodes with a battery
    Full,        \* the energy they start with
    Formats,     \* the formats that are used
    Macs,        \* the MACs that are used
    Others,      \* the traced events of control frames, ARP and ants
    MaxLines     \* bound on the lines of a trace

ASSUME TraceAssumption ==
    /\ Packet \subseteq Nat /\ IsFiniteSet(Packet) /\ Size \in [Packet -> Nat \ {0}]
    /\ PType \in [Packet -> {"cbr", "tcp", "ack"}]
    /\ Formats \subseteq {"wired", "wireless", "newtrace"}
    /\ Macs \subseteq {"802_11", "SMAC"}
    /\ Others \subseteq [type : {"s", "r"}, level : {"RTR", "MAC"}, ptype : {"MAC", "ARP", "Ant"}]
    /\ Node \subseteq Nat /\ Full \in Nat /\ MaxLines \in Nat

VARIABLES
    format,      \* the format of the trace
    mac,         \* the MAC of the wireless nodes
    now,         \* the time; traffic starts after 0
    flying,      \* packets on their way
    sent, got,   \* history: when a packet was sent and delivered; 0 is never
    hops, heard, \* history: the links it has come over, and when it left the last
    energy,      \* what is left in the batteries
    trace        \* the lines written so far

vars == <<format, mac, now, flying, sent, got, hops, heard, energy, trace>>

Times     == {now, now + 1}
Sent      == {p \in Packet : sent[p] > 0}
Delivered == {p \in Packet : got[p] > 0}
Heard     == {p \in Packet : heard[p] > 0}

-----------------------------------------------------------------------------
(* Lines.  What is traced is an event: the type and the level of the trace  *)
(* object, whether it is at a node other than the packet's source, and the *)
(* packet.                                                                  *)

Event(type, level, away, ptype, id, size, time) ==
    [type |-> type, level |-> level, away |-> away, ptype |-> ptype,
     id |-> id, size |-> size, time |-> time]

(* A field is a word or a number. *)
Word(w) == [word |-> w, num |-> 0]
Num(n)  == [word |-> "", num |-> n]

(* Fields that no script reads: n values, or tags each before its value. *)
Values(n) == [k \in 1 .. n |-> Word("*")]
Tagged(tags) ==
    [k \in 1 .. 2 * Len(tags) |->
        IF k % 2 = 1 THEN Word(tags[(k + 1) \div 2]) ELSE Word("*")]

(* The first field.  A router that sends a packet of another node forwards it. *)
Op(e) ==
    IF e.level = "RTR" /\ e.type = "s" /\ e.away THEN "f"
    ELSE IF format = "newtrace" /\ e.type = "D" THEN "d"
    ELSE e.type

(* format_mac, format_smac *)
MacFields ==
    CASE mac = "SMAC"        -> Values(3)
      [] format = "newtrace" -> Tagged(<<"-Ma", "-Md", "-Ms", "-Mt">>)
      [] OTHER               -> Values(4)

(* The energy of a node with a battery: in all, and by what it was spent on. *)
EnergyFields == IF Node = {} THEN <<>> ELSE Values(10)

format_mac_common(e) ==
    IF format = "newtrace"
    THEN <<Word(Op(e)), Word("-t"), Num(e.time)>>
         \o Tagged(<<"-Hs", "-Hd", "-Ni", "-Nx", "-Ny", "-Nz", "-Ne">>)
         \o <<Word("-Nl"), Word(e.level)>> \o Tagged(<<"-Nw">>)
         \o MacFields
    ELSE <<Word(Op(e)), Num(e.time), Word("_node_"), Word(e.level), Word("why"),
           Num(e.id), Word(e.ptype), Num(e.size)>>
         \o MacFields \o EnergyFields

format_ip(e) ==
    IF format = "newtrace"
    THEN Tagged(<<"-Is", "-Id", "-It">>) \o <<Word("-Il"), Num(e.size)>>
         \o Tagged(<<"-If">>) \o <<Word("-Ii"), Num(e.id)>> \o Tagged(<<"-Iv">>)
    ELSE Values(5)

format_arp(e) ==
    IF format = "newtrace" THEN Tagged(<<"-P", "-Po", "-Pms", "-Ps", "-Pmd", "-Pd">>)
                           ELSE Values(4)

format_rtp(e) ==
    IF format = "newtrace" THEN Tagged(<<"-Pn", "-Pi", "-Pf", "-Po">>) ELSE Values(3)

format_tcp(e) ==
    IF format = "newtrace" THEN Tagged(<<"-Pn", "-Ps", "-Pa", "-Pf", "-Po">>) ELSE Values(4)

format_antnet(e) ==
    IF format = "newtrace" THEN Tagged(<<"-P", "-Po", "-Ps", "-Pl">>) ELSE Values(4)

(* CMUTrace::format *)
CMUTrace(e) ==
    format_mac_common(e) \o
    CASE e.ptype = "MAC"            -> <<>>
      [] e.ptype = "ARP"            -> format_arp(e)
      [] e.ptype = "cbr"            -> format_ip(e) \o format_rtp(e)
      [] e.ptype \in {"tcp", "ack"} -> format_ip(e) \o format_tcp(e)
      [] e.ptype = "Ant"            -> format_ip(e) \o format_antnet(e)

(* The line of a link: where to, what, how much, which flow, which packet. *)
LinkTrace(e) ==
    <<Word(e.type), Num(e.time)>> \o Values(3) \o <<Num(e.size)>>
    \o Values(5) \o <<Num(e.id)>>

(* The line of a battery. *)
EnergyTrace(n, left, t) ==
    <<Word("N"), Word("-t"), Num(t), Word("-n"), Num(n), Word("-e"), Num(left)>>

Line(e) == IF format = "wired" THEN LinkTrace(e) ELSE CMUTrace(e)

-----------------------------------------------------------------------------
(* The simulation.                                                          *)

Init ==
    /\ format \in Formats
    /\ mac \in IF format = "wired" THEN {"none"} ELSE Macs
    /\ now = 1
    /\ flying = {}
    /\ sent = [p \in Packet |-> 0] /\ got = [p \in Packet |-> 0]
    /\ hops = [p \in Packet |-> 0] /\ heard = [p \in Packet |-> 0]
    /\ energy = [n \in Node |-> Full]
    /\ trace = <<>>

Write(lines, t) ==
    /\ Len(trace) + Len(lines) <= MaxLines
    /\ trace' = trace \o lines
    /\ now' = t
    /\ UNCHANGED <<format, mac>>

Data(type, level, away, p, t) == Line(Event(type, level, away, PType[p], p, Size[p], t))

Send(p, t) ==
    /\ p \notin Sent
    /\ Write(<<Data(IF format = "wired" THEN "+" ELSE "s", "AGT", FALSE, p, t)>>, t)
    /\ flying' = flying \union {p}
    /\ sent' = [sent EXCEPT ![p] = t]
    /\ UNCHANGED <<got, hops, heard, energy>>

(* A packet has come over a link. *)
Arrives(p, t) ==
    /\ hops' = [hops EXCEPT ![p] = @ + 1]
    /\ heard' = [heard EXCEPT ![p] = t]

(* The next link takes the packet from one and passes it on. *)
Hop(p, t) ==
    /\ format = "wired" /\ p \in flying
    /\ Write(<<Data("r", "link", TRUE, p, t), Data("+", "link", TRUE, p, t)>>, t)
    /\ Arrives(p, t)
    /\ UNCHANGED <<flying, sent, got, energy>>

(* The router, at the source or elsewhere, or the MAC of a node receives the
   packet and sends it on.                                                  *)
Relay(p) ==
    /\ format # "wired" /\ p \in flying
    /\ \E at \in {<<"RTR", FALSE>>, <<"RTR", TRUE>>, <<"MAC", TRUE>>} :
          Write([i \in 1 .. 2 |-> Data(<<"r", "s">>[i], at[1], at[2], p, now)], now)
    /\ UNCHANGED <<flying, sent, got, hops, heard, energy>>

Deliver(p, t) ==
    /\ p \in flying
    /\ Write(<<Data("r", "AGT", TRUE, p, t)>>, t)
    /\ flying' = flying \ {p}
    /\ got' = [got EXCEPT ![p] = t]
    /\ Arrives(p, t)
    /\ UNCHANGED <<sent, energy>>

(* A router has no route, or an interface queue (IFQ) is full. *)
Drop(p) ==
    /\ p \in flying
    /\ \E level \in {"RTR", "IFQ"} :
          Write(<<Data(IF format = "wired" THEN "d" ELSE "D", level, TRUE, p, now)>>, now)
    /\ flying' = flying \ {p}
    /\ UNCHANGED <<sent, got, hops, heard, energy>>

(* MACs and routers send and receive packets that carry no data, with uids that
   no data packet has.                                                      *)
Overhead ==
    /\ format # "wired"
    /\ \E e \in Others : Write(<<Line(Event(e.type, e.level, FALSE, e.ptype, 0, 1, now))>>, now)
    /\ UNCHANGED <<flying, sent, got, hops, heard, energy>>

(* A trace object on the way of the packet, at a node whose battery is empty,
   releases it and writes nothing.                                          *)
Vanish(p) ==
    /\ format # "wired" /\ p \in flying
    /\ \E n \in Node : energy[n] = 0
    /\ flying' = flying \ {p}
    /\ UNCHANGED <<format, mac, now, sent, got, hops, heard, energy, trace>>

(* A node reports what is left in its battery. *)
Drain(n) ==
    /\ format # "wired" /\ energy[n] > 0
    /\ energy' = [energy EXCEPT ![n] = @ - 1]
    /\ Write(<<EnergyTrace(n, energy[n] - 1, now)>>, now)
    /\ UNCHANGED <<flying, sent, got, hops, heard>>

Next ==
    \/ \E p \in Packet :
          \/ \E t \in Times : Send(p, t) \/ Hop(p, t) \/ Deliver(p, t)
          \/ Relay(p) \/ Drop(p) \/ Vanish(p)
    \/ Overhead
    \/ \E n \in Node : Drain(n)

Spec == Init /\ [][Next]_vars

-----------------------------------------------------------------------------
(* The scripts, each a function of the trace.                               *)

(* The k-th field of a line; beyond the last one it is empty. *)
Field(l, k) == IF k <= Len(l) THEN l[k] ELSE Word("")

(* Delay.pl: for every "s" line the script reads on to the first "r" line of
   the same packet, and then goes back.  It counts fields from 0.           *)

x(l, k) == Field(l, k + 1)

IsAgent(l, op) == x(l, 0) = Word(op) /\ x(l, 3) = Word("AGT")

Receives(tr, i) == {j \in i + 1 .. Len(tr) : IsAgent(tr[j], "r") /\ x(tr[j], 5) = x(tr[i], 5)}

(* Mutation: it does not go back. *)
seek_not(i, j) == j

(* Where it goes on, when i is the "s" line and j the last line read. *)
seek(i, j) == i + 1

delay_pl(tr) ==
    LET end == Len(tr) + 1
        from[i \in 1 .. end] ==
            IF i = end THEN [count |-> 0, sum |-> 0]
            ELSE IF ~IsAgent(tr[i], "s") THEN from[i + 1]
            ELSE IF Receives(tr, i) = {} THEN from[seek(i, end)]
            ELSE LET j == Min(Receives(tr, i))
                     rest == from[seek(i, j)]
                 IN  [count |-> rest.count + 1,
                      sum   |-> rest.sum + x(tr[j], 1).num - x(tr[i], 1).num]
    IN  from[1]

-----------------------------------------------------------------------------
(* The awk scripts.  Throughput.awk and Delay.awk treat a line alike, but   *)
(* only Throughput.awk knows the new format.                                *)

AwkBegin == [sendTime |-> [p \in Packet |-> 0], recvTime |-> [p \in Packet |-> 0],
             startTime |-> 1000000, stopTime |-> 0, recvdSize |-> 0, recvdNum |-> 0]

(* What they take out of a line.  In the old format every line is of "AGT". *)
Parsed(l) ==
    IF Field(l, 2) = Word("-t")
    THEN [event |-> Field(l, 1).word, time |-> Field(l, 3).num, level |-> Field(l, 19).word,
          pkt_size |-> Field(l, 37).num, pkt_id |-> Field(l, 41).num]
    ELSE [event |-> Field(l, 1).word, time |-> Field(l, 2).num, level |-> "AGT",
          pkt_size |-> Field(l, 6).num, pkt_id |-> Field(l, 12).num]

(* Mutations: every hop is a new start; levels are ignored. *)
Starts_anew(a, l) == l.level = "AGT" /\ l.event \in {"+", "s"}
Ends_anywhere(l) == l.event = "r"

Starts(a, l) == l.level = "AGT" /\ l.event \in {"+", "s"} /\ a.sendTime[l.pkt_id] = 0
Ends(l)      == l.level = "AGT" /\ l.event = "r"

AwkLine(a, line) ==
    LET l == Parsed(line)
    IN  IF Starts(a, l)
        THEN [a EXCEPT !.sendTime[l.pkt_id] = l.time,
                       !.startTime = IF l.time < @ THEN l.time ELSE @]
        ELSE IF Ends(l)
        THEN [a EXCEPT !.recvTime[l.pkt_id] = l.time,
                       !.stopTime = IF l.time > @ THEN l.time ELSE @,
                       !.recvdSize = @ + l.pkt_size,
                       !.recvdNum = @ + 1]
        ELSE a

awk(tr) ==
    LET read[k \in 0 .. Len(tr)] == IF k = 0 THEN AwkBegin ELSE AwkLine(read[k - 1], tr[k])
    IN  read[Len(tr)]

(* At its end Delay.awk averages over every packet that it saw arrive, at the
   destination or at a hop.                                                  *)
delay_awk(tr) ==
    LET a == awk(tr)
        delays == [i \in Packet |-> a.recvTime[i] - a.sendTime[i]]
        ids    == {i \in Packet : a.recvTime[i] > 0}
    IN  [recvdNum |-> Cardinality(ids), delay |-> SumFunctionOnSet(delays, ids)]

-----------------------------------------------------------------------------
(* antnetanalizer.pl counts lines; its delivery ratio is of these two counts. *)

(* Mutation: the level is not compared. *)
Matches_any(l, op, level) == l[1] = Word(op)

(* A pattern matches the word anywhere behind the first letter. *)
Matches(l, op, level) == l[1] = Word(op) /\ \E k \in 2 .. Len(l) : l[k] = Word(level)

Count(tr, op, level) == Cardinality({i \in 1 .. Len(tr) : Matches(tr[i], op, level)})

antnetanalizer(tr) ==
    [dataSent |-> Count(tr, "s", "AGT"), dataRecv |-> Count(tr, "r", "AGT")]

(* Residual_Energy.awk remembers what each of the nodes 0 to 49 reported last,
   and divides by one less than those of them that have something left.     *)
residual_energy(tr) ==
    LET watched == Node \cap 0 .. 49
        reports(n) == {i \in 1 .. Len(tr) :
                          Field(tr[i], 1) = Word("N") /\ Field(tr[i], 5) = Num(n)}
        energy_left(n) == IF reports(n) = {} THEN 0 ELSE Field(tr[Max(reports(n))], 7).num
    IN  [total |-> MapThenSumSet(energy_left, watched),
         n     |-> Cardinality({n \in watched : energy_left(n) # 0}) - 1]

-----------------------------------------------------------------------------
(* Properties.  What the scripts compute is compared with the history.      *)

Delay    == [p \in Packet |-> got[p] - sent[p]]
HopDelay == [p \in Packet |-> heard[p] - sent[p]]
Carried  == [p \in Packet |-> Size[p] * hops[p]]

(* Delay.pl counts every delivered packet once, with its own delay, however
   packets overtake each other and whatever is lost, with any MAC: what it
   reads stands before the fields of the MAC.                               *)
DelayMeasured ==
    format = "wireless" =>
        delay_pl(trace) = [count |-> Cardinality(Delivered),
                           sum   |-> SumFunctionOnSet(Delay, Delivered)]

(* Delay.awk sees only hops: yet for a delivered packet it takes the first
   enqueueing and the last arrival.  Its average is of more than deliveries:
   of every packet that has come over a link, from its sending to the last
   link it has come over, whether it was delivered, dropped behind that link
   or is still on its way.                                                  *)
HopDelayMeasured ==
    format = "wired" =>
        /\ \A p \in Delivered : awk(trace).recvTime[p] - awk(trace).sendTime[p] = Delay[p]
        /\ delay_awk(trace) = [recvdNum |-> Cardinality(Heard),
                               delay    |-> SumFunctionOnSet(HopDelay, Heard)]

(* What Throughput.awk counts depends on the format.  In the new one, with the
   802.11 MAC, it is the bytes that agents received, from the first send to
   the last delivery.  In the trace of a link it is every packet once for each
   link it has come over, up to the last arrival at any hop: a load of the
   links, no throughput of the connections.                                 *)
ThroughputMeasured ==
    LET a == awk(trace)
    IN  /\ format = "newtrace" /\ mac = "802_11" =>
              /\ a.recvdSize = SumFunctionOnSet(Size, Delivered)
              /\ Sent # {} => a.startTime = Min({sent[p] : p \in Sent})
              /\ Delivered # {} => a.stopTime = Max({got[p] : p \in Delivered})
        /\ format = "wired" =>
              /\ a.recvdSize = SumFunctionOnSet(Carried, Packet)
              /\ Sent # {} => a.startTime = Min({sent[p] : p \in Sent})
              /\ Heard # {} => a.stopTime = Max({heard[p] : p \in Heard})

(* antnetanalizer.pl sees every data packet sent and every one delivered once,
   so that its delivery ratio is the real one.                              *)
RatioMeasured ==
    format = "wireless" =>
        /\ antnetanalizer(trace).dataSent = Cardinality(Sent)
        /\ antnetanalizer(trace).dataRecv = Cardinality(Delivered)

(* "Average residual energy": the total over the number of nodes it is taken
   of, as long as the total is of some node.                                *)
AverageOfNodes ==
    LET e == residual_energy(trace)
        left == {n \in Node : energy[n] \in 1 .. Full - 1}
    IN  e.total > 0 => e.n = Cardinality(left)

=============================================================================
