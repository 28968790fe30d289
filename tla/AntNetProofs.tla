---------------------------- MODULE AntNetProofs ----------------------------
(***************************************************************************)
(* Theorems about AntNet, for every topology, script, factor and bound.    *)
(*                                                                         *)
(* The headers in flight carry the argument: HeaderOK says of one header   *)
(* that its memory is a loop-free path from the node that launched the ant *)
(* and that a backward ant is between two consecutive nodes of it.  Every  *)
(* operator that rewrites a header preserves HeaderOK, and the invariants  *)
(* of the ants follow.  Nothing is assumed of the next hops calc_next      *)
(* chooses, so they hold for agents without neighbours too.                *)
(*                                                                         *)
(* Lemmas follow on what the pheromone values of a row add up to and where *)
(* the draws of calc_next fall, for rows of any length.  With them the     *)
(* second half proves what agents do in a wired network: there rows and    *)
(* paths stay sound together, and AntNet implements AntRound.              *)
(***************************************************************************)
EXTENDS AntNetProperties, SequenceLemmas

LoopFree(mem) == \A i, j \in 1 .. Len(mem) : mem[i] = mem[j] => i = j

OnPath(h) == \E k \in 1 .. Len(h.mem) - 1 : h.daddr = h.mem[k] /\ h.saddr = h.mem[k + 1]

HeaderOK(h) ==
    /\ h \in Header
    /\ h.kind = "free" => h.mem = <<>>
    /\ h.kind # "free" => /\ Len(h.mem) > 0
                          /\ LoopFree(h.mem)
                          /\ h.src # h.dst
                          /\ h.saddr # h.daddr
    /\ h.kind = "fwd" => h.mem[1] = h.src /\ h.mem[Len(h.mem)] = h.saddr /\ h.dst \in Dest
    /\ h.kind = "bwd" => h.mem[1] = h.dst /\ h.mem[Len(h.mem)] = h.src /\ OnPath(h)

-----------------------------------------------------------------------------
(* What the operators on memories and headers preserve.                     *)

(* In a loop-free memory First finds the one occurrence of a node. *)
LEMMA FirstFinds ==
    ASSUME NEW mem \in Seq(Node), LoopFree(mem), NEW i \in 1 .. Len(mem)
    PROVE  First(mem, mem[i]) = i
BY DEF LoopFree, First

(* memorize yields a loop-free memory with the same start that ends at x. *)
LEMMA MemorizeLoopFree ==
    ASSUME NEW mem \in Seq(Node), Len(mem) > 0, LoopFree(mem), NEW x \in Node
    PROVE  LET m == memorize(mem, x)
           IN  /\ m \in Seq(Node)
               /\ Len(m) > 0
               /\ LoopFree(m)
               /\ m[1] = mem[1]
               /\ m[Len(m)] = x
<1>1. CASE Visited(mem, x)
  <2>1. PICK i \in 1 .. Len(mem) : mem[i] = x
    BY <1>1 DEF Visited
  <2>2. memorize(mem, x) = SubSeq(mem, 1, i)
    BY <1>1, <2>1, FirstFinds DEF memorize
  <2>3. /\ SubSeq(mem, 1, i) \in Seq(Node)
        /\ Len(SubSeq(mem, 1, i)) = i
        /\ \A j \in 1 .. i : SubSeq(mem, 1, i)[j] = mem[j]
    OBVIOUS
  <2> QED BY <2>1, <2>2, <2>3 DEF LoopFree
<1>2. CASE ~Visited(mem, x)
  <2>1. memorize(mem, x) = Append(mem, x)
    BY <1>2 DEF memorize
  <2>2. /\ Append(mem, x) \in Seq(Node)
        /\ Len(Append(mem, x)) = Len(mem) + 1
        /\ Append(mem, x)[Len(mem) + 1] = x
        /\ \A j \in 1 .. Len(mem) : Append(mem, x)[j] = mem[j]
    OBVIOUS
  <2> QED BY <1>2, <2>1, <2>2 DEF LoopFree, Visited
<1> QED BY <1>1, <1>2

(* The headers that the handlers write. *)

LEMMA NodeZero == 0 \in Node
BY NodesAssumption DEF Node

LEMMA FreedOK == HeaderOK(Freed)
BY NodeZero DEF Freed, HeaderOK, Header

(* The link's time-to-live counts for nothing here. *)
LEMMA ArrivingOK ==
    ASSUME NEW h \in Header, NEW hops \in Int
    PROVE  LET a == [h EXCEPT !.ttl = @ - hops]
           IN  /\ a \in Header
               /\ a.kind = h.kind /\ a.src = h.src /\ a.dst = h.dst /\ a.mem = h.mem
               /\ a.saddr = h.saddr /\ a.daddr = h.daddr
BY DEF Header

LEMMA LaunchOK ==
    ASSUME NEW n \in Node, NEW d \in Dest \ {n}, NEW next \in Node, next # n
    PROVE  HeaderOK(Launch(n, d, next))
<1>1. d \in Node /\ TimeToLive \in Int
  BY NodesAssumption DEF Dest, Node, TimeToLive
<1>2. <<n>> \in Seq(Node) /\ Len(<<n>>) = 1 /\ <<n>>[1] = n
  OBVIOUS
<1> QED BY <1>1, <1>2 DEF Launch, HeaderOK, Header, LoopFree

LEMMA OnwardOK ==
    ASSUME NEW h, HeaderOK(h), h.kind = "fwd", NEW hops \in Int,
           NEW next \in Node, next # h.daddr
    PROVE  HeaderOK(Onward([h EXCEPT !.ttl = @ - hops], h.daddr, next))
<1> DEFINE a == [h EXCEPT !.ttl = @ - hops]
           g == Onward(a, h.daddr, next)
           m == memorize(h.mem, h.daddr)
<1>1. h \in Header /\ h.mem \in Seq(Node) /\ h.daddr \in Node
  BY DEF HeaderOK, Header
<1>2. m \in Seq(Node) /\ Len(m) > 0 /\ LoopFree(m) /\ m[1] = h.mem[1] /\ m[Len(m)] = h.daddr
  BY <1>1, MemorizeLoopFree DEF HeaderOK
<1>3. /\ a \in Header /\ a.kind = h.kind /\ a.src = h.src /\ a.dst = h.dst
      /\ a.mem = h.mem
  BY <1>1, ArrivingOK
<1> HIDE DEF a, m
<1>4. g = [a EXCEPT !.mem = m, !.saddr = h.daddr, !.daddr = next]
  BY <1>3 DEF Onward, m
<1> HIDE DEF g
<1>5. /\ g \in Header
      /\ g.kind = "fwd" /\ g.src = h.src /\ g.dst = h.dst /\ g.mem = m
      /\ g.saddr = h.daddr /\ g.daddr = next
  BY <1>1, <1>2, <1>3, <1>4 DEF Header
<1>6. HeaderOK(g)
  BY <1>2, <1>5 DEF HeaderOK
<1> QED BY <1>6 DEF g, a

LEMMA TurnBackOK ==
    ASSUME NEW h, HeaderOK(h), h.kind = "fwd", h.dst = h.daddr, NEW hops \in Int
    PROVE  LET m == memorize(h.mem, h.daddr)
           IN  HeaderOK([[h EXCEPT !.ttl = @ - hops] EXCEPT
                            !.kind = "bwd", !.src = h.dst, !.dst = h.src, !.mem = m,
                            !.saddr = h.daddr, !.daddr = m[lastSecond(m)]])
<1> DEFINE m == memorize(h.mem, h.daddr)
           a == [h EXCEPT !.ttl = @ - hops]
           g == [a EXCEPT
                    !.kind = "bwd", !.src = h.dst, !.dst = h.src, !.mem = m,
                    !.saddr = h.daddr, !.daddr = m[lastSecond(m)]]
<1>1. h \in Header /\ h.mem \in Seq(Node) /\ h.daddr \in Node
  BY DEF HeaderOK, Header
<1>2. m \in Seq(Node) /\ Len(m) > 0 /\ LoopFree(m) /\ m[1] = h.mem[1] /\ m[Len(m)] = h.daddr
  BY <1>1, MemorizeLoopFree DEF HeaderOK
<1>3. h.src # h.dst /\ h.mem[1] = h.src
  BY DEF HeaderOK
<1> HIDE DEF m
<1>4. Len(m) \in Nat /\ Len(m) > 1
  BY <1>2, <1>3
<1>5. lastSecond(m) = Len(m) - 1 /\ m[Len(m) - 1] \in Node /\ m[Len(m) - 1] # h.daddr
  BY <1>2, <1>4 DEF lastSecond, LoopFree
<1>6. a \in Header
  BY <1>1, ArrivingOK
<1> HIDE DEF a
<1>7. /\ g \in Header
      /\ g.kind = "bwd" /\ g.src = h.dst /\ g.dst = h.src /\ g.mem = m
      /\ g.saddr = h.daddr /\ g.daddr = m[Len(m) - 1]
  BY <1>1, <1>2, <1>5, <1>6 DEF Header
<1> HIDE DEF g
<1>8. OnPath(g)
  BY <1>2, <1>4, <1>7 DEF OnPath
<1>9. HeaderOK(g)
  BY <1>2, <1>3, <1>5, <1>7, <1>8 DEF HeaderOK
<1> QED BY <1>9 DEF g, a, m

LEMMA BackwardOK ==
    ASSUME NEW h, HeaderOK(h), h.kind = "bwd", h.dst # h.daddr, NEW hops \in Int
    PROVE  HeaderOK([[h EXCEPT !.ttl = @ - hops] EXCEPT
                        !.saddr = h.daddr, !.daddr = h.mem[previous(h.mem, h.daddr)]])
<1> DEFINE a == [h EXCEPT !.ttl = @ - hops]
           g == [a EXCEPT
                    !.saddr = h.daddr, !.daddr = h.mem[previous(h.mem, h.daddr)]]
<1>1. h \in Header /\ h.mem \in Seq(Node) /\ h.daddr \in Node
  BY DEF HeaderOK, Header
<1>2. PICK k \in 1 .. Len(h.mem) - 1 : h.daddr = h.mem[k]
  BY DEF HeaderOK, OnPath
<1>3. k # 1 /\ LoopFree(h.mem)
  BY <1>2 DEF HeaderOK
<1>4. previous(h.mem, h.daddr) = k - 1
  BY <1>1, <1>2, <1>3, FirstFinds DEF previous
<1>5. h.mem[k - 1] \in Node /\ h.mem[k - 1] # h.daddr
  BY <1>1, <1>2, <1>3 DEF LoopFree
<1>6. /\ a \in Header /\ a.kind = h.kind /\ a.src = h.src /\ a.dst = h.dst
      /\ a.mem = h.mem
  BY <1>1, ArrivingOK
<1> HIDE DEF a
<1>7. /\ g \in Header
      /\ g.kind = "bwd" /\ g.src = h.src /\ g.dst = h.dst /\ g.mem = h.mem
      /\ g.saddr = h.daddr /\ g.daddr = h.mem[k - 1]
  BY <1>1, <1>4, <1>5, <1>6 DEF Header
<1> HIDE DEF g
<1>8. OnPath(g)
  BY <1>1, <1>2, <1>3, <1>7 DEF OnPath
<1>9. HeaderOK(g)
  BY <1>5, <1>7, <1>8 DEF HeaderOK
<1> QED BY <1>9 DEF g, a

-----------------------------------------------------------------------------
(* Rows of the routing table keep their type, whatever is appended to them   *)
(* and however often they are reinforced.                                   *)

LEMMA PartBounds ==
    ASSUME NEW u \in Nat, NEW n \in Nat, n > 0
    PROVE  u \div n \in 0 .. u
<1> DEFINE q == u \div n
<1>1. q \in Int /\ n * q <= u /\ u < n * (q + 1)
  OBVIOUS
<1> HIDE DEF q
<1>2. q >= 0
  <2> SUFFICES ASSUME q <= -1 PROVE FALSE
    BY <1>1
  <2>1. n * (q + 1) <= 0
    BY <1>1
  <2> QED BY <1>1, <2>1
<1>3. q <= n * q
  BY <1>1, <1>2
<1> QED BY <1>1, <1>2, <1>3 DEF q

LEMMA EqualOK == ASSUME NEW list \in Seq(Node) PROVE Equal(list) \in Seq(Entry)
<1>1. ASSUME NEW k \in 1 .. Len(list) PROVE Unit \div Len(list) \in 0 .. Unit
  <2>1. Len(list) \in Nat /\ Len(list) > 0 /\ Unit \in Nat
    BY FactorAssumption
  <2> QED BY <2>1, PartBounds
<1>2. \A k \in 1 .. Len(list) : Equal(list)[k] \in Entry
  BY <1>1 DEF Equal, Entry
<1> QED BY <1>2 DEF Equal

(* A share moved towards 1.0, or evaporated, by a factor between 0 and 1 is a
   share again.                                                             *)
LEMMA ShareBounds ==
    ASSUME NEW u \in Nat, u > 0, NEW f \in 0 .. u, NEW x \in 0 .. u
    PROVE  (f * x) \div u \in 0 .. x
<1>1. f * x \in Nat /\ f * x <= u * x
  OBVIOUS
<1> QED BY <1>1

LEMMA EntryAt ==
    ASSUME NEW row \in Seq(Entry), NEW k \in 1 .. Len(row)
    PROVE  /\ row[k] \in Entry
           /\ row[k].neighbor \in Node
           /\ row[k].phvalue \in 0 .. Unit
<1>1. row[k] \in Entry
  OBVIOUS
<1> QED BY <1>1 DEF Entry

LEMMA ReinforcedOK ==
    ASSUME NEW row \in Seq(Entry), NEW next, r \in 0 .. Unit
    PROVE  Reinforced(row, next) \in Seq(Entry)
<1>1. ASSUME NEW k \in 1 .. Len(row) PROVE Reinforced(row, next)[k] \in Entry
  <2> DEFINE x == row[k].phvalue
             up == x + (r * (Unit - x)) \div Unit
             down == ((Unit - r) * x) \div Unit
  <2>1. row[k] \in Entry /\ x \in 0 .. Unit
    BY EntryAt
  <2>2. Unit \in Nat /\ Unit > 0 /\ Unit - x \in 0 .. Unit /\ Unit - r \in 0 .. Unit
    BY <2>1, FactorAssumption
  <2>3. (r * (Unit - x)) \div Unit \in 0 .. Unit - x
    <3> HIDE DEF x
    <3> QED BY <2>2, ShareBounds
  <2>4. down \in 0 .. x
    <3> HIDE DEF x
    <3> QED BY <2>1, <2>2, ShareBounds
  <2>5. up \in 0 .. Unit /\ down \in 0 .. Unit
    <3> HIDE DEF x
    <3> DEFINE gain == (r * (Unit - x)) \div Unit
    <3>1. gain \in 0 .. Unit - x
      BY <2>3
    <3>2. up = x + gain
      OBVIOUS
    <3> HIDE DEF gain, up, down
    <3> QED BY <2>1, <2>2, <2>4, <3>1, <3>2
  <2>6. Reinforced(row, next)[k]
          = [row[k] EXCEPT !.phvalue = IF row[k].neighbor = next THEN up ELSE down]
    BY DEF Reinforced
  <2> HIDE DEF x, up, down
  <2> QED BY <2>1, <2>5, <2>6 DEF Entry
<1>2. Reinforced(row, next) = [k \in 1 .. Len(row) |-> Reinforced(row, next)[k]]
  BY DEF Reinforced
<1>3. Len(row) \in Nat
  OBVIOUS
<1> HIDE DEF Reinforced
<1> QED BY <1>1, <1>2, <1>3

(* calc_next, with or without a row, names nodes. *)
LEMMA CalcNextOK ==
    ASSUME NEW row \in Seq(Entry), NEW parent \in Node
    PROVE  calc_next(row, parent) \subseteq Node
<1>1. \A k \in 1 .. Len(row) : row[k].neighbor \in Node
  BY EntryAt
<1> QED BY <1>1 DEF calc_next

-----------------------------------------------------------------------------
(* The inductive invariant.                                                 *)

HeadersOK == \A p \in Packet : HeaderOK(pkt[p])

IInv == TypeOK /\ HeadersOK

(* The initial state satisfies it. *)
LEMMA InitIInv == Init => IInv
<1> SUFFICES ASSUME Init PROVE IInv
  OBVIOUS
<1>1. pkt \in [Packet -> Header] /\ HeadersOK
  BY FreedOK DEF Init, HeadersOK, HeaderOK
<1>2. linked \in 0 .. Len(LinkScript)
  BY LinksAssumption DEF Init
<1>3. r \in 0 .. Unit
  BY FactorAssumption DEF Init
<1>4. \A n \in Node : starts[n] \in 0 .. MaxStarts
  BY BoundsAssumption DEF Init
<1>5. /\ nbrs \in [Node -> Seq(Node)]
      /\ timer \in [Node -> {"IDLE", "PENDING"}]
      /\ seq \in [Node -> 0 .. 255]
      /\ rtable \in [Node -> [Dest -> Seq(Entry)]]
  BY DEF Init
<1>6. starts \in [Node -> 0 .. MaxStarts]
  BY <1>4 DEF Init
<1> QED BY <1>1, <1>2, <1>3, <1>5, <1>6 DEF IInv, TypeOK

(* The steps that write headers.  Each rewrites one of them. *)

LEMMA OneHeader ==
    ASSUME HeadersOK, pkt \in [Packet -> Header], NEW p \in Packet, NEW h, HeaderOK(h),
           pkt' = [pkt EXCEPT ![p] = h]
    PROVE  HeadersOK' /\ pkt' \in [Packet -> Header]
<1>1. h \in Header
  BY DEF HeaderOK
<1>2. \A q \in Packet : pkt'[q] = IF q = p THEN h ELSE pkt[q]
  OBVIOUS
<1>3. \A q \in Packet : HeaderOK(pkt'[q])
  BY <1>2 DEF HeadersOK
<1> QED BY <1>1, <1>3 DEF HeadersOK

LEMMA FreeOK ==
    ASSUME HeadersOK, pkt \in [Packet -> Header], NEW p \in Packet, Free(p)
    PROVE  HeadersOK' /\ pkt' \in [Packet -> Header]
BY OneHeader, FreedOK DEF Free

LEMMA SendOK ==
    ASSUME HeadersOK, pkt \in [Packet -> Header], NEW p \in Packet, NEW h, HeaderOK(h), Send(p, h)
    PROVE  HeadersOK' /\ pkt' \in [Packet -> Header]
BY OneHeader, FreedOK DEF Send

(* What a backward ant's stop does to the tables. *)
LEMMA UpdateOK ==
    ASSUME TypeOK, NEW x \in Node, NEW mem, update_table(x, mem)
    PROVE  rtable' \in [Node -> [Dest -> Seq(Entry)]]
<1> DEFINE i == First(mem, x) + 1
           row(d) == IF \E k \in i .. Len(mem) : mem[k] = d
                     THEN Reinforced(rtable[x][d], mem[i]) ELSE rtable[x][d]
<1>1. rtable \in [Node -> [Dest -> Seq(Entry)]] /\ r \in 0 .. Unit
  BY DEF TypeOK
<1>2. \A d \in Dest : row(d) \in Seq(Entry)
  BY <1>1, ReinforcedOK
<1>3. rtable' = [rtable EXCEPT ![x] = [d \in Dest |-> row(d)]]
  BY DEF update_table
<1> HIDE DEF row
<1> QED BY <1>1, <1>2, <1>3

LEMMA HopsInt == \A p \in Packet : Hops(p) \subseteq Int
BY NodesAssumption DEF Hops

(* Every step preserves it: one case per action. *)
LEMMA NextIInv == IInv /\ [Next]_vars => IInv'
<1> SUFFICES ASSUME IInv, [Next]_vars PROVE IInv'
  OBVIOUS
<1> USE DEF IInv
<1>0. TypeOK /\ HeadersOK /\ pkt \in [Packet -> Header]
  BY DEF TypeOK
<1>1. CASE AddNeighbor
  <2> DEFINE a == LinkScript[linked + 1][1]
             b == LinkScript[linked + 1][2]
             one == [nbrs EXCEPT ![a] = <<b>> \o @]
  <2>0. Len(LinkScript) \in Nat
    BY LinksAssumption
  <2>1. linked + 1 \in 1 .. Len(LinkScript) /\ linked + 1 \in 0 .. Len(LinkScript)
    BY <1>1, <1>0, <2>0 DEF AddNeighbor, TypeOK
  <2>2. LinkScript[linked + 1] \in Node \X Node
    BY <2>1, LinksAssumption
  <2>3. a \in Node /\ b \in Node
    BY <2>2
  <2>4. nbrs' = [one EXCEPT ![b] = <<a>> \o @] /\ linked' = linked + 1
    BY <1>1 DEF AddNeighbor
  <2> HIDE DEF a, b
  <2>5. one \in [Node -> Seq(Node)]
    BY <1>0, <2>3 DEF TypeOK
  <2> HIDE DEF one
  <2>6. nbrs' \in [Node -> Seq(Node)]
    BY <2>3, <2>4, <2>5
  <2> QED BY <1>0, <1>1, <2>1, <2>4, <2>6 DEF AddNeighbor, TypeOK, HeadersOK
<1>2. ASSUME NEW n \in Node, Start(n) PROVE IInv'
  <2>1. Equal(nbrs[n]) \in Seq(Entry)
    BY <1>0, EqualOK DEF TypeOK
  <2>2. \A d \in Dest : rtable[n][d] \in Seq(Entry) /\ rtable[n][d] \o Equal(nbrs[n]) \in Seq(Entry)
    BY <1>0, <2>1 DEF TypeOK
  <2>3. rtable' \in [Node -> [Dest -> Seq(Entry)]]
    BY <1>0, <1>2, <2>2 DEF Start, TypeOK
  <2>4. r' \in 0 .. Unit
    BY <1>2, FactorAssumption DEF Start
  <2>5. starts' \in [Node -> 0 .. MaxStarts]
    BY <1>0, <1>2, BoundsAssumption DEF Start, TypeOK
  <2>6. timer' \in [Node -> {"IDLE", "PENDING"}]
    BY <1>0, <1>2 DEF Start, TypeOK
  <2> QED BY <1>0, <1>2, <2>3, <2>4, <2>5, <2>6 DEF Start, TypeOK, HeadersOK
<1>3. ASSUME NEW n \in Node, Stop(n) PROVE IInv'
  BY <1>0, <1>3 DEF Stop, setup, TypeOK, HeadersOK
<1>4. ASSUME NEW n \in Node, Expire(n) PROVE IInv'
  <2>1. ASSUME NEW h \in Launches(n) PROVE HeaderOK(h)
    <3>1. PICK d \in Dest \ {n} : \E next \in calc_next(rtable[n][d], n) \ {n} :
             h = Launch(n, d, next)
      BY DEF Launches
    <3>2. PICK next \in calc_next(rtable[n][d], n) \ {n} : h = Launch(n, d, next)
      BY <3>1
    <3>3. next \in Node
      BY <1>0, <3>2, CalcNextOK DEF TypeOK
    <3> QED BY <3>2, <3>3, LaunchOK
  <2>2. HeadersOK' /\ pkt' \in [Packet -> Header]
    <3>1. CASE UNCHANGED pkt
      BY <1>0, <3>1 DEF HeadersOK
    <3>2. CASE \E p \in Packet, h \in Launches(n) : ~InFlight(p) /\ Send(p, h)
      BY <1>0, <2>1, <3>2, SendOK
    <3> QED BY <1>4, <3>1, <3>2 DEF Expire
  <2>3. \A i \in 0 .. 255 : (i + 1) % 256 \in 0 .. 255
    OBVIOUS
  <2>4. seq' \in [Node -> 0 .. 255]
    BY <1>0, <1>4, <2>3 DEF Expire, TypeOK
  <2> QED BY <1>0, <1>4, <2>2, <2>4 DEF Expire, setup, TypeOK
<1>5. ASSUME NEW p \in Packet, ExpireTtl(p) \/ Lose(p) PROVE IInv'
  BY <1>0, <1>5, FreeOK DEF ExpireTtl, Lose, setup, TypeOK
<1>6. ASSUME NEW p \in Packet, recv(p) PROVE IInv'
  <2>1. PICK hops \in Int : \/ TurnBack(p, hops)
                           \/ ForwardAnt(p, hops)
                           \/ DeadEnd(p)
                           \/ Home(p)
                           \/ BackwardAnt(p, hops)
    BY <1>6, HopsInt DEF recv
  <2>2. HeaderOK(pkt[p]) /\ pkt[p].daddr \in Node /\ pkt[p].saddr \in Node
    BY <1>0 DEF HeadersOK, HeaderOK, Header
  <2>3. CASE TurnBack(p, hops)
    <3>1. HeaderOK(TurnedBack(p, hops))
      BY <2>2, <2>3, TurnBackOK DEF TurnBack, TurnedBack, Arriving
    <3> QED BY <1>0, <2>3, <3>1, SendOK DEF TurnBack, setup, TypeOK
  <2>4. CASE ForwardAnt(p, hops)
    <3> DEFINE x == pkt[p].daddr
               d == pkt[p].dst
    <3>1. PICK h \in Forwarded(p, hops) : Send(p, h)
      BY <2>4 DEF ForwardAnt
    <3>2. PICK next \in calc_next(rtable[x][d], pkt[p].saddr) \ {x, pkt[p].saddr} :
             h = Onward(Arriving(p, hops), x, next)
      BY <3>1 DEF Forwarded
    <3>3. next \in Node
      <4>1. d \in Dest
        BY <2>2, <2>4 DEF HeaderOK, ForwardAnt
      <4>2. rtable[x][d] \in Seq(Entry)
        BY <1>0, <2>2, <4>1 DEF TypeOK
      <4> QED BY <2>2, <3>2, <4>2, CalcNextOK
    <3>4. HeaderOK(h)
      BY <2>2, <2>4, <3>2, <3>3, OnwardOK DEF Arriving, ForwardAnt
    <3>5. HeadersOK' /\ pkt' \in [Packet -> Header]
      BY <1>0, <3>1, <3>4, SendOK
    <3> QED BY <1>0, <2>4, <3>5 DEF ForwardAnt, setup, TypeOK
  <2>5. CASE DeadEnd(p)
    BY <1>0, <2>5, FreeOK DEF DeadEnd, setup, TypeOK
  <2>6. CASE Home(p)
    BY <1>0, <2>2, <2>6, FreeOK, UpdateOK DEF Home, setup, TypeOK
  <2>7. CASE BackwardAnt(p, hops)
    <3>1. HeaderOK(SentBack(p, hops))
      BY <2>2, <2>7, BackwardOK DEF BackwardAnt, SentBack, Arriving
    <3>2. HeadersOK' /\ pkt' \in [Packet -> Header]
      BY <1>0, <2>7, <3>1, SendOK DEF BackwardAnt
    <3>3. rtable' \in [Node -> [Dest -> Seq(Entry)]]
      BY <1>0, <2>2, <2>7, UpdateOK DEF BackwardAnt
    <3> QED BY <1>0, <2>7, <3>2, <3>3 DEF BackwardAnt, setup, TypeOK
  <2> QED BY <2>1, <2>3, <2>4, <2>5, <2>6, <2>7
<1>7. CASE UNCHANGED vars
  BY <1>0, <1>7 DEF vars, TypeOK, HeadersOK
<1> QED BY <1>1, <1>2, <1>3, <1>4, <1>5, <1>6, <1>7 DEF Next

LEMMA Invariance == Spec => []IInv
BY InitIInv, NextIInv, PTL DEF Spec

-----------------------------------------------------------------------------
(* Every variable of the agents and every header stays in its type: next hops
   are nodes, pheromone values stay between 0 and 1.0.                      *)
THEOREM TypeCorrect == Spec => []TypeOK
BY Invariance, PTL DEF IInv

(* Whatever walk the agents send an ant on, its memory holds no node twice,
   starts at its source and ends where it has just been or at its
   destination.                                                             *)
THEOREM MemoryIsLoopFree == Spec => []MemoryLoopFree
<1>1. IInv => MemoryLoopFree
  <2> SUFFICES ASSUME IInv, NEW p \in Packet, InFlight(p)
               PROVE  LET h == pkt[p]
                      IN  /\ Len(h.mem) > 0
                          /\ \A i, j \in 1 .. Len(h.mem) : h.mem[i] = h.mem[j] => i = j
                          /\ h.mem[1] = (IF h.kind = "fwd" THEN h.src ELSE h.dst)
                          /\ h.mem[Len(h.mem)] = (IF h.kind = "fwd" THEN h.saddr ELSE h.src)
    BY DEF MemoryLoopFree
  <2>1. HeaderOK(pkt[p]) /\ pkt[p].kind \in {"fwd", "bwd"}
    BY DEF IInv, HeadersOK, InFlight, HeaderOK, Header
  <2> QED BY <2>1 DEF HeaderOK, LoopFree
<1> QED BY <1>1, Invariance, PTL

(* A backward ant is always between two consecutive nodes of its memory: the
   searches of update_table and backward_ant_pkt, which have no bound, stop
   inside the array, and the next hop they read is there.                   *)
THEOREM BackwardStaysOnPath == Spec => []BackwardOnPath
<1>1. IInv => BackwardOnPath
  BY DEF IInv, HeadersOK, HeaderOK, OnPath, BackwardOnPath
<1> QED BY <1>1, Invariance, PTL

(* No agent receives a packet of its own, which recv would leak. *)
THEOREM NeverLoopsBack == Spec => []NoLoopback
<1>1. IInv => NoLoopback
  BY DEF IInv, HeadersOK, HeaderOK, InFlight, NoLoopback
<1> QED BY <1>1, Invariance, PTL

(* A loop-free memory is no longer than the number of nodes. *)
LEMMA LoopFreeIsShort ==
    ASSUME NEW mem \in Seq(Node), LoopFree(mem)
    PROVE  Len(mem) <= NodeCount
<1>1. IsFiniteSet(Node) /\ Cardinality(Node) = NodeCount
  BY FS_Interval, NodesAssumption DEF Node
<1>2. IsFiniteSet(1 .. Len(mem)) /\ Cardinality(1 .. Len(mem)) = Len(mem)
  <2>1. Len(mem) \in Nat
    OBVIOUS
  <2> QED BY <2>1, FS_Interval
<1>3. mem \in [1 .. Len(mem) -> Node]
  OBVIOUS
<1>4. SUFFICES ASSUME NodeCount < Len(mem) PROVE FALSE
  BY NodesAssumption
<1>5. \E i, j \in 1 .. Len(mem) : i # j /\ mem[i] = mem[j]
  BY <1>1, <1>2, <1>3, <1>4, FS_PigeonHole
<1> QED BY <1>5 DEF LoopFree

(* If the topology has no more nodes than MAX_NUM_NODES, no append of memorize
   overruns pkt_memory_, although none is checked.                          *)
THEOREM MemoryNeverOverflows ==
    ASSUME NodeCount <= MaxNumNodes
    PROVE  Spec => []MemoryFits
<1>1. IInv => MemoryFits
  <2> SUFFICES ASSUME IInv, NEW p \in Packet PROVE Len(pkt[p].mem) <= MaxNumNodes
    BY DEF MemoryFits
  <2>1. HeaderOK(pkt[p]) /\ pkt[p].mem \in Seq(Node)
    BY DEF IInv, HeadersOK, HeaderOK, Header
  <2>2. CASE pkt[p].kind # "free"
    <3>1. Len(pkt[p].mem) <= NodeCount
      BY <2>1, <2>2, LoopFreeIsShort DEF HeaderOK
    <3> QED BY <3>1, <2>1, NodesAssumption
  <2>3. CASE pkt[p].kind = "free"
    <3>1. Len(pkt[p].mem) = 0
      BY <2>1, <2>3 DEF HeaderOK
    <3> QED BY <3>1, NodesAssumption
  <2> QED BY <2>2, <2>3
<1> QED BY <1>1, Invariance, PTL

-----------------------------------------------------------------------------
(* The shares of a row.  Share does what its recursive definition says.     *)

IsShare(f, row, n) ==
    f = [k \in 0 .. n |-> IF k = 0 THEN 0 ELSE f[k-1] + row[k].phvalue]

LEMMA ShareExists ==
    ASSUME NEW row \in Seq(Entry)
    PROVE  \E f : IsShare(f, row, Len(row))
<1> DEFINE T == {n \in Nat : \E f : IsShare(f, row, n)}
<1>1. 0 \in T
  <2>1. IsShare([k \in 0 .. 0 |-> 0], row, 0)
    BY DEF IsShare
  <2> QED BY <2>1
<1>2. \A n \in 1 .. Len(row) : n - 1 \in T => n \in T
  <2> SUFFICES ASSUME NEW n \in 1 .. Len(row), n - 1 \in T PROVE n \in T
    OBVIOUS
  <2>1. PICK g : IsShare(g, row, n - 1)
    OBVIOUS
  <2> DEFINE f == [k \in 0 .. n |-> IF k = n THEN g[n - 1] + row[n].phvalue ELSE g[k]]
  <2>2. ASSUME NEW k \in 0 .. n
        PROVE  f[k] = IF k = 0 THEN 0 ELSE f[k-1] + row[k].phvalue
    <3>1. CASE k = n
      <4>1. f[k - 1] = g[n - 1]
        BY <3>1
      <4> QED BY <3>1, <4>1
    <3>2. CASE k # n
      <4>1. k \in 0 .. n - 1
        BY <3>2
      <4>2. g[k] = IF k = 0 THEN 0 ELSE g[k-1] + row[k].phvalue
        BY <2>1, <4>1 DEF IsShare
      <4>3. f[k] = g[k] /\ (k # 0 => f[k - 1] = g[k - 1])
        BY <4>1
      <4> QED BY <4>2, <4>3
    <3> QED BY <3>1, <3>2
  <2>3. IsShare(f, row, n)
    BY <2>2 DEF IsShare
  <2> QED BY <2>3
<1>3. Len(row) \in Nat
  OBVIOUS
<1>4. Len(row) \in T
  <2>1. \A k \in 0 .. Len(row) : k \in T
    <3> HIDE DEF T
    <3> QED BY <1>1, <1>2, <1>3, Climb
  <2> HIDE DEF T
  <2> QED BY <1>3, <2>1
<1> QED BY <1>4

LEMMA ShareIs ==
    ASSUME NEW row \in Seq(Entry)
    PROVE  IsShare(Share(row), row, Len(row))
<1> DEFINE sum[k \in 0 .. Len(row)] == IF k = 0 THEN 0 ELSE sum[k-1] + row[k].phvalue
<1>1. Share(row) = sum
  BY DEF Share
<1>2. sum = CHOOSE f : IsShare(f, row, Len(row))
  BY DEF IsShare
<1>3. IsShare(CHOOSE f : IsShare(f, row, Len(row)), row, Len(row))
  BY ShareExists
<1> QED BY <1>1, <1>2, <1>3

(* Every share is the one before it and one more entry. *)
LEMMA ShareSteps ==
    ASSUME NEW row \in Seq(Entry)
    PROVE  /\ Share(row)[0] = 0
           /\ \A k \in 1 .. Len(row) : Share(row)[k] = Share(row)[k - 1] + row[k].phvalue
           /\ \A k \in 0 .. Len(row) : Share(row)[k] \in Nat
<1> DEFINE s == Share(row)
           T == {k \in 0 .. Len(row) : s[k] \in Nat}
<1>1. /\ s[0] = 0
      /\ \A k \in 1 .. Len(row) : s[k] = s[k - 1] + row[k].phvalue
  <2>1. Len(row) \in Nat
    OBVIOUS
  <2> QED BY <2>1, ShareIs DEF IsShare
<1>2. \A k \in 1 .. Len(row) : k - 1 \in T => k \in T
  <2> SUFFICES ASSUME NEW k \in 1 .. Len(row), k - 1 \in T PROVE k \in T
    OBVIOUS
  <2>1. row[k].phvalue \in Nat
    BY EntryAt, FactorAssumption
  <2> QED BY <1>1, <2>1
<1>3. 0 \in T /\ Len(row) \in Nat
  BY <1>1
<1>4. \A k \in 0 .. Len(row) : k \in T
  <2> HIDE DEF T
  <2> QED BY <1>2, <1>3, Climb
<1> QED BY <1>1, <1>4

LEMMA ShareGrows ==
    ASSUME NEW row \in Seq(Entry), NEW i \in 0 .. Len(row), NEW j \in 0 .. Len(row), i <= j
    PROVE  Share(row)[i] <= Share(row)[j]
<1> DEFINE s == Share(row)
           T == {k \in 0 .. Len(row) : i <= k => s[i] <= s[k]}
<1>1. /\ \A k \in 1 .. Len(row) : s[k] = s[k - 1] + row[k].phvalue
      /\ \A k \in 0 .. Len(row) : s[k] \in Nat
  BY ShareSteps
<1>2. \A k \in 1 .. Len(row) : k - 1 \in T => k \in T
  <2> SUFFICES ASSUME NEW k \in 1 .. Len(row), k - 1 \in T PROVE k \in T
    OBVIOUS
  <2>1. row[k].phvalue \in Nat
    BY EntryAt, FactorAssumption
  <2>2. /\ s[i] \in Nat /\ s[k - 1] \in Nat
        /\ s[k] = s[k - 1] + row[k].phvalue
        /\ i <= k - 1 => s[i] <= s[k - 1]
    BY <1>1
  <2>3. i = k \/ i <= k - 1 \/ ~(i <= k)
    OBVIOUS
  <2>4. i <= k => s[i] <= s[k]
    <3> HIDE DEF s
    <3> QED BY <2>1, <2>2, <2>3
  <2> QED BY <2>4
<1>3. 0 \in T /\ Len(row) \in Nat
  <2> HIDE DEF s
  <2> QED BY <1>1
<1>4. \A k \in 0 .. Len(row) : k \in T
  <2> HIDE DEF T
  <2> QED BY <1>2, <1>3, Climb
<1> QED BY <1>4

-----------------------------------------------------------------------------
(* What initialize_rtable and update leave in a row, if no value is rounded. *)

LEMMA Quotient ==
    ASSUME NEW u \in Nat, u > 0, NEW a \in Int
    PROVE  (u * a) \div u = a
OBVIOUS

LEMMA Whole ==
    ASSUME NEW u \in Nat, u > 0, NEW a \in Nat, a % u = 0
    PROVE  a \div u \in Nat /\ u * (a \div u) = a
OBVIOUS

LEMMA Cancel ==
    ASSUME NEW u \in Nat, u > 0, NEW a \in Int, NEW b \in Int, u * a = u * b
    PROVE  a = b
OBVIOUS

LEMMA Positive ==
    ASSUME NEW u \in Nat, NEW a \in Int, u * a > 0
    PROVE  a > 0
OBVIOUS

LEMMA SumOfTwo ==
    ASSUME NEW u \in Int, NEW f \in Int, NEW a \in Int, NEW b \in Int, NEW g \in Int,
           NEW c \in Int, NEW d \in Int, NEW h \in Int,
           u * b = f * a + g, u * d = f * c + h
    PROVE  u * (b + d) = f * (a + c) + (g + h)
<1>1. u * (b + d) = u * b + u * d /\ f * (a + c) = f * a + f * c
  OBVIOUS
<1>2. f * a \in Int /\ f * c \in Int
  OBVIOUS
<1> QED BY <1>1, <1>2

LEMMA EqualShares ==
    ASSUME NEW list \in Seq(Node), list # <<>>, Unit % Len(list) = 0
    PROVE  /\ \A k \in 1 .. Len(list) : Equal(list)[k].phvalue > 0
           /\ Share(Equal(list))[Len(list)] = Unit
<1> DEFINE n == Len(list)
           part == Unit \div n
           s == Share(Equal(list))
           T == {k \in 0 .. n : s[k] = k * part}
<1>1. n \in Nat /\ n > 0 /\ Unit \in Nat /\ Unit > 0
  BY FactorAssumption
<1>2. part \in Nat /\ n * part = Unit
  <2>1. Unit % n = 0
    OBVIOUS
  <2> HIDE DEF n
  <2> QED BY <1>1, <2>1, Whole
<1>3. part > 0
  <2> HIDE DEF n, part
  <2> QED BY <1>1, <1>2
<1>4. /\ Equal(list) \in Seq(Entry) /\ Len(Equal(list)) = n
      /\ \A k \in 1 .. n : Equal(list)[k].phvalue = part
  BY EqualOK DEF Equal
<1>5. s[0] = 0 /\ \A k \in 1 .. n : s[k] = s[k - 1] + Equal(list)[k].phvalue
  BY <1>4, ShareSteps
<1> HIDE DEF s, part, n
<1>6. \A k \in 1 .. n : k - 1 \in T => k \in T
  <2> SUFFICES ASSUME NEW k \in 1 .. n, k - 1 \in T PROVE s[k] = k * part
    OBVIOUS
  <2>1. s[k] = (k - 1) * part + part
    BY <1>4, <1>5
  <2> QED BY <1>2, <2>1
<1>7. 0 \in T
  BY <1>1, <1>2, <1>5
<1>8. \A k \in 0 .. n : k \in T
  <2> HIDE DEF T
  <2> QED BY <1>1, <1>6, <1>7, Climb
<1>9. s[n] = Unit
  BY <1>1, <1>2, <1>8
<1> QED BY <1>3, <1>4, <1>9 DEF s, n

(* No product of the factor and a value of the row is rounded. *)
ExactRow(row) == \A k \in 1 .. Len(row) : (r * row[k].phvalue) % Unit = 0

(* One entry of a row gains the factor, and every entry loses its part of it. *)
LEMMA ReinforcedEntry ==
    ASSUME NEW row \in Seq(Entry), NEW next, r \in 0 .. Unit, ExactRow(row),
           NEW k \in 1 .. Len(row)
    PROVE  LET v == row[k].phvalue
           IN  Unit * Reinforced(row, next)[k].phvalue
                   = (Unit - r) * v + (IF row[k].neighbor = next THEN Unit * r ELSE 0)
<1> DEFINE v == row[k].phvalue
           part == (r * v) \div Unit
<1>1. v \in 0 .. Unit /\ Unit \in Nat /\ Unit > 0 /\ r * v \in Nat /\ row[k] \in Entry
  BY EntryAt, FactorAssumption
<1>2. part \in Nat /\ Unit * part = r * v
  BY <1>1, Whole DEF ExactRow
<1>3. Reinforced(row, next)[k].phvalue
        = IF row[k].neighbor = next THEN v + (r * (Unit - v)) \div Unit
                                    ELSE ((Unit - r) * v) \div Unit
  BY <1>1 DEF Reinforced, Entry
<1> HIDE DEF v, part
<1>4. (r * (Unit - v)) \div Unit = r - part
  <2>1. r * (Unit - v) = Unit * (r - part)
    BY <1>1, <1>2
  <2> QED BY <1>1, <1>2, <2>1, Quotient
<1>5. ((Unit - r) * v) \div Unit = v - part
  <2>1. (Unit - r) * v = Unit * (v - part)
    BY <1>1, <1>2
  <2> QED BY <1>1, <1>2, <2>1, Quotient
<1>6. /\ Unit * (v + (r - part)) = (Unit - r) * v + Unit * r
      /\ Unit * (v - part) = (Unit - r) * v + 0
  BY <1>1, <1>2
<1> QED BY <1>3, <1>4, <1>5, <1>6 DEF v

LEMMA ReinforcedShares ==
    ASSUME NEW row \in Seq(Entry), NEW next, r \in 0 .. Unit - 1, ExactRow(row),
           \A k \in 1 .. Len(row) : row[k].phvalue > 0,
           Share(row)[Len(row)] = Unit,
           NEW j \in 1 .. Len(row), row[j].neighbor = next,
           \A k \in 1 .. Len(row) : row[k].neighbor = next => k = j
    PROVE  LET new == Reinforced(row, next)
           IN  /\ \A k \in 1 .. Len(row) : new[k].phvalue > 0
               /\ Share(new)[Len(row)] = Unit
<1> DEFINE new == Reinforced(row, next)
           n == Len(row)
           s == Share(row)
           t == Share(new)
           T == {k \in 0 .. n : Unit * t[k] = (Unit - r) * s[k] + (IF j <= k THEN Unit * r ELSE 0)}
<1>1. /\ n \in Nat /\ Unit \in Nat /\ Unit > 0 /\ r \in Nat /\ Unit - r > 0
      /\ r \in 0 .. Unit
  BY FactorAssumption
<1>2. new \in Seq(Entry) /\ Len(new) = n
  <2>1. new \in Seq(Entry)
    BY <1>1, ReinforcedOK
  <2> QED BY <1>1, <2>1 DEF Reinforced
<1>3. \A k \in 1 .. n : /\ new[k].phvalue \in Nat /\ row[k].phvalue \in Nat
                        /\ row[k].phvalue > 0
                        /\ Unit * new[k].phvalue
                              = (Unit - r) * row[k].phvalue + (IF k = j THEN Unit * r ELSE 0)
  <2> SUFFICES ASSUME NEW k \in 1 .. n
               PROVE  /\ new[k].phvalue \in Nat /\ row[k].phvalue \in Nat
                      /\ Unit * new[k].phvalue
                            = (Unit - r) * row[k].phvalue + (IF k = j THEN Unit * r ELSE 0)
    OBVIOUS
  <2>1. new[k].phvalue \in Nat /\ row[k].phvalue \in Nat
    <3> HIDE DEF new
    <3> QED BY <1>1, <1>2, EntryAt
  <2>2. row[k].neighbor = next <=> k = j
    OBVIOUS
  <2> QED BY <1>1, <2>1, <2>2, ReinforcedEntry
<1>4. /\ s[0] = 0 /\ t[0] = 0
      /\ \A k \in 1 .. n : /\ s[k] = s[k - 1] + row[k].phvalue
                           /\ t[k] = t[k - 1] + new[k].phvalue
      /\ \A k \in 0 .. n : s[k] \in Nat /\ t[k] \in Nat
  <2> HIDE DEF new
  <2> QED BY <1>2, ShareSteps
<1> HIDE DEF new, s, t, n
<1>5. \A k \in 1 .. n : new[k].phvalue > 0
  <2> SUFFICES ASSUME NEW k \in 1 .. n PROVE new[k].phvalue > 0
    OBVIOUS
  <2>1. /\ (Unit - r) * row[k].phvalue > 0
        /\ Unit * r >= 0
    BY <1>1, <1>3
  <2>2. Unit * new[k].phvalue > 0
    BY <1>1, <1>3, <2>1
  <2> QED BY <1>1, <1>3, <2>2, Positive
<1>6. \A k \in 1 .. n : k - 1 \in T => k \in T
  <2> SUFFICES ASSUME NEW k \in 1 .. n, k - 1 \in T PROVE k \in T
    OBVIOUS
  <2> DEFINE a == row[k].phvalue
             b == new[k].phvalue
             gain(i) == IF j <= i THEN Unit * r ELSE 0
             here == IF k = j THEN Unit * r ELSE 0
             f == Unit - r
  <2>1. /\ s[k - 1] \in Nat /\ t[k - 1] \in Nat /\ s[k] = s[k - 1] + a /\ t[k] = t[k - 1] + b
        /\ a \in Nat /\ b \in Nat
        /\ Unit * b = f * a + here
        /\ Unit * t[k - 1] = f * s[k - 1] + gain(k - 1)
    BY <1>3, <1>4
  <2>2. gain(k) = gain(k - 1) + here
    BY <1>1 DEF n
  <2>3. gain(k - 1) \in Int /\ here \in Int /\ f \in Int /\ Unit \in Int
    BY <1>1
  <2> HIDE DEF a, b, gain, here, f, T
  <2>4. Unit * (t[k - 1] + b) = f * (s[k - 1] + a) + (gain(k - 1) + here)
    <3> DEFINE s0 == s[k - 1]
               t0 == t[k - 1]
               g0 == gain(k - 1)
    <3>1. /\ s0 \in Int /\ t0 \in Int /\ g0 \in Int /\ a \in Int /\ b \in Int
          /\ Unit * t0 = f * s0 + g0 /\ Unit * b = f * a + here
      BY <2>1, <2>3
    <3> HIDE DEF s0, t0, g0
    <3>2. Unit * (t0 + b) = f * (s0 + a) + (g0 + here)
      BY <2>3, <3>1, SumOfTwo
    <3> QED BY <3>2 DEF s0, t0, g0
  <2>5. Unit * t[k] = f * s[k] + gain(k)
    BY <2>1, <2>2, <2>4
  <2> QED BY <2>5 DEF gain, f, T
<1>7. 0 \in T
  BY <1>1, <1>4 DEF n
<1>8. \A k \in 0 .. n : k \in T
  <2> HIDE DEF T
  <2> QED BY <1>1, <1>6, <1>7, Climb
<1>9. t[n] = Unit
  <2>1. n \in 0 .. n /\ j <= n /\ s[n] = Unit
    BY <1>1 DEF n, s
  <2>2. Unit * t[n] = (Unit - r) * Unit + Unit * r
    BY <1>8, <2>1
  <2>3. Unit * t[n] = Unit * Unit
    BY <1>1, <2>2
  <2>4. t[n] \in Int /\ Unit \in Int
    BY <1>1, <1>4, <2>1
  <2> QED BY <1>1, <2>3, <2>4, Cancel
<1> QED BY <1>5, <1>9 DEF new, t, n

-----------------------------------------------------------------------------
(* Where the draws of calc_next fall in a row that adds up to 1.0.          *)

LEMMA DrawsLand ==
    ASSUME NEW row \in Seq(Entry), row # <<>>, Share(row)[Len(row)] = Unit, NEW parent
    PROVE  calc_next(row, parent) \subseteq {parent} \union {row[k].neighbor : k \in 1 .. Len(row)}
<1>1. \A t \in Draws(row, parent) : ~(t >= Share(row)[Len(row)])
  BY FactorAssumption DEF Draws
<1> QED BY <1>1 DEF calc_next

(* The draws are all but the parent's share, which is not all there is. *)
LEMMA DrawsMiss ==
    ASSUME NEW row \in Seq(Entry), Len(row) > 1, Share(row)[Len(row)] = Unit,
           \A k \in 1 .. Len(row) : row[k].phvalue > 0,
           \A i, k \in 1 .. Len(row) : row[i].neighbor = row[k].neighbor => i = k,
           NEW parent
    PROVE  parent \notin calc_next(row, parent)
<1> DEFINE s == Share(row)
           n == Len(row)
           at == {k \in 1 .. n : row[k].neighbor = parent}
<1>1. n \in Nat /\ n > 1 /\ Unit \in Nat /\ Unit > 0
  BY FactorAssumption
<1>2. /\ s[0] = 0 /\ s[n] = Unit
      /\ \A k \in 1 .. n : s[k] = s[k - 1] + row[k].phvalue
      /\ \A k \in 0 .. n : s[k] \in Nat
  BY ShareSteps
<1>3. \A k \in 1 .. n : row[k].phvalue \in Nat /\ row[k].phvalue > 0
  BY EntryAt, FactorAssumption
<1>4. row # <<>>
  OBVIOUS
<1>5. CASE at = {}
  <2>1. Draws(row, parent) = {t \in 0 .. Unit - 1 : t < s[n] \/ t >= Unit}
    BY <1>5 DEF Draws
  <2>2. 0 \in Draws(row, parent)
    BY <1>1, <1>2, <2>1
  <2>3. \A t \in Draws(row, parent) : ~(t >= s[n])
    BY <1>2, <1>1 DEF Draws
  <2> QED BY <1>4, <1>5, <2>2, <2>3 DEF calc_next
<1>6. CASE at # {}
  <2>1. PICK f \in 1 .. n : row[f].neighbor = parent
    BY <1>6
  <2>2. at = {f}
    BY <2>1
  <2> DEFINE first == CHOOSE k \in at : \A j \in at : k <= j
  <2>3. first = f
    BY <2>2
  <2>4. s[f] > 0 /\ s[f - 1] \in Nat /\ s[f] \in Nat
    BY <1>1, <1>2, <1>3
  <2>5. Draws(row, parent) = {t \in 0 .. Unit - 1 : t < s[f - 1] \/ t >= s[f]}
    <3>1. Draws(row, parent) =
            {t \in 0 .. Unit - 1 :
                \/ t < (IF at = {} THEN s[n] ELSE s[first - 1])
                \/ t >= (IF at = {} \/ s[first] = 0 THEN Unit ELSE s[first])}
      BY DEF Draws
    <3> HIDE DEF first, at, s
    <3> QED BY <1>6, <2>3, <2>4, <3>1
  <2>6. Draws(row, parent) # {}
    <3>1. CASE f = 1
      <4>1. s[n] = s[n - 1] + row[n].phvalue /\ row[n].phvalue > 0
            /\ s[n - 1] \in Nat /\ row[n].phvalue \in Nat
        BY <1>1, <1>2, <1>3
      <4>2. s[1] <= s[n - 1]
        <5>1. 1 \in 0 .. n /\ n - 1 \in 0 .. n /\ 1 <= n - 1
          BY <1>1
        <5> QED BY <5>1, ShareGrows
      <4>3. Unit - 1 \in Draws(row, parent)
        BY <1>1, <1>2, <2>4, <2>5, <3>1, <4>1, <4>2
      <4> QED BY <4>3
    <3>2. CASE f # 1
      <4>1. s[1] <= s[f - 1]
        <5>1. 1 \in 0 .. n /\ f - 1 \in 0 .. n /\ 1 <= f - 1
          BY <1>1, <3>2
        <5> QED BY <5>1, ShareGrows
      <4>2. s[1] = s[0] + row[1].phvalue /\ row[1].phvalue \in Nat /\ row[1].phvalue > 0
        BY <1>1, <1>2, <1>3
      <4>3. 0 \in Draws(row, parent)
        BY <1>1, <1>2, <2>4, <2>5, <4>1, <4>2
      <4> QED BY <4>3
    <3> QED BY <3>1, <3>2
  <2>7. \A t \in Draws(row, parent) : ~(t >= s[n]) /\ ~(s[f - 1] <= t /\ t < s[f])
    <3> SUFFICES ASSUME NEW t \in Draws(row, parent)
                 PROVE  ~(t >= s[n]) /\ ~(s[f - 1] <= t /\ t < s[f])
      OBVIOUS
    <3>1. t \in 0 .. Unit - 1 /\ (t < s[f - 1] \/ t >= s[f])
      BY <2>5
    <3> HIDE DEF s
    <3> QED BY <1>1, <1>2, <2>4, <3>1
  <2>8. calc_next(row, parent)
          = {row[k].neighbor : k \in {i \in 1 .. n : \E t \in Draws(row, parent) :
                                                        s[i - 1] <= t /\ t < s[i]}}
    BY <1>4, <2>6, <2>7 DEF calc_next
  <2> QED BY <2>1, <2>7, <2>8
<1> QED BY <1>5, <1>6

-----------------------------------------------------------------------------
(* From here on the script wires the nodes, as antnet.tcl does, and no      *)
(* pheromone value is rounded.  Then rows keep adding up to 1.0, draws land *)
(* on neighbours, and ants walk over links; what they teach are rounds of   *)
(* AntRound, along routes that exist: every step of AntNet is a step of     *)
(* AntRound or changes nothing there, and pheromone rises only in           *)
(* directions that lead to the destination.  Rows and paths depend on each  *)
(* other: an ant stays on links because the rows it meets add up, and a row *)
(* adds up after an update because the ant that teaches it came over one of *)
(* its links.                                                               *)

Ends(i) == {LinkScript[i][1], LinkScript[i][2]}

(* The script declares every link once, and every node has one.  Agents are
   started once, with a factor below 1.                                     *)
Wired ==
    /\ \A i \in 1 .. Len(LinkScript) : LinkScript[i][1] # LinkScript[i][2]
    /\ \A i, j \in 1 .. Len(LinkScript) : Ends(i) = Ends(j) => i = j
    /\ \A n \in Node : \E i \in 1 .. Len(LinkScript) : n \in Ends(i)
    /\ Link \subseteq {Ends(i) : i \in 1 .. Len(LinkScript)}
    /\ MaxStarts <= 1
    /\ \A n \in Node : RFactor[n] < Unit

(* Fixed-point numbers are as good as real ones in this state: neither the
   equal shares of a node's neighbours nor a part of a value is rounded.    *)
Exact ==
    /\ \A n \in Node : Len(nbrs[n]) > 0 /\ linked = Len(LinkScript) => Unit % Len(nbrs[n]) = 0
    /\ \A n \in Node, d \in Dest : ExactRow(rtable[n][d])

-----------------------------------------------------------------------------
(* The invariant.                                                           *)

(* Neighbour lists are the links declared so far. *)
NeighborsOK ==
    \A a \in Node :
        /\ LoopFree(nbrs[a])
        /\ \A b \in Node : Visited(nbrs[a], b) <=> \E i \in 1 .. linked : Ends(i) = {a, b}

(* Agents are wired before they are started, and started before they send. *)
InOrderOK ==
    /\ \A n \in Node : /\ starts[n] > 0 => linked = Len(LinkScript)
                       /\ starts[n] = 0 => \A d \in Dest : rtable[n][d] = <<>>
    /\ \A p \in Packet : InFlight(p) => \A n \in Node : starts[n] > 0
    /\ r < Unit

PInv == NeighborsOK /\ InOrderOK /\ RowConserved /\ PathFollowsLinks

LEMMA InitPInv == Init => PInv
<1> SUFFICES ASSUME Init PROVE PInv
  OBVIOUS
<1>1. NeighborsOK
  BY DEF Init, NeighborsOK, LoopFree, Visited
<1>2. InOrderOK
  BY FactorAssumption DEF Init, InOrderOK, InFlight, Freed
<1>3. RowConserved
  BY DEF Init, RowConserved
<1>4. PathFollowsLinks
  BY DEF Init, PathFollowsLinks, InFlight, Freed
<1> QED BY <1>1, <1>2, <1>3, <1>4 DEF PInv

-----------------------------------------------------------------------------
(* The rows of an agent that was started.                                   *)

LEMMA RowTyped ==
    ASSUME TypeOK, NEW x \in Node, NEW d \in Dest
    PROVE  rtable[x][d] \in Seq(Entry) /\ nbrs[x] \in Seq(Node)
BY DEF TypeOK

(* An entry for every link of the node, and for nothing else. *)
LEMMA RowIsLinks ==
    ASSUME Wired, TypeOK, NeighborsOK, InOrderOK, RowConserved,
           NEW x \in Node, starts[x] > 0, NEW d \in Dest, d # x
    PROVE  LET row == rtable[x][d]
           IN  /\ row # <<>> /\ Len(row) = Len(nbrs[x])
               /\ Share(row)[Len(row)] = Unit
               /\ \A k \in 1 .. Len(row) : /\ row[k].phvalue > 0
                                           /\ row[k].neighbor = nbrs[x][k]
                                           /\ row[k].neighbor # x
                                           /\ {x, row[k].neighbor} \in Link
               /\ \A i, k \in 1 .. Len(row) : row[i].neighbor = row[k].neighbor => i = k
               /\ \A y \in Node : {x, y} \in Link => \E k \in 1 .. Len(row) : row[k].neighbor = y
<1> DEFINE row == rtable[x][d]
<1>1. row \in Seq(Entry) /\ nbrs[x] \in Seq(Node)
  BY RowTyped
<1>2. [k \in 1 .. Len(row) |-> row[k].neighbor] = nbrs[x]
  BY DEF RowConserved
<1>3. Len(row) = Len(nbrs[x]) /\ \A k \in 1 .. Len(row) : row[k].neighbor = nbrs[x][k]
  <2> DEFINE list == [k \in 1 .. Len(row) |-> row[k].neighbor]
  <2>1. Len(row) \in Nat
    BY <1>1
  <2>2. Len(list) = Len(row) /\ \A k \in 1 .. Len(row) : list[k] = row[k].neighbor
    BY <2>1
  <2> QED BY <1>2, <2>2
<1>4. linked = Len(LinkScript)
  BY DEF InOrderOK
<1>5. \A y \in Node : {x, y} \in Link =>
          \E k \in 1 .. Len(row) : row[k].neighbor = y
  <2> SUFFICES ASSUME NEW y \in Node, {x, y} \in Link
               PROVE  \E k \in 1 .. Len(row) : row[k].neighbor = y
    OBVIOUS
  <2>1. PICK i \in 1 .. Len(LinkScript) : Ends(i) = {x, y}
    BY DEF Wired
  <2>2. Visited(nbrs[x], y)
    BY <1>4, <2>1 DEF NeighborsOK
  <2> QED BY <1>3, <2>2 DEF Visited
<1>6. \A k \in 1 .. Len(row) : row[k].neighbor # x /\ {x, row[k].neighbor} \in Link
  <2> SUFFICES ASSUME NEW k \in 1 .. Len(row)
               PROVE  row[k].neighbor # x /\ {x, row[k].neighbor} \in Link
    OBVIOUS
  <2> DEFINE y == row[k].neighbor
  <2>1. y \in Node /\ Visited(nbrs[x], y)
    BY <1>1, <1>3, EntryAt DEF Visited
  <2>2. PICK i \in 1 .. Len(LinkScript) : Ends(i) = {x, y}
    BY <1>4, <2>1 DEF NeighborsOK
  <2>3. x # y
    <3>1. LinkScript[i][1] # LinkScript[i][2]
      BY DEF Wired
    <3> HIDE DEF y
    <3> QED BY <2>2, <3>1 DEF Ends
  <2>4. Ends(i) \in Link
    BY LinksAssumption DEF Ends
  <2> QED BY <2>2, <2>3, <2>4
<1>7. row # <<>>
  <2>1. PICK i \in 1 .. Len(LinkScript) : x \in Ends(i)
    BY DEF Wired
  <2>2. LinkScript[i] \in Node \X Node
    BY LinksAssumption
  <2>3. \E y \in Node : Ends(i) = {x, y}
    BY <2>1, <2>2 DEF Ends
  <2>4. \E y \in Node : Visited(nbrs[x], y)
    BY <1>4, <2>3 DEF NeighborsOK
  <2>5. Len(nbrs[x]) # 0
    BY <1>1, <2>4 DEF Visited
  <2> QED BY <1>3, <2>5
<1>8. /\ \A k \in 1 .. Len(row) : row[k].phvalue > 0
      /\ Share(row)[Len(row)] = Unit
  BY <1>7 DEF RowConserved
<1>9. \A i, k \in 1 .. Len(row) : row[i].neighbor = row[k].neighbor => i = k
  BY <1>3 DEF NeighborsOK, LoopFree
<1> QED BY <1>3, <1>5, <1>6, <1>7, <1>8, <1>9

(* calc_next names neighbours, or sends the ant back. *)
LEMMA NextLinked ==
    ASSUME Wired, TypeOK, NeighborsOK, InOrderOK, RowConserved,
           NEW x \in Node, starts[x] > 0, NEW d \in Dest, d # x, NEW parent,
           NEW next \in calc_next(rtable[x][d], parent), next # parent
    PROVE  next \in Node /\ {x, next} \in Link
<1> DEFINE row == rtable[x][d]
<1>1. row \in Seq(Entry)
  BY RowTyped
<1>2. PICK k \in 1 .. Len(row) : next = row[k].neighbor
  BY <1>1, RowIsLinks, DrawsLand
<1> QED BY <1>1, <1>2, RowIsLinks, EntryAt

-----------------------------------------------------------------------------
(* The paths of ants.                                                       *)

LinkedMemory(mem) == \A i \in 1 .. Len(mem) - 1 : {mem[i], mem[i+1]} \in Link

Linked(h) == {h.saddr, h.daddr} \in Link /\ LinkedMemory(h.mem)

LEMMA MemorizeLinked ==
    ASSUME NEW mem \in Seq(Node), Len(mem) > 0, LoopFree(mem), LinkedMemory(mem),
           NEW x \in Node, {mem[Len(mem)], x} \in Link
    PROVE  LinkedMemory(memorize(mem, x))
<1>1. CASE Visited(mem, x)
  <2>1. PICK i \in 1 .. Len(mem) : mem[i] = x
    BY <1>1 DEF Visited
  <2>2. memorize(mem, x) = SubSeq(mem, 1, i)
    BY <1>1, <2>1, FirstFinds DEF memorize
  <2>3. /\ Len(SubSeq(mem, 1, i)) = i
        /\ \A j \in 1 .. i : SubSeq(mem, 1, i)[j] = mem[j]
    OBVIOUS
  <2> QED BY <2>1, <2>2, <2>3 DEF LinkedMemory
<1>2. CASE ~Visited(mem, x)
  <2> DEFINE m == Append(mem, x)
  <2>1. memorize(mem, x) = m
    BY <1>2 DEF memorize
  <2>2. /\ Len(mem) \in Nat /\ Len(m) = Len(mem) + 1 /\ m[Len(mem) + 1] = x
        /\ \A j \in 1 .. Len(mem) : m[j] = mem[j]
    OBVIOUS
  <2>3. ASSUME NEW i \in 1 .. Len(mem) PROVE {m[i], m[i+1]} \in Link
    <3>1. CASE i = Len(mem)
      BY <2>2, <3>1
    <3>2. CASE i # Len(mem)
      <4>1. i \in 1 .. Len(mem) - 1 /\ i + 1 \in 1 .. Len(mem)
        BY <2>2, <3>2
      <4> QED BY <2>2, <4>1 DEF LinkedMemory
    <3> QED BY <3>1, <3>2
  <2> QED BY <2>1, <2>2, <2>3 DEF LinkedMemory
<1> QED BY <1>1, <1>2

(* The header of a packet that an agent launches, sends on or turns back. *)

LEMMA LaunchLinked ==
    ASSUME NEW n \in Node, NEW d, NEW next, {n, next} \in Link
    PROVE  Linked(Launch(n, d, next))
BY DEF Launch, Linked, LinkedMemory

LEMMA OnwardLinked ==
    ASSUME NEW p \in Packet, HeaderOK(pkt[p]), Linked(pkt[p]), pkt[p].kind = "fwd",
           NEW hops \in Int, NEW next \in Node, {pkt[p].daddr, next} \in Link
    PROVE  Linked(Onward(Arriving(p, hops), pkt[p].daddr, next))
<1> DEFINE h == pkt[p]
           g == Onward(Arriving(p, hops), h.daddr, next)
<1>1. h \in Header /\ h.mem \in Seq(Node) /\ h.daddr \in Node
  BY DEF HeaderOK, Header
<1>2. LinkedMemory(memorize(h.mem, h.daddr))
  BY <1>1, MemorizeLinked DEF HeaderOK, Linked
<1>3. g.saddr = h.daddr /\ g.daddr = next /\ g.mem = memorize(h.mem, h.daddr)
  BY <1>1 DEF Onward, Arriving, Header
<1> HIDE DEF g
<1>4. Linked(g)
  BY <1>2, <1>3 DEF Linked
<1> QED BY <1>4 DEF g

LEMMA TurnedBackLinked ==
    ASSUME NEW p \in Packet, HeaderOK(pkt[p]), Linked(pkt[p]), pkt[p].kind = "fwd",
           pkt[p].dst = pkt[p].daddr, NEW hops \in Int
    PROVE  Linked(TurnedBack(p, hops))
<1> DEFINE h == pkt[p]
           m == memorize(h.mem, h.daddr)
           g == TurnedBack(p, hops)
<1>1. h \in Header /\ h.mem \in Seq(Node) /\ h.daddr \in Node
  BY DEF HeaderOK, Header
<1>2. /\ m \in Seq(Node) /\ Len(m) > 0 /\ m[1] = h.mem[1] /\ m[Len(m)] = h.daddr
      /\ LinkedMemory(m)
  BY <1>1, MemorizeLoopFree, MemorizeLinked DEF HeaderOK, Linked
<1>3. h.mem[1] # h.daddr
  BY DEF HeaderOK
<1> HIDE DEF m
<1>4. Len(m) \in Nat /\ Len(m) > 1
  BY <1>2, <1>3
<1>5. g.saddr = h.daddr /\ g.daddr = m[Len(m) - 1] /\ g.mem = m
  BY <1>1 DEF TurnedBack, Arriving, Header, m, lastSecond
<1> HIDE DEF g
<1>6. {m[Len(m) - 1], m[Len(m) - 1 + 1]} \in Link
  BY <1>2, <1>4 DEF LinkedMemory
<1>7. Linked(g)
  <2>1. Len(m) - 1 + 1 = Len(m)
    BY <1>4
  <2>2. {g.saddr, g.daddr} \in Link
    BY <1>2, <1>5, <1>6, <2>1
  <2> QED BY <1>2, <1>5, <2>2 DEF Linked
<1> QED BY <1>7 DEF g

LEMMA SentBackLinked ==
    ASSUME NEW p \in Packet, HeaderOK(pkt[p]), Linked(pkt[p]), pkt[p].kind = "bwd",
           pkt[p].dst # pkt[p].daddr, NEW hops \in Int
    PROVE  Linked(SentBack(p, hops))
<1> DEFINE h == pkt[p]
           g == SentBack(p, hops)
<1>1. h \in Header /\ h.mem \in Seq(Node) /\ h.daddr \in Node
  BY DEF HeaderOK, Header
<1>2. PICK k \in 1 .. Len(h.mem) - 1 : h.daddr = h.mem[k]
  BY DEF HeaderOK, OnPath
<1>3. k # 1 /\ LoopFree(h.mem)
  BY <1>2 DEF HeaderOK
<1>4. previous(h.mem, h.daddr) = k - 1
  BY <1>1, <1>2, <1>3, FirstFinds DEF previous
<1>5. g.saddr = h.daddr /\ g.daddr = h.mem[k - 1] /\ g.mem = h.mem
  BY <1>1, <1>4 DEF SentBack, Arriving, Header
<1>6. {h.mem[k - 1], h.mem[k - 1 + 1]} \in Link
  BY <1>1, <1>2, <1>3 DEF Linked, LinkedMemory
<1> HIDE DEF g
<1>7. Linked(g)
  <2>1. k - 1 + 1 = k
    OBVIOUS
  <2>2. {g.saddr, g.daddr} \in Link
    BY <1>2, <1>5, <1>6, <2>1
  <2> QED BY <1>5, <2>2 DEF Linked
<1> QED BY <1>7 DEF g

(* A step that writes one header with a linked path, or frees one. *)
LEMMA OnePath ==
    ASSUME PathFollowsLinks, pkt \in [Packet -> Header], NEW p \in Packet, NEW h,
           h = Freed \/ Linked(h), pkt' = [pkt EXCEPT ![p] = h]
    PROVE  PathFollowsLinks'
<1> SUFFICES ASSUME NEW q \in Packet, pkt'[q].kind # "free" PROVE Linked(pkt'[q])
  BY DEF PathFollowsLinks, InFlight, Linked, LinkedMemory
<1>1. CASE q = p
  BY <1>1 DEF Freed
<1>2. CASE q # p
  BY <1>2 DEF PathFollowsLinks, InFlight, Linked, LinkedMemory
<1> QED BY <1>1, <1>2

-----------------------------------------------------------------------------
(* What a backward ant's stop leaves in the rows of its node.               *)

(* Where update_table looks: the node of the stop, the next one on the path,
   which is a neighbour, and the destinations from there on.                *)
LEMMA StopAt ==
    ASSUME NEW p \in Packet, HeaderOK(pkt[p]), Linked(pkt[p]), pkt[p].kind = "bwd"
    PROVE  LET mem == pkt[p].mem
               x   == pkt[p].daddr
           IN  \E k \in 1 .. Len(mem) - 1 :
                  /\ mem \in Seq(Node) /\ LoopFree(mem) /\ LinkedMemory(mem)
                  /\ x = mem[k] /\ First(mem, x) = k
                  /\ mem[k + 1] \in Node /\ {x, mem[k + 1]} \in Link
                  /\ \A i \in k + 1 .. Len(mem) : mem[i] # x
<1>1. pkt[p].mem \in Seq(Node) /\ LoopFree(pkt[p].mem) /\ LinkedMemory(pkt[p].mem)
  BY DEF HeaderOK, Header, Linked
<1>2. PICK k \in 1 .. Len(pkt[p].mem) - 1 : pkt[p].daddr = pkt[p].mem[k]
  BY DEF HeaderOK, OnPath
<1>3. First(pkt[p].mem, pkt[p].daddr) = k
  BY <1>1, <1>2, FirstFinds
<1>4. {pkt[p].mem[k], pkt[p].mem[k + 1]} \in Link
  BY <1>1, <1>2 DEF LinkedMemory
<1>5. \A i \in k + 1 .. Len(pkt[p].mem) : pkt[p].mem[i] # pkt[p].mem[k]
  BY <1>1, <1>2 DEF LoopFree
<1>6. pkt[p].mem[k + 1] \in Node
  BY <1>1, <1>2
<1> QED BY <1>1, <1>2, <1>3, <1>4, <1>5, <1>6

LEMMA TaughtRow ==
    ASSUME Wired, TypeOK, NeighborsOK, InOrderOK, RowConserved, Exact,
           NEW x \in Node, starts[x] > 0, NEW d \in Dest, d # x,
           NEW y \in Node, {x, y} \in Link
    PROVE  LET new == Reinforced(rtable[x][d], y)
           IN  /\ [i \in 1 .. Len(new) |-> new[i].neighbor] = nbrs[x]
               /\ \A i \in 1 .. Len(new) : new[i].phvalue > 0
               /\ Share(new)[Len(new)] = Unit
<1> DEFINE row == rtable[x][d]
           new == Reinforced(row, y)
<1>1. /\ row \in Seq(Entry) /\ ExactRow(row) /\ Len(row) \in Nat
      /\ [i \in 1 .. Len(row) |-> row[i].neighbor] = nbrs[x]
  BY RowTyped DEF Exact, RowConserved
<1>2. /\ Share(row)[Len(row)] = Unit
      /\ \A i \in 1 .. Len(row) : row[i].phvalue > 0
      /\ \A i, j \in 1 .. Len(row) : row[i].neighbor = row[j].neighbor => i = j
  BY RowIsLinks
<1>3. PICK j \in 1 .. Len(row) : row[j].neighbor = y
  BY RowIsLinks
<1>4. r \in 0 .. Unit - 1
  BY FactorAssumption DEF TypeOK, InOrderOK
<1>5. Len(new) = Len(row) /\ \A i \in 1 .. Len(row) : new[i].neighbor = row[i].neighbor
  <2>1. \A i \in 1 .. Len(row) : row[i] \in Entry
    BY <1>1
  <2> HIDE DEF row
  <2> QED BY <1>1, <2>1 DEF Reinforced, Entry
<1> HIDE DEF row
<1>6. \A i, k \in 1 .. Len(row) : row[i].neighbor = y /\ row[k].neighbor = y => i = k
  BY <1>2
<1>7. /\ \A i \in 1 .. Len(row) : new[i].phvalue > 0
      /\ Share(new)[Len(row)] = Unit
  BY <1>1, <1>2, <1>3, <1>4, <1>6, ReinforcedShares
<1> HIDE DEF new
<1>8. [i \in 1 .. Len(new) |-> new[i].neighbor] = nbrs[x]
  BY <1>1, <1>5
<1> QED BY <1>5, <1>7, <1>8 DEF new, row

LEMMA UpdateConserves ==
    ASSUME Wired, TypeOK, NeighborsOK, InOrderOK, RowConserved, Exact,
           NEW p \in Packet, HeaderOK(pkt[p]), Linked(pkt[p]), pkt[p].kind = "bwd",
           update_table(pkt[p].daddr, pkt[p].mem),
           UNCHANGED <<nbrs, starts>>
    PROVE  RowConserved'
<1> DEFINE mem == pkt[p].mem
           x == pkt[p].daddr
<1>1. PICK k \in 1 .. Len(mem) - 1 :
          /\ First(mem, x) = k /\ mem[k + 1] \in Node /\ {x, mem[k + 1]} \in Link
          /\ \A i \in k + 1 .. Len(mem) : mem[i] # x
  BY StopAt
<1> DEFINE y == mem[k + 1]
<1>2. x \in Node /\ starts[x] > 0 /\ rtable \in [Node -> [Dest -> Seq(Entry)]]
  <2>1. x \in Node
    BY DEF HeaderOK, Header
  <2>2. InFlight(p)
    BY DEF InFlight
  <2> QED BY <2>1, <2>2 DEF InOrderOK, TypeOK
<1>3. rtable' = [rtable EXCEPT ![x] =
          [d \in Dest |-> IF \E i \in k + 1 .. Len(mem) : mem[i] = d
                          THEN Reinforced(rtable[x][d], y) ELSE rtable[x][d]]]
  BY <1>1, <1>2 DEF update_table
<1> SUFFICES ASSUME NEW n \in Node, NEW d \in Dest, starts[n] > 0, d # n
             PROVE  LET row == rtable'[n][d]
                    IN  /\ [i \in 1 .. Len(row) |-> row[i].neighbor] = nbrs[n]
                        /\ \A i \in 1 .. Len(row) : row[i].phvalue > 0
                        /\ row # <<>> => Share(row)[Len(row)] = Unit
  BY DEF RowConserved
<1>4. CASE rtable'[n][d] = rtable[n][d]
  BY <1>4 DEF RowConserved
<1>5. CASE n = x /\ rtable'[n][d] = Reinforced(rtable[x][d], y)
  <2>1. d # x /\ y \in Node /\ {x, y} \in Link
    BY <1>1, <1>5
  <2>2. /\ [i \in 1 .. Len(rtable'[n][d]) |-> rtable'[n][d][i].neighbor] = nbrs[x]
        /\ \A i \in 1 .. Len(rtable'[n][d]) : rtable'[n][d][i].phvalue > 0
        /\ Share(rtable'[n][d])[Len(rtable'[n][d])] = Unit
    <3> DEFINE new == Reinforced(rtable[x][d], y)
    <3>1. /\ [i \in 1 .. Len(new) |-> new[i].neighbor] = nbrs[x]
          /\ \A i \in 1 .. Len(new) : new[i].phvalue > 0
          /\ Share(new)[Len(new)] = Unit
      <4> HIDE DEF x, y
      <4> QED BY <1>2, <2>1, TaughtRow
    <3>2. rtable'[n][d] = new
      BY <1>5
    <3> HIDE DEF new
    <3> QED BY <3>1, <3>2
  <2> QED BY <1>5, <2>2
<1>6. rtable'[n][d] = rtable[n][d] \/ (n = x /\ rtable'[n][d] = Reinforced(rtable[x][d], y))
  <2> HIDE DEF x, y, mem
  <2> QED BY <1>2, <1>3
<1> QED BY <1>4, <1>5, <1>6

-----------------------------------------------------------------------------
(* Every step preserves the invariant.                                      *)

LEMMA PutFirst ==
    ASSUME NEW list \in Seq(Node), LoopFree(list), NEW b \in Node, ~Visited(list, b)
    PROVE  /\ LoopFree(<<b>> \o list)
           /\ \A y : Visited(<<b>> \o list, y) <=> y = b \/ Visited(list, y)
<1> DEFINE new == <<b>> \o list
<1>1. /\ Len(list) \in Nat /\ Len(new) = Len(list) + 1
      /\ \A i \in 1 .. Len(new) : new[i] = IF i = 1 THEN b ELSE list[i - 1]
  OBVIOUS
<1> HIDE DEF new
<1>2. LoopFree(new)
  <2> SUFFICES ASSUME NEW i \in 1 .. Len(new), NEW j \in 1 .. Len(new), new[i] = new[j]
               PROVE  i = j
    BY DEF LoopFree
  <2>1. CASE i = 1 \/ j = 1
    BY <1>1, <2>1 DEF Visited
  <2>2. CASE i # 1 /\ j # 1
    <3>1. i - 1 \in 1 .. Len(list) /\ j - 1 \in 1 .. Len(list) /\ list[i - 1] = list[j - 1]
      BY <1>1, <2>2
    <3>2. i - 1 = j - 1
      BY <3>1 DEF LoopFree
    <3> QED BY <3>2
  <2> QED BY <2>1, <2>2
<1>3. ASSUME NEW y PROVE Visited(new, y) <=> y = b \/ Visited(list, y)
  <2>1. ASSUME y = b \/ Visited(list, y) PROVE Visited(new, y)
    <3>1. CASE y = b
      BY <1>1, <3>1 DEF Visited
    <3>2. CASE Visited(list, y)
      <4>1. PICK i \in 1 .. Len(list) : list[i] = y
        BY <3>2 DEF Visited
      <4>2. i + 1 \in 1 .. Len(new) /\ new[i + 1] = y
        BY <1>1, <4>1
      <4> QED BY <4>2 DEF Visited
    <3> QED BY <2>1, <3>1, <3>2
  <2>2. ASSUME Visited(new, y) PROVE y = b \/ Visited(list, y)
    BY <1>1, <2>2 DEF Visited
  <2> QED BY <2>1, <2>2
<1> QED BY <1>2, <1>3 DEF new

LEMMA AddNeighborOK ==
    ASSUME Wired, TypeOK, NeighborsOK, AddNeighbor
    PROVE  NeighborsOK'
<1> DEFINE m == linked + 1
           a == LinkScript[m][1]
           b == LinkScript[m][2]
<1>1. m \in 1 .. Len(LinkScript) /\ linked \in Nat /\ linked' = m
  BY LinksAssumption DEF AddNeighbor, TypeOK
<1>2. a \in Node /\ b \in Node /\ a # b /\ Ends(m) = {a, b}
  <2>1. LinkScript[m] \in Node \X Node
    BY <1>1, LinksAssumption
  <2> QED BY <1>1, <2>1 DEF Wired, Ends
<1>3. nbrs' = [[nbrs EXCEPT ![a] = <<b>> \o @] EXCEPT ![b] = <<a>> \o @]
  BY DEF AddNeighbor
<1> HIDE DEF a, b
<1>4. nbrs \in [Node -> Seq(Node)]
  BY DEF TypeOK
<1>5. /\ nbrs'[a] = <<b>> \o nbrs[a]
      /\ nbrs'[b] = <<a>> \o nbrs[b]
      /\ \A c \in Node \ {a, b} : nbrs'[c] = nbrs[c]
  BY <1>2, <1>3, <1>4
<1>6. ~ \E i \in 1 .. linked : Ends(i) = {a, b}
  <2> SUFFICES ASSUME NEW i \in 1 .. linked, Ends(i) = Ends(m) PROVE FALSE
    BY <1>2
  <2>1. i \in 1 .. Len(LinkScript) /\ i # m
    BY <1>1, LinksAssumption
  <2> QED BY <1>1, <2>1 DEF Wired
<1>7. ~Visited(nbrs[a], b) /\ ~Visited(nbrs[b], a) /\ LoopFree(nbrs[a]) /\ LoopFree(nbrs[b])
  <2>1. \A c, e \in Node : Visited(nbrs[c], e) <=> \E i \in 1 .. linked : Ends(i) = {c, e}
    BY DEF NeighborsOK
  <2>2. ~ \E i \in 1 .. linked : Ends(i) = {b, a}
    <3>1. {a, b} = {b, a}
      OBVIOUS
    <3> QED BY <1>6, <3>1
  <2>3. ~Visited(nbrs[a], b)
    BY <1>2, <1>6, <2>1
  <2>4. ~Visited(nbrs[b], a)
    BY <1>2, <2>1, <2>2
  <2> QED BY <1>2, <2>3, <2>4 DEF NeighborsOK
<1>8. \A S : (\E i \in 1 .. m : Ends(i) = S)
             <=> (S = {a, b} \/ \E i \in 1 .. linked : Ends(i) = S)
  <2>1. 1 .. m = 1 .. linked \union {m}
    BY <1>1
  <2> HIDE DEF m
  <2> QED BY <1>2, <2>1
<1>9. SUFFICES ASSUME NEW c \in Node
               PROVE  /\ LoopFree(nbrs'[c])
                      /\ \A y \in Node : Visited(nbrs'[c], y)
                                         <=> \E i \in 1 .. m : Ends(i) = {c, y}
  BY <1>1 DEF NeighborsOK, Ends
<1>10. /\ LoopFree(nbrs[c])
       /\ \A y \in Node : Visited(nbrs[c], y) <=> \E i \in 1 .. linked : Ends(i) = {c, y}
  BY DEF NeighborsOK
<1>11. CASE c = a
  <2>1. /\ LoopFree(nbrs'[a])
        /\ \A y : Visited(nbrs'[a], y) <=> y = b \/ Visited(nbrs[a], y)
    <3>1. nbrs[a] \in Seq(Node)
      BY <1>2, <1>4
    <3>2. /\ LoopFree(<<b>> \o nbrs[a])
          /\ \A y : Visited(<<b>> \o nbrs[a], y) <=> y = b \/ Visited(nbrs[a], y)
      BY <1>2, <1>7, <3>1, PutFirst
    <3> QED BY <1>5, <3>2
  <2>2. \A y : {c, y} = {a, b} <=> y = b
    BY <1>11
  <2> HIDE DEF m
  <2> QED BY <1>8, <1>10, <1>11, <2>1, <2>2
<1>12. CASE c = b
  <2>1. /\ LoopFree(nbrs'[b])
        /\ \A y : Visited(nbrs'[b], y) <=> y = a \/ Visited(nbrs[b], y)
    <3>1. nbrs[b] \in Seq(Node)
      BY <1>2, <1>4
    <3>2. /\ LoopFree(<<a>> \o nbrs[b])
          /\ \A y : Visited(<<a>> \o nbrs[b], y) <=> y = a \/ Visited(nbrs[b], y)
      BY <1>2, <1>7, <3>1, PutFirst
    <3> QED BY <1>5, <3>2
  <2>2. \A y : {c, y} = {a, b} <=> y = a
    BY <1>12
  <2> HIDE DEF m
  <2> QED BY <1>8, <1>10, <1>12, <2>1, <2>2
<1>13. CASE c # a /\ c # b
  <2>1. nbrs'[c] = nbrs[c]
    BY <1>5, <1>13
  <2>2. \A y : {c, y} # {a, b}
    BY <1>13
  <2> HIDE DEF m
  <2> QED BY <1>8, <1>10, <2>1, <2>2
<1> QED BY <1>11, <1>12, <1>13

LEMMA StartOK ==
    ASSUME Wired, Exact, TypeOK, PInv, NEW n \in Node, Start(n)
    PROVE  RowConserved'
<1>1. /\ starts[n] = 0 /\ linked = Len(LinkScript) /\ nbrs' = nbrs
      /\ nbrs \in [Node -> Seq(Node)] /\ rtable \in [Node -> [Dest -> Seq(Entry)]]
      /\ starts \in [Node -> 0 .. MaxStarts]
  BY BoundsAssumption DEF Wired, TypeOK, Start
<1>2. \A d \in Dest : rtable[n][d] = <<>>
  BY <1>1 DEF PInv, InOrderOK
<1>3. nbrs[n] # <<>>
  <2>1. PICK i \in 1 .. Len(LinkScript) : n \in Ends(i)
    BY DEF Wired
  <2>2. LinkScript[i] \in Node \X Node
    BY LinksAssumption
  <2>3. \E y \in Node : Ends(i) = {n, y}
    BY <2>1, <2>2 DEF Ends
  <2>4. \E y \in Node : Visited(nbrs[n], y)
    BY <1>1, <2>3 DEF PInv, NeighborsOK
  <2> QED BY <1>1, <2>4 DEF Visited
<1> DEFINE list == nbrs[n]
           new == Equal(list)
<1>4. list \in Seq(Node) /\ Len(list) > 0 /\ Unit % Len(list) = 0
  BY <1>1, <1>3 DEF Exact
<1>5. /\ new \in Seq(Entry) /\ Len(new) = Len(list)
      /\ \A k \in 1 .. Len(list) : new[k].neighbor = list[k]
      /\ \A k \in 1 .. Len(list) : new[k].phvalue > 0
      /\ Share(new)[Len(list)] = Unit
  <2>1. new \in Seq(Entry)
    BY <1>4, EqualOK
  <2>2. /\ \A k \in 1 .. Len(list) : new[k].phvalue > 0
        /\ Share(new)[Len(list)] = Unit
    BY <1>3, <1>4, EqualShares
  <2>3. Len(new) = Len(list) /\ \A k \in 1 .. Len(list) : new[k].neighbor = list[k]
    BY <1>4 DEF Equal
  <2> QED BY <2>1, <2>2, <2>3
<1>6. \A d \in Dest : d # n => rtable'[n][d] = new
  <2> SUFFICES ASSUME NEW d \in Dest, d # n PROVE rtable'[n][d] = new
    OBVIOUS
  <2>1. rtable'[n][d] = rtable[n][d] \o new
    BY <1>1 DEF Start
  <2> HIDE DEF new
  <2> QED BY <1>2, <1>5, <2>1
<1>7. \A m \in Node \ {n} : rtable'[m] = rtable[m] /\ starts'[m] = starts[m]
  BY <1>1 DEF Start
<1> HIDE DEF list, new
<1>8. [k \in 1 .. Len(new) |-> new[k].neighbor] = list
  BY <1>4, <1>5
<1> SUFFICES ASSUME NEW m \in Node, NEW d \in Dest, starts'[m] > 0, d # m
             PROVE  LET row == rtable'[m][d]
                    IN  /\ [i \in 1 .. Len(row) |-> row[i].neighbor] = nbrs[m]
                        /\ \A i \in 1 .. Len(row) : row[i].phvalue > 0
                        /\ row # <<>> => Share(row)[Len(row)] = Unit
  BY <1>1 DEF RowConserved
<1>9. CASE m = n
  BY <1>5, <1>6, <1>8, <1>9 DEF list
<1>10. CASE m # n
  BY <1>7, <1>10 DEF PInv, RowConserved
<1> QED BY <1>9, <1>10

(* What a step that leaves its variables alone leaves true. *)

LEMMA Kept ==
    ASSUME PInv, UNCHANGED <<nbrs, linked, starts, r>>,
           (\A n \in Node : starts[n] > 0) \/ UNCHANGED <<rtable, pkt>>
    PROVE  NeighborsOK' /\ InOrderOK'
<1>1. NeighborsOK'
  BY DEF PInv, NeighborsOK
<1>2. CASE \A n \in Node : starts[n] > 0
  <2>1. \A n \in Node : starts'[n] # 0
    BY <1>2
  <2> QED BY <1>1, <1>2, <2>1 DEF PInv, InOrderOK
<1>3. CASE UNCHANGED <<rtable, pkt>>
  BY <1>1, <1>3 DEF PInv, InOrderOK, InFlight
<1> QED BY <1>2, <1>3

LEMMA RowsKept ==
    ASSUME PInv, UNCHANGED <<nbrs, starts, rtable>>
    PROVE  RowConserved'
BY DEF PInv, RowConserved

LEMMA SendLinked ==
    ASSUME PInv, pkt \in [Packet -> Header], NEW p \in Packet, NEW h, Linked(h), Send(p, h)
    PROVE  PathFollowsLinks'
<1>1. PICK left \in {h, Freed} : pkt' = [pkt EXCEPT ![p] = left]
  BY DEF Send
<1>2. left = Freed \/ Linked(left)
  OBVIOUS
<1> QED BY <1>1, <1>2, OnePath DEF PInv

LEMMA FreeLinked ==
    ASSUME PInv, pkt \in [Packet -> Header], NEW p \in Packet, Free(p)
    PROVE  PathFollowsLinks'
BY OnePath DEF PInv, Free

(* The script's commands. *)

LEMMA AddNeighborPInv == ASSUME Wired, IInv, PInv, AddNeighbor PROVE PInv'
<1>1. TypeOK
  BY DEF IInv
<1>2. \A n \in Node : starts'[n] = 0
  <2> SUFFICES ASSUME NEW n \in Node PROVE starts[n] = 0
    BY DEF AddNeighbor
  <2>1. starts[n] \in Nat /\ Len(LinkScript) \in Nat
    BY <1>1, BoundsAssumption, LinksAssumption DEF TypeOK
  <2>2. ~(starts[n] > 0)
    BY <1>1, <2>1 DEF PInv, InOrderOK, AddNeighbor, TypeOK
  <2> QED BY <2>1, <2>2
<1>3. \A p \in Packet : ~InFlight(p)'
  BY <1>2, NodeZero DEF PInv, InOrderOK, AddNeighbor, InFlight
<1>4. NeighborsOK'
  BY <1>1, AddNeighborOK DEF PInv
<1>5. InOrderOK'
  BY <1>2, <1>3 DEF PInv, InOrderOK, AddNeighbor
<1>6. RowConserved' /\ PathFollowsLinks'
  BY <1>2, <1>3 DEF RowConserved, PathFollowsLinks
<1> QED BY <1>4, <1>5, <1>6 DEF PInv

LEMMA StartPInv == ASSUME Wired, Exact, IInv, PInv, NEW n \in Node, Start(n) PROVE PInv'
<1>1. TypeOK
  BY DEF IInv
<1>2. /\ linked' = linked /\ nbrs' = nbrs /\ pkt' = pkt /\ linked = Len(LinkScript)
      /\ r' = RFactor[n]
      /\ \A m \in Node \ {n} : rtable'[m] = rtable[m] /\ starts'[m] = starts[m]
      /\ starts'[n] = starts[n] + 1 /\ starts[n] \in Nat
  BY <1>1, BoundsAssumption DEF Start, TypeOK
<1>3. NeighborsOK'
  BY <1>2 DEF PInv, NeighborsOK
<1>4. \A m \in Node : starts'[m] = 0 => m # n /\ starts[m] = 0
  BY <1>2
<1>5. InOrderOK'
  <2>1. \A m \in Node : starts'[m] = 0 => \A d \in Dest : rtable'[m][d] = <<>>
    BY <1>2, <1>4 DEF PInv, InOrderOK
  <2>2. \A m \in Node : starts[m] > 0 => starts'[m] > 0
    BY <1>2
  <2>3. \A p \in Packet : InFlight(p)' => \A m \in Node : starts'[m] > 0
    BY <1>2, <2>2 DEF PInv, InOrderOK, InFlight
  <2>4. r' < Unit
    BY <1>2 DEF Wired
  <2> QED BY <1>2, <2>1, <2>3, <2>4 DEF InOrderOK
<1>6. RowConserved'
  BY <1>1, StartOK
<1>7. PathFollowsLinks'
  BY <1>2 DEF PInv, PathFollowsLinks, InFlight
<1> QED BY <1>3, <1>5, <1>6, <1>7 DEF PInv

(* The timer. *)

LEMMA ExpirePInv == ASSUME Wired, IInv, PInv, NEW n \in Node, Expire(n) PROVE PInv'
<1>1. TypeOK /\ pkt \in [Packet -> Header]
  BY DEF IInv, TypeOK
<1>2. ASSUME NEW h \in Launches(n) PROVE Linked(h)
  <2>1. PICK d \in Dest \ {n} : \E next \in calc_next(rtable[n][d], n) \ {n} :
           h = Launch(n, d, next)
    BY DEF Launches
  <2>2. PICK next \in calc_next(rtable[n][d], n) \ {n} : h = Launch(n, d, next)
    BY <2>1
  <2>3. {n, next} \in Link
    BY <1>1, <2>1, <2>2, NextLinked DEF PInv, Expire
  <2> QED BY <2>2, <2>3, LaunchLinked
<1>3. PathFollowsLinks'
  <2>1. CASE \E p \in Packet, h \in Launches(n) : ~InFlight(p) /\ Send(p, h)
    BY <1>1, <1>2, <2>1, SendLinked
  <2>2. CASE UNCHANGED pkt
    BY <2>2 DEF PInv, PathFollowsLinks, InFlight
  <2> QED BY <2>1, <2>2 DEF Expire
<1>4. NeighborsOK' /\ InOrderOK' /\ RowConserved'
  BY Kept, RowsKept DEF Expire, setup
<1> QED BY <1>3, <1>4 DEF PInv

(* An arrival. *)

LEMMA RecvPInv ==
    ASSUME Wired, Exact, IInv, PInv, NEW p \in Packet, recv(p)
    PROVE  PInv'
<1>1. TypeOK /\ pkt \in [Packet -> Header] /\ NeighborsOK /\ InOrderOK /\ RowConserved
  BY DEF IInv, TypeOK, PInv
<1>2. PICK hops \in Int : \/ TurnBack(p, hops)
                         \/ ForwardAnt(p, hops)
                         \/ DeadEnd(p)
                         \/ Home(p)
                         \/ BackwardAnt(p, hops)
  BY HopsInt DEF recv
<1>3. /\ pkt[p].kind \in {"fwd", "bwd"} /\ HeaderOK(pkt[p]) /\ Linked(pkt[p])
      /\ pkt[p].daddr \in Node
  <2>1. HeaderOK(pkt[p]) /\ pkt[p] \in Header
    BY DEF IInv, HeadersOK, HeaderOK
  <2>2. pkt[p].kind \in {"fwd", "bwd"}
    BY <1>2 DEF TurnBack, ForwardAnt, DeadEnd, Home, BackwardAnt
  <2>3. Linked(pkt[p])
    BY <2>2 DEF PInv, PathFollowsLinks, InFlight, Linked, LinkedMemory
  <2> QED BY <2>1, <2>2, <2>3 DEF Header
<1>4. \A n \in Node : starts[n] > 0
  BY <1>1, <1>3 DEF InOrderOK, InFlight
<1>5. UNCHANGED <<nbrs, linked, starts, r>>
  BY <1>2 DEF TurnBack, ForwardAnt, DeadEnd, Home, BackwardAnt, setup
<1>6. NeighborsOK' /\ InOrderOK'
  BY <1>4, <1>5, Kept
<1>7. RowConserved'
  <2>1. CASE UNCHANGED rtable
    BY <1>5, <2>1, RowsKept
  <2>2. CASE pkt[p].kind = "bwd" /\ update_table(pkt[p].daddr, pkt[p].mem)
    BY <1>1, <1>3, <1>5, <2>2, UpdateConserves
  <2> QED BY <1>2, <2>1, <2>2 DEF TurnBack, ForwardAnt, DeadEnd, Home, BackwardAnt
<1>8. PathFollowsLinks'
  <2>1. CASE TurnBack(p, hops)
    BY <1>1, <1>3, <2>1, TurnedBackLinked, SendLinked DEF TurnBack
  <2>2. CASE ForwardAnt(p, hops)
    <3> DEFINE x == pkt[p].daddr
               d == pkt[p].dst
               parent == pkt[p].saddr
    <3>1. PICK next \in calc_next(rtable[x][d], parent) \ {x, parent} :
             Send(p, Onward(Arriving(p, hops), x, next))
      BY <2>2 DEF ForwardAnt, Forwarded
    <3>2. d \in Dest /\ d # x /\ pkt[p].kind = "fwd"
      BY <1>3, <2>2 DEF HeaderOK, ForwardAnt
    <3>3. next \in Node /\ {x, next} \in Link
      <4> HIDE DEF x, d, parent
      <4>1. x \in Node
        BY <1>3 DEF x
      <4> QED BY <1>1, <1>4, <3>1, <3>2, <4>1, NextLinked
    <3>4. Linked(Onward(Arriving(p, hops), x, next))
      BY <1>3, <3>2, <3>3, OnwardLinked
    <3> QED BY <1>1, <3>1, <3>4, SendLinked
  <2>3. CASE DeadEnd(p) \/ Home(p)
    BY <1>1, <2>3, FreeLinked DEF DeadEnd, Home
  <2>4. CASE BackwardAnt(p, hops)
    BY <1>1, <1>3, <2>4, SentBackLinked, SendLinked DEF BackwardAnt
  <2> QED BY <1>2, <2>1, <2>2, <2>3, <2>4
<1> QED BY <1>6, <1>7, <1>8 DEF PInv

LEMMA NextPInv == Wired /\ Exact /\ IInv /\ PInv /\ [Next]_vars => PInv'
<1> SUFFICES ASSUME Wired, Exact, IInv, PInv, [Next]_vars PROVE PInv'
  OBVIOUS
<1>1. CASE AddNeighbor
  BY <1>1, AddNeighborPInv
<1>2. ASSUME NEW n \in Node, Start(n) PROVE PInv'
  BY <1>2, StartPInv
<1>3. ASSUME NEW n \in Node, Stop(n) PROVE PInv'
  <2>1. UNCHANGED <<nbrs, linked, starts, r, rtable, pkt>>
    BY <1>3 DEF Stop, setup
  <2>2. PathFollowsLinks'
    BY <2>1 DEF PInv, PathFollowsLinks, InFlight
  <2> QED BY <2>1, <2>2, Kept, RowsKept DEF PInv
<1>4. ASSUME NEW n \in Node, Expire(n) PROVE PInv'
  BY <1>4, ExpirePInv
<1>5. ASSUME NEW p \in Packet, recv(p) PROVE PInv'
  BY <1>5, RecvPInv
<1>6. ASSUME NEW p \in Packet, ExpireTtl(p) \/ Lose(p) PROVE PInv'
  <2>1. /\ InFlight(p) /\ Free(p) /\ UNCHANGED <<nbrs, linked, starts, r, rtable>>
        /\ pkt \in [Packet -> Header]
    BY <1>6 DEF ExpireTtl, Lose, setup, IInv, TypeOK
  <2>2. \A n \in Node : starts[n] > 0
    BY <2>1 DEF PInv, InOrderOK
  <2>3. PathFollowsLinks'
    BY <2>1, FreeLinked
  <2> QED BY <2>1, <2>2, <2>3, Kept, RowsKept DEF PInv
<1>7. CASE UNCHANGED vars
  <2>1. UNCHANGED <<nbrs, linked, starts, r, rtable, pkt>>
    BY <1>7 DEF vars
  <2>2. PathFollowsLinks'
    BY <2>1 DEF PInv, PathFollowsLinks, InFlight
  <2> QED BY <2>1, <2>2, Kept, RowsKept DEF PInv
<1> QED BY <1>1, <1>2, <1>3, <1>4, <1>5, <1>6, <1>7 DEF Next

LEMMA WiredInvariance ==
    ASSUME Wired
    PROVE  Spec /\ []Exact => [](IInv /\ PInv)
<1>1. IInv /\ PInv /\ Exact /\ [Next]_vars => (IInv /\ PInv)'
  BY NextIInv, NextPInv
<1>2. Init => IInv /\ PInv
  BY InitIInv, InitPInv
<1> QED BY <1>1, <1>2, PTL DEF Spec

-----------------------------------------------------------------------------
(* However many ants update the rows of a wired network, in whatever order,
   every row keeps one positive entry for every neighbour, and they add up
   to 1.0: initialize_rtable and update lose nothing but to rounding.       *)
THEOREM RowsAddUp ==
    ASSUME Wired
    PROVE  Spec /\ []Exact => []RowConserved
<1>1. IInv /\ PInv => RowConserved
  BY DEF PInv
<1> QED BY <1>1, WiredInvariance, PTL

(* calc_next, in a network that is wired, sends ants over links only, and a
   memory is a path of the topology.                                        *)
THEOREM AntsFollowLinks ==
    ASSUME Wired
    PROVE  Spec /\ []Exact => []PathFollowsLinks
<1>1. IInv /\ PInv => PathFollowsLinks
  BY DEF PInv
<1> QED BY <1>1, WiredInvariance, PTL

(* calc_next excludes the parent exactly: its draws miss the whole share of
   the parent and nothing else, so an ant in the middle of its walk never
   turns back at a node with another neighbour.                             *)
THEOREM AntsGoOn ==
    ASSUME Wired
    PROVE  Spec /\ []Exact => []NoUTurn
<1>1. IInv /\ PInv => NoUTurn
  <2> SUFFICES ASSUME IInv, PInv, NEW p \in Packet, pkt[p].kind = "fwd",
                      pkt[p].daddr # pkt[p].dst, Len(nbrs[pkt[p].daddr]) > 1
               PROVE  LET next == calc_next(rtable[pkt[p].daddr][pkt[p].dst], pkt[p].saddr)
                      IN  pkt[p].daddr \notin next /\ pkt[p].saddr \notin next
    BY DEF NoUTurn
  <2> DEFINE x == pkt[p].daddr
             d == pkt[p].dst
             parent == pkt[p].saddr
             row == rtable[x][d]
  <2>1. x \in Node /\ d \in Dest /\ d # x /\ parent # x
    BY DEF IInv, HeadersOK, HeaderOK, Header
  <2>2. starts[x] > 0
    BY <2>1 DEF PInv, InOrderOK, InFlight
  <2>3. TypeOK /\ NeighborsOK /\ InOrderOK /\ RowConserved
    BY DEF IInv, PInv
  <2>4. Len(nbrs[x]) > 1
    OBVIOUS
  <2> HIDE DEF x, d, parent
  <2>5. /\ row # <<>> /\ Len(row) = Len(nbrs[x])
        /\ Share(row)[Len(row)] = Unit
        /\ \A k \in 1 .. Len(row) : row[k].phvalue > 0 /\ row[k].neighbor # x
        /\ \A i, k \in 1 .. Len(row) : row[i].neighbor = row[k].neighbor => i = k
    <3>1. /\ row # <<>> /\ Len(row) = Len(nbrs[x])
          /\ Share(row)[Len(row)] = Unit
      BY <2>1, <2>2, <2>3, RowIsLinks
    <3>2. \A k \in 1 .. Len(row) : row[k].phvalue > 0
      BY <2>1, <2>2, <2>3, RowIsLinks
    <3>3. \A k \in 1 .. Len(row) : row[k].neighbor # x
      <4>1. \A k \in 1 .. Len(row) : /\ row[k].phvalue > 0
                                     /\ row[k].neighbor = nbrs[x][k]
                                     /\ row[k].neighbor # x
                                     /\ {x, row[k].neighbor} \in Link
        BY <2>1, <2>2, <2>3, RowIsLinks
      <4> QED BY <4>1
    <3>4. \A i, k \in 1 .. Len(row) : row[i].neighbor = row[k].neighbor => i = k
      BY <2>1, <2>2, <2>3, RowIsLinks
    <3> QED BY <3>1, <3>2, <3>3, <3>4
  <2>6. row \in Seq(Entry)
    BY <2>1, <2>3, RowTyped
  <2> HIDE DEF row
  <2>7. x \notin calc_next(row, parent)
    BY <2>1, <2>5, <2>6, DrawsLand
  <2>8. parent \notin calc_next(row, parent)
    BY <2>4, <2>5, <2>6, DrawsMiss
  <2> QED BY <2>7, <2>8 DEF x, d, parent, row
<1> QED BY <1>1, WiredInvariance, PTL

(* The time-to-live of 2 * num_nodes_ covers out and back together: if every
   node is a destination, it never runs out on an ant whose walk was without
   a loop, whatever the topology.                                           *)
THEOREM StraightAntsArrive ==
    ASSUME Wired, NumNodes = NodeCount
    PROVE  Spec /\ []Exact => []StraightAntsSurvive
<1>1. IInv /\ PInv => StraightAntsSurvive
  <2> SUFFICES ASSUME IInv, PInv, NEW p \in Packet, InFlight(p), Straight(p),
                      NEW hops \in Hops(p)
               PROVE  pkt[p].ttl > hops
    BY DEF StraightAntsSurvive
  <2> DEFINE mem == pkt[p].mem
  <2>1. /\ HeaderOK(pkt[p]) /\ mem \in Seq(Node) /\ LoopFree(mem) /\ Len(mem) > 0
        /\ pkt[p].ttl \in Int /\ pkt[p].kind \in {"fwd", "bwd"}
    BY DEF IInv, HeadersOK, HeaderOK, Header, InFlight
  <2>2. hops = 1
    BY DEF PInv, PathFollowsLinks, Hops
  <2>3. Len(mem) \in Nat /\ Len(mem) <= NodeCount /\ NodeCount \in Nat
    BY <2>1, LoopFreeIsShort, NodesAssumption
  <2>4. TimeToLive = 2 * NodeCount
    BY DEF TimeToLive
  <2>5. CASE pkt[p].kind = "fwd"
    <3>1. 2 * NodeCount - pkt[p].ttl = Len(mem) - 1
      BY <2>4, <2>5 DEF Straight
    <3> QED BY <2>1, <2>2, <2>3, <3>1
  <2>6. CASE pkt[p].kind = "bwd"
    <3>1. PICK k \in 1 .. Len(mem) - 1 : pkt[p].daddr = mem[k]
      BY <2>1, <2>6 DEF HeaderOK, OnPath
    <3>2. First(mem, pkt[p].daddr) = k
      BY <2>1, <3>1, FirstFinds
    <3>3. 2 * NodeCount - pkt[p].ttl = 2 * (Len(mem) - 1) - k
      BY <2>4, <2>6, <3>2 DEF Straight
    <3> QED BY <2>1, <2>2, <2>3, <3>1, <3>3
  <2> QED BY <2>1, <2>5, <2>6
<1> QED BY <1>1, WiredInvariance, PTL

-----------------------------------------------------------------------------
(* The routes that headers stand for.                                       *)

RouteOf(h) == IF h.kind = "bwd"
              THEN [path |-> h.mem, pos |-> First(h.mem, h.daddr)]
              ELSE Round!NoRoute

Routes == [p \in Packet |-> Route(p)]

LEMMA RouteIs == \A p \in Packet : Routes[p] = RouteOf(pkt[p]) /\ Routes'[p] = RouteOf(pkt'[p])
BY DEF Routes, Route, RouteOf, Round!NoRoute

LEMMA RouteFreed == RouteOf(Freed) = Round!NoRoute
BY DEF RouteOf, Freed

(* A step that writes one header changes one route. *)
LEMMA OneRoute ==
    ASSUME pkt \in [Packet -> Header], NEW p \in Packet, NEW h, pkt' = [pkt EXCEPT ![p] = h]
    PROVE  /\ Routes'[p] = RouteOf(h)
           /\ \A q \in Packet \ {p} : Routes'[q] = Routes[q]
           /\ RouteOf(h) = RouteOf(pkt[p]) => Routes' = Routes
<1>1. Routes'[p] = RouteOf(h)
  BY RouteIs
<1>2. \A q \in Packet \ {p} : Routes'[q] = Routes[q]
  BY RouteIs
<1>3. ASSUME RouteOf(h) = RouteOf(pkt[p]) PROVE Routes' = Routes
  <2>1. \A q \in Packet : Routes'[q] = Routes[q]
    BY <1>1, <1>2, <1>3, RouteIs
  <2>2. Routes = [q \in Packet |-> Routes[q]] /\ Routes' = [q \in Packet |-> Routes'[q]]
    BY DEF Routes
  <2> QED BY <2>1, <2>2
<1> QED BY <1>1, <1>2, <1>3

-----------------------------------------------------------------------------
(* What a backward ant teaches at one node.                                 *)

LEMMA Gains ==
    ASSUME NEW row \in Seq(Entry), NEW y, r \in 0 .. Unit
    PROVE  Round!Favours(row, Reinforced(row, y), y)
<1> DEFINE new == Reinforced(row, y)
<1>1. Len(row) \in Nat /\ Len(new) = Len(row)
  BY DEF Reinforced
<1>2. ASSUME NEW k \in 1 .. Len(row)
      PROVE  /\ new[k].neighbor = row[k].neighbor
             /\ IF row[k].neighbor = y THEN new[k].phvalue >= row[k].phvalue
                                       ELSE new[k].phvalue <= row[k].phvalue
  <2> DEFINE v == row[k].phvalue
             gain == (r * (Unit - v)) \div Unit
             left == ((Unit - r) * v) \div Unit
  <2>1. row[k] \in Entry /\ v \in 0 .. Unit /\ Unit \in Nat /\ Unit > 0
    BY EntryAt, FactorAssumption
  <2>2. gain \in 0 .. Unit - v /\ left \in 0 .. v
    <3>1. Unit - v \in 0 .. Unit /\ Unit - r \in 0 .. Unit
      BY <2>1
    <3> HIDE DEF v
    <3> QED BY <2>1, <3>1, ShareBounds
  <2>3. new[k].neighbor = row[k].neighbor
        /\ new[k].phvalue = IF row[k].neighbor = y THEN v + gain ELSE left
    BY <2>1 DEF Reinforced, Entry
  <2> HIDE DEF new, gain, left
  <2> QED BY <2>1, <2>2, <2>3
<1> HIDE DEF new
<1> QED BY <1>1, <1>2 DEF Round!Favours, new

(* The stop: which node, which entry it favours, and for what. *)
LEMMA Lesson ==
    ASSUME IInv, NEW p \in Packet, pkt[p].kind = "bwd", Linked(pkt[p]),
           update_table(pkt[p].daddr, pkt[p].mem)
    PROVE  LET mem == pkt[p].mem
               x   == pkt[p].daddr
           IN  \E k \in 1 .. Len(mem) - 1 :
                  /\ mem \in Seq(Node) /\ LinkedMemory(mem) /\ LoopFree(mem)
                  /\ x = mem[k] /\ First(mem, x) = k
                  /\ \A i \in k + 1 .. Len(mem) : mem[i] # x
                  /\ \A n \in Node \ {x} : rtable'[n] = rtable[n]
                  /\ \A d \in Dest :
                        IF \E i \in k + 1 .. Len(mem) : mem[i] = d
                        THEN Round!Favours(rtable[x][d], rtable'[x][d], mem[k + 1])
                        ELSE rtable'[x][d] = rtable[x][d]
<1> DEFINE mem == pkt[p].mem
           x == pkt[p].daddr
<1>1. /\ HeaderOK(pkt[p]) /\ x \in Node /\ r \in 0 .. Unit
      /\ rtable \in [Node -> [Dest -> Seq(Entry)]]
  BY DEF IInv, HeadersOK, HeaderOK, Header, TypeOK
<1>2. PICK k \in 1 .. Len(mem) - 1 :
          /\ mem \in Seq(Node) /\ LoopFree(mem) /\ LinkedMemory(mem)
          /\ x = mem[k] /\ First(mem, x) = k
          /\ \A i \in k + 1 .. Len(mem) : mem[i] # x
  BY <1>1, StopAt
<1>3. rtable' = [rtable EXCEPT ![x] =
          [d \in Dest |-> IF \E i \in k + 1 .. Len(mem) : mem[i] = d
                          THEN Reinforced(rtable[x][d], mem[k + 1]) ELSE rtable[x][d]]]
  BY <1>1, <1>2 DEF update_table
<1> HIDE DEF x, mem
<1>4. \A n \in Node \ {x} : rtable'[n] = rtable[n]
  BY <1>1, <1>3
<1>5. \A d \in Dest : IF \E i \in k + 1 .. Len(mem) : mem[i] = d
                      THEN Round!Favours(rtable[x][d], rtable'[x][d], mem[k + 1])
                      ELSE rtable'[x][d] = rtable[x][d]
  <2> SUFFICES ASSUME NEW d \in Dest
               PROVE  IF \E i \in k + 1 .. Len(mem) : mem[i] = d
                      THEN Round!Favours(rtable[x][d], rtable'[x][d], mem[k + 1])
                      ELSE rtable'[x][d] = rtable[x][d]
    OBVIOUS
  <2>1. rtable'[x][d] = IF \E i \in k + 1 .. Len(mem) : mem[i] = d
                        THEN Reinforced(rtable[x][d], mem[k + 1]) ELSE rtable[x][d]
    BY <1>1, <1>3
  <2>2. Round!Favours(rtable[x][d], Reinforced(rtable[x][d], mem[k + 1]), mem[k + 1])
    BY <1>1, Gains
  <2> QED BY <2>1, <2>2
<1> QED BY <1>2, <1>4, <1>5 DEF x, mem

-----------------------------------------------------------------------------
(* Every step of AntNet is one of AntRound's, or none.                      *)

Stays == rtable' = rtable /\ Routes' = Routes

LEMMA StartExtends == ASSUME IInv, NEW n \in Node, Start(n) PROVE Round!Extend(n)
<1>1. nbrs \in [Node -> Seq(Node)] /\ rtable \in [Node -> [Dest -> Seq(Entry)]]
  BY DEF IInv, TypeOK
<1>2. \A m \in Node \ {n} : rtable'[m] = rtable[m]
  BY <1>1 DEF Start
<1>3. ASSUME NEW d \in Dest
      PROVE  /\ Len(rtable'[n][d]) >= Len(rtable[n][d])
             /\ \A k \in 1 .. Len(rtable[n][d]) : rtable'[n][d][k] = rtable[n][d][k]
  <2> DEFINE old == rtable[n][d]
             more == Equal(nbrs[n])
  <2>1. old \in Seq(Entry) /\ more \in Seq(Entry)
    BY <1>1, EqualOK
  <2>2. rtable'[n][d] = IF d = n THEN old ELSE old \o more
    BY <1>1 DEF Start
  <2> HIDE DEF old, more
  <2>3. /\ Len(old \o more) >= Len(old)
        /\ \A k \in 1 .. Len(old) : (old \o more)[k] = old[k]
    BY <2>1
  <2>4. /\ Len(rtable'[n][d]) >= Len(old)
        /\ \A k \in 1 .. Len(old) : rtable'[n][d][k] = old[k]
    BY <2>1, <2>2, <2>3
  <2> QED BY <2>4 DEF old
<1>4. Routes' = Routes
  BY DEF Start, Routes, Route
<1> QED BY <1>2, <1>3, <1>4 DEF Round!Extend, Routes

LEMMA ExpireStays == ASSUME IInv, NEW n \in Node, Expire(n) PROVE Stays
<1>1. pkt \in [Packet -> Header] /\ rtable' = rtable
  BY DEF IInv, TypeOK, Expire
<1>2. CASE UNCHANGED pkt
  BY <1>1, <1>2 DEF Stays, Routes, Route
<1>3. CASE \E p \in Packet, h \in Launches(n) : ~InFlight(p) /\ Send(p, h)
  <2>1. PICK p \in Packet, h \in Launches(n) : pkt[p].kind = "free" /\ Send(p, h)
    BY <1>3 DEF InFlight
  <2>2. PICK left \in {h, Freed} : pkt' = [pkt EXCEPT ![p] = left]
    BY <2>1 DEF Send
  <2>3. h.kind = "fwd"
    BY DEF Launches, Launch
  <2>4. RouteOf(left) = RouteOf(pkt[p])
    BY <2>1, <2>3, RouteFreed DEF RouteOf
  <2> QED BY <1>1, <2>2, <2>4, OneRoute DEF Stays
<1> QED BY <1>2, <1>3 DEF Expire

LEMMA FreeLost ==
    ASSUME pkt \in [Packet -> Header], NEW p \in Packet, Free(p), UNCHANGED rtable
    PROVE  Round!Lost(p)
<1>1. pkt' = [pkt EXCEPT ![p] = Freed]
  BY DEF Free
<1>2. Routes'[p] = Round!NoRoute /\ \A q \in Packet \ {p} : Routes'[q] = Routes[q]
  BY <1>1, OneRoute, RouteFreed
<1> QED BY <1>2 DEF Round!Lost, Round!OthersKeep, Routes

(* A walk goes on, or ends. *)
LEMMA WalkStays ==
    ASSUME IInv, NEW p \in Packet, NEW hops \in Int, ForwardAnt(p, hops) \/ DeadEnd(p)
    PROVE  Stays
<1>1. pkt \in [Packet -> Header] /\ pkt[p].kind = "fwd" /\ rtable' = rtable
  BY DEF IInv, TypeOK, ForwardAnt, DeadEnd
<1>2. PICK h : (h = Freed \/ h.kind = "fwd") /\ pkt' = [pkt EXCEPT ![p] = h]
  <2>1. CASE DeadEnd(p)
    BY <2>1 DEF DeadEnd, Free
  <2>2. CASE ForwardAnt(p, hops)
    <3>1. PICK h \in Forwarded(p, hops) : Send(p, h)
      BY <2>2 DEF ForwardAnt
    <3>2. pkt[p] \in Header
      BY <1>1
    <3>3. Arriving(p, hops) \in Header /\ Arriving(p, hops).kind = "fwd"
      BY <1>1, <3>2, ArrivingOK DEF Arriving
    <3>4. PICK next : h = Onward(Arriving(p, hops), pkt[p].daddr, next)
      BY <3>1 DEF Forwarded
    <3>5. h.kind = "fwd"
      <4> DEFINE a == Arriving(p, hops)
      <4>1. h = Onward(a, pkt[p].daddr, next) /\ a \in Header /\ a.kind = "fwd"
        BY <3>3, <3>4
      <4> HIDE DEF a
      <4> QED BY <4>1 DEF Onward, Header
    <3> QED BY <3>1, <3>5 DEF Send
  <2> QED BY <2>1, <2>2
<1>3. RouteOf(h) = RouteOf(pkt[p])
  BY <1>1, <1>2, RouteFreed DEF RouteOf
<1> QED BY <1>1, <1>2, <1>3, OneRoute DEF Stays

(* A walk that arrives is a path found, unless it is lost at once. *)
LEMMA TurnBackFinds ==
    ASSUME IInv, PInv, NEW p \in Packet, NEW hops \in Int, TurnBack(p, hops)
    PROVE  Round!Find(p) \/ Stays
<1> DEFINE g == TurnedBack(p, hops)
<1>1. /\ pkt \in [Packet -> Header] /\ pkt[p].kind = "fwd" /\ rtable' = rtable
      /\ HeaderOK(pkt[p]) /\ Linked(pkt[p]) /\ pkt[p].dst = pkt[p].daddr
  BY DEF IInv, TypeOK, TurnBack, HeadersOK, PInv, PathFollowsLinks, InFlight, Linked, LinkedMemory
<1>2. PICK left \in {g, Freed} : pkt' = [pkt EXCEPT ![p] = left]
  BY DEF TurnBack, Send
<1>3. RouteOf(pkt[p]) = Round!NoRoute
  BY <1>1 DEF RouteOf
<1>4. CASE left = Freed
  <2>1. RouteOf(left) = RouteOf(pkt[p])
    BY <1>3, <1>4, RouteFreed
  <2> QED BY <1>1, <1>2, <2>1, OneRoute DEF Stays
<1>5. CASE left = g
  <2>1. HeaderOK(g) /\ Linked(g)
    <3>1. HeaderOK(g)
      BY <1>1, TurnBackOK DEF TurnedBack, Arriving
    <3> QED BY <1>1, <3>1, TurnedBackLinked
  <2>2. g.kind = "bwd" /\ g.daddr = g.mem[Len(g.mem) - 1]
    BY <1>1 DEF TurnedBack, Arriving, Header, HeaderOK, lastSecond
  <2> HIDE DEF g
  <2>3. /\ g.mem \in Seq(Node) /\ LoopFree(g.mem) /\ LinkedMemory(g.mem)
        /\ Len(g.mem) \in Nat /\ Len(g.mem) > 1
    <3>1. OnPath(g) /\ g.mem \in Seq(Node) /\ LoopFree(g.mem) /\ LinkedMemory(g.mem)
      BY <2>1, <2>2 DEF HeaderOK, Header, Linked
    <3>2. Len(g.mem) > 1
      BY <3>1 DEF OnPath
    <3> QED BY <3>1, <3>2
  <2>4. First(g.mem, g.daddr) = Len(g.mem) - 1
    <3>1. Len(g.mem) - 1 \in 1 .. Len(g.mem)
      BY <2>3
    <3> QED BY <2>2, <2>3, <3>1, FirstFinds
  <2>5. Round!IsPath(g.mem)
    BY <2>3 DEF Round!IsPath, LoopFree, LinkedMemory
  <2>6. /\ Routes[p] = Round!NoRoute
        /\ Routes'[p] = [path |-> g.mem, pos |-> Len(g.mem) - 1]
        /\ \A q \in Packet \ {p} : Routes'[q] = Routes[q]
    BY <1>1, <1>2, <1>3, <1>5, <2>2, <2>4, OneRoute, RouteIs DEF RouteOf
  <2>7. Routes'[p].path = g.mem /\ Routes'[p].pos = Len(g.mem) - 1
    BY <2>6
  <2>8. Round!Find(p)
    BY <1>1, <2>5, <2>6, <2>7 DEF Round!Find, Round!OthersKeep, Routes
  <2> QED BY <2>8
<1> QED BY <1>2, <1>4, <1>5

(* A stop on the way back is a node's turn to learn. *)
LEMMA StopLearns ==
    ASSUME IInv, PInv, NEW p \in Packet, NEW hops \in Int, Home(p) \/ BackwardAnt(p, hops)
    PROVE  Round!Learn(p)
<1> DEFINE mem == pkt[p].mem
           x == pkt[p].daddr
           g == SentBack(p, hops)
<1>1. /\ pkt \in [Packet -> Header] /\ pkt[p].kind = "bwd" /\ HeaderOK(pkt[p])
      /\ Linked(pkt[p]) /\ update_table(x, mem) /\ x \in Node
  <2>1. pkt[p].kind = "bwd" /\ update_table(x, mem)
    BY DEF Home, BackwardAnt
  <2>2. pkt \in [Packet -> Header] /\ HeaderOK(pkt[p]) /\ pkt[p] \in Header
    BY DEF IInv, TypeOK, HeadersOK, HeaderOK
  <2>3. Linked(pkt[p])
    BY <2>1 DEF PInv, PathFollowsLinks, InFlight, Linked, LinkedMemory
  <2> QED BY <2>1, <2>2, <2>3 DEF Header
<1>2. PICK k \in 1 .. Len(mem) - 1 :
          /\ mem \in Seq(Node) /\ LoopFree(mem)
          /\ x = mem[k] /\ First(mem, x) = k
          /\ \A n \in Node \ {x} : rtable'[n] = rtable[n]
          /\ \A d \in Dest :
                IF \E i \in k + 1 .. Len(mem) : mem[i] = d
                THEN Round!Favours(rtable[x][d], rtable'[x][d], mem[k + 1])
                ELSE rtable'[x][d] = rtable[x][d]
  BY <1>1, Lesson
<1>3. Routes[p] = [path |-> mem, pos |-> k]
  BY <1>1, <1>2, RouteIs DEF RouteOf
<1>4. Routes[p] # Round!NoRoute
  <2>1. Routes[p].pos = k /\ k # 0
    BY <1>3
  <2> QED BY <2>1 DEF Round!NoRoute
<1>5. /\ Routes'[p] = Round!NoRoute
         \/ (k # 1 /\ Routes'[p] = [path |-> mem, pos |-> k - 1])
      /\ \A q \in Packet \ {p} : Routes'[q] = Routes[q]
  <2>1. CASE pkt' = [pkt EXCEPT ![p] = Freed]
    BY <1>1, <2>1, OneRoute, RouteFreed
  <2>2. CASE pkt' = [pkt EXCEPT ![p] = g] /\ pkt[p].dst # x
    <3>1. k # 1
      BY <1>1, <1>2, <2>2 DEF HeaderOK
    <3>2. previous(mem, x) = k - 1
      BY <1>2 DEF previous
    <3>3. g.kind = "bwd" /\ g.mem = mem /\ g.daddr = mem[k - 1]
      BY <1>1, <3>2 DEF SentBack, Arriving, Header, HeaderOK
    <3>4. First(mem, mem[k - 1]) = k - 1
      <4>1. k - 1 \in 1 .. Len(mem)
        BY <1>2, <3>1
      <4> HIDE DEF mem
      <4> QED BY <1>2, <4>1, FirstFinds
    <3> HIDE DEF g, mem
    <3>5. RouteOf(g) = [path |-> mem, pos |-> k - 1]
      BY <3>3, <3>4 DEF RouteOf
    <3> QED BY <1>1, <2>2, <3>1, <3>5, OneRoute
  <2> QED BY <2>1, <2>2 DEF Home, BackwardAnt, Free, Send
<1> HIDE DEF mem, x
<1>6. /\ Routes[p].path = mem /\ Routes[p].pos = k
      /\ mem[k] = x
  BY <1>2, <1>3
<1> QED BY <1>2, <1>4, <1>5, <1>6 DEF Round!Learn, Round!OthersKeep, Routes

LEMMA StepsAreRounds ==
    IInv /\ PInv /\ [Next]_vars => [Round!Next]_<<rtable, Routes>>
<1> SUFFICES ASSUME IInv, PInv, [Next]_vars PROVE Round!Next \/ Stays
  BY DEF Stays
<1>1. pkt \in [Packet -> Header]
  BY DEF IInv, TypeOK
<1>2. ASSUME UNCHANGED <<rtable, pkt>> PROVE Stays
  BY <1>2 DEF Stays, Routes, Route
<1>3. CASE AddNeighbor
  BY <1>2, <1>3 DEF AddNeighbor
<1>4. ASSUME NEW n \in Node, Start(n) PROVE Round!Next
  BY <1>4, StartExtends DEF Round!Next
<1>5. ASSUME NEW n \in Node, Stop(n) PROVE Stays
  BY <1>2, <1>5 DEF Stop
<1>6. ASSUME NEW n \in Node, Expire(n) PROVE Stays
  BY <1>6, ExpireStays
<1>7. ASSUME NEW p \in Packet, ExpireTtl(p) \/ Lose(p) PROVE Round!Next
  <2>1. Round!Lost(p)
    BY <1>1, <1>7, FreeLost DEF ExpireTtl, Lose
  <2> QED BY <2>1 DEF Round!Next
<1>8. ASSUME NEW p \in Packet, recv(p) PROVE Round!Next \/ Stays
  <2>1. PICK hops \in Int : \/ TurnBack(p, hops)
                           \/ ForwardAnt(p, hops)
                           \/ DeadEnd(p)
                           \/ Home(p)
                           \/ BackwardAnt(p, hops)
    BY <1>8, HopsInt DEF recv
  <2>2. CASE TurnBack(p, hops)
    BY <2>2, TurnBackFinds DEF Round!Next
  <2>3. CASE ForwardAnt(p, hops) \/ DeadEnd(p)
    BY <2>3, WalkStays
  <2>4. CASE Home(p) \/ BackwardAnt(p, hops)
    BY <2>4, StopLearns DEF Round!Next
  <2> QED BY <2>1, <2>2, <2>3, <2>4
<1>9. CASE UNCHANGED vars
  BY <1>2, <1>9 DEF vars
<1> QED BY <1>3, <1>4, <1>5, <1>6, <1>7, <1>8, <1>9 DEF Next

(* The agents keep the promise of AntRound, on any wired topology and with any
   number of ants: a walk with all its hops and loops finds one simple path,
   and the nodes of the path learn one by one, each what the path says.     *)
THEOREM AntsImplementRound ==
    ASSUME Wired
    PROVE  Spec /\ []Exact => ImplementsRound
<1>1. Init => Round!Init
  <2> SUFFICES ASSUME Init PROVE Round!Init
    OBVIOUS
  <2>1. \A p \in Packet : Route(p) = Round!NoRoute
    BY DEF Init, Route, Freed, Round!NoRoute
  <2> QED BY <2>1 DEF Init, Round!Init
<1>2. IInv /\ PInv /\ [Next]_vars => [Round!Next]_<<rtable, [p \in Packet |-> Route(p)]>>
  BY StepsAreRounds DEF Routes
<1> QED BY <1>1, <1>2, WiredInvariance, PTL DEF Spec, ImplementsRound, Round!Spec

-----------------------------------------------------------------------------
(* Where pheromone rises.                                                   *)

(* The rest of a path that holds x no more leads around x. *)
LEMMA RestReaches ==
    ASSUME NEW mem \in Seq(Node), LinkedMemory(mem), NEW x, NEW i \in 1 .. Len(mem),
           \A m \in i .. Len(mem) : mem[m] # x, NEW j \in i .. Len(mem)
    PROVE  ReachesAround(mem[i], mem[j], x)
<1> SUFFICES ASSUME NEW S \in SUBSET (Node \ {x}), mem[i] \in S,
                    \A u \in S, v \in Node \ {x} : {u, v} \in Link => v \in S
             PROVE  mem[j] \in S
  BY DEF ReachesAround
<1> DEFINE n == j - i
           T == {k \in 0 .. n : mem[i + k] \in S}
<1>1. n \in Nat /\ 0 \in T
  OBVIOUS
<1>2. \A k \in 1 .. n : k - 1 \in T => k \in T
  <2> SUFFICES ASSUME NEW k \in 1 .. n, k - 1 \in T PROVE mem[i + k] \in S
    OBVIOUS
  <2> DEFINE a == i + (k - 1)
  <2>1. a \in 1 .. Len(mem) - 1 /\ a + 1 = i + k /\ mem[a] \in S
    OBVIOUS
  <2>2. i + k \in i .. Len(mem) /\ i + k \in 1 .. Len(mem)
    OBVIOUS
  <2>3. {mem[a], mem[a + 1]} \in Link
    <3> HIDE DEF a
    <3> QED BY <2>1 DEF LinkedMemory
  <2>4. mem[i + k] \in Node \ {x}
    BY <2>2
  <2> QED BY <2>1, <2>3, <2>4
<1>3. n \in T
  <2>1. \A k \in 0 .. n : k \in T
    <3> HIDE DEF T, n
    <3> QED BY <1>1, <1>2, Climb
  <2> QED BY <1>1, <2>1
<1> QED BY <1>3

Rises(x, d, k) == rtable'[x][d][k].phvalue > rtable[x][d][k].phvalue

LEMMA StopTeachesReal ==
    ASSUME IInv, NEW p \in Packet, pkt[p].kind = "bwd", Linked(pkt[p]),
           update_table(pkt[p].daddr, pkt[p].mem),
           NEW x \in Node, NEW d \in Dest, NEW e \in 1 .. Len(rtable[x][d]), Rises(x, d, e)
    PROVE  ReachesAround(rtable[x][d][e].neighbor, d, x)
<1> DEFINE mem == pkt[p].mem
           row == rtable[x][d]
<1>1. row \in Seq(Entry) /\ row[e].phvalue \in Int
  BY EntryAt, FactorAssumption DEF IInv, TypeOK
<1>2. PICK k \in 1 .. Len(mem) - 1 :
          /\ mem \in Seq(Node) /\ LinkedMemory(mem)
          /\ \A i \in k + 1 .. Len(mem) : mem[i] # pkt[p].daddr
          /\ \A n \in Node \ {pkt[p].daddr} : rtable'[n] = rtable[n]
          /\ LET at == pkt[p].daddr
             IN  \A c \in Dest :
                    IF \E i \in k + 1 .. Len(mem) : mem[i] = c
                    THEN Round!Favours(rtable[at][c], rtable'[at][c], mem[k + 1])
                    ELSE rtable'[at][c] = rtable[at][c]
  BY Lesson
<1>3. row # rtable'[x][d]
  BY <1>1 DEF Rises
<1>4. x = pkt[p].daddr
  BY <1>2, <1>3
<1>5. PICK j \in k + 1 .. Len(mem) : mem[j] = d
  BY <1>2, <1>3, <1>4
<1>6. Round!Favours(row, rtable'[x][d], mem[k + 1])
  BY <1>2, <1>4, <1>5
<1>7. row[e].neighbor = mem[k + 1]
  <2> SUFFICES ASSUME row[e].neighbor # mem[k + 1] PROVE FALSE
    OBVIOUS
  <2>1. rtable'[x][d][e].phvalue <= row[e].phvalue
    BY <1>6 DEF Round!Favours
  <2>2. rtable'[x][d][e].phvalue > row[e].phvalue
    BY DEF Rises
  <2>3. rtable'[x][d] \in Seq(Entry)
    <3>1. TypeOK /\ pkt[p].daddr \in Node
      BY <1>4 DEF IInv
    <3> QED BY <3>1, UpdateOK
  <2>4. rtable'[x][d][e].phvalue \in Int
    <3>1. Len(rtable'[x][d]) = Len(row)
      BY <1>6 DEF Round!Favours
    <3> QED BY <2>3, <3>1, EntryAt, FactorAssumption
  <2> QED BY <1>1, <2>1, <2>2, <2>4
<1>8. ReachesAround(mem[k + 1], mem[j], x)
  <2>1. k + 1 \in 1 .. Len(mem) /\ \A i \in k + 1 .. Len(mem) : mem[i] # x
    BY <1>2, <1>4
  <2> HIDE DEF mem
  <2> QED BY <1>2, <1>5, <2>1, RestReaches
<1> QED BY <1>5, <1>7, <1>8

LEMMA StepsTeachReal ==
    ASSUME IInv, PInv, [Next]_vars,
           NEW x \in Node, NEW d \in Dest, NEW e \in 1 .. Len(rtable[x][d]), Rises(x, d, e)
    PROVE  ReachesAround(rtable[x][d][e].neighbor, d, x)
<1>1. rtable[x][d] \in Seq(Entry) /\ rtable[x][d][e].phvalue \in Int
  BY EntryAt, FactorAssumption DEF IInv, TypeOK
<1>2. rtable'[x][d][e] # rtable[x][d][e]
  BY <1>1 DEF Rises
<1>3. ASSUME NEW n \in Node, Start(n) PROVE FALSE
  <2>1. Round!Extend(n)
    BY <1>3, StartExtends
  <2>2. x # n => rtable'[x] = rtable[x]
    BY <2>1 DEF Round!Extend
  <2>3. \A k \in 1 .. Len(rtable[n][d]) : rtable'[n][d][k] = rtable[n][d][k]
    BY <2>1 DEF Round!Extend
  <2>4. CASE x = n
    <3>1. rtable'[x][d][e] = rtable[x][d][e]
      BY <2>3, <2>4
    <3> QED BY <1>2, <3>1
  <2>5. CASE x # n
    <3>1. rtable'[x][d][e] = rtable[x][d][e]
      BY <2>2, <2>5
    <3> QED BY <1>2, <3>1
  <2> QED BY <2>4, <2>5
<1>4. PICK p \in Packet : recv(p)
  BY <1>2, <1>3 DEF Next, vars, AddNeighbor, Stop, Expire, ExpireTtl, Lose
<1>5. pkt[p].kind = "bwd" /\ update_table(pkt[p].daddr, pkt[p].mem)
  BY <1>2, <1>4 DEF recv, TurnBack, ForwardAnt, DeadEnd, Home, BackwardAnt
<1>6. Linked(pkt[p])
  BY <1>5 DEF PInv, PathFollowsLinks, InFlight, Linked, LinkedMemory
<1> QED BY <1>5, <1>6, StopTeachesReal

(* Whatever ants arrive in whatever order, no node of a wired network ever
   learns to send ants for a destination in a direction that leads there only
   through the node itself.                                                 *)
THEOREM AntsTeachRealRoutes ==
    ASSUME Wired
    PROVE  Spec /\ []Exact => LearnsRealRoutes
<1> DEFINE Real == \A x \in Node, d \in Dest : \A k \in 1 .. Len(rtable[x][d]) :
                      rtable'[x][d][k].phvalue > rtable[x][d][k].phvalue
                      => ReachesAround(rtable[x][d][k].neighbor, d, x)
<1>1. IInv /\ PInv /\ [Next]_vars => Real
  BY StepsTeachReal DEF Rises
<1>2. IInv /\ PInv /\ [Next]_vars => [Real]_vars
  BY <1>1
<1> HIDE DEF Real
<1>3. Spec /\ []Exact => [][Real]_vars
  BY <1>2, WiredInvariance, PTL DEF Spec
<1> QED BY <1>3 DEF LearnsRealRoutes, Real

=============================================================================
