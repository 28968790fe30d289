---------------------------- MODULE QueueProofs -----------------------------
(***************************************************************************)
(* Theorems about DropTail and PriQueue, for all classes, limits, sizes and*)
(* numbers of packets, under any reconfiguration.                          *)
(*                                                                         *)
(* Every operation makes of the waiting packets a sequence that is still in*)
(* order and moves the others to where they are counted.  So the argument  *)
(* is about three facts on sets of packets: no two have the same number, no*)
(* two places share one, and all numbers are there.                        *)
(***************************************************************************)
EXTENDS PriQueue, SequenceLemmas

-----------------------------------------------------------------------------
(* DropTail.                                                                *)

Sorted(s) == \A i, j \in 1 .. Len(s) : i < j => s[i].id < s[j].id

(* Whatever was given to the link came before whatever waits. *)
Before(S, T) == \A a \in S, b \in T : a.id < b.id

DistinctIds(S) == \A a, b \in S : a.id = b.id => a = b

(* Accounted, of the packets in place of their numbers, after n arrivals. *)
Apart(n, A, B, C, D) ==
    /\ DistinctIds(A \union B \union C \union D)
    /\ Ids(A \union B \union C \union D) = 1 .. n
    /\ A \cap B = {} /\ A \cap C = {} /\ A \cap D = {}
    /\ B \cap C = {} /\ B \cap D = {} /\ C \cap D = {}

DInv ==
    /\ TypeOK
    /\ WorkConserving
    /\ Sorted(q) /\ Sorted(out) /\ Before(Elements(out), Elements(q))
    /\ Apart(arrived, Elements(q), Elements(out), dropped, lost)

-----------------------------------------------------------------------------
(* Sorted sequences of packets.                                             *)

LEMMA PacketId == \A p \in Pkt : p.id \in Nat
BY SizesAssumption DEF Pkt

LEMMA AppendSorted ==
    ASSUME NEW s \in Seq(Pkt), Sorted(s), NEW p \in Pkt,
           \A a \in Elements(s) : a.id < p.id
    PROVE  /\ Append(s, p) \in Seq(Pkt) /\ Append(s, p) # <<>>
           /\ Sorted(Append(s, p))
           /\ Elements(Append(s, p)) = Elements(s) \union {p}
<1> DEFINE t == Append(s, p)
           n == Len(s)
<1>1. /\ t \in Seq(Pkt) /\ t # <<>> /\ n \in Nat /\ Len(t) = n + 1
      /\ \A i \in 1 .. n : t[i] = s[i]
      /\ t[n + 1] = p
  BY AppendProperties
<1> HIDE DEF t
<1>2. \A i \in 1 .. n : s[i] \in Elements(s)
  BY DEF Elements
<1>3. Sorted(t)
  <2> SUFFICES ASSUME NEW i \in 1 .. Len(t), NEW j \in 1 .. Len(t), i < j
               PROVE  t[i].id < t[j].id
    BY DEF Sorted
  <2>1. i \in 1 .. n
    BY <1>1
  <2>2. CASE j = n + 1
    BY <1>1, <1>2, <2>1, <2>2
  <2>3. CASE j # n + 1
    BY <1>1, <2>1, <2>3 DEF Sorted
  <2> QED BY <2>2, <2>3
<1>4. Elements(t) = Elements(s) \union {p}
  <2>1. \A i \in 1 .. Len(t) : t[i] \in Elements(s) \union {p}
    BY <1>1, <1>2
  <2>2. \A i \in 1 .. n : s[i] \in Elements(t)
    BY <1>1 DEF Elements
  <2>3. p \in Elements(t)
    BY <1>1 DEF Elements
  <2> QED BY <2>1, <2>2, <2>3 DEF Elements
<1> QED BY <1>1, <1>3, <1>4 DEF t

LEMMA HeadSorted ==
    ASSUME NEW s \in Seq(Pkt), Sorted(s), s # <<>>
    PROVE  /\ Head(s) \in Pkt /\ Tail(s) \in Seq(Pkt) /\ Len(Tail(s)) = Len(s) - 1
           /\ Sorted(Tail(s))
           /\ Elements(s) = {Head(s)} \union Elements(Tail(s))
           /\ \A a \in Elements(Tail(s)) : Head(s).id < a.id
<1> DEFINE t == Tail(s)
           n == Len(s)
<1>1. /\ n \in Nat /\ n > 0 /\ Head(s) = s[1] /\ s[1] \in Pkt
      /\ t \in Seq(Pkt) /\ Len(t) = n - 1
      /\ \A i \in 1 .. Len(t) : t[i] = s[i + 1]
  BY HeadTailProperties, EmptySeq
<1> HIDE DEF t
<1>2. Sorted(t)
  <2> SUFFICES ASSUME NEW i \in 1 .. Len(t), NEW j \in 1 .. Len(t), i < j
               PROVE  t[i].id < t[j].id
    BY DEF Sorted
  <2>1. i + 1 \in 1 .. n /\ j + 1 \in 1 .. n /\ i + 1 < j + 1
    BY <1>1
  <2> QED BY <1>1, <2>1 DEF Sorted
<1>3. \A i \in 1 .. Len(t) : i + 1 \in 1 .. n /\ 1 < i + 1
  BY <1>1
<1>4. \A a \in Elements(t) : s[1].id < a.id
  <2> SUFFICES ASSUME NEW i \in 1 .. Len(t) PROVE s[1].id < t[i].id
    BY DEF Elements
  <2> QED BY <1>1, <1>3 DEF Sorted
<1>5. Elements(s) = {s[1]} \union Elements(t)
  <2>1. \A i \in 1 .. n : s[i] \in {s[1]} \union Elements(t)
    <3> SUFFICES ASSUME NEW i \in 1 .. n, i # 1 PROVE s[i] \in Elements(t)
      OBVIOUS
    <3>1. i - 1 \in 1 .. Len(t) /\ t[i - 1] = s[i]
      BY <1>1
    <3> QED BY <3>1 DEF Elements
  <2>2. \A i \in 1 .. Len(t) : t[i] \in Elements(s)
    BY <1>1, <1>3 DEF Elements
  <2>3. s[1] \in Elements(s)
    BY <1>1 DEF Elements
  <2> QED BY <2>1, <2>2, <2>3 DEF Elements
<1> QED BY <1>1, <1>2, <1>4, <1>5 DEF t

LEMMA PartSorted ==
    ASSUME NEW s \in Seq(Pkt), Sorted(s), NEW k \in 0 .. Len(s)
    PROVE  /\ Kept(s, k) \in Seq(Pkt) /\ Len(Kept(s, k)) = k
           /\ Sorted(Kept(s, k))
           /\ Elements(Kept(s, k)) \subseteq Elements(s)
<1> DEFINE t == Kept(s, k)
           n == Len(s)
<1>1. n \in Nat /\ \A i \in 1 .. n : s[i] \in Pkt
  OBVIOUS
<1>2. PICK o \in 0 .. n : /\ t \in Seq(Pkt) /\ Len(t) = k /\ o + k <= n
                          /\ \A i \in 1 .. k : t[i] = s[o + i]
  <2>1. CASE front
    <3>1. t = SubSeq(s, n - k + 1, n)
      BY <2>1 DEF Kept
    <3>2. \A i \in n - k + 1 .. n : s[i] \in Pkt
      BY <1>1
    <3>3. /\ t \in Seq(Pkt) /\ Len(t) = k
          /\ \A i \in 1 .. n - (n - k + 1) + 1 : t[i] = s[n - k + 1 + i - 1]
      BY <1>1, <3>1, <3>2, SubSeqProperties
    <3> DEFINE o == n - k
    <3>4. \A i \in 1 .. k : t[i] = s[o + i]
      BY <1>1, <3>3
    <3>5. o \in 0 .. n /\ o + k <= n
      BY <1>1
    <3> HIDE DEF o, t, n
    <3> QED BY <3>3, <3>4, <3>5
  <2>2. CASE ~front
    <3>1. t = SubSeq(s, 1, k)
      BY <2>2 DEF Kept
    <3>2. \A i \in 1 .. k : s[i] \in Pkt
      BY <1>1
    <3>3. /\ t \in Seq(Pkt) /\ Len(t) = k
          /\ \A i \in 1 .. k - 1 + 1 : t[i] = s[1 + i - 1]
      BY <1>1, <3>1, <3>2, SubSeqProperties
    <3>4. \A i \in 1 .. k : t[i] = s[0 + i]
      BY <1>1, <3>3
    <3> HIDE DEF t
    <3> QED BY <1>1, <3>3, <3>4
  <2> QED BY <2>1, <2>2
<1> HIDE DEF t
<1>3. \A i \in 1 .. k : o + i \in 1 .. n
  BY <1>1, <1>2
<1>4. Sorted(t)
  <2> SUFFICES ASSUME NEW i \in 1 .. k, NEW j \in 1 .. k, i < j PROVE t[i].id < t[j].id
    BY <1>2 DEF Sorted
  <2>1. o + i < o + j
    BY <1>2
  <2> QED BY <1>2, <1>3, <2>1 DEF Sorted
<1>5. Elements(t) \subseteq Elements(s)
  BY <1>2, <1>3 DEF Elements
<1> QED BY <1>2, <1>4, <1>5 DEF t

-----------------------------------------------------------------------------
(* The parts of the operations.                                             *)

(* A packet that arrives is put behind the others or dropped, or one of the
   others is dropped for it.                                                *)
LEMMA EnqueOK ==
    ASSUME NEW s \in Seq(Pkt), Sorted(s), NEW p \in Pkt,
           \A a \in Elements(s) : a.id < p.id
    PROVE  LET e == enque(s, p)
           IN  /\ e.q \in Seq(Pkt) /\ Sorted(e.q)
               /\ Elements(e.q) \union e.drop = Elements(s) \union {p}
               /\ Elements(e.q) \cap e.drop = {}
               /\ Len(e.q) <= Len(s) \/ (~Full(s, p) /\ Len(e.q) = Len(s) + 1)
<1> DEFINE t == Append(s, p)
           kept == enque(s, p).q
           drop == enque(s, p).drop
<1>1. /\ t \in Seq(Pkt) /\ t # <<>> /\ Sorted(t) /\ Elements(t) = Elements(s) \union {p}
      /\ Len(t) = Len(s) + 1 /\ Len(s) \in Nat
  BY AppendSorted, AppendProperties
<1>2. \A a \in Elements(s) : a \in Pkt /\ a.id \in Nat
  BY PacketId DEF Elements
<1>3. ~Full(s, p) => kept = t /\ drop = {}
  BY DEF enque
<1>4. Full(s, p) /\ front => kept = Tail(t) /\ drop = {Head(t)}
  BY DEF enque
<1>5. Full(s, p) /\ ~front => kept = s /\ drop = {p}
  BY DEF enque
<1> HIDE DEF t, kept, drop
<1>6. /\ kept \in Seq(Pkt) /\ Sorted(kept)
      /\ Elements(kept) \union drop = Elements(s) \union {p}
      /\ Elements(kept) \cap drop = {}
      /\ Len(kept) <= Len(s) \/ (~Full(s, p) /\ Len(kept) = Len(s) + 1)
  <2>1. CASE ~Full(s, p)
    BY <1>1, <1>3, <2>1
  <2>2. CASE Full(s, p) /\ front
    <3>1. kept = Tail(t) /\ drop = {Head(t)}
      BY <1>4, <2>2
    <3>2. /\ Head(t) \in Pkt /\ kept \in Seq(Pkt) /\ Len(kept) = Len(t) - 1
          /\ Sorted(kept)
          /\ Elements(t) = {Head(t)} \union Elements(kept)
          /\ \A a \in Elements(kept) : Head(t).id < a.id
      BY <1>1, <3>1, HeadSorted
    <3>3. Head(t) \notin Elements(kept)
      BY <3>2, PacketId
    <3> QED BY <1>1, <3>1, <3>2, <3>3
  <2>3. CASE Full(s, p) /\ ~front
    <3>1. kept = s /\ drop = {p}
      BY <1>5, <2>3
    <3>2. p \notin Elements(s)
      BY <1>2
    <3> QED BY <1>1, <3>1, <3>2
  <2> QED BY <2>1, <2>2, <2>3
<1> QED BY <1>6 DEF kept, drop

(* The link gets the head of the queue. *)
LEMMA HandOverOK ==
    ASSUME NEW s \in Seq(Pkt), Sorted(s), s # <<>>,
           NEW o \in Seq(Pkt), Sorted(o), Before(Elements(o), Elements(s))
    PROVE  /\ Tail(s) \in Seq(Pkt) /\ Append(o, Head(s)) \in Seq(Pkt)
           /\ Head(s) \in Pkt /\ Len(Tail(s)) = Len(s) - 1
           /\ Sorted(Tail(s)) /\ Sorted(Append(o, Head(s)))
           /\ Before(Elements(Append(o, Head(s))), Elements(Tail(s)))
           /\ Elements(Append(o, Head(s))) \union Elements(Tail(s))
                = Elements(o) \union Elements(s)
           /\ Elements(Append(o, Head(s))) \cap Elements(Tail(s)) = {}
<1>1. /\ Head(s) \in Pkt /\ Tail(s) \in Seq(Pkt) /\ Len(Tail(s)) = Len(s) - 1
      /\ Sorted(Tail(s))
      /\ Elements(s) = {Head(s)} \union Elements(Tail(s))
      /\ \A a \in Elements(Tail(s)) : Head(s).id < a.id
  BY HeadSorted
<1>2. \A a \in Elements(o) : a.id < Head(s).id
  BY <1>1 DEF Before
<1>3. /\ Append(o, Head(s)) \in Seq(Pkt) /\ Sorted(Append(o, Head(s)))
      /\ Elements(Append(o, Head(s))) = Elements(o) \union {Head(s)}
  <2> DEFINE p == Head(s)
  <2>1. p \in Pkt /\ \A a \in Elements(o) : a.id < p.id
    BY <1>1, <1>2
  <2> HIDE DEF p
  <2>2. /\ Append(o, p) \in Seq(Pkt) /\ Sorted(Append(o, p))
        /\ Elements(Append(o, p)) = Elements(o) \union {p}
    BY <2>1, AppendSorted
  <2> QED BY <2>2 DEF p
<1>4. Before(Elements(Append(o, Head(s))), Elements(Tail(s)))
  BY <1>1, <1>3 DEF Before
<1>5. \A a \in Elements(Tail(s)) : a \in Pkt /\ a.id \in Nat
  BY <1>1, PacketId DEF Elements
<1>6. Elements(Append(o, Head(s))) \cap Elements(Tail(s)) = {}
  BY <1>4, <1>5 DEF Before
<1> QED BY <1>1, <1>3, <1>4, <1>6

(* What SendUnlessBlocked leaves, if s is what waits. *)
LEMMA SendOK ==
    ASSUME DInv, NEW s \in Seq(Pkt), Sorted(s), Before(Elements(out), Elements(s)),
           SendUnlessBlocked(s)
    PROVE  /\ q' \in Seq(Pkt) /\ out' \in Seq(Pkt)
           /\ blocked' \in BOOLEAN /\ wire' \in Seq(Pkt) /\ Len(wire') <= 1
           /\ WorkConserving'
           /\ Sorted(q') /\ Sorted(out') /\ Before(Elements(out'), Elements(q'))
           /\ Elements(out') \union Elements(q') = Elements(out) \union Elements(s)
           /\ Elements(out') \cap Elements(q') = {}
           /\ Len(q') <= Len(s)
<1>1. TypeOK /\ Sorted(out) /\ WorkConserving
  BY DEF DInv
<1>2. CASE blocked \/ s = <<>>
  <2>1. q' = s /\ UNCHANGED <<blocked, wire, out>>
    BY <1>2 DEF SendUnlessBlocked
  <2>2. Elements(out) \cap Elements(s) = {}
    <3>1. \A a \in Elements(s) : a.id \in Nat
      BY PacketId DEF Elements
    <3> QED BY <3>1 DEF Before
  <2>3. WorkConserving'
    BY <1>1, <1>2, <2>1 DEF WorkConserving
  <2>4. Len(s) \in Nat
    OBVIOUS
  <2> QED BY <1>1, <2>1, <2>2, <2>3, <2>4 DEF TypeOK
<1>3. CASE ~(blocked \/ s = <<>>)
  <2>1. /\ q' = Tail(s) /\ blocked' = TRUE /\ wire' = <<Head(s)>>
        /\ out' = Append(out, Head(s))
    BY <1>3 DEF SendUnlessBlocked
  <2>2. /\ Tail(s) \in Seq(Pkt) /\ Append(out, Head(s)) \in Seq(Pkt)
        /\ Head(s) \in Pkt /\ Len(Tail(s)) = Len(s) - 1
        /\ Sorted(Tail(s)) /\ Sorted(Append(out, Head(s)))
        /\ Before(Elements(Append(out, Head(s))), Elements(Tail(s)))
        /\ Elements(Append(out, Head(s))) \union Elements(Tail(s))
             = Elements(out) \union Elements(s)
        /\ Elements(Append(out, Head(s))) \cap Elements(Tail(s)) = {}
    BY <1>1, <1>3, HandOverOK DEF TypeOK
  <2>3. WorkConserving' /\ wire' \in Seq(Pkt) /\ Len(wire') <= 1
    BY <2>1, <2>2 DEF WorkConserving
  <2>4. Len(s) \in Nat
    OBVIOUS
  <2> QED BY <2>1, <2>2, <2>3, <2>4
<1> QED BY <1>2, <1>3

-----------------------------------------------------------------------------
(* The places of the packets.                                               *)

(* A packet that arrives may move others between the first three places. *)
LEMMA ApartJoins ==
    ASSUME NEW n \in Nat, NEW A, NEW B, NEW C, NEW D, Apart(n, A, B, C, D),
           NEW p, p.id = n + 1, NEW A1, NEW B1, NEW C1,
           A1 \union B1 \union C1 = A \union B \union C \union {p},
           A1 \cap B1 = {}, A1 \cap C1 = {}, B1 \cap C1 = {}
    PROVE  Apart(n + 1, A1, B1, C1, D)
<1> DEFINE S == A \union B \union C \union D
           T == A1 \union B1 \union C1 \union D
<1>1. T = S \union {p}
  OBVIOUS
<1>2. DistinctIds(S) /\ Ids(S) = 1 .. n
  BY DEF Apart
<1>3. \A a \in S : a.id \in 1 .. n
  BY <1>2 DEF Ids
<1>4. p \notin S
  BY <1>3
<1>5. DistinctIds(T)
  <2> SUFFICES ASSUME NEW a \in T, NEW b \in T, a.id = b.id PROVE a = b
    BY DEF DistinctIds
  <2> HIDE DEF S, T
  <2>1. CASE a \in S /\ b \in S
    BY <1>2, <2>1 DEF DistinctIds
  <2>2. CASE a = p /\ b = p
    BY <2>2
  <2>3. CASE a \in S /\ b = p
    BY <1>3, <2>3
  <2>4. CASE a = p /\ b \in S
    BY <1>3, <2>4
  <2> QED BY <1>1, <2>1, <2>2, <2>3, <2>4
<1>6. Ids(T) = 1 .. n + 1
  <2> HIDE DEF S, T
  <2>1. Ids(T) = Ids(S) \union {n + 1}
    BY <1>1 DEF Ids
  <2> QED BY <1>2, <2>1
<1>7. A1 \cap D = {} /\ B1 \cap D = {} /\ C1 \cap D = {}
  BY <1>4 DEF Apart
<1> QED BY <1>5, <1>6, <1>7 DEF Apart

(* Packets may move between the places. *)
LEMMA ApartMoves ==
    ASSUME NEW n, NEW A, NEW B, NEW C, NEW D, Apart(n, A, B, C, D),
           NEW A1, NEW B1, NEW C1, NEW D1,
           A1 \union B1 \union C1 \union D1 = A \union B \union C \union D,
           A1 \cap B1 = {}, A1 \cap C1 = {}, A1 \cap D1 = {},
           B1 \cap C1 = {}, B1 \cap D1 = {}, C1 \cap D1 = {}
    PROVE  Apart(n, A1, B1, C1, D1)
BY DEF Apart

(* The places, as the property names them. *)
LEMMA ApartCounts ==
    ASSUME NEW A, NEW B, NEW C, NEW D, Apart(arrived, A, B, C, D)
    PROVE  /\ UNION {Ids(<<A, B, C, D>>[k]) : k \in 1 .. 4} = 1 .. arrived
           /\ \A j, k \in 1 .. 4 :
                j # k => Ids(<<A, B, C, D>>[j]) \cap Ids(<<A, B, C, D>>[k]) = {}
<1> DEFINE P == <<A, B, C, D>>
           S == A \union B \union C \union D
<1>1. DistinctIds(S) /\ Ids(S) = 1 .. arrived
  BY DEF Apart
<1>2. P[1] = A /\ P[2] = B /\ P[3] = C /\ P[4] = D
  OBVIOUS
<1>3. \A k \in 1 .. 4 : k = 1 \/ k = 2 \/ k = 3 \/ k = 4
  OBVIOUS
<1>4. \A j, k \in 1 .. 4 : j # k => P[j] \cap P[k] = {}
  <2> HIDE DEF P
  <2> QED BY <1>2, <1>3 DEF Apart
<1>5. \A k \in 1 .. 4 : P[k] \subseteq S
  <2> HIDE DEF P
  <2> QED BY <1>2, <1>3
<1>6. \A x \in S : \E k \in 1 .. 4 : x \in P[k]
  <2> HIDE DEF P
  <2> QED BY <1>2
<1> HIDE DEF P, S
<1>7. \A j, k \in 1 .. 4 : j # k => Ids(P[j]) \cap Ids(P[k]) = {}
  <2> SUFFICES ASSUME NEW j \in 1 .. 4, NEW k \in 1 .. 4, j # k,
                      NEW a \in P[j], NEW b \in P[k], a.id = b.id
               PROVE  FALSE
    BY DEF Ids
  <2> QED BY <1>1, <1>4, <1>5 DEF DistinctIds
<1>8. UNION {Ids(P[k]) : k \in 1 .. 4} = Ids(S)
  BY <1>5, <1>6 DEF Ids
<1> QED BY <1>1, <1>7, <1>8 DEF P

-----------------------------------------------------------------------------
(* The invariant.                                                           *)

LEMMA NoElements == Elements(<<>>) = {} /\ Sorted(<<>>)
BY DEF Elements, Sorted

LEMMA InitDInv == Init => DInv
<1> SUFFICES ASSUME Init PROVE DInv
  OBVIOUS
<1>1. TypeOK /\ WorkConserving
  <2>1. <<>> \in Seq(Pkt) /\ Len(<<>>) <= 1 /\ 0 \in 0 .. MaxArrivals
    BY SizesAssumption
  <2> QED BY <2>1 DEF Init, TypeOK, WorkConserving
<1>2. Apart(arrived, Elements(q), Elements(out), dropped, lost)
  <2>1. arrived = 0 /\ Elements(q) = {} /\ Elements(out) = {} /\ dropped = {} /\ lost = {}
    BY NoElements DEF Init
  <2>2. Ids({}) = 1 .. 0
    BY DEF Ids
  <2> QED BY <2>1, <2>2 DEF Apart, DistinctIds
<1>3. Sorted(q) /\ Sorted(out) /\ Before(Elements(out), Elements(q))
  BY NoElements DEF Init, Before
<1> QED BY <1>1, <1>2, <1>3 DEF DInv

LEMMA recvDInv == ASSUME DInv, NEW p \in Pkt, recv(p) PROVE DInv'
<1> DEFINE e == enque(q, p)
<1>1. /\ TypeOK /\ Sorted(q) /\ Sorted(out) /\ Before(Elements(out), Elements(q))
      /\ Apart(arrived, Elements(q), Elements(out), dropped, lost)
      /\ arrived \in Nat
  BY SizesAssumption DEF DInv, TypeOK
<1>2. /\ arrived < MaxArrivals /\ p.id = arrived + 1 /\ arrived' = arrived + 1
      /\ SendUnlessBlocked(e.q) /\ dropped' = dropped \union e.drop
      /\ UNCHANGED <<config, lost>>
  BY DEF recv, Arrival
<1>3. \A a \in Elements(q) \union Elements(out) \union dropped : a.id \in 1 .. arrived
  BY <1>1 DEF Apart, Ids
<1>4. \A a \in Elements(q) \union Elements(out) : a.id < p.id
  BY <1>1, <1>2, <1>3
<1>5. /\ e.q \in Seq(Pkt) /\ Sorted(e.q)
      /\ Elements(e.q) \union e.drop = Elements(q) \union {p}
      /\ Elements(e.q) \cap e.drop = {}
  BY <1>1, <1>4, EnqueOK DEF TypeOK
<1> HIDE DEF e
<1>6. Before(Elements(out), Elements(e.q))
  BY <1>1, <1>4, <1>5 DEF Before
<1>7. /\ q' \in Seq(Pkt) /\ out' \in Seq(Pkt)
      /\ blocked' \in BOOLEAN /\ wire' \in Seq(Pkt) /\ Len(wire') <= 1
      /\ WorkConserving'
      /\ Sorted(q') /\ Sorted(out') /\ Before(Elements(out'), Elements(q'))
      /\ Elements(out') \union Elements(q') = Elements(out) \union Elements(e.q)
      /\ Elements(out') \cap Elements(q') = {}
  <2> DEFINE s == e.q
  <2>1. s \in Seq(Pkt) /\ Sorted(s) /\ Before(Elements(out), Elements(s))
        /\ SendUnlessBlocked(s)
    BY <1>2, <1>5, <1>6
  <2> HIDE DEF s
  <2>2. /\ q' \in Seq(Pkt) /\ out' \in Seq(Pkt)
        /\ blocked' \in BOOLEAN /\ wire' \in Seq(Pkt) /\ Len(wire') <= 1
        /\ WorkConserving'
        /\ Sorted(q') /\ Sorted(out') /\ Before(Elements(out'), Elements(q'))
        /\ Elements(out') \union Elements(q') = Elements(out) \union Elements(s)
        /\ Elements(out') \cap Elements(q') = {}
    BY <2>1, SendOK
  <2> QED BY <2>2 DEF s
<1>8. TypeOK'
  <2>1. dropped' \subseteq Pkt /\ lost' \subseteq Pkt
    BY <1>1, <1>2, <1>5 DEF TypeOK, Elements
  <2>2. arrived' \in 0 .. MaxArrivals
    BY <1>1, <1>2, SizesAssumption
  <2> QED BY <1>1, <1>2, <1>7, <2>1, <2>2 DEF TypeOK, config
<1>9. Apart(arrived', Elements(q'), Elements(out'), dropped', lost')
  <2>1. p \notin Elements(q) \union Elements(out) \union dropped
    BY <1>1, <1>2, <1>3
  <2>2. /\ Elements(q') \cap dropped' = {} /\ Elements(out') \cap dropped' = {}
        /\ Elements(q') \union Elements(out') \union dropped'
             = Elements(q) \union Elements(out) \union dropped \union {p}
    BY <1>1, <1>2, <1>5, <1>7, <2>1 DEF Apart
  <2>3. Apart(arrived + 1, Elements(q'), Elements(out'), dropped', lost)
    BY <1>1, <1>2, <1>7, <2>2, ApartJoins
  <2> QED BY <1>2, <2>3
<1> QED BY <1>7, <1>8, <1>9 DEF DInv

LEMMA resumeDInv == DInv /\ resume => DInv'
<1> SUFFICES ASSUME DInv, resume PROVE DInv'
  OBVIOUS
<1>1. /\ TypeOK /\ WorkConserving
      /\ Sorted(q) /\ Sorted(out) /\ Before(Elements(out), Elements(q))
      /\ Apart(arrived, Elements(q), Elements(out), dropped, lost)
  BY DEF DInv
<1>2. wire # <<>> /\ UNCHANGED <<config, arrived, dropped, lost>>
  BY DEF resume
<1>3. CASE q = <<>>
  <2>1. wire' = <<>> /\ blocked' = FALSE /\ UNCHANGED <<q, out>>
    BY <1>3 DEF resume
  <2>2. TypeOK'
    <3>1. <<>> \in Seq(Pkt) /\ Len(<<>>) <= 1
      OBVIOUS
    <3> QED BY <1>1, <1>2, <2>1, <3>1 DEF TypeOK, config
  <2>3. WorkConserving'
    BY <1>3, <2>1 DEF WorkConserving
  <2> QED BY <1>1, <1>2, <2>1, <2>2, <2>3 DEF DInv
<1>4. CASE q # <<>>
  <2>1. /\ q' = Tail(q) /\ wire' = <<Head(q)>> /\ out' = Append(out, Head(q))
        /\ blocked' = blocked
    BY <1>4 DEF resume
  <2>2. /\ q' \in Seq(Pkt) /\ out' \in Seq(Pkt) /\ Head(q) \in Pkt
        /\ Sorted(q') /\ Sorted(out') /\ Before(Elements(out'), Elements(q'))
        /\ Elements(out') \union Elements(q') = Elements(out) \union Elements(q)
        /\ Elements(out') \cap Elements(q') = {}
    BY <1>1, <1>4, <2>1, HandOverOK DEF TypeOK
  <2>3. TypeOK' /\ WorkConserving'
    BY <1>1, <1>2, <1>4, <2>1, <2>2 DEF TypeOK, WorkConserving, config
  <2>4. Apart(arrived', Elements(q'), Elements(out'), dropped', lost')
    <3>1. /\ dropped' = dropped /\ lost' = lost /\ arrived' = arrived
      BY <1>2
    <3>2. /\ Elements(q') \cap dropped = {} /\ Elements(q') \cap lost = {}
          /\ Elements(out') \cap dropped = {} /\ Elements(out') \cap lost = {}
          /\ dropped \cap lost = {}
      BY <1>1, <2>2 DEF Apart
    <3>3. Elements(q') \union Elements(out') \union dropped \union lost
            = Elements(q) \union Elements(out) \union dropped \union lost
      BY <2>2
    <3>4. Apart(arrived, Elements(q'), Elements(out'), dropped, lost)
      BY <1>1, <2>2, <3>2, <3>3, ApartMoves
    <3> QED BY <3>1, <3>4
  <2> QED BY <2>2, <2>3, <2>4 DEF DInv
<1> QED BY <1>3, <1>4

(* The other operations leave the link alone and keep a part of what waits. *)
LEMMA PartDInv ==
    ASSUME DInv, q' \in Seq(Pkt), Sorted(q'), Elements(q') \subseteq Elements(q),
           Len(q') <= Len(q), UNCHANGED <<config, blocked, wire, arrived, out>>,
           \/ dropped' = dropped \union (Elements(q) \ Elements(q')) /\ lost' = lost
           \/ lost' = lost \union (Elements(q) \ Elements(q')) /\ dropped' = dropped
    PROVE  DInv'
<1>1. /\ TypeOK /\ WorkConserving
      /\ Sorted(out) /\ Before(Elements(out), Elements(q))
      /\ Apart(arrived, Elements(q), Elements(out), dropped, lost)
  BY DEF DInv
<1>2. Elements(q) \subseteq Pkt
  BY <1>1 DEF TypeOK, Elements
<1>3. TypeOK'
  BY <1>1, <1>2 DEF TypeOK, config
<1>4. WorkConserving'
  <2>1. q' # <<>> => q # <<>>
    BY <1>1, EmptySeq DEF TypeOK
  <2> QED BY <1>1, <2>1 DEF WorkConserving
<1>5. Before(Elements(out'), Elements(q')) /\ Sorted(out')
  BY <1>1 DEF Before
<1>6. Apart(arrived', Elements(q'), Elements(out'), dropped', lost')
  <2>1. out' = out /\ arrived' = arrived
    OBVIOUS
  <2>2. /\ Elements(q') \cap Elements(out) = {}
        /\ Elements(q') \cap dropped' = {} /\ Elements(q') \cap lost' = {}
        /\ Elements(out) \cap dropped' = {} /\ Elements(out) \cap lost' = {}
        /\ dropped' \cap lost' = {}
        /\ Elements(q') \union Elements(out) \union dropped' \union lost'
             = Elements(q) \union Elements(out) \union dropped \union lost
    BY <1>1 DEF Apart
  <2>3. Apart(arrived, Elements(q'), Elements(out), dropped', lost')
    BY <1>1, <2>2, ApartMoves
  <2> QED BY <2>1, <2>3
<1> QED BY <1>3, <1>4, <1>5, <1>6 DEF DInv

LEMMA shrinkDInv == DInv /\ shrink_queue => DInv' /\ Len(q') <= Len(q)
<1> SUFFICES ASSUME DInv, shrink_queue PROVE DInv' /\ Len(q') <= Len(q)
  OBVIOUS
<1>1. TypeOK /\ Sorted(q) /\ q \in Seq(Pkt)
  BY DEF DInv, TypeOK
<1>2. PICK k \in 0 .. Len(q) :
        /\ q' = Kept(q, k)
        /\ dropped' = dropped \union (Elements(q) \ Elements(q'))
        /\ UNCHANGED <<config, blocked, wire, arrived, out, lost>>
  BY DEF shrink_queue
<1>3. /\ q' \in Seq(Pkt) /\ Len(q') = k /\ Sorted(q')
      /\ Elements(q') \subseteq Elements(q)
  BY <1>1, <1>2, PartSorted
<1>4. Len(q) \in Nat
  BY <1>1
<1> QED BY <1>2, <1>3, <1>4, PartDInv

LEMMA clearDInv ==
    ASSUME DInv, (packetqueue_attach \/ reset) PROVE DInv' /\ Len(q') <= Len(q)
<1>1. q \in Seq(Pkt) /\ Len(q) \in Nat
  BY DEF DInv, TypeOK
<1>2. q' = <<>> /\ UNCHANGED <<config, blocked, wire, arrived, out>>
  BY DEF packetqueue_attach, reset
<1>3. q' \in Seq(Pkt) /\ Sorted(q') /\ Elements(q') = {} /\ Len(q') = 0
  BY <1>2, NoElements
<1>4. \/ dropped' = dropped \union (Elements(q) \ Elements(q')) /\ lost' = lost
      \/ lost' = lost \union (Elements(q) \ Elements(q')) /\ dropped' = dropped
  BY <1>3 DEF packetqueue_attach, reset
<1> QED BY <1>1, <1>2, <1>3, <1>4, PartDInv

LEMMA NextDInv == DInv /\ [Next]_vars => DInv'
<1> SUFFICES ASSUME DInv, [Next]_vars PROVE DInv'
  OBVIOUS
<1>1. ASSUME NEW p \in Pkt, recv(p) PROVE DInv'
  BY <1>1, recvDInv
<1>2. CASE resume
  BY <1>2, resumeDInv
<1>3. CASE Configure
  <2>1. /\ qlim' \in Limits /\ qib' \in InBytes /\ front' \in DropFront
        /\ UNCHANGED <<q, blocked, wire, arrived, out, dropped, lost>>
    BY <1>3 DEF Configure, history
  <2>2. TypeOK' /\ WorkConserving'
    BY <2>1 DEF DInv, TypeOK, WorkConserving
  <2> QED BY <2>1, <2>2 DEF DInv
<1>4. CASE shrink_queue
  BY <1>4, shrinkDInv
<1>5. CASE packetqueue_attach \/ reset
  BY <1>5, clearDInv
<1>6. CASE UNCHANGED vars
  BY <1>6 DEF vars, config, history, DInv, TypeOK, WorkConserving
<1> QED BY <1>1, <1>2, <1>3, <1>4, <1>5, <1>6 DEF Next

LEMMA DInvHolds == Spec => []DInv
<1> QED BY InitDInv, NextDInv, PTL DEF Spec

-----------------------------------------------------------------------------
(* The variables keep their types, and the link has at most one packet. *)
THEOREM DropTailTyped == Spec => []TypeOK
<1>1. DInv => TypeOK
  BY DEF DInv
<1> QED BY <1>1, DInvHolds, PTL

(* recv, resume, shrink-queue, packetqueue-attach and reset account for every
   packet exactly once.                                                     *)
THEOREM DropTailAccounts == Spec => []Accounted
<1>1. DInv => Accounted
  BY ApartCounts DEF DInv, Accounted, Places
<1> QED BY <1>1, DInvHolds, PTL

(* The link never idles while packets wait, whatever is reconfigured. *)
THEOREM DropTailConservesWork == Spec => []WorkConserving
<1>1. DInv => WorkConserving
  BY DEF DInv
<1> QED BY <1>1, DInvHolds, PTL

(* Packets leave in the order they came, whichever end is dropped from. *)
THEOREM DropTailInOrder == Spec => []InOrder
<1>1. DInv => InOrder
  <2> SUFFICES ASSUME DInv PROVE InOrder
    OBVIOUS
  <2> DEFINE s == out \o q
             m == Len(out)
  <2>1. out \in Seq(Pkt) /\ q \in Seq(Pkt) /\ Sorted(out) /\ Sorted(q)
        /\ Before(Elements(out), Elements(q))
    BY DEF DInv, TypeOK
  <2>2. /\ m \in Nat /\ Len(q) \in Nat /\ Len(s) = m + Len(q)
        /\ \A i \in 1 .. Len(s) : s[i] = IF i <= m THEN out[i] ELSE q[i - m]
    BY <2>1, ConcatProperties
  <2>3. \A i \in 1 .. Len(q) : q[i] \in Elements(q)
    BY DEF Elements
  <2>4. \A i \in 1 .. m : out[i] \in Elements(out)
    BY DEF Elements
  <2> SUFFICES ASSUME NEW i \in 1 .. Len(s), NEW j \in 1 .. Len(s), i < j
               PROVE  s[i].id < s[j].id
    BY DEF InOrder
  <2> HIDE DEF s
  <2>5. CASE j <= m
    BY <2>1, <2>2, <2>5 DEF Sorted
  <2>6. CASE i <= m /\ m < j
    <3>1. s[i] = out[i] /\ s[j] = q[j - m] /\ i \in 1 .. m /\ j - m \in 1 .. Len(q)
      BY <2>2, <2>6
    <3> QED BY <2>1, <2>3, <2>4, <3>1 DEF Before
  <2>7. CASE m < i
    <3>1. /\ s[i] = q[i - m] /\ s[j] = q[j - m] /\ i - m < j - m
          /\ i - m \in 1 .. Len(q) /\ j - m \in 1 .. Len(q)
      BY <2>2, <2>7
    <3> QED BY <2>1, <3>1 DEF Sorted
  <2> QED BY <2>2, <2>5, <2>6, <2>7
<1> QED BY <1>1, DInvHolds, PTL

(* No operation lets the queue grow to qlim_, whatever it was before. *)
THEOREM DropTailGrowsBelowLimit == Spec => GrowsBelowLimit
<1>1. ASSUME DInv, [Next]_vars
      PROVE  [~qib /\ Len(q') > Len(q) => Len(q') < qlim]_vars
  <2>1. /\ q \in Seq(Pkt) /\ Len(q) \in Nat /\ qlim \in Nat
        /\ Sorted(q) /\ Before(Elements(out), Elements(q))
    BY <1>1, LimitsAssumption DEF DInv, TypeOK
  <2>2. ASSUME NEW p \in Pkt, recv(p), ~qib, Len(q') > Len(q)
        PROVE  Len(q') < qlim
    <3> DEFINE s == enque(q, p).q
    <3>1. SendUnlessBlocked(s)
      BY <2>2 DEF recv
    <3>2. \A a \in Elements(q) \union Elements(out) : a.id \in 1 .. arrived
      BY <1>1 DEF DInv, Apart, Ids
    <3>3. arrived \in Nat /\ p.id = arrived + 1
      BY <1>1, <2>2, SizesAssumption DEF DInv, TypeOK, recv, Arrival
    <3>4. \A a \in Elements(q) \union Elements(out) : a.id < p.id
      BY <3>2, <3>3
    <3>5. /\ s \in Seq(Pkt) /\ Sorted(s) /\ Elements(s) \subseteq Elements(q) \union {p}
          /\ Len(s) <= Len(q) \/ (~Full(q, p) /\ Len(s) = Len(q) + 1)
      BY <2>1, <3>4, EnqueOK
    <3> HIDE DEF s
    <3>6. Before(Elements(out), Elements(s))
      BY <2>1, <3>4, <3>5 DEF Before
    <3>7. Len(q') <= Len(s) /\ q' \in Seq(Pkt)
      BY <1>1, <3>1, <3>5, <3>6, SendOK
    <3>8. Len(s) \in Nat /\ Len(q') \in Nat
      BY <3>5, <3>7
    <3>9. ~Full(q, p) /\ Len(s) = Len(q) + 1
      BY <2>1, <2>2, <3>5, <3>7, <3>8
    <3>10. Len(q) + 1 < qlim
      BY <2>1, <2>2, <3>9 DEF Full
    <3> QED BY <2>1, <3>7, <3>8, <3>9, <3>10
  <2>3. CASE resume
    <3>1. q' = q \/ (q # <<>> /\ q' = Tail(q))
      BY <2>3 DEF resume
    <3>2. Len(q') <= Len(q)
      BY <2>1, <3>1, HeadTailProperties
    <3>3. Len(q') \in Nat
      BY <2>1, <3>1
    <3> QED BY <2>1, <3>2, <3>3
  <2>4. CASE UNCHANGED q
    BY <2>1, <2>4
  <2>5. CASE shrink_queue \/ packetqueue_attach \/ reset
    <3>1. Len(q') <= Len(q) /\ DInv'
      BY <1>1, <2>5, shrinkDInv, clearDInv
    <3>2. Len(q') \in Nat
      BY <3>1 DEF DInv, TypeOK
    <3> QED BY <2>1, <3>1, <3>2
  <2>6. Configure \/ UNCHANGED vars => UNCHANGED q
    BY DEF Configure, vars
  <2> QED BY <1>1, <2>2, <2>3, <2>4, <2>5, <2>6 DEF Next
<1> QED BY <1>1, DInvHolds, PTL DEF Spec, GrowsBelowLimit

-----------------------------------------------------------------------------
(* PriQueue.  The order of its queue is a relation between any two of its
   packets, of which one stands in front of the other (Follows).  So whatever
   takes packets out, from either end or, as filter does, from the middle,
   keeps it, and an arrival has to be compared with each packet only.       *)

(* b may stand behind a. *)
Follows(a, b) ==
    /\ a.id # b.id
    /\ Urgent(b) => Urgent(a)
    /\ ~Urgent(a) => a.id < b.id

Ordered(s) == \A i, j \in 1 .. Len(s) : i < j => Follows(s[i], s[j])

(* NormalInOrder, of what has left. *)
NormalSorted(s) ==
    \A i, j \in 1 .. Len(s) : i < j /\ ~Urgent(s[i]) /\ ~Urgent(s[j]) => s[i].id < s[j].id

NormalBefore(S, T) == \A a \in S, b \in T : ~Urgent(a) /\ ~Urgent(b) => a.id < b.id

PInv ==
    /\ TypeOK /\ taken \subseteq Pkt
    /\ WorkConserving
    /\ Ordered(q) /\ NormalSorted(out) /\ NormalBefore(Elements(out), Elements(q))
    /\ Apart(arrived, Elements(q), Elements(out), dropped, lost \union taken)
    /\ lost \cap taken = {}

-----------------------------------------------------------------------------
(* Ordered sequences of packets.                                            *)

(* Some packets of an ordered sequence, in their order. *)
LEMMA PartOrdered ==
    ASSUME NEW s \in Seq(Pkt), Ordered(s), NEW t \in Seq(Pkt),
           NEW f \in [1 .. Len(t) -> 1 .. Len(s)],
           \A i, j \in 1 .. Len(t) : i < j => f[i] < f[j],
           \A i \in 1 .. Len(t) : t[i] = s[f[i]]
    PROVE  Ordered(t) /\ Elements(t) \subseteq Elements(s)
<1>1. Ordered(t)
  BY DEF Ordered
<1>2. Elements(t) \subseteq Elements(s)
  BY DEF Elements
<1> QED BY <1>1, <1>2

LEMMA FirstOrdered ==
    ASSUME NEW s \in Seq(Pkt), Ordered(s), s # <<>>
    PROVE  /\ Head(s) \in Pkt /\ Tail(s) \in Seq(Pkt) /\ Len(Tail(s)) = Len(s) - 1
           /\ Ordered(Tail(s))
           /\ Elements(s) = {Head(s)} \union Elements(Tail(s))
           /\ \A a \in Elements(Tail(s)) : Follows(Head(s), a)
<1> DEFINE t == Tail(s)
           n == Len(s)
           f == [i \in 1 .. Len(t) |-> i + 1]
<1>1. /\ n \in Nat /\ n > 0 /\ Head(s) = s[1] /\ s[1] \in Pkt
      /\ t \in Seq(Pkt) /\ Len(t) = n - 1
      /\ \A i \in 1 .. Len(t) : t[i] = s[i + 1]
  BY HeadTailProperties, EmptySeq
<1> HIDE DEF t, n
<1>2. /\ f \in [1 .. Len(t) -> 1 .. n]
      /\ \A i, j \in 1 .. Len(t) : i < j => f[i] < f[j]
      /\ \A i \in 1 .. Len(t) : t[i] = s[f[i]] /\ 1 < f[i]
  BY <1>1
<1> HIDE DEF f
<1>3. Ordered(t) /\ Elements(t) \subseteq Elements(s)
  BY <1>1, <1>2, PartOrdered DEF n
<1>4. \A a \in Elements(t) : Follows(s[1], a)
  BY <1>1, <1>2 DEF n, Elements, Ordered
<1>5. Elements(s) = {s[1]} \union Elements(t)
  <2>1. ASSUME NEW i \in 1 .. n, i # 1 PROVE s[i] \in Elements(t)
    <3>1. i - 1 \in 1 .. Len(t) /\ t[i - 1] = s[i]
      BY <1>1, <2>1
    <3> QED BY <3>1 DEF Elements
  <2>2. s[1] \in Elements(s)
    BY <1>1 DEF Elements, n
  <2> QED BY <1>3, <2>1, <2>2 DEF Elements, n
<1> QED BY <1>1, <1>3, <1>4, <1>5 DEF t, n

LEMMA AppendOrdered ==
    ASSUME NEW s \in Seq(Pkt), Ordered(s), NEW p \in Pkt,
           \A a \in Elements(s) : Follows(a, p)
    PROVE  /\ Append(s, p) \in Seq(Pkt) /\ Append(s, p) # <<>>
           /\ Len(Append(s, p)) = Len(s) + 1
           /\ Ordered(Append(s, p))
           /\ Elements(Append(s, p)) = Elements(s) \union {p}
<1> DEFINE t == Append(s, p)
           n == Len(s)
<1>1. /\ t \in Seq(Pkt) /\ t # <<>> /\ n \in Nat /\ Len(t) = n + 1
      /\ \A i \in 1 .. n : t[i] = s[i]
      /\ t[n + 1] = p
  BY AppendProperties
<1> HIDE DEF t
<1>2. \A i \in 1 .. n : s[i] \in Elements(s)
  BY DEF Elements
<1>3. Ordered(t)
  <2> SUFFICES ASSUME NEW i \in 1 .. Len(t), NEW j \in 1 .. Len(t), i < j
               PROVE  Follows(t[i], t[j])
    BY DEF Ordered
  <2>1. i \in 1 .. n
    BY <1>1
  <2>2. CASE j = n + 1
    BY <1>1, <1>2, <2>1, <2>2
  <2>3. CASE j # n + 1
    BY <1>1, <2>1, <2>3 DEF Ordered
  <2> QED BY <2>2, <2>3
<1>4. Elements(t) = Elements(s) \union {p}
  <2>1. \A i \in 1 .. Len(t) : t[i] \in Elements(s) \union {p}
    BY <1>1, <1>2
  <2>2. \A i \in 1 .. n : s[i] \in Elements(t)
    BY <1>1 DEF Elements
  <2>3. p \in Elements(t)
    BY <1>1 DEF Elements
  <2> QED BY <2>1, <2>2, <2>3 DEF Elements
<1> QED BY <1>1, <1>3, <1>4 DEF t

(* A packet in front of all others. *)
LEMMA PushOrdered ==
    ASSUME NEW s \in Seq(Pkt), Ordered(s), NEW p \in Pkt,
           \A a \in Elements(s) : Follows(p, a)
    PROVE  /\ <<p>> \o s \in Seq(Pkt) /\ Len(<<p>> \o s) = Len(s) + 1
           /\ (<<p>> \o s)[1] = p
           /\ Ordered(<<p>> \o s)
           /\ Elements(<<p>> \o s) = Elements(s) \union {p}
<1> DEFINE t == <<p>> \o s
           n == Len(s)
<1>1. /\ t \in Seq(Pkt) /\ n \in Nat /\ Len(t) = n + 1 /\ t[1] = p
      /\ \A i \in 2 .. n + 1 : t[i] = s[i - 1]
  <2>1. <<p>> \in Seq(Pkt) /\ Len(<<p>>) = 1 /\ <<p>>[1] = p
    OBVIOUS
  <2>2. /\ t \in Seq(Pkt) /\ n \in Nat /\ Len(t) = 1 + n
        /\ \A i \in 1 .. 1 + n : t[i] = IF i <= 1 THEN <<p>>[i] ELSE s[i - 1]
    BY <2>1, ConcatProperties
  <2> HIDE DEF t, n
  <2> QED BY <2>1, <2>2
<1> HIDE DEF t
<1>2. \A i \in 1 .. n : s[i] \in Elements(s)
  BY DEF Elements
<1>3. Ordered(t)
  <2> SUFFICES ASSUME NEW i \in 1 .. Len(t), NEW j \in 1 .. Len(t), i < j
               PROVE  Follows(t[i], t[j])
    BY DEF Ordered
  <2>1. j \in 2 .. n + 1 /\ t[j] = s[j - 1] /\ j - 1 \in 1 .. n
    BY <1>1
  <2>2. CASE i = 1
    BY <1>1, <1>2, <2>1, <2>2
  <2>3. CASE i # 1
    <3>1. t[i] = s[i - 1] /\ i - 1 \in 1 .. n /\ i - 1 < j - 1
      BY <1>1, <2>3
    <3> QED BY <2>1, <3>1 DEF Ordered
  <2> QED BY <2>2, <2>3
<1>4. Elements(t) = Elements(s) \union {p}
  <2>1. \A i \in 1 .. Len(t) : t[i] \in Elements(s) \union {p}
    <3> SUFFICES ASSUME NEW i \in 1 .. Len(t), i # 1 PROVE t[i] \in Elements(s)
      BY <1>1
    <3>1. i - 1 \in 1 .. n /\ t[i] = s[i - 1]
      BY <1>1
    <3> QED BY <1>2, <3>1
  <2>2. \A i \in 1 .. n : s[i] \in Elements(t)
    <3> SUFFICES ASSUME NEW i \in 1 .. n PROVE s[i] \in Elements(t)
      OBVIOUS
    <3>1. i + 1 \in 1 .. Len(t) /\ t[i + 1] = s[i]
      BY <1>1
    <3> QED BY <3>1 DEF Elements
  <2>3. p \in Elements(t)
    BY <1>1 DEF Elements
  <2> QED BY <2>1, <2>2, <2>3 DEF Elements
<1> QED BY <1>1, <1>3, <1>4 DEF t

(* All but one packet: filter takes it out, or recvHighPriority drops it. *)
LEMMA WithoutOrdered ==
    ASSUME NEW s \in Seq(Pkt), Ordered(s), NEW i \in 1 .. Len(s), NEW t \in Seq(Pkt),
           Len(t) = Len(s) - 1,
           \A j \in 1 .. Len(t) : t[j] = IF j < i THEN s[j] ELSE s[j + 1]
    PROVE  /\ Ordered(t)
           /\ Elements(s) = Elements(t) \union {s[i]}
           /\ s[i] \notin Elements(t)
<1> DEFINE n == Len(s)
           f == [j \in 1 .. Len(t) |-> IF j < i THEN j ELSE j + 1]
<1>1. n \in Nat /\ i \in 1 .. n
  OBVIOUS
<1>2. /\ f \in [1 .. Len(t) -> 1 .. n]
      /\ \A j, k \in 1 .. Len(t) : j < k => f[j] < f[k]
      /\ \A j \in 1 .. Len(t) : t[j] = s[f[j]] /\ f[j] # i
  <2>1. Len(t) = n - 1
    OBVIOUS
  <2>2. \A j \in 1 .. n - 1 : t[j] = IF j < i THEN s[j] ELSE s[j + 1]
    BY <2>1
  <2> HIDE DEF n
  <2> QED BY <1>1, <2>1, <2>2
<1>3. \A k \in 1 .. n : k # i => \E j \in 1 .. Len(t) : f[j] = k
  <2> SUFFICES ASSUME NEW k \in 1 .. n, k # i PROVE \E j \in 1 .. Len(t) : f[j] = k
    OBVIOUS
  <2>1. CASE k < i
    <3>1. k \in 1 .. Len(t) /\ f[k] = k
      BY <1>1, <2>1
    <3> QED BY <3>1
  <2>2. CASE k > i
    <3>1. k - 1 \in 1 .. Len(t) /\ f[k - 1] = k
      BY <1>1, <2>2
    <3> QED BY <3>1
  <2> QED BY <1>1, <2>1, <2>2
<1> HIDE DEF f
<1>4. Ordered(t) /\ Elements(t) \subseteq Elements(s)
  BY <1>2, PartOrdered
<1>5. Elements(s) = Elements(t) \union {s[i]}
  <2>1. \A k \in 1 .. n : s[k] \in Elements(t) \union {s[i]}
    <3> SUFFICES ASSUME NEW k \in 1 .. n, k # i PROVE s[k] \in Elements(t)
      OBVIOUS
    <3>1. PICK j \in 1 .. Len(t) : f[j] = k
      BY <1>3
    <3>2. t[j] = s[k]
      BY <1>2, <3>1
    <3> QED BY <3>2 DEF Elements
  <2>2. s[i] \in Elements(s)
    BY DEF Elements
  <2> QED BY <1>4, <2>1, <2>2 DEF Elements
<1>6. s[i] \notin Elements(t)
  <2>1. \A j \in 1 .. Len(t) : s[f[j]].id # s[i].id
    <3> SUFFICES ASSUME NEW j \in 1 .. Len(t) PROVE s[f[j]].id # s[i].id
      OBVIOUS
    <3>1. f[j] \in 1 .. n /\ (f[j] < i \/ i < f[j])
      BY <1>1, <1>2
    <3> QED BY <1>1, <3>1 DEF Ordered, Follows
  <2> QED BY <1>2, <2>1 DEF Elements
<1> QED BY <1>4, <1>5, <1>6

LEMMA KeptOrdered ==
    ASSUME NEW s \in Seq(Pkt), Ordered(s), NEW k \in 0 .. Len(s)
    PROVE  /\ Kept(s, k) \in Seq(Pkt) /\ Len(Kept(s, k)) = k
           /\ Ordered(Kept(s, k))
           /\ Elements(Kept(s, k)) \subseteq Elements(s)
<1> DEFINE t == Kept(s, k)
           n == Len(s)
           o == IF front THEN n - k ELSE 0
           f == [i \in 1 .. k |-> o + i]
<1>1. n \in Nat /\ \A i \in 1 .. n : s[i] \in Pkt
  OBVIOUS
<1>2. t = SubSeq(s, o + 1, o + k) /\ o \in 0 .. n /\ o + k <= n
  <2>1. CASE front
    <3>1. t = SubSeq(s, n - k + 1, n) /\ o = n - k
      BY <2>1 DEF Kept
    <3>2. o + 1 = n - k + 1 /\ o + k = n /\ o \in 0 .. n
      BY <1>1, <3>1
    <3> HIDE DEF t, o, n
    <3>3. t = SubSeq(s, o + 1, o + k)
      BY <3>1, <3>2, Zenon
    <3> QED BY <1>1, <3>2, <3>3
  <2>2. CASE ~front
    <3>1. t = SubSeq(s, 1, k) /\ o = 0
      BY <2>2 DEF Kept
    <3> HIDE DEF t, o, n
    <3> QED BY <1>1, <3>1 DEF n
  <2> QED BY <2>1, <2>2
<1> HIDE DEF t, o
<1>3. /\ t \in Seq(Pkt) /\ Len(t) = k
      /\ \A i \in 1 .. k : t[i] = s[o + i]
  <2>1. \A i \in o + 1 .. o + k : s[i] \in Pkt
    BY <1>1, <1>2
  <2>2. /\ t \in Seq(Pkt)
        /\ Len(t) = IF o + 1 <= o + k THEN o + k - (o + 1) + 1 ELSE 0
        /\ \A i \in 1 .. o + k - (o + 1) + 1 : t[i] = s[o + 1 + i - 1]
    <3>1. o + 1 \in Int /\ o + k \in Int
      BY <1>2
    <3> QED BY <1>2, <2>1, <3>1, SubSeqProperties
  <2>3. o + k - (o + 1) + 1 = k /\ (o + 1 <= o + k <=> k # 0)
    BY <1>2
  <2>4. \A i \in 1 .. k : o + 1 + i - 1 = o + i
    BY <1>2
  <2>5. Len(t) = k
    BY <2>2, <2>3
  <2>6. \A i \in 1 .. k : t[i] = s[o + 1 + i - 1]
    BY <2>2, <2>3
  <2> QED BY <2>2, <2>4, <2>5, <2>6
<1>4. /\ f \in [1 .. Len(t) -> 1 .. n]
      /\ \A i, j \in 1 .. Len(t) : i < j => f[i] < f[j]
      /\ \A i \in 1 .. Len(t) : t[i] = s[f[i]]
  <2> HIDE DEF n
  <2>1. \A i \in 1 .. k : o + i \in 1 .. n
    BY <1>1, <1>2
  <2>2. f \in [1 .. Len(t) -> 1 .. n] /\ \A i \in 1 .. k : f[i] = o + i
    BY <1>3, <2>1
  <2> HIDE DEF f
  <2>3. \A i, j \in 1 .. Len(t) : i < j => f[i] < f[j]
    BY <1>2, <1>3, <2>2
  <2>4. \A i \in 1 .. Len(t) : t[i] = s[f[i]]
    BY <1>3, <2>2
  <2> QED BY <2>2, <2>3, <2>4
<1> HIDE DEF f
<1> QED BY <1>3, <1>4, PartOrdered DEF t

-----------------------------------------------------------------------------
(* What filter(fn, data) leaves.                                            *)

IsKept(f, s, hop) ==
    f = [k \in 0 .. Len(s) |->
            IF k = 0 THEN <<>>
            ELSE IF HopOf[s[k].id] = hop THEN f[k-1] ELSE Append(f[k-1], s[k])]

LEMMA KeptExists ==
    ASSUME NEW s \in Seq(Pkt), NEW hop
    PROVE  \E f : IsKept(f, s, hop)
<1> DEFINE n == Len(s)
           V == Seq(Pkt)
           none == <<>>
           G == [k \in 1 .. n |-> [t \in V |->
                    IF HopOf[s[k].id] = hop THEN t ELSE Append(t, s[k])]]
<1>1. n \in Nat /\ none \in V
  OBVIOUS
<1>2. \A k \in 1 .. n : \A t \in V : Append(t, s[k]) \in V
  BY AppendProperties
<1>3. G \in Steps(n, V)
  BY <1>2 DEF Steps
<1>4. PICK f \in [0 .. n -> V] : Stepped(f, n, none, G)
  <2> HIDE DEF G, V, n, none
  <2> QED BY <1>1, <1>3, Iterates
<1>5. \A k \in 1 .. n : f[k - 1] \in V
  BY <1>1
<1>6. \A k \in 0 .. n : f[k] = IF k = 0 THEN <<>>
                               ELSE IF HopOf[s[k].id] = hop THEN f[k-1]
                               ELSE Append(f[k-1], s[k])
  <2>1. ASSUME NEW k \in 1 .. n
        PROVE  f[k] = IF HopOf[s[k].id] = hop THEN f[k-1] ELSE Append(f[k-1], s[k])
    BY <1>4, <1>5 DEF Stepped
  <2> HIDE DEF G, V, n
  <2>2. \A k \in 0 .. n : k = 0 \/ k \in 1 .. n
    BY <1>1
  <2> QED BY <1>4, <2>1, <2>2 DEF Stepped
<1> HIDE DEF V, n, G
<1>7. IsKept(f, s, hop)
  BY <1>6 DEF IsKept, n
<1> QED BY <1>7

(* What is left is in order, and it is all but the packets for the hop. *)
LEMMA OthersOrdered ==
    ASSUME NEW s \in Seq(Pkt), Ordered(s), NEW hop
    PROVE  /\ Others(s, hop) \in Seq(Pkt) /\ Ordered(Others(s, hop))
           /\ Elements(Others(s, hop)) = {a \in Elements(s) : HopOf[a.id] # hop}
           /\ Len(Others(s, hop)) <= Len(s)
<1> DEFINE n == Len(s)
           kept[k \in 0 .. Len(s)] ==
               IF k = 0 THEN <<>>
               ELSE IF HopOf[s[k].id] = hop THEN kept[k-1] ELSE Append(kept[k-1], s[k])
           Among(k) == {s[i] : i \in {j \in 1 .. k : HopOf[s[j].id] # hop}}
           T == {k \in 0 .. n : /\ kept[k] \in Seq(Pkt) /\ Ordered(kept[k])
                                /\ Elements(kept[k]) = Among(k)
                                /\ Len(kept[k]) <= k}
<1>1. n \in Nat
  OBVIOUS
<1>2. Others(s, hop) = kept[n]
  BY DEF Others
<1>3. IsKept(kept, s, hop)
  <2>1. kept = CHOOSE f : IsKept(f, s, hop)
    BY DEF IsKept
  <2>2. IsKept(CHOOSE f : IsKept(f, s, hop), s, hop)
    BY KeptExists
  <2> HIDE DEF kept
  <2> QED BY <2>1, <2>2
<1> HIDE DEF kept
<1>4. /\ kept[0] = <<>>
      /\ \A k \in 1 .. n : kept[k] = IF HopOf[s[k].id] = hop THEN kept[k-1]
                                     ELSE Append(kept[k-1], s[k])
  <2>1. kept = [k \in 0 .. n |->
                   IF k = 0 THEN <<>>
                   ELSE IF HopOf[s[k].id] = hop THEN kept[k-1] ELSE Append(kept[k-1], s[k])]
    BY <1>3 DEF IsKept
  <2>2. 0 \in 0 .. n /\ \A k \in 1 .. n : k \in 0 .. n /\ k # 0
    BY <1>1
  <2>3. kept[0] = <<>>
    BY <2>1, <2>2
  <2> HIDE DEF n
  <2>4. ASSUME NEW k \in 1 .. n
        PROVE  kept[k] = IF HopOf[s[k].id] = hop THEN kept[k-1] ELSE Append(kept[k-1], s[k])
    BY <2>1, <2>2
  <2> QED BY <2>3, <2>4
<1>5. 0 \in T
  <2> DEFINE none == <<>>
  <2>1. none \in Seq(Pkt) /\ Ordered(none) /\ Elements(none) = {} /\ Len(none) = 0
    BY DEF Ordered, Elements
  <2>2. Among(0) = {}
    OBVIOUS
  <2>3. kept[0] = none
    BY <1>4
  <2> HIDE DEF Among, n, none
  <2>4. kept[0] \in Seq(Pkt) /\ Ordered(kept[0]) /\ Elements(kept[0]) = Among(0)
    BY <2>1, <2>2, <2>3
  <2>5. 0 \in 0 .. n /\ Len(kept[0]) <= 0
    BY <1>1, <2>1, <2>3
  <2> QED BY <2>4, <2>5
<1>6. ASSUME NEW k \in 1 .. n, k - 1 \in T PROVE k \in T
  <2> DEFINE t == kept[k - 1]
             p == s[k]
  <2>1. /\ t \in Seq(Pkt) /\ Ordered(t) /\ Elements(t) = Among(k - 1) /\ Len(t) <= k - 1
        /\ Len(t) \in Nat /\ k \in 0 .. n /\ p \in Pkt
    BY <1>6
  <2>2. CASE HopOf[p.id] = hop
    <3>1. kept[k] = t
      BY <1>4, <2>2
    <3>2. Among(k) = Among(k - 1)
      BY <1>1, <2>2
    <3> HIDE DEF Among, t
    <3> QED BY <2>1, <3>1, <3>2
  <2>3. CASE HopOf[p.id] # hop
    <3>1. kept[k] = Append(t, p)
      BY <1>4, <2>3
    <3>2. Among(k) = Among(k - 1) \union {p}
      BY <1>1, <2>3
    <3>3. \A a \in Among(k - 1) : Follows(a, p)
      BY <1>1 DEF Ordered
    <3> HIDE DEF t, p, Among
    <3>4. /\ Append(t, p) \in Seq(Pkt) /\ Ordered(Append(t, p))
          /\ Len(Append(t, p)) = Len(t) + 1
          /\ Elements(Append(t, p)) = Elements(t) \union {p}
      BY <2>1, <3>3, AppendOrdered
    <3>5. Len(kept[k]) <= k
      BY <2>1, <3>1, <3>4
    <3>6. Elements(kept[k]) = Among(k)
      BY <2>1, <3>1, <3>2, <3>4
    <3> QED BY <2>1, <3>1, <3>4, <3>5, <3>6
  <2> QED BY <2>2, <2>3
<1>7. n \in T
  <2> HIDE DEF T, n
  <2>1. \A k \in 0 .. n : k \in T
    BY <1>1, <1>5, <1>6, Climb
  <2> QED BY <1>1, <2>1
<1>8. Among(n) = {a \in Elements(s) : HopOf[a.id] # hop}
  BY DEF Elements
<1> HIDE DEF Among
<1> QED BY <1>2, <1>7, <1>8

-----------------------------------------------------------------------------
(* The parts of the operations.                                             *)

(* An urgent packet that arrives goes in front; the last one may be dropped. *)
LEMMA EnqueHeadOK ==
    ASSUME NEW s \in Seq(Pkt), Ordered(s), NEW p \in Pkt, Urgent(p),
           \A a \in Elements(s) : a.id < p.id, qlim \in Nat
    PROVE  LET e == enqueHead(s, p)
           IN  /\ e.q \in Seq(Pkt) /\ Ordered(e.q)
               /\ Elements(e.q) \union e.drop = Elements(s) \union {p}
               /\ Elements(e.q) \cap e.drop = {}
               /\ Len(e.q) <= Len(s) \/ (Len(e.q) = Len(s) + 1 /\ Len(e.q) < qlim)
               /\ \A a \in e.drop : a # p /\ Urgent(a) => \A b \in Elements(s) : Urgent(b)
<1> DEFINE all == <<p>> \o s
           n == Len(all)
           cut == SubSeq(all, 1, n - 1)
<1>1. \A a \in Elements(s) : Follows(p, a)
  <2>1. \A a \in Elements(s) : a \in Pkt
    BY DEF Elements
  <2> QED BY <2>1, PacketId DEF Follows
<1>2. /\ all \in Seq(Pkt) /\ n = Len(s) + 1 /\ Len(s) \in Nat
      /\ Ordered(all) /\ Elements(all) = Elements(s) \union {p}
  BY <1>1, PushOrdered
<1>3. /\ n >= qlim => enqueHead(s, p) = [q |-> cut, drop |-> {all[n]}]
      /\ ~(n >= qlim) => enqueHead(s, p) = [q |-> all, drop |-> {}]
  BY DEF enqueHead
<1>4. n \in Nat /\ n > 0
  BY <1>2
<1> HIDE DEF all, n
<1>5. /\ cut \in Seq(Pkt) /\ Len(cut) = n - 1
      /\ \A i \in 1 .. n - 1 : cut[i] = all[i]
  <2>1. \A i \in 1 .. n - 1 : all[i] \in Pkt
    BY <1>2, <1>4 DEF n
  <2>2. /\ cut \in Seq(Pkt)
        /\ Len(cut) = IF 1 <= n - 1 THEN n - 1 - 1 + 1 ELSE 0
        /\ \A i \in 1 .. n - 1 - 1 + 1 : cut[i] = all[1 + i - 1]
    BY <1>4, <2>1, SubSeqProperties
  <2> HIDE DEF cut
  <2> QED BY <1>4, <2>2
<1> HIDE DEF cut
<1>6. /\ Ordered(cut) /\ Elements(all) = Elements(cut) \union {all[n]}
      /\ all[n] \notin Elements(cut)
  <2>1. n \in 1 .. Len(all)
    BY <1>4 DEF n
  <2>2. \A j \in 1 .. Len(cut) : cut[j] = IF j < n THEN all[j] ELSE all[j + 1]
    BY <1>4, <1>5
  <2>3. Len(cut) = Len(all) - 1
    BY <1>5 DEF n
  <2> QED BY <1>2, <1>5, <2>1, <2>2, <2>3, WithoutOrdered
<1>7. Urgent(all[n]) => \A b \in Elements(all) : Urgent(b)
  <2> SUFFICES ASSUME Urgent(all[n]), NEW i \in 1 .. n PROVE Urgent(all[i])
    BY DEF Elements, n
  <2>1. CASE i = n
    BY <2>1
  <2>2. CASE i # n
    <3>1. i \in 1 .. Len(all) /\ n \in 1 .. Len(all) /\ i < n
      BY <1>4, <2>2 DEF n
    <3> QED BY <1>2, <3>1 DEF Ordered, Follows
  <2> QED BY <2>1, <2>2
<1>8. CASE n >= qlim
  <2>1. enqueHead(s, p).q = cut /\ enqueHead(s, p).drop = {all[n]}
    BY <1>3, <1>8
  <2> QED BY <1>2, <1>4, <1>5, <1>6, <1>7, <2>1
<1>9. CASE ~(n >= qlim)
  <2>1. enqueHead(s, p).q = all /\ enqueHead(s, p).drop = {}
    BY <1>3, <1>9
  <2>2. Len(all) = n
    BY DEF n
  <2> QED BY <1>2, <1>4, <1>9, <2>1, <2>2
<1> QED BY <1>8, <1>9

(* Another one goes to the end, if it fits. *)
LEMMA EnqueNormalOK ==
    ASSUME NEW s \in Seq(Pkt), Ordered(s), NEW p \in Pkt, ~Urgent(p),
           \A a \in Elements(s) : a.id < p.id
    PROVE  LET e == enque(s, p)
           IN  /\ e.q \in Seq(Pkt) /\ Ordered(e.q)
               /\ Elements(e.q) \union e.drop = Elements(s) \union {p}
               /\ Elements(e.q) \cap e.drop = {}
               /\ Len(e.q) <= Len(s) \/ (~Full(s, p) /\ Len(e.q) = Len(s) + 1)
               /\ ~front => e.drop \subseteq {p}
<1> DEFINE t == Append(s, p)
           kept == enque(s, p).q
           drop == enque(s, p).drop
<1>1. \A a \in Elements(s) : a \in Pkt /\ a.id \in Nat
  BY PacketId DEF Elements
<1>2. p.id \in Nat
  BY PacketId
<1>3. \A a \in Elements(s) : Follows(a, p)
  BY <1>1, <1>2 DEF Follows
<1>4. /\ t \in Seq(Pkt) /\ t # <<>> /\ Ordered(t) /\ Elements(t) = Elements(s) \union {p}
      /\ Len(t) = Len(s) + 1 /\ Len(s) \in Nat
  BY <1>3, AppendOrdered
<1>5. ~Full(s, p) => kept = t /\ drop = {}
  BY DEF enque
<1>6. Full(s, p) /\ front => kept = Tail(t) /\ drop = {Head(t)}
  BY DEF enque
<1>7. Full(s, p) /\ ~front => kept = s /\ drop = {p}
  BY DEF enque
<1> HIDE DEF t, kept, drop
<1>8. CASE ~Full(s, p)
  BY <1>4, <1>5, <1>8 DEF kept, drop
<1>9. CASE Full(s, p) /\ front
  <2>1. kept = Tail(t) /\ drop = {Head(t)}
    BY <1>6, <1>9
  <2>2. /\ kept \in Seq(Pkt) /\ Len(kept) = Len(t) - 1
        /\ Ordered(kept)
        /\ Elements(t) = {Head(t)} \union Elements(kept)
        /\ \A a \in Elements(kept) : Follows(Head(t), a)
    BY <1>4, <2>1, FirstOrdered
  <2>3. Head(t) \notin Elements(kept)
    BY <2>2 DEF Follows
  <2> QED BY <1>4, <1>9, <2>1, <2>2, <2>3 DEF kept, drop
<1>10. CASE Full(s, p) /\ ~front
  <2>1. kept = s /\ drop = {p}
    BY <1>7, <1>10
  <2>2. p \notin Elements(s)
    BY <1>1, <1>2
  <2> QED BY <1>4, <2>1, <2>2 DEF kept, drop
<1> QED BY <1>8, <1>9, <1>10

(* The link gets the head of the queue. *)
LEMMA HandOverOrdered ==
    ASSUME NEW s \in Seq(Pkt), Ordered(s), s # <<>>,
           NEW o \in Seq(Pkt), NormalSorted(o), NormalBefore(Elements(o), Elements(s))
    PROVE  /\ Tail(s) \in Seq(Pkt) /\ Append(o, Head(s)) \in Seq(Pkt)
           /\ Head(s) \in Pkt /\ Len(Tail(s)) = Len(s) - 1
           /\ Ordered(Tail(s)) /\ NormalSorted(Append(o, Head(s)))
           /\ NormalBefore(Elements(Append(o, Head(s))), Elements(Tail(s)))
           /\ Elements(Append(o, Head(s))) = Elements(o) \union {Head(s)}
           /\ Elements(s) = {Head(s)} \union Elements(Tail(s))
           /\ Head(s) \notin Elements(Tail(s))
<1> DEFINE p == Head(s)
           u == Append(o, p)
           m == Len(o)
<1>1. /\ p \in Pkt /\ Tail(s) \in Seq(Pkt) /\ Len(Tail(s)) = Len(s) - 1
      /\ Ordered(Tail(s))
      /\ Elements(s) = {p} \union Elements(Tail(s))
      /\ \A a \in Elements(Tail(s)) : Follows(p, a)
  BY FirstOrdered
<1>2. p \notin Elements(Tail(s))
  BY <1>1 DEF Follows
<1> HIDE DEF p
<1>3. /\ u \in Seq(Pkt) /\ m \in Nat /\ Len(u) = m + 1
      /\ \A i \in 1 .. m : u[i] = o[i]
      /\ u[m + 1] = p
  BY <1>1, AppendProperties
<1>4. \A i \in 1 .. m : o[i] \in Elements(o)
  BY DEF Elements
<1> HIDE DEF u
<1>5. Elements(u) = Elements(o) \union {p}
  <2>1. \A i \in 1 .. Len(u) : u[i] \in Elements(o) \union {p}
    BY <1>3, <1>4
  <2>2. \A i \in 1 .. m : o[i] \in Elements(u)
    BY <1>3 DEF Elements
  <2>3. p \in Elements(u)
    BY <1>3 DEF Elements
  <2> QED BY <2>1, <2>2, <2>3 DEF Elements
<1>6. NormalSorted(u)
  <2> SUFFICES ASSUME NEW i \in 1 .. Len(u), NEW j \in 1 .. Len(u), i < j,
                      ~Urgent(u[i]), ~Urgent(u[j])
               PROVE  u[i].id < u[j].id
    BY DEF NormalSorted
  <2>1. i \in 1 .. m
    BY <1>3
  <2>2. CASE j = m + 1
    BY <1>1, <1>3, <1>4, <2>1, <2>2 DEF NormalBefore
  <2>3. CASE j # m + 1
    <3>1. j \in 1 .. m /\ u[i] = o[i] /\ u[j] = o[j]
      BY <1>3, <2>1, <2>3
    <3> QED BY <2>1, <3>1 DEF NormalSorted
  <2> QED BY <2>2, <2>3
<1>7. NormalBefore(Elements(u), Elements(Tail(s)))
  BY <1>1, <1>5 DEF NormalBefore, Follows
<1> QED BY <1>1, <1>2, <1>3, <1>5, <1>6, <1>7 DEF p, u

(* What SendUnlessBlocked leaves, if s is what waits. *)
LEMMA SendOrdered ==
    ASSUME TypeOK, WorkConserving, NormalSorted(out),
           NEW s \in Seq(Pkt), Ordered(s), NormalBefore(Elements(out), Elements(s)),
           Elements(out) \cap Elements(s) = {}, SendUnlessBlocked(s)
    PROVE  /\ q' \in Seq(Pkt) /\ out' \in Seq(Pkt)
           /\ blocked' \in BOOLEAN /\ wire' \in Seq(Pkt) /\ Len(wire') <= 1
           /\ WorkConserving'
           /\ Ordered(q') /\ NormalSorted(out') /\ NormalBefore(Elements(out'), Elements(q'))
           /\ Elements(out') \union Elements(q') = Elements(out) \union Elements(s)
           /\ Elements(out') \cap Elements(q') = {}
           /\ Len(q') <= Len(s)
<1>1. Len(s) \in Nat
  OBVIOUS
<1>2. CASE blocked \/ s = <<>>
  <2>1. q' = s /\ UNCHANGED <<blocked, wire, out>>
    BY <1>2 DEF SendUnlessBlocked
  <2>2. WorkConserving'
    BY <1>2, <2>1 DEF WorkConserving
  <2> QED BY <1>1, <2>1, <2>2 DEF TypeOK
<1>3. CASE ~(blocked \/ s = <<>>)
  <2>1. /\ q' = Tail(s) /\ blocked' = TRUE /\ wire' = <<Head(s)>>
        /\ out' = Append(out, Head(s))
    BY <1>3 DEF SendUnlessBlocked
  <2>2. /\ Tail(s) \in Seq(Pkt) /\ Append(out, Head(s)) \in Seq(Pkt)
        /\ Head(s) \in Pkt /\ Len(Tail(s)) = Len(s) - 1
        /\ Ordered(Tail(s)) /\ NormalSorted(Append(out, Head(s)))
        /\ NormalBefore(Elements(Append(out, Head(s))), Elements(Tail(s)))
        /\ Elements(Append(out, Head(s))) = Elements(out) \union {Head(s)}
        /\ Elements(s) = {Head(s)} \union Elements(Tail(s))
        /\ Head(s) \notin Elements(Tail(s))
    BY <1>3, HandOverOrdered DEF TypeOK
  <2>3. WorkConserving' /\ wire' \in Seq(Pkt) /\ Len(wire') <= 1
    BY <2>1, <2>2 DEF WorkConserving
  <2>4. /\ Elements(out') \union Elements(q') = Elements(out) \union Elements(s)
        /\ Elements(out') \cap Elements(q') = {}
    BY <2>1, <2>2
  <2> QED BY <1>1, <2>1, <2>2, <2>3, <2>4
<1> QED BY <1>2, <1>3

-----------------------------------------------------------------------------
(* The invariant.                                                           *)

LEMMA InitPInv == PriInit => PInv
<1> SUFFICES ASSUME PriInit PROVE PInv
  OBVIOUS
<1>1. DInv /\ taken = {}
  BY InitDInv DEF PriInit
<1>2. lost \union taken = lost /\ lost \cap taken = {}
  BY <1>1
<1>3. q = <<>> /\ out = <<>> /\ Elements(q) = {}
  BY NoElements DEF PriInit, Init
<1>4. Ordered(q) /\ NormalSorted(out) /\ NormalBefore(Elements(out), Elements(q))
  BY <1>3 DEF Ordered, NormalSorted, NormalBefore
<1> QED BY <1>1, <1>2, <1>4 DEF DInv, PInv

(* A packet arrives: kept and drop are what its enqueueing makes of the queue. *)
LEMMA ArrivalPInv ==
    ASSUME PInv, NEW p \in Pkt, Arrival(p), NEW kept \in Seq(Pkt), NEW drop,
           Ordered(kept), Elements(kept) \union drop = Elements(q) \union {p},
           Elements(kept) \cap drop = {},
           SendUnlessBlocked(kept), dropped' = dropped \union drop,
           UNCHANGED <<config, lost, taken>>
    PROVE  /\ PInv' /\ Len(q') <= Len(kept)
           /\ Elements(out') \union Elements(q') = Elements(out) \union Elements(kept)
<1> DEFINE gone == lost \union taken
<1>1. /\ TypeOK /\ WorkConserving /\ taken \subseteq Pkt
      /\ NormalSorted(out) /\ NormalBefore(Elements(out), Elements(q))
      /\ Apart(arrived, Elements(q), Elements(out), dropped, gone)
      /\ lost \cap taken = {} /\ arrived \in Nat
  BY SizesAssumption DEF PInv, TypeOK
<1>2. arrived < MaxArrivals /\ p.id = arrived + 1 /\ arrived' = arrived + 1
  BY DEF Arrival
<1>3. /\ \A a \in Elements(out) \union Elements(q) \union dropped : a.id \in 1 .. arrived
      /\ Elements(out) \cap Elements(q) = {}
  BY <1>1 DEF Apart, Ids
<1>4. \A a \in Elements(out) \union Elements(q) \union dropped : a.id < p.id /\ a # p
  BY <1>1, <1>2, <1>3
<1>5. NormalBefore(Elements(out), Elements(kept)) /\ Elements(out) \cap Elements(kept) = {}
  BY <1>1, <1>3, <1>4 DEF NormalBefore
<1>6. /\ q' \in Seq(Pkt) /\ out' \in Seq(Pkt)
      /\ blocked' \in BOOLEAN /\ wire' \in Seq(Pkt) /\ Len(wire') <= 1
      /\ WorkConserving'
      /\ Ordered(q') /\ NormalSorted(out') /\ NormalBefore(Elements(out'), Elements(q'))
      /\ Elements(out') \union Elements(q') = Elements(out) \union Elements(kept)
      /\ Elements(out') \cap Elements(q') = {}
      /\ Len(q') <= Len(kept)
  BY <1>1, <1>5, SendOrdered
<1>7. TypeOK' /\ taken' \subseteq Pkt
  <2>1. Elements(q) \subseteq Pkt
    BY <1>1 DEF TypeOK, Elements
  <2>2. dropped' \subseteq Pkt /\ lost' \subseteq Pkt /\ taken' \subseteq Pkt
    BY <1>1, <2>1 DEF TypeOK
  <2>3. arrived' \in 0 .. MaxArrivals
    BY <1>1, <1>2, SizesAssumption
  <2> QED BY <1>1, <1>6, <2>2, <2>3 DEF TypeOK, config
<1>8. Apart(arrived', Elements(q'), Elements(out'), dropped', (lost \union taken)')
  <2>1. /\ Elements(q') \cap dropped' = {} /\ Elements(out') \cap dropped' = {}
        /\ Elements(q') \union Elements(out') \union dropped'
             = Elements(q) \union Elements(out) \union dropped \union {p}
    BY <1>1, <1>4, <1>6 DEF Apart
  <2>2. Apart(arrived + 1, Elements(q'), Elements(out'), dropped', gone)
    BY <1>1, <1>2, <1>6, <2>1, ApartJoins
  <2> QED BY <1>2, <2>2
<1>9. (lost \cap taken = {})'
  BY <1>1
<1> QED BY <1>6, <1>7, <1>8, <1>9 DEF PInv

(* What the arrival of a packet does to the queue and drops. *)
Arrived(p) ==
    /\ arrived' = arrived + 1 /\ p.id = arrived'
    /\ p \in Elements(q') \union Elements(out') \union dropped'
    /\ Urgent(p) => /\ Len(q') > Len(q) => Len(q') < qlim
                    /\ \A a \in dropped' \ dropped :
                          a # p /\ Urgent(a) => \A b \in Elements(q) : Urgent(b)
    /\ ~Urgent(p) => /\ Len(q') > Len(q) /\ ~qib => Len(q') < qlim
                     /\ ~front => dropped' \ dropped \subseteq {p}

LEMMA recvPInv == ASSUME PInv, NEW p \in Pkt, PriRecv(p) PROVE PInv' /\ Arrived(p)
<1>1. /\ Ordered(q) /\ q \in Seq(Pkt) /\ arrived \in Nat /\ qlim \in Nat /\ Len(q) \in Nat
      /\ Apart(arrived, Elements(q), Elements(out), dropped, lost \union taken)
  BY SizesAssumption, LimitsAssumption DEF PInv, TypeOK
<1>2. Arrival(p) /\ arrived' = arrived + 1 /\ p.id = arrived'
  BY DEF PriRecv, recvHighPriority, recvNormal, recv, Arrival
<1>3. \A a \in Elements(q) : a.id < p.id
  <2>1. \A a \in Elements(q) : a.id \in 1 .. arrived
    BY <1>1 DEF Apart, Ids
  <2> QED BY <1>1, <1>2, <2>1
<1>4. CASE Urgent(p)
  <2> DEFINE kept == enqueHead(q, p).q
             drop == enqueHead(q, p).drop
  <2>1. /\ SendUnlessBlocked(kept) /\ dropped' = dropped \union drop
        /\ UNCHANGED <<config, lost, taken>>
    BY <1>4 DEF PriRecv, recvHighPriority
  <2>2. /\ kept \in Seq(Pkt) /\ Ordered(kept)
        /\ Elements(kept) \union drop = Elements(q) \union {p}
        /\ Elements(kept) \cap drop = {}
        /\ Len(kept) <= Len(q) \/ (Len(kept) = Len(q) + 1 /\ Len(kept) < qlim)
        /\ \A a \in drop : a # p /\ Urgent(a) => \A b \in Elements(q) : Urgent(b)
    BY <1>1, <1>3, <1>4, EnqueHeadOK
  <2> HIDE DEF kept, drop
  <2>3. /\ PInv' /\ Len(q') <= Len(kept)
        /\ Elements(out') \union Elements(q') = Elements(out) \union Elements(kept)
    BY <1>2, <2>1, <2>2, ArrivalPInv
  <2>4. p \in Elements(q') \union Elements(out') \union dropped'
    BY <2>1, <2>2, <2>3
  <2>5. Len(q') > Len(q) => Len(q') < qlim
    <3>1. Len(q') \in Nat /\ Len(kept) \in Nat
      BY <2>2, <2>3 DEF PInv, TypeOK
    <3> QED BY <1>1, <2>2, <2>3, <3>1
  <2>6. \A a \in dropped' \ dropped :
          a # p /\ Urgent(a) => \A b \in Elements(q) : Urgent(b)
    BY <2>1, <2>2
  <2> QED BY <1>2, <1>4, <2>3, <2>4, <2>5, <2>6 DEF Arrived
<1>5. CASE ~Urgent(p)
  <2> DEFINE kept == enque(q, p).q
             drop == enque(q, p).drop
  <2>1. /\ SendUnlessBlocked(kept) /\ dropped' = dropped \union drop
        /\ UNCHANGED <<config, lost, taken>>
    BY <1>5 DEF PriRecv, recvNormal, recv
  <2>2. /\ kept \in Seq(Pkt) /\ Ordered(kept)
        /\ Elements(kept) \union drop = Elements(q) \union {p}
        /\ Elements(kept) \cap drop = {}
        /\ Len(kept) <= Len(q) \/ (~Full(q, p) /\ Len(kept) = Len(q) + 1)
        /\ ~front => drop \subseteq {p}
    BY <1>1, <1>3, <1>5, EnqueNormalOK
  <2> HIDE DEF kept, drop
  <2>3. /\ PInv' /\ Len(q') <= Len(kept)
        /\ Elements(out') \union Elements(q') = Elements(out) \union Elements(kept)
    BY <1>2, <2>1, <2>2, ArrivalPInv
  <2>4. p \in Elements(q') \union Elements(out') \union dropped'
    BY <2>1, <2>2, <2>3
  <2>5. Len(q') > Len(q) /\ ~qib => Len(q') < qlim
    <3>1. Len(q') \in Nat /\ Len(kept) \in Nat
      BY <2>2, <2>3 DEF PInv, TypeOK
    <3>2. ~qib /\ ~Full(q, p) => Len(q) + 1 < qlim
      BY <1>1 DEF Full
    <3> QED BY <1>1, <2>2, <2>3, <3>1, <3>2
  <2>6. ~front => dropped' \ dropped \subseteq {p}
    BY <2>1, <2>2
  <2> QED BY <1>2, <1>5, <2>3, <2>4, <2>5, <2>6 DEF Arrived
<1> QED BY <1>4, <1>5

(* The packet with the last number is the one that arrived. *)
LEMMA WhoArrives ==
    ASSUME PInv, NEW p \in Pkt, PriRecv(p), UrgentArrives
    PROVE  Urgent(p)
<1>1. PInv' /\ Arrived(p)
  BY recvPInv
<1> DEFINE S == Elements(q') \union Elements(out') \union dropped'
<1>2. \A a, b \in S : a.id = b.id => a = b
  BY <1>1 DEF PInv, Apart, DistinctIds
<1>3. PICK a \in S : a.id = arrived' /\ Urgent(a)
  BY DEF UrgentArrives
<1>4. p \in S /\ p.id = arrived'
  BY <1>1 DEF Arrived
<1> QED BY <1>2, <1>3, <1>4

LEMMA resumePInv == PInv /\ resume /\ UNCHANGED taken => PInv' /\ Len(q') <= Len(q)
<1> SUFFICES ASSUME PInv, resume, UNCHANGED taken PROVE PInv' /\ Len(q') <= Len(q)
  OBVIOUS
<1> DEFINE gone == lost \union taken
<1>1. /\ TypeOK /\ WorkConserving /\ taken \subseteq Pkt /\ q \in Seq(Pkt) /\ Len(q) \in Nat
      /\ Ordered(q) /\ NormalSorted(out) /\ NormalBefore(Elements(out), Elements(q))
      /\ Apart(arrived, Elements(q), Elements(out), dropped, gone)
      /\ lost \cap taken = {}
  BY DEF PInv, TypeOK
<1>2. wire # <<>> /\ UNCHANGED <<config, arrived, dropped, lost>>
  BY DEF resume
<1>3. CASE q = <<>>
  <2>1. wire' = <<>> /\ blocked' = FALSE /\ UNCHANGED <<q, out>>
    BY <1>3 DEF resume
  <2>2. TypeOK'
    <3>1. <<>> \in Seq(Pkt) /\ Len(<<>>) <= 1
      OBVIOUS
    <3> QED BY <1>1, <1>2, <2>1, <3>1 DEF TypeOK, config
  <2>3. WorkConserving'
    BY <1>3, <2>1 DEF WorkConserving
  <2> QED BY <1>1, <1>2, <2>1, <2>2, <2>3 DEF PInv
<1>4. CASE q # <<>>
  <2>1. /\ q' = Tail(q) /\ wire' = <<Head(q)>> /\ out' = Append(out, Head(q))
        /\ blocked' = blocked
    BY <1>4 DEF resume
  <2>2. /\ q' \in Seq(Pkt) /\ out' \in Seq(Pkt) /\ Head(q) \in Pkt /\ Len(q') = Len(q) - 1
        /\ Ordered(q') /\ NormalSorted(out') /\ NormalBefore(Elements(out'), Elements(q'))
        /\ Elements(out') = Elements(out) \union {Head(q)}
        /\ Elements(q) = {Head(q)} \union Elements(q')
        /\ Head(q) \notin Elements(q')
    BY <1>1, <1>4, <2>1, HandOverOrdered DEF TypeOK
  <2>3. TypeOK' /\ WorkConserving'
    BY <1>1, <1>2, <1>4, <2>1, <2>2 DEF TypeOK, WorkConserving, config
  <2>4. Apart(arrived', Elements(q'), Elements(out'), dropped', (lost \union taken)')
    <3>1. /\ Elements(q') \cap Elements(out') = {}
          /\ Elements(q') \cap dropped = {} /\ Elements(q') \cap gone = {}
          /\ Elements(out') \cap dropped = {} /\ Elements(out') \cap gone = {}
          /\ dropped \cap gone = {}
          /\ Elements(q') \union Elements(out') \union dropped \union gone
               = Elements(q) \union Elements(out) \union dropped \union gone
      <4> HIDE DEF gone
      <4> QED BY <1>1, <2>2 DEF Apart
    <3>2. Apart(arrived, Elements(q'), Elements(out'), dropped, gone)
      <4> HIDE DEF gone
      <4> QED BY <1>1, <3>1, ApartMoves
    <3> QED BY <1>2, <3>2
  <2> QED BY <1>1, <1>2, <2>2, <2>3, <2>4 DEF PInv
<1> QED BY <1>3, <1>4

(* The other operations leave the link alone and keep a part of what waits. *)
LEMMA PartPInv ==
    ASSUME PInv, q' \in Seq(Pkt), Ordered(q'), Elements(q') \subseteq Elements(q),
           Len(q') <= Len(q), UNCHANGED <<config, blocked, wire, arrived, out>>,
           \/ /\ dropped' = dropped \union (Elements(q) \ Elements(q'))
              /\ lost' = lost /\ taken' = taken
           \/ /\ lost' = lost \union (Elements(q) \ Elements(q'))
              /\ dropped' = dropped /\ taken' = taken
           \/ /\ taken' = taken \union (Elements(q) \ Elements(q'))
              /\ dropped' = dropped /\ lost' = lost
    PROVE  PInv'
<1> DEFINE gone == lost \union taken
<1>1. /\ TypeOK /\ WorkConserving /\ taken \subseteq Pkt
      /\ NormalSorted(out) /\ NormalBefore(Elements(out), Elements(q))
      /\ Apart(arrived, Elements(q), Elements(out), dropped, gone)
      /\ lost \cap taken = {}
  BY DEF PInv
<1>2. Elements(q) \subseteq Pkt
  BY <1>1 DEF TypeOK, Elements
<1>3. TypeOK' /\ taken' \subseteq Pkt
  BY <1>1, <1>2 DEF TypeOK, config
<1>4. WorkConserving'
  <2>1. q' # <<>> => q # <<>>
    BY <1>1, EmptySeq DEF TypeOK
  <2> QED BY <1>1, <2>1 DEF WorkConserving
<1>5. NormalBefore(Elements(out'), Elements(q')) /\ NormalSorted(out')
  BY <1>1 DEF NormalBefore
<1>6. Apart(arrived', Elements(q'), Elements(out'), dropped', (lost \union taken)')
  <2>1. out' = out /\ arrived' = arrived
    OBVIOUS
  <2>2. /\ Elements(q') \cap Elements(out) = {}
        /\ Elements(q') \cap dropped' = {} /\ Elements(q') \cap (lost \union taken)' = {}
        /\ Elements(out) \cap dropped' = {} /\ Elements(out) \cap (lost \union taken)' = {}
        /\ dropped' \cap (lost \union taken)' = {}
        /\ Elements(q') \union Elements(out) \union dropped' \union (lost \union taken)'
             = Elements(q) \union Elements(out) \union dropped \union gone
    BY <1>1 DEF Apart
  <2> DEFINE gone1 == lost' \union taken'
  <2>3. Apart(arrived, Elements(q'), Elements(out), dropped', gone1)
    <3>1. /\ Elements(q') \cap Elements(out) = {}
          /\ Elements(q') \cap dropped' = {} /\ Elements(q') \cap gone1 = {}
          /\ Elements(out) \cap dropped' = {} /\ Elements(out) \cap gone1 = {}
          /\ dropped' \cap gone1 = {}
          /\ Elements(q') \union Elements(out) \union dropped' \union gone1
               = Elements(q) \union Elements(out) \union dropped \union gone
      BY <2>2
    <3> HIDE DEF gone, gone1
    <3> QED BY <1>1, <3>1, ApartMoves
  <2> QED BY <2>1, <2>3
<1>7. (lost \cap taken = {})'
  BY <1>1 DEF Apart
<1> QED BY <1>3, <1>4, <1>5, <1>6, <1>7 DEF PInv

LEMMA shrinkPInv == PInv /\ shrink_queue /\ UNCHANGED taken => PInv' /\ Len(q') <= Len(q)
<1> SUFFICES ASSUME PInv, shrink_queue, UNCHANGED taken PROVE PInv' /\ Len(q') <= Len(q)
  OBVIOUS
<1>1. Ordered(q) /\ q \in Seq(Pkt) /\ Len(q) \in Nat
  BY DEF PInv, TypeOK
<1>2. PICK k \in 0 .. Len(q) :
        /\ q' = Kept(q, k)
        /\ dropped' = dropped \union (Elements(q) \ Elements(q'))
        /\ UNCHANGED <<config, blocked, wire, arrived, out, lost>>
  BY DEF shrink_queue
<1>3. /\ q' \in Seq(Pkt) /\ Len(q') = k /\ Ordered(q')
      /\ Elements(q') \subseteq Elements(q)
  BY <1>1, <1>2, KeptOrdered
<1> QED BY <1>1, <1>2, <1>3, PartPInv

LEMMA clearPInv ==
    ASSUME PInv, packetqueue_attach \/ reset, UNCHANGED taken
    PROVE  PInv' /\ Len(q') <= Len(q)
<1>1. q \in Seq(Pkt) /\ Len(q) \in Nat
  BY DEF PInv, TypeOK
<1>2. q' = <<>> /\ UNCHANGED <<config, blocked, wire, arrived, out>>
  BY DEF packetqueue_attach, reset
<1>3. q' \in Seq(Pkt) /\ Ordered(q') /\ Elements(q') = {} /\ Len(q') = 0
  BY <1>2, NoElements DEF Ordered
<1>4. \/ dropped' = dropped \union (Elements(q) \ Elements(q')) /\ lost' = lost
      \/ lost' = lost \union (Elements(q) \ Elements(q')) /\ dropped' = dropped
  BY <1>3 DEF packetqueue_attach, reset
<1> QED BY <1>1, <1>2, <1>3, <1>4, PartPInv

LEMMA filterPInv ==
    ASSUME PInv, NEW hop, filter(hop) PROVE PInv' /\ Len(q') <= Len(q)
<1>1. Ordered(q) /\ q \in Seq(Pkt) /\ Len(q) \in Nat
  BY DEF PInv, TypeOK
<1>2. PICK i \in 1 .. Len(q) :
        /\ q' = SubSeq(q, 1, i - 1) \o SubSeq(q, i + 1, Len(q))
        /\ taken' = taken \union {q[i]}
  BY DEF filter
<1>3. UNCHANGED <<config, blocked, wire, arrived, out, dropped, lost>>
  BY DEF filter, history
<1> DEFINE a == SubSeq(q, 1, i - 1)
           b == SubSeq(q, i + 1, Len(q))
<1>4. /\ a \in Seq(Pkt) /\ Len(a) = i - 1
      /\ \A j \in 1 .. i - 1 : a[j] = q[j]
  <2>1. \A j \in 1 .. i - 1 : q[j] \in Pkt
    BY <1>1
  <2>2. /\ a \in Seq(Pkt)
        /\ Len(a) = IF 1 <= i - 1 THEN i - 1 - 1 + 1 ELSE 0
        /\ \A j \in 1 .. i - 1 - 1 + 1 : a[j] = q[1 + j - 1]
    BY <2>1, SubSeqProperties
  <2> HIDE DEF a
  <2> QED BY <2>2
<1>5. /\ b \in Seq(Pkt) /\ Len(b) = Len(q) - i
      /\ \A j \in 1 .. Len(q) - i : b[j] = q[i + j]
  <2>1. \A j \in i + 1 .. Len(q) : q[j] \in Pkt
    BY <1>1
  <2>2. /\ b \in Seq(Pkt)
        /\ Len(b) = IF i + 1 <= Len(q) THEN Len(q) - (i + 1) + 1 ELSE 0
        /\ \A j \in 1 .. Len(q) - (i + 1) + 1 : b[j] = q[i + 1 + j - 1]
    BY <1>1, <2>1, SubSeqProperties
  <2> HIDE DEF b
  <2>3. Len(q) - (i + 1) + 1 = Len(q) - i /\ \A j \in Int : i + 1 + j - 1 = i + j
    BY <1>1
  <2>4. \A j \in 1 .. Len(q) - i : b[j] = q[i + 1 + j - 1]
    BY <2>2, <2>3
  <2>5. \A j \in 1 .. Len(q) - i : b[j] = q[i + j]
    BY <2>3, <2>4
  <2>6. Len(b) = Len(q) - i
    BY <1>1, <2>2
  <2> QED BY <2>2, <2>5, <2>6
<1> HIDE DEF a, b
<1>6. /\ q' \in Seq(Pkt) /\ Len(q') = Len(q) - 1
      /\ \A j \in 1 .. Len(q') : q'[j] = IF j < i THEN q[j] ELSE q[j + 1]
  <2>1. /\ q' \in Seq(Pkt) /\ Len(q') = Len(a) + Len(b)
        /\ \A j \in 1 .. Len(a) + Len(b) : q'[j] = IF j <= Len(a) THEN a[j] ELSE b[j - Len(a)]
    BY <1>2, <1>4, <1>5, ConcatProperties DEF a, b
  <2>2. Len(q') = Len(q) - 1
    BY <1>1, <1>4, <1>5, <2>1
  <2>3. ASSUME NEW j \in 1 .. Len(q') PROVE q'[j] = IF j < i THEN q[j] ELSE q[j + 1]
    <3>1. q'[j] = IF j <= i - 1 THEN a[j] ELSE b[j - (i - 1)]
      BY <1>1, <1>4, <1>5, <2>1, <2>2
    <3>2. CASE j < i
      BY <1>4, <3>1, <3>2
    <3>3. CASE ~(j < i)
      <4> DEFINE k == j - (i - 1)
      <4>1. k \in 1 .. Len(q) - i /\ i + k = j + 1 /\ ~(j <= i - 1)
        BY <1>1, <2>2, <3>3
      <4>2. q'[j] = b[k]
        BY <3>1, <4>1
      <4> HIDE DEF k
      <4>3. b[k] = q[i + k]
        BY <1>5, <4>1
      <4> QED BY <3>3, <4>1, <4>2, <4>3
    <3> QED BY <3>2, <3>3
  <2> QED BY <2>1, <2>2, <2>3
<1>7. /\ Ordered(q') /\ Elements(q) = Elements(q') \union {q[i]}
      /\ q[i] \notin Elements(q')
  BY <1>1, <1>6, WithoutOrdered
<1>8. taken' = taken \union (Elements(q) \ Elements(q'))
  BY <1>2, <1>7
<1> QED BY <1>1, <1>3, <1>6, <1>7, <1>8, PartPInv

LEMMA filterAllPInv ==
    ASSUME PInv, NEW hop, filterAll(hop) PROVE PInv' /\ Len(q') <= Len(q)
<1>1. Ordered(q) /\ q \in Seq(Pkt)
  BY DEF PInv, TypeOK
<1>2. /\ q' = Others(q, hop)
      /\ taken' = taken \union (Elements(q) \ Elements(q'))
      /\ UNCHANGED <<config, blocked, wire, arrived, out, dropped, lost>>
  BY DEF filterAll, history
<1>3. /\ q' \in Seq(Pkt) /\ Ordered(q') /\ Elements(q') \subseteq Elements(q)
      /\ Len(q') <= Len(q)
  BY <1>1, <1>2, OthersOrdered
<1> QED BY <1>2, <1>3, PartPInv

(* Everything but an arrival, which makes the queue no longer. *)
LEMMA RestPInv ==
    ASSUME PInv, [PriNext]_priVars, \A p \in Pkt : ~PriRecv(p)
    PROVE  PInv' /\ Len(q') <= Len(q) /\ arrived' = arrived
<1>0. arrived' = arrived
  BY DEF PriNext, resume, Configure, shrink_queue, packetqueue_attach, Terminate, reset,
         filter, filterAll, priVars, vars, history
<1>1. Len(q) \in Nat
  BY DEF PInv, TypeOK
<1>2. CASE resume /\ UNCHANGED taken
  BY <1>0, <1>2, resumePInv
<1>3. CASE Configure /\ UNCHANGED taken
  <2>1. /\ qlim' \in Limits /\ qib' \in InBytes /\ front' \in DropFront
        /\ UNCHANGED <<q, blocked, wire, arrived, out, dropped, lost>>
    BY <1>3 DEF Configure, history
  <2>2. TypeOK' /\ WorkConserving'
    BY <2>1 DEF PInv, TypeOK, WorkConserving
  <2> QED BY <1>1, <1>3, <2>1, <2>2 DEF PInv
<1>4. CASE shrink_queue /\ UNCHANGED taken
  BY <1>0, <1>4, shrinkPInv
<1>5. CASE (packetqueue_attach \/ reset) /\ UNCHANGED taken
  BY <1>0, <1>5, clearPInv
<1>6. ASSUME NEW hop \in Hop, filter(hop) \/ filterAll(hop)
      PROVE  PInv' /\ Len(q') <= Len(q)
  BY <1>6, filterPInv, filterAllPInv
<1>7. CASE UNCHANGED priVars
  <2>1. UNCHANGED <<qlim, qib, front, q, blocked, wire, arrived, out, dropped, lost, taken>>
    BY <1>7 DEF priVars, vars, config, history
  <2>2. TypeOK' /\ WorkConserving'
    BY <2>1 DEF PInv, TypeOK, WorkConserving
  <2> QED BY <1>1, <2>1, <2>2 DEF PInv
<1> QED BY <1>0, <1>2, <1>3, <1>4, <1>5, <1>6, <1>7 DEF PriNext, Terminate

LEMMA PriNextPInv == PInv /\ [PriNext]_priVars => PInv'
BY recvPInv, RestPInv

LEMMA PInvHolds == PriSpec => []PInv
<1> QED BY InitPInv, PriNextPInv, PTL DEF PriSpec

-----------------------------------------------------------------------------
LEMMA AppendFive ==
    ASSUME NEW S, NEW a \in S, NEW b \in S, NEW c \in S, NEW d \in S, NEW e \in S
    PROVE  Append(<<a, b, c, d>>, e) = <<a, b, c, d, e>>
<1> DEFINE four == <<a, b, c, d>>
           five == <<a, b, c, d, e>>
           s    == Append(four, e)
<1>1. four \in Seq(S) /\ Len(four) = 4 /\ five \in Seq(S) /\ Len(five) = 5
  OBVIOUS
<1>2. \A k \in 1 .. 4 : five[k] = four[k]
  OBVIOUS
<1>3. five[5] = e
  OBVIOUS
<1> HIDE DEF four, five
<1>4. /\ s \in Seq(S) /\ Len(s) = Len(four) + 1
      /\ \A k \in 1 .. Len(four) : s[k] = four[k]
      /\ s[Len(four) + 1] = e
  <2>1. four \in Seq(S)
    BY <1>1
  <2>2. s \in Seq(S)
    BY <2>1, AppendProperties
  <2>3. Len(s) = Len(four) + 1
    BY <2>1, AppendProperties
  <2>4. \A k \in 1 .. Len(four) : s[k] = four[k]
    BY <2>1, AppendProperties
  <2>5. s[Len(four) + 1] = e
    BY <2>1, AppendProperties
  <2> QED BY <2>2, <2>3, <2>4, <2>5
<1> HIDE DEF s
<1>5. Len(s) = 5 /\ \A k \in 1 .. 5 : s[k] = five[k]
  BY <1>1, <1>2, <1>3, <1>4
<1>6. s = five
  BY <1>1, <1>4, <1>5, SeqEqual
<1> QED BY <1>6 DEF s, four, five

(* The five places, as the property names them.  *)
LEMMA FiveApart ==
    ASSUME NEW n, NEW A, NEW B, NEW C, NEW D, NEW E, Apart(n, A, B, C, D \union E),
           D \cap E = {}
    PROVE  /\ UNION {Ids(<<A, B, C, D, E>>[k]) : k \in 1 .. 5} = 1 .. n
           /\ \A j, k \in 1 .. 5 :
                j # k => Ids(<<A, B, C, D, E>>[j]) \cap Ids(<<A, B, C, D, E>>[k]) = {}
<1> DEFINE P == <<A, B, C, D, E>>
           S == A \union B \union C \union (D \union E)
<1>1. DistinctIds(S) /\ Ids(S) = 1 .. n
  BY DEF Apart
<1>2. P[1] = A /\ P[2] = B /\ P[3] = C /\ P[4] = D /\ P[5] = E
  OBVIOUS
<1>3. \A k \in 1 .. 5 : k = 1 \/ k = 2 \/ k = 3 \/ k = 4 \/ k = 5
  OBVIOUS
<1> HIDE DEF P
<1>4. \A j, k \in 1 .. 5 : j # k => P[j] \cap P[k] = {}
  BY <1>2, <1>3 DEF Apart
<1>5. \A k \in 1 .. 5 : P[k] \subseteq S
  BY <1>2, <1>3
<1>6. \A a \in S : \E k \in 1 .. 5 : a \in P[k]
  BY <1>2
<1> HIDE DEF S
<1>7. \A j, k \in 1 .. 5 : j # k => Ids(P[j]) \cap Ids(P[k]) = {}
  <2> SUFFICES ASSUME NEW j \in 1 .. 5, NEW k \in 1 .. 5, j # k,
                      NEW a \in P[j], NEW b \in P[k], a.id = b.id
               PROVE  FALSE
    BY DEF Ids
  <2> QED BY <1>1, <1>4, <1>5 DEF DistinctIds
<1>8. UNION {Ids(P[k]) : k \in 1 .. 5} = Ids(S)
  BY <1>5, <1>6 DEF Ids
<1> QED BY <1>1, <1>7, <1>8 DEF P

(* recv, filter, shrink-queue, packetqueue-attach, Terminate and the link
   account for every packet of the interface queue exactly once.            *)
THEOREM PriQueueAccounts == PriSpec => []PriAccounted
<1>1. PInv => PriAccounted
  <2> SUFFICES ASSUME PInv PROVE PriAccounted
    OBVIOUS
  <2>1. PriPlaces = <<Elements(q), Elements(out), dropped, lost, taken>>
    <3> DEFINE All == SUBSET Pkt
    <3>1. /\ Elements(q) \in All /\ Elements(out) \in All
          /\ dropped \in All /\ lost \in All /\ taken \in All
      BY DEF PInv, TypeOK, Elements
    <3> HIDE DEF All
    <3> QED BY <3>1, AppendFive DEF PriPlaces, Places
  <2> QED BY <2>1, FiveApart DEF PInv, PriAccounted
<1> QED BY <1>1, PInvHolds, PTL

(* An urgent arrival starts an idle link as any other does, and no packet waits
   at one, whatever filters and reconfigurations do.                        *)
THEOREM PriQueueConservesWork == PriSpec => []WorkConserving
<1>1. PInv => WorkConserving
  BY DEF PInv
<1> QED BY <1>1, PInvHolds, PTL

(* No backward ant or routing packet ever waits behind another packet, whatever
   is dropped or filtered out between them.                                 *)
THEOREM PriQueueKeepsUrgentAhead == PriSpec => []UrgentAhead
<1>1. PInv => UrgentAhead
  BY DEF PInv, UrgentAhead, Ordered, Follows
<1> QED BY <1>1, PInvHolds, PTL

(* The packets that are not urgent leave in the order they came. *)
THEOREM PriQueueNormalInOrder == PriSpec => []NormalInOrder
<1>1. PInv => NormalInOrder
  <2> SUFFICES ASSUME PInv PROVE NormalInOrder
    OBVIOUS
  <2> DEFINE s == out \o q
             m == Len(out)
  <2>1. out \in Seq(Pkt) /\ q \in Seq(Pkt) /\ NormalSorted(out) /\ Ordered(q)
        /\ NormalBefore(Elements(out), Elements(q))
    BY DEF PInv, TypeOK
  <2>2. /\ m \in Nat /\ Len(q) \in Nat /\ Len(s) = m + Len(q)
        /\ \A i \in 1 .. Len(s) : s[i] = IF i <= m THEN out[i] ELSE q[i - m]
    BY <2>1, ConcatProperties
  <2>3. \A i \in 1 .. Len(q) : q[i] \in Elements(q)
    BY DEF Elements
  <2>4. \A i \in 1 .. m : out[i] \in Elements(out)
    BY DEF Elements
  <2> SUFFICES ASSUME NEW i \in 1 .. Len(s), NEW j \in 1 .. Len(s), i < j,
                      ~Urgent(s[i]), ~Urgent(s[j])
               PROVE  s[i].id < s[j].id
    BY DEF NormalInOrder
  <2> HIDE DEF s
  <2>5. CASE j <= m
    <3>1. i \in 1 .. m /\ j \in 1 .. m /\ s[i] = out[i] /\ s[j] = out[j]
      BY <2>2, <2>5
    <3> QED BY <2>1, <3>1 DEF NormalSorted
  <2>6. CASE i <= m /\ m < j
    <3>1. s[i] = out[i] /\ s[j] = q[j - m] /\ i \in 1 .. m /\ j - m \in 1 .. Len(q)
      BY <2>2, <2>6
    <3> QED BY <2>1, <2>3, <2>4, <3>1 DEF NormalBefore
  <2>7. CASE m < i
    <3>1. /\ s[i] = q[i - m] /\ s[j] = q[j - m] /\ i - m < j - m
          /\ i - m \in 1 .. Len(q) /\ j - m \in 1 .. Len(q)
      BY <2>2, <2>7
    <3> QED BY <2>1, <3>1 DEF Ordered, Follows
  <2> QED BY <2>2, <2>5, <2>6, <2>7
<1> QED BY <1>1, PInvHolds, PTL

(* recvHighPriority gives up a backward ant or routing packet that waits only
   when no other packet is there to give up; and a packet that is not urgent
   never costs one its place, unless drop_front_ is set.                    *)
THEOREM PriQueueEvictsNormal == PriSpec => UrgentEvictsNormal
<1> DEFINE Unfair(p) == /\ arrived' > arrived /\ p.id # arrived' /\ Urgent(p)
                        /\ UrgentArrives \/ ~front
           AllUrgent == \A i \in 1 .. Len(q) : Urgent(q[i])
           Fair == \A p \in dropped' \ dropped :
                      (arrived' > arrived /\ p.id # arrived' /\ Urgent(p)
                       /\ (UrgentArrives \/ ~front)) => \A i \in 1 .. Len(q) : Urgent(q[i])
<1>1. ASSUME PInv, [PriNext]_priVars PROVE Fair
  <2>1. CASE \A p \in Pkt : ~PriRecv(p)
    <3>1. arrived' = arrived /\ arrived \in Nat
      BY <1>1, <2>1, RestPInv, SizesAssumption DEF PInv, TypeOK
    <3>2. ~(arrived' > arrived)
      BY <3>1
    <3> QED BY <3>2
  <2>2. ASSUME NEW p \in Pkt, PriRecv(p), NEW a \in dropped' \ dropped, Unfair(a)
        PROVE  AllUrgent
    <3>1. Arrived(p)
      BY <1>1, <2>2, recvPInv
    <3>2. a # p /\ Urgent(a)
      BY <2>2, <3>1 DEF Arrived
    <3>3. Urgent(p) \/ ~front
      BY <1>1, <2>2, WhoArrives
    <3>4. Urgent(p)
      BY <2>2, <3>1, <3>2, <3>3 DEF Arrived
    <3>5. \A b \in Elements(q) : Urgent(b)
      BY <2>2, <3>1, <3>2, <3>4 DEF Arrived
    <3> QED BY <3>5 DEF Elements
  <2> QED BY <2>1, <2>2
<1>2. PInv /\ [PriNext]_priVars => [Fair]_priVars
  BY <1>1
<1> QED BY <1>2, PInvHolds, PTL DEF PriSpec, UrgentEvictsNormal

(* No arrival lets the interface queue grow to qlim_, when the limit is in
   packets or the arrival goes to the head.                                 *)
THEOREM PriQueueGrowsBelowLimit == PriSpec => PriGrowsBelowLimit
<1> DEFINE Below == Len(q') > Len(q) /\ (UrgentArrives \/ ~qib) => Len(q') < qlim
<1>1. ASSUME PInv, [PriNext]_priVars PROVE Below
  <2>1. CASE \A p \in Pkt : ~PriRecv(p)
    <3>1. PInv' /\ Len(q') <= Len(q)
      BY <1>1, <2>1, RestPInv
    <3>2. Len(q') \in Nat /\ Len(q) \in Nat
      BY <1>1, <3>1 DEF PInv, TypeOK
    <3> QED BY <3>1, <3>2
  <2>2. ASSUME NEW p \in Pkt, PriRecv(p), Len(q') > Len(q), UrgentArrives \/ ~qib
        PROVE  Len(q') < qlim
    <3>1. Arrived(p)
      BY <1>1, <2>2, recvPInv
    <3>2. Urgent(p) \/ ~qib
      BY <1>1, <2>2, WhoArrives
    <3> QED BY <2>2, <3>1, <3>2 DEF Arrived
  <2> QED BY <2>1, <2>2
<1>2. PInv /\ [PriNext]_priVars => [Below]_priVars
  BY <1>1
<1> QED BY <1>2, PInvHolds, PTL DEF PriSpec, PriGrowsBelowLimit

=============================================================================
