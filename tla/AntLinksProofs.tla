--------------------------- MODULE AntLinksProofs ---------------------------
(***************************************************************************)
(* Theorems about AntLinks, for every topology, limit and number of ants.  *)
(*                                                                         *)
(* Every step of the links is a step of AntNet or changes nothing there,   *)
(* so AntNet's theorems hold over the links.  That an ant is in one place  *)
(* is proved for the line of each channel, what is on the wire followed by *)
(* what is in the queue: the link moves the border between the two, an     *)
(* arrival takes the first of one line away and may add it to another.     *)
(***************************************************************************)
EXTENDS AntLinks, AntNetProofs

Line(w, s) == [c \in Channel |-> w[c] \o s[c]]

(* InOnePlace of any lines and headers. *)
Placed(line, pk) ==
    /\ \A c \in Channel : \A i \in 1 .. Len(line[c]) :
          /\ pk[line[c][i]].kind # "free"
          /\ Way(pk[line[c][i]]) = c
          /\ \A j \in 1 .. Len(line[c]) : line[c][j] = line[c][i] => i = j
    /\ \A p \in Packet : pk[p].kind # "free" =>
          \E c \in Channel : \E i \in 1 .. Len(line[c]) : line[c][i] = p

LinksTypeOK ==
    /\ qlim \in Limits
    /\ q \in [Channel -> Seq(Packet)]
    /\ blocked \in [Channel -> BOOLEAN]
    /\ wire \in [Channel -> Seq(Packet)]

(* LinksBusy of any wires. *)
Busy(w) ==
    \A c \in Channel : /\ q[c] # <<>> => blocked[c]
                       /\ blocked[c] => w[c] # <<>>
                       /\ Len(q[c]) < qlim \/ q[c] = <<>>

LInv == IInv /\ LinksTypeOK /\ Busy(wire) /\ Placed(Line(wire, q), pkt)

-----------------------------------------------------------------------------
(* Lines.                                                                   *)

(* The first of a line leaves it and is released. *)
LEMMA PopOK ==
    ASSUME NEW line \in [Channel -> Seq(Packet)], NEW pk \in [Packet -> Header],
           Placed(line, pk), NEW c \in Channel, line[c] # <<>>
    PROVE  Placed([line EXCEPT ![c] = Tail(@)], [pk EXCEPT ![Head(line[c])] = Freed])
<1> DEFINE p == Head(line[c])
           new == [line EXCEPT ![c] = Tail(@)]
           npk == [pk EXCEPT ![p] = Freed]
<1>1. /\ line[c] \in Seq(Packet) /\ Len(line[c]) \in Nat /\ Len(line[c]) > 0
      /\ p \in Packet /\ p = line[c][1]
      /\ Tail(line[c]) \in Seq(Packet) /\ Len(Tail(line[c])) = Len(line[c]) - 1
      /\ \A i \in 1 .. Len(Tail(line[c])) : Tail(line[c])[i] = line[c][i + 1]
  BY HeadTailProperties, EmptySeq
<1>2. /\ new[c] = Tail(line[c])
      /\ \A d \in Channel : d # c => new[d] = line[d]
      /\ \A x \in Packet : npk[x] = IF x = p THEN Freed ELSE pk[x]
  OBVIOUS
<1>3. Freed.kind = "free"
  BY DEF Freed
<1>4. Way(pk[p]) = c /\ \A j \in 1 .. Len(line[c]) : line[c][j] = p => j = 1
  BY <1>1 DEF Placed
<1>5. \A d \in Channel : \A i \in 1 .. Len(line[d]) : line[d][i] \in Packet
  OBVIOUS
<1> HIDE DEF p, new, npk
<1>6. ASSUME NEW d \in Channel, NEW i \in 1 .. Len(new[d])
      PROVE  /\ npk[new[d][i]].kind # "free"
             /\ Way(npk[new[d][i]]) = d
             /\ \A j \in 1 .. Len(new[d]) : new[d][j] = new[d][i] => i = j
  <2>1. CASE d = c
    <3>1. i + 1 \in 1 .. Len(line[c]) /\ new[c][i] = line[c][i + 1]
      BY <1>1, <1>2, <2>1
    <3>2. line[c][i + 1] \in Packet /\ line[c][i + 1] # p
      BY <1>4, <1>5, <3>1
    <3>3. \A j \in 1 .. Len(new[c]) : j + 1 \in 1 .. Len(line[c]) /\ new[c][j] = line[c][j + 1]
      BY <1>1, <1>2
    <3>4. npk[new[c][i]].kind # "free" /\ Way(npk[new[c][i]]) = c
      BY <1>2, <3>1, <3>2 DEF Placed
    <3>5. ASSUME NEW j \in 1 .. Len(new[c]), new[c][j] = new[c][i] PROVE i = j
      <4>1. line[c][j + 1] = line[c][i + 1] /\ j + 1 \in 1 .. Len(line[c])
        BY <3>1, <3>3, <3>5
      <4>2. i + 1 = j + 1
        BY <3>1, <4>1 DEF Placed
      <4> QED BY <4>2
    <3> QED BY <2>1, <3>4, <3>5
  <2>2. CASE d # c
    <3>1. new[d] = line[d] /\ i \in 1 .. Len(line[d]) /\ line[d][i] \in Packet
      BY <1>2, <1>5, <2>2
    <3>2. Way(pk[line[d][i]]) = d
      BY <3>1 DEF Placed
    <3>3. line[d][i] # p
      BY <1>4, <2>2, <3>2
    <3> QED BY <1>2, <3>1, <3>3 DEF Placed
  <2> QED BY <2>1, <2>2
<1>7. ASSUME NEW x \in Packet, npk[x].kind # "free"
      PROVE  \E d \in Channel : \E i \in 1 .. Len(new[d]) : new[d][i] = x
  <2>1. x # p /\ pk[x].kind # "free"
    BY <1>2, <1>3, <1>7
  <2>2. PICK d \in Channel : \E i \in 1 .. Len(line[d]) : line[d][i] = x
    BY <2>1 DEF Placed
  <2>3. PICK i \in 1 .. Len(line[d]) : line[d][i] = x
    BY <2>2
  <2>4. CASE d # c
    BY <1>2, <2>3, <2>4
  <2>5. CASE d = c
    <3>1. i # 1
      BY <1>1, <2>1, <2>3, <2>5
    <3>2. i - 1 \in 1 .. Len(Tail(line[c])) /\ Tail(line[c])[i - 1] = line[c][i]
      BY <1>1, <2>5, <3>1
    <3> QED BY <1>2, <2>3, <2>5, <3>2
  <2> QED BY <2>4, <2>5
<1>8. Placed(new, npk)
  BY <1>6, <1>7 DEF Placed
<1> QED BY <1>8 DEF new, npk, p

(* An ant that was nowhere joins the line its header names. *)
LEMMA PushOK ==
    ASSUME NEW line \in [Channel -> Seq(Packet)], NEW pk \in [Packet -> Header],
           Placed(line, pk), NEW p \in Packet, pk[p].kind = "free",
           NEW h, h.kind # "free", Way(h) \in Channel
    PROVE  Placed([line EXCEPT ![Way(h)] = Append(@, p)], [pk EXCEPT ![p] = h])
<1> DEFINE c == Way(h)
           new == [line EXCEPT ![c] = Append(@, p)]
           npk == [pk EXCEPT ![p] = h]
<1>1. /\ Len(line[c]) \in Nat
      /\ Len(Append(line[c], p)) = Len(line[c]) + 1
      /\ \A i \in 1 .. Len(line[c]) : Append(line[c], p)[i] = line[c][i]
      /\ Append(line[c], p)[Len(line[c]) + 1] = p
  BY AppendProperties
<1>2. /\ Len(new[c]) = Len(line[c]) + 1
      /\ \A i \in 1 .. Len(line[c]) : new[c][i] = line[c][i]
      /\ new[c][Len(line[c]) + 1] = p
      /\ \A d \in Channel : d # c => new[d] = line[d]
      /\ \A x \in Packet : npk[x] = IF x = p THEN h ELSE pk[x]
  BY <1>1
<1>3. \A d \in Channel : \A i \in 1 .. Len(line[d]) :
         line[d][i] \in Packet /\ line[d][i] # p
  BY DEF Placed
<1>4. Way(npk[p]) = c /\ npk[p].kind # "free"
  BY <1>2
<1> HIDE DEF c, new, npk
<1>5. c \in Channel
  BY DEF c
<1>6. ASSUME NEW d \in Channel, NEW i \in 1 .. Len(new[d])
      PROVE  /\ npk[new[d][i]].kind # "free"
             /\ Way(npk[new[d][i]]) = d
             /\ \A j \in 1 .. Len(new[d]) : new[d][j] = new[d][i] => i = j
  <2>1. CASE d = c /\ i = Len(line[c]) + 1
    <3>1. new[d][i] = p
      BY <1>2, <2>1
    <3>2. ASSUME NEW j \in 1 .. Len(new[d]), new[d][j] = p PROVE i = j
      <4>1. j \notin 1 .. Len(line[c])
        BY <1>2, <1>3, <1>5, <2>1, <3>2
      <4> QED BY <1>1, <1>2, <2>1, <4>1
    <3> QED BY <1>4, <2>1, <3>1, <3>2
  <2>2. CASE d = c /\ i # Len(line[c]) + 1
    <3>1. i \in 1 .. Len(line[c]) /\ new[c][i] = line[c][i]
      BY <1>1, <1>2, <2>2
    <3>2. /\ npk[new[c][i]] = pk[line[c][i]]
          /\ pk[line[c][i]].kind # "free" /\ Way(pk[line[c][i]]) = c
          /\ \A j \in 1 .. Len(line[c]) : line[c][j] = line[c][i] => i = j
      BY <1>2, <1>3, <1>5, <3>1 DEF Placed
    <3>3. new[c][Len(line[c]) + 1] # new[c][i]
      BY <1>1, <1>2, <1>3, <1>5, <3>1
    <3>4. ASSUME NEW j \in 1 .. Len(new[c]), new[c][j] = new[c][i] PROVE i = j
      <4>1. j \in 1 .. Len(line[c])
        BY <1>1, <1>2, <3>3, <3>4
      <4> QED BY <1>2, <3>1, <3>2, <3>4, <4>1
    <3> QED BY <2>2, <3>2, <3>4
  <2>3. CASE d # c
    BY <1>2, <1>3, <2>3 DEF Placed
  <2> QED BY <2>1, <2>2, <2>3
<1>7. ASSUME NEW x \in Packet, npk[x].kind # "free"
      PROVE  \E d \in Channel : \E i \in 1 .. Len(new[d]) : new[d][i] = x
  <2>1. CASE x = p
    <3>1. Len(line[c]) + 1 \in 1 .. Len(new[c]) /\ new[c][Len(line[c]) + 1] = p
      BY <1>1, <1>2
    <3> QED BY <1>5, <2>1, <3>1
  <2>2. CASE x # p
    <3>1. PICK d \in Channel : \E i \in 1 .. Len(line[d]) : line[d][i] = x
      BY <1>2, <1>7, <2>2 DEF Placed
    <3>2. \A i \in 1 .. Len(line[d]) : i \in 1 .. Len(new[d]) /\ new[d][i] = line[d][i]
      <4>1. CASE d = c
        BY <1>1, <1>2, <4>1
      <4>2. CASE d # c
        BY <1>2, <4>2
      <4> QED BY <4>1, <4>2
    <3> QED BY <3>1, <3>2
  <2> QED BY <2>1, <2>2
<1>8. Placed(new, npk)
  BY <1>6, <1>7 DEF Placed
<1> QED BY <1>8 DEF new, npk, c

LEMMA LineType ==
    ASSUME NEW w \in [Channel -> Seq(Packet)], NEW s \in [Channel -> Seq(Packet)]
    PROVE  Line(w, s) \in [Channel -> Seq(Packet)]
<1>1. \A c \in Channel : w[c] \o s[c] \in Seq(Packet)
  BY ConcatProperties
<1> QED BY <1>1 DEF Line

(* A free buffer is nowhere, whatever its header holds. *)
LEMMA FreedPlaced ==
    ASSUME NEW line \in [Channel -> Seq(Packet)], NEW pk \in [Packet -> Header],
           Placed(line, pk), NEW p \in Packet, pk[p].kind = "free"
    PROVE  Placed(line, [pk EXCEPT ![p] = Freed])
<1>1. \A c \in Channel : \A i \in 1 .. Len(line[c]) : line[c][i] \in Packet \ {p}
  BY DEF Placed
<1>2. \A x \in Packet : [pk EXCEPT ![p] = Freed][x] = IF x = p THEN Freed ELSE pk[x]
  OBVIOUS
<1>3. Freed.kind = "free"
  BY DEF Freed
<1> QED BY <1>1, <1>2, <1>3 DEF Placed

-----------------------------------------------------------------------------
(* The link takes the head of the queue, or nothing: the line is the same. *)
LEMMA TransmitOK ==
    ASSUME LinksTypeOK, NEW w \in [Channel -> Seq(Packet)], Busy(w),
           NEW c \in Channel, NEW s \in Seq(Packet), Len(s) < qlim \/ s = <<>>,
           Transmit(c, s, w), qlim' = qlim
    PROVE  /\ LinksTypeOK'
           /\ Busy(wire)'
           /\ Line(wire, q)' = [Line(w, q) EXCEPT ![c] = w[c] \o s]
<1> USE DEF LinksTypeOK
<1>1. CASE blocked[c] \/ s = <<>>
  <2>1. q' = [q EXCEPT ![c] = s] /\ wire' = w /\ blocked' = blocked
    BY <1>1 DEF Transmit
  <2>2. q' \in [Channel -> Seq(Packet)]
    BY <2>1
  <2>3. \A d \in Channel : q'[d] = IF d = c THEN s ELSE q[d]
    BY <2>1
  <2>4. Busy(wire)'
    BY <1>1, <2>1, <2>3 DEF Busy
  <2>5. Line(wire, q)' = [Line(w, q) EXCEPT ![c] = w[c] \o s]
    BY <2>1, <2>3 DEF Line
  <2> QED BY <2>1, <2>2, <2>4, <2>5
<1>2. CASE ~(blocked[c] \/ s = <<>>)
  <2>1. /\ q' = [q EXCEPT ![c] = Tail(s)]
        /\ wire' = [w EXCEPT ![c] = Append(@, Head(s))]
        /\ blocked' = [blocked EXCEPT ![c] = TRUE]
    BY <1>2 DEF Transmit
  <2>2. /\ Tail(s) \in Seq(Packet) /\ Append(w[c], Head(s)) \in Seq(Packet)
        /\ Append(w[c], Head(s)) # <<>>
        /\ Append(w[c], Head(s)) \o Tail(s) = w[c] \o s
    <3>1. w[c] \in Seq(Packet) /\ s # <<>>
      BY <1>2
    <3> QED BY <3>1, ServeKeepsLine
  <2>3. /\ q' \in [Channel -> Seq(Packet)] /\ wire' \in [Channel -> Seq(Packet)]
        /\ blocked' \in [Channel -> BOOLEAN]
    BY <2>1, <2>2
  <2>4. \A d \in Channel : /\ q'[d] = IF d = c THEN Tail(s) ELSE q[d]
                           /\ wire'[d] = IF d = c THEN Append(w[c], Head(s)) ELSE w[d]
                           /\ blocked'[d] = IF d = c THEN TRUE ELSE blocked[d]
    BY <2>1
  <2>5. Len(Tail(s)) < qlim
    <3>1. Len(s) \in Nat /\ Len(Tail(s)) = Len(s) - 1
      BY <1>2, HeadTailProperties
    <3>2. qlim \in Nat
      BY QueueAssumption
    <3> QED BY <1>2, <3>1, <3>2
  <2>6. Busy(wire)'
    BY <2>2, <2>4, <2>5 DEF Busy
  <2>7. Line(wire, q)' = [Line(w, q) EXCEPT ![c] = w[c] \o s]
    BY <2>2, <2>4 DEF Line
  <2> QED BY <2>3, <2>6, <2>7
<1> QED BY <1>1, <1>2

(* An ant that is nowhere is sent: it joins the line of its hop, or is dropped. *)
LEMMA EnqueueOK ==
    ASSUME LinksTypeOK, pkt \in [Packet -> Header],
           NEW w \in [Channel -> Seq(Packet)], Busy(w),
           NEW p \in Packet, NEW h, h.kind # "free",
           Placed(Line(w, q), [pkt EXCEPT ![p] = Freed]),
           Enqueue(p, h, w)
    PROVE  LinksTypeOK' /\ Busy(wire)' /\ Placed(Line(wire, q), pkt)'
<1> DEFINE c == Way(h)
           e == Queue!enque(q[c], p)
           s == q[c]
           line == Line(w, q)
           pk == [pkt EXCEPT ![p] = Freed]
<1>1. /\ c \in Channel
      /\ pkt' = [pkt EXCEPT ![p] = IF p \in e.drop THEN Freed ELSE h]
      /\ Transmit(c, e.q, w)
      /\ qlim' = qlim
  BY DEF Enqueue
<1>2. s \in Seq(Packet) /\ w[c] \in Seq(Packet) /\ line[c] = w[c] \o s
  BY <1>1 DEF LinksTypeOK, Line
<1>3. Freed \in Header /\ Freed.kind = "free"
  BY FreedOK DEF HeaderOK, Freed
<1>4. line \in [Channel -> Seq(Packet)] /\ pk \in [Packet -> Header] /\ pk[p].kind = "free"
  BY <1>3, LineType DEF LinksTypeOK
<1>5. Placed(line, pk)
  OBVIOUS
<1>6. CASE Queue!Full(s, p)
  <2>1. e.q = s /\ p \in e.drop
    BY <1>6 DEF Queue!enque
  <2>2. Len(s) < qlim \/ s = <<>>
    BY <1>1 DEF Busy
  <2>3. LinksTypeOK' /\ Busy(wire)' /\ Line(wire, q)' = [line EXCEPT ![c] = w[c] \o s]
    <3>1. Transmit(c, s, w)
      BY <1>1, <2>1
    <3> HIDE DEF c, s
    <3> QED BY <1>1, <1>2, <2>2, <3>1, TransmitOK
  <2>4. [line EXCEPT ![c] = w[c] \o s] = line
    BY <1>2, <1>4
  <2>5. pkt' = pk
    BY <1>1, <2>1
  <2> HIDE DEF line, pk
  <2>6. Placed(Line(wire, q)', pkt')
    BY <1>5, <2>3, <2>4, <2>5
  <2>7. Placed(Line(wire, q), pkt)'
    BY <2>6 DEF Placed, Way
  <2> QED BY <2>3, <2>7
<1>7. CASE ~Queue!Full(s, p)
  <2>1. e.q = Append(s, p) /\ p \notin e.drop
    BY <1>7 DEF Queue!enque
  <2>2. Len(Append(s, p)) < qlim
    BY <1>2, <1>7, AppendProperties, QueueAssumption DEF Queue!Full, LinksTypeOK
  <2>3. Append(s, p) \in Seq(Packet) /\ w[c] \o Append(s, p) = Append(line[c], p)
    <3> DEFINE on == w[c]
    <3>1. s \in Seq(Packet) /\ on \in Seq(Packet) /\ line[c] = on \o s
      BY <1>2
    <3> HIDE DEF c, s, line, on
    <3>2. Append(s, p) \in Seq(Packet) /\ on \o Append(s, p) = Append(on \o s, p)
      BY <3>1, JoinsLine
    <3> QED BY <3>1, <3>2 DEF on
  <2>4. /\ LinksTypeOK' /\ Busy(wire)'
        /\ Line(wire, q)' = [line EXCEPT ![c] = Append(@, p)]
    <3> DEFINE t == Append(s, p)
    <3>1. Transmit(c, t, w) /\ t \in Seq(Packet) /\ Len(t) < qlim
      BY <1>1, <2>1, <2>2, <2>3
    <3>2. w[c] \o t = Append(line[c], p)
      BY <2>3
    <3> HIDE DEF c, t
    <3>3. /\ LinksTypeOK' /\ Busy(wire)'
          /\ Line(wire, q)' = [Line(w, q) EXCEPT ![c] = w[c] \o t]
      BY <1>1, <3>1, TransmitOK
    <3> QED BY <3>2, <3>3
  <2>5. pkt' = [pk EXCEPT ![p] = h]
    BY <1>1, <2>1
  <2> HIDE DEF line, pk
  <2>6. Placed([line EXCEPT ![c] = Append(@, p)], [pk EXCEPT ![p] = h])
    BY <1>1, <1>4, <1>5, PushOK
  <2>7. Placed(Line(wire, q)', pkt')
    BY <2>4, <2>5, <2>6
  <2>8. Placed(Line(wire, q), pkt)'
    BY <2>7 DEF Placed, Way
  <2> QED BY <2>4, <2>8
<1> QED BY <1>6, <1>7

-----------------------------------------------------------------------------
(* Steps of the links are steps of AntNet.                                  *)

LEMMA HeadOnWire ==
    ASSUME LinksTypeOK, NEW c \in Channel, Arrive(c)
    PROVE  wire[c] # <<>> /\ Head(wire[c]) \in Packet
<1>1. wire[c] \in Seq(Packet)
  BY DEF LinksTypeOK
<1>2. wire[c] # <<>>
  BY <1>1, EmptySeq DEF Arrive
<1> QED BY <1>1, <1>2, HeadTailProperties

LEMMA StepOfAntNet == LinksTypeOK /\ [LinksNext]_allVars => [Next]_vars
<1> SUFFICES ASSUME LinksTypeOK, [LinksNext]_allVars PROVE [Next]_vars
  OBVIOUS
<1>1. CASE AddNeighbor \/ \E n \in Node : Start(n)
  BY <1>1 DEF Next
<1>2. CASE \E n \in Node : LinksExpire(n)
  BY <1>2 DEF LinksExpire, Next
<1>3. ASSUME NEW c \in Channel, Resume(c) PROVE [Next]_vars
  BY <1>3 DEF Resume
<1>4. ASSUME NEW c \in Channel, Arrive(c) PROVE [Next]_vars
  BY <1>4, HeadOnWire DEF Arrive, Next
<1>5. CASE UNCHANGED allVars
  BY <1>5 DEF allVars
<1> QED BY <1>1, <1>2, <1>3, <1>4, <1>5 DEF LinksNext

-----------------------------------------------------------------------------
(* The inductive invariant.                                                 *)

LEMMA InitLInv == LinksInit => LInv
<1> SUFFICES ASSUME LinksInit PROVE LInv
  OBVIOUS
<1>1. IInv
  BY InitIInv DEF LinksInit
<1>2. LinksTypeOK
  BY DEF LinksInit, LinksTypeOK
<1>3. Busy(wire)
  BY DEF LinksInit, Busy
<1>4. \A c \in Channel : Line(wire, q)[c] = <<>>
  <2>1. \A c \in Channel : wire[c] = <<>> /\ q[c] = <<>>
    BY DEF LinksInit
  <2> QED BY <2>1, ConcatEmptySeq, EmptySeq DEF Line
<1>5. \A p \in Packet : pkt[p].kind = "free"
  BY DEF LinksInit, Init, Freed
<1>6. Placed(Line(wire, q), pkt)
  BY <1>4, <1>5, EmptySeq DEF Placed
<1> QED BY <1>1, <1>2, <1>3, <1>6 DEF LInv

(* The first ant on a wire leaves it: its buffer is nowhere for the moment. *)
LEMMA ArrivalOK ==
    ASSUME LInv, NEW c \in Channel, wire[c] # <<>>, Len(wire[c]) > IF blocked[c] THEN 1 ELSE 0
    PROVE  /\ Popped(c) \in [Channel -> Seq(Packet)]
           /\ Busy(Popped(c))
           /\ Placed(Line(Popped(c), q), [pkt EXCEPT ![Head(wire[c])] = Freed])
           /\ pkt[Head(wire[c])].kind # "free"
<1> DEFINE w == Popped(c)
           line == Line(wire, q)
<1>1. LinksTypeOK /\ pkt \in [Packet -> Header] /\ Placed(line, pkt)
  BY DEF LInv, IInv, TypeOK
<1>2. wire[c] \in Seq(Packet) /\ q[c] \in Seq(Packet)
  BY <1>1 DEF LinksTypeOK
<1>3. /\ Tail(wire[c]) \in Seq(Packet)
      /\ Head(line[c]) = Head(wire[c]) /\ line[c] # <<>>
      /\ Tail(wire[c]) \o q[c] = Tail(line[c])
  <2> DEFINE on == wire[c]
             s == q[c]
  <2>1. on \in Seq(Packet) /\ s \in Seq(Packet) /\ on # <<>> /\ line[c] = on \o s
    BY <1>2 DEF Line
  <2> HIDE DEF on, s, line
  <2>2. /\ Tail(on) \in Seq(Packet)
        /\ on \o s # <<>> /\ Head(on \o s) = Head(on)
        /\ Tail(on) \o s = Tail(on \o s)
    BY <2>1, LeavesLine
  <2> QED BY <2>1, <2>2 DEF on, s
<1>4. \A d \in Channel : w[d] = IF d = c THEN Tail(wire[c]) ELSE wire[d]
  BY <1>1 DEF Popped, LinksTypeOK
<1>5. w \in [Channel -> Seq(Packet)]
  BY <1>1, <1>3 DEF Popped, LinksTypeOK
<1>6. Busy(w)
  <2>1. blocked[c] => Tail(wire[c]) # <<>>
    <3>1. Len(Tail(wire[c])) = Len(wire[c]) - 1 /\ Len(wire[c]) \in Nat
      BY <1>2, HeadTailProperties
    <3>2. SUFFICES ASSUME blocked[c] PROVE Tail(wire[c]) # <<>>
      OBVIOUS
    <3>3. Len(wire[c]) > 1
      BY <3>2
    <3> DEFINE m == Len(Tail(wire[c]))
               l == Len(wire[c])
    <3>4. m = l - 1 /\ l \in Nat /\ l > 1
      BY <3>1, <3>3
    <3>5. m # 0
      <4> HIDE DEF m, l
      <4> QED BY <3>4
    <3>6. Len(<<>>) = 0
      OBVIOUS
    <3> QED BY <3>5, <3>6
  <2> QED BY <1>4, <2>1 DEF LInv, Busy
<1>7. Line(w, q) = [line EXCEPT ![c] = Tail(@)]
  <2>1. \A d \in Channel : w[d] \o q[d] = IF d = c THEN Tail(line[c]) ELSE line[d]
    BY <1>3, <1>4 DEF Line
  <2> QED BY <2>1 DEF Line
<1>8. line \in [Channel -> Seq(Packet)]
  BY <1>1, LineType DEF LinksTypeOK
<1>9. Placed([line EXCEPT ![c] = Tail(@)], [pkt EXCEPT ![Head(line[c])] = Freed])
  <2> HIDE DEF line
  <2> QED BY <1>1, <1>3, <1>8, PopOK
<1>10. pkt[Head(wire[c])].kind # "free"
  <2>1. 1 \in 1 .. Len(line[c]) /\ Head(line[c]) = line[c][1]
    <3> HIDE DEF line
    <3> QED BY <1>3, <1>8, HeadTailProperties, EmptySeq
  <2> QED BY <1>1, <1>3, <2>1 DEF Placed
<1> QED BY <1>3, <1>5, <1>6, <1>7, <1>9, <1>10

(* What the handlers send is an ant. *)
LEMMA OutgoingOK ==
    ASSUME IInv, NEW p \in Packet, pkt[p].kind # "free", NEW h \in Outgoing(p)
    PROVE  h.kind # "free"
<1>1. pkt[p] \in Header /\ pkt[p].kind \in {"fwd", "bwd"}
  BY DEF IInv, TypeOK, Header
<1>2. Arriving(p, 1) \in Header /\ Arriving(p, 1).kind = pkt[p].kind
  BY <1>1, ArrivingOK DEF Arriving
<1>3. CASE h = TurnedBack(p, 1)
  BY <1>2, <1>3 DEF TurnedBack, Header
<1>4. CASE h \in Forwarded(p, 1)
  BY <1>1, <1>2, <1>4 DEF Forwarded, Onward, Header
<1>5. CASE h = SentBack(p, 1)
  BY <1>1, <1>2, <1>5 DEF SentBack, Header
<1> QED BY <1>1, <1>3, <1>4, <1>5 DEF Outgoing

(* Every step preserves it. *)
LEMMA NextLInv == LInv /\ [LinksNext]_allVars => LInv'
<1> SUFFICES ASSUME LInv, [LinksNext]_allVars PROVE LInv'
  OBVIOUS
<1>1. /\ IInv /\ LinksTypeOK /\ Busy(wire) /\ Placed(Line(wire, q), pkt)
      /\ pkt \in [Packet -> Header] /\ wire \in [Channel -> Seq(Packet)]
      /\ Line(wire, q) \in [Channel -> Seq(Packet)]
  BY LineType DEF LInv, IInv, TypeOK, LinksTypeOK
<1>2. IInv'
  BY <1>1, StepOfAntNet, NextIInv
<1>3. SUFFICES LinksTypeOK' /\ Busy(wire)' /\ Placed(Line(wire, q), pkt)'
  BY <1>2 DEF LInv
<1>4. ASSUME UNCHANGED <<pkt, linkVars>>
      PROVE  LinksTypeOK' /\ Busy(wire)' /\ Placed(Line(wire, q), pkt)'
  BY <1>1, <1>4 DEF linkVars, LinksTypeOK, Busy, Placed, Line, Way
<1>5. CASE (AddNeighbor \/ \E n \in Node : Start(n)) /\ UNCHANGED linkVars
  BY <1>4, <1>5 DEF AddNeighbor, Start
<1>6. ASSUME NEW n \in Node, LinksExpire(n)
      PROVE  LinksTypeOK' /\ Busy(wire)' /\ Placed(Line(wire, q), pkt)'
  <2>1. CASE UNCHANGED <<pkt, linkVars>>
    BY <1>4, <2>1
  <2>2. CASE \E h \in Launches(n) : /\ \E p \in Packet : ~InFlight(p)
                                    /\ Enqueue(CHOOSE p \in Packet : ~InFlight(p), h, wire)
    <3>1. PICK h \in Launches(n) : /\ \E p \in Packet : ~InFlight(p)
                                   /\ Enqueue(CHOOSE p \in Packet : ~InFlight(p), h, wire)
      BY <2>2
    <3> DEFINE p == CHOOSE x \in Packet : ~InFlight(x)
    <3>2. p \in Packet /\ pkt[p].kind = "free" /\ Enqueue(p, h, wire)
      BY <3>1 DEF InFlight
    <3> HIDE DEF p
    <3>3. h.kind # "free"
      BY DEF Launches, Launch
    <3>4. Placed(Line(wire, q), [pkt EXCEPT ![p] = Freed])
      BY <1>1, <3>2, FreedPlaced
    <3> QED BY <1>1, <3>2, <3>3, <3>4, EnqueueOK
  <2> QED BY <1>6, <2>1, <2>2 DEF LinksExpire
<1>7. ASSUME NEW c \in Channel, Resume(c)
      PROVE  LinksTypeOK' /\ Busy(wire)' /\ Placed(Line(wire, q), pkt)'
  <2>1. pkt' = pkt /\ qlim' = qlim /\ q[c] \in Seq(Packet) /\ wire[c] \in Seq(Packet)
    BY <1>1, <1>7 DEF Resume, vars, LinksTypeOK
  <2>2. CASE q[c] = <<>>
    <3>1. blocked' = [blocked EXCEPT ![c] = FALSE] /\ q' = q /\ wire' = wire
      BY <1>7, <2>2 DEF Resume
    <3>2. LinksTypeOK'
      BY <1>1, <2>1, <3>1 DEF LinksTypeOK
    <3>3. \A d \in Channel : blocked'[d] = IF d = c THEN FALSE ELSE blocked[d]
      BY <1>1, <3>1 DEF LinksTypeOK
    <3>4. Busy(wire)'
      BY <1>1, <2>1, <2>2, <3>1, <3>3 DEF Busy
    <3>5. Placed(Line(wire, q)', pkt')
      BY <1>1, <2>1, <3>1 DEF Line
    <3>6. Placed(Line(wire, q), pkt)'
      BY <3>5 DEF Placed, Way
    <3> QED BY <3>2, <3>4, <3>6
  <2>3. CASE q[c] # <<>>
    <3> DEFINE s == q[c]
               on == wire[c]
    <3>1. /\ q' = [q EXCEPT ![c] = Tail(s)]
          /\ wire' = [wire EXCEPT ![c] = Append(on, Head(s))]
          /\ blocked' = blocked /\ blocked[c]
      BY <1>7, <2>3 DEF Resume
    <3>2. /\ Tail(s) \in Seq(Packet) /\ Append(on, Head(s)) \in Seq(Packet)
          /\ Append(on, Head(s)) # <<>>
          /\ Append(on, Head(s)) \o Tail(s) = on \o s
          /\ Len(Tail(s)) = Len(s) - 1 /\ Len(s) \in Nat
      <4>1. s \in Seq(Packet) /\ on \in Seq(Packet) /\ s # <<>>
        BY <2>1, <2>3
      <4> HIDE DEF s, on
      <4> QED BY <4>1, ServeKeepsLine, HeadTailProperties
    <3>3. \A d \in Channel : /\ q'[d] = IF d = c THEN Tail(s) ELSE q[d]
                             /\ wire'[d] = IF d = c THEN Append(on, Head(s)) ELSE wire[d]
      BY <1>1, <3>1 DEF LinksTypeOK
    <3>4. LinksTypeOK'
      BY <1>1, <2>1, <3>1, <3>2 DEF LinksTypeOK
    <3>5. Busy(wire)'
      <4>1. Len(Tail(s)) < qlim
        BY <1>1, <2>3, <3>2, QueueAssumption DEF Busy, LinksTypeOK
      <4> QED BY <1>1, <2>1, <3>1, <3>2, <3>3, <4>1 DEF Busy
    <3>6. Line(wire, q)' = Line(wire, q)
      BY <3>2, <3>3 DEF Line
    <3>7. Placed(Line(wire, q)', pkt')
      BY <1>1, <2>1, <3>6
    <3>8. Placed(Line(wire, q), pkt)'
      BY <3>7 DEF Placed, Way
    <3> QED BY <3>4, <3>5, <3>8
  <2> QED BY <2>2, <2>3
<1>8. ASSUME NEW c \in Channel, Arrive(c)
      PROVE  LinksTypeOK' /\ Busy(wire)' /\ Placed(Line(wire, q), pkt)'
  <2> DEFINE p == Head(wire[c])
             w == Popped(c)
  <2>1. wire[c] # <<>> /\ p \in Packet
    BY <1>1, <1>8, HeadOnWire
  <2>2. /\ w \in [Channel -> Seq(Packet)] /\ Busy(w)
        /\ Placed(Line(w, q), [pkt EXCEPT ![p] = Freed])
        /\ pkt[p].kind # "free"
    BY <1>8, <2>1, ArrivalOK DEF Arrive
  <2> HIDE DEF w
  <2>3. CASE wire' = w /\ UNCHANGED <<qlim, q, blocked>> /\ Free(p)
    <3>1. pkt' = [pkt EXCEPT ![p] = Freed]
      BY <2>3 DEF Free
    <3>2. Placed(Line(wire, q)', pkt')
      BY <2>2, <2>3, <3>1 DEF Line
    <3>3. Placed(Line(wire, q), pkt)'
      BY <3>2 DEF Placed, Way
    <3> QED BY <1>1, <2>2, <2>3, <3>3 DEF LinksTypeOK, Busy
  <2>4. CASE \E h \in Outgoing(p) : Enqueue(p, h, w)
    <3>1. PICK h \in Outgoing(p) : Enqueue(p, h, w)
      BY <2>4
    <3>2. h.kind # "free"
      BY <1>1, <2>1, <2>2, OutgoingOK
    <3> HIDE DEF p
    <3> QED BY <1>1, <2>1, <2>2, <3>1, <3>2, EnqueueOK
  <2>5. \/ wire' = w /\ UNCHANGED <<qlim, q, blocked>> /\ ExpireTtl(p)
        \/ \E h \in Outgoing(p) : Enqueue(p, h, w)
        \/ wire' = w /\ UNCHANGED <<qlim, q, blocked>> /\ (DeadEnd(p) \/ Home(p))
    BY <1>8 DEF Arrive, w
  <2>6. ExpireTtl(p) \/ DeadEnd(p) \/ Home(p) => Free(p)
    BY DEF ExpireTtl, DeadEnd, Home
  <2> HIDE DEF p
  <2> QED BY <2>3, <2>4, <2>5, <2>6
<1>9. CASE UNCHANGED allVars
  BY <1>4, <1>9 DEF allVars, vars
<1> QED BY <1>5, <1>6, <1>7, <1>8, <1>9 DEF LinksNext

LEMMA LinksInvariance == LinksSpec => []LInv
BY InitLInv, NextLInv, PTL DEF LinksSpec

-----------------------------------------------------------------------------
(* Whatever queues and links do with the ants is something AntNet's network
   may do with them: every behaviour of AntLinks is one of AntNet.          *)
THEOREM LinksImplementAntNet == LinksSpec => Spec
<1>1. LinksInit => Init
  BY DEF LinksInit
<1>2. LInv /\ [LinksNext]_allVars => [Next]_vars
  BY StepOfAntNet DEF LInv
<1> QED BY <1>1, <1>2, LinksInvariance, PTL DEF LinksSpec, Spec

(* No handler, queue or link leaks an ant, releases it twice, sends on one it
   has released, or has one in two places.                                  *)
THEOREM AntsInOnePlace == LinksSpec => []InOnePlace
<1>1. LInv => InOnePlace
  <2>1. LInv => Placed(Line(wire, q), pkt)
    BY DEF LInv
  <2>2. \A c \in Channel : OnChannel(c) = Line(wire, q)[c]
    BY DEF OnChannel, Line
  <2>3. Placed(Line(wire, q), pkt) => InOnePlace
    BY <2>2 DEF Placed, InOnePlace, InFlight
  <2> QED BY <2>1, <2>3
<1> QED BY <1>1, LinksInvariance, PTL

(* No link idles while ants wait for it, and no queue exceeds its limit. *)
THEOREM LinksKeepBusy == LinksSpec => []LinksBusy
<1>1. LInv => LinksBusy
  BY DEF LInv, Busy, LinksBusy
<1> QED BY <1>1, LinksInvariance, PTL

(* AntNet's theorems hold over the links: the searches of backward ants stay
   inside the memory there as well.                                         *)
THEOREM BackwardOnPathOverLinks == LinksSpec => []BackwardOnPath
BY LinksImplementAntNet, BackwardStaysOnPath, PTL

=============================================================================
