-------------------------- MODULE AntTrafficProofs --------------------------
(***************************************************************************)
(* Theorems about AntTraffic, for all topologies, delays and numbers of    *)
(* hops and ants.                                                          *)
(*                                                                         *)
(* The memory of an ant is tied to its walk by a function f: f[i] is the   *)
(* arrival of the walk after which the ant left the i-th remembered node   *)
(* for the last time.  The hop after it led to the next remembered node,   *)
(* and the memory has its time.                                            *)
(***************************************************************************)
EXTENDS AntTraffic, SequenceTheorems, TLAPS

(* Every node is remembered once, and the times grow. *)
Straight(m) ==
    \A i, j \in 1 .. Len(m) : i < j => /\ m[i].node # m[j].node
                                       /\ m[i].time < m[j].time

LeftAt(w, x, k) == w[k].node = x /\ \A j \in k + 1 .. Len(w) : w[j].node # x

Traced(w, m, f) ==
    /\ m[Len(m)] = w[Len(w)]
    /\ \A i \in 1 .. Len(m) : LeftAt(w, m[i].node, f[i])
    /\ \A i \in 1 .. Len(m) - 1 :
          /\ f[i] < Len(w)
          /\ m[i + 1].node = w[f[i] + 1].node
          /\ m[i + 1].time - m[i].time = w[f[i] + 1].time - w[f[i]].time

Remembers(w, m) == \E f \in [1 .. Len(m) -> 1 .. Len(w)] : Traced(w, m, f)

(* What an agent knows of the way to one destination. *)
State == [best : Int, mean : Int]

Sound(s, st) ==
    /\ \A i \in 1 .. Len(s) : s[i] > 0 /\ st.best <= s[i]
    /\ s # <<>> => /\ \E i \in 1 .. Len(s) : s[i] = st.best
                   /\ st.best * Scale <= st.mean

(* The nodes that the ant has visited on its way back know the trip times
   between them and all nodes beyond.                                       *)
Taught(m, k, win) ==
    \A i \in k + 1 .. Len(m) : \A j \in i + 1 .. Len(m) :
        LET s == win[m[i].node][m[j].node]
        IN  s # <<>> /\ s[Len(s)] = m[j].time - m[i].time

AntOK ==
    /\ walk \in Seq(Stop) /\ mem \in Seq(Stop) /\ (walk = <<>> <=> mem = <<>>)
    /\ back \in Nat /\ (back > 0 => back < Len(mem))
    /\ Straight(mem)
    /\ walk # <<>> => Remembers(walk, mem)

AgentsOK ==
    /\ window \in [Node -> [Node -> Seq(Nat)]]
    /\ traffic \in [Node -> [Node -> State]]
    /\ \A x, d \in Node : Sound(window[x][d], traffic[x][d])

TInv == AntOK /\ AgentsOK /\ (back > 0 => Taught(mem, back, window))

-----------------------------------------------------------------------------
(* The memory of an ant.                                                    *)

LEMMA StopFields ==
    \A s \in Stop : s.node \in Node /\ s.time \in Nat /\ s = [node |-> s.node, time |-> s.time]
BY DEF Stop

LEMMA FirstIs ==
    ASSUME NEW m \in Seq(Stop), Straight(m), NEW i \in 1 .. Len(m)
    PROVE  First(m, m[i].node) = i
<1> DEFINE x == m[i].node
           P(k) == m[k].node = x /\ \A j \in 1 .. k - 1 : m[j].node # x
<1>1. P(i)
  <2> SUFFICES ASSUME NEW j \in 1 .. i - 1 PROVE m[j].node # x
    OBVIOUS
  <2>1. j \in 1 .. Len(m) /\ j < i
    OBVIOUS
  <2> QED BY <2>1 DEF Straight
<1>2. \A k \in 1 .. Len(m) : P(k) => k = i
  <2> SUFFICES ASSUME NEW k \in 1 .. Len(m), P(k), k # i PROVE FALSE
    OBVIOUS
  <2>1. k < i \/ i < k
    OBVIOUS
  <2> QED BY <2>1 DEF Straight
<1>3. First(m, x) = CHOOSE k \in 1 .. Len(m) : P(k)
  BY DEF First
<1> HIDE DEF P
<1> QED BY <1>1, <1>2, <1>3

(* memorize appends the new node, or cuts the memory after it. *)
LEMMA memorizeIs ==
    ASSUME NEW m \in Seq(Stop), Straight(m), NEW x \in Node, NEW time \in Nat
    PROVE  LET M == memorize(m, x, time)
           IN  \/ /\ \A j \in 1 .. Len(m) : m[j].node # x
                  /\ M = Append(m, [node |-> x, time |-> time])
               \/ \E i \in 1 .. Len(m) :
                     /\ m[i].node = x /\ \A j \in 1 .. i - 1 : m[j].node # x
                     /\ M = [j \in 1 .. i |->
                               [node |-> m[j].node,
                                time |-> m[j].time + (time - m[i].time)]]
<1>1. CASE ~Visited(m, x)
  BY <1>1 DEF memorize, Visited
<1>2. CASE Visited(m, x)
  <2>1. PICK i \in 1 .. Len(m) : m[i].node = x
    BY <1>2 DEF Visited
  <2>2. First(m, x) = i
    BY <2>1, FirstIs
  <2>3. \A j \in 1 .. i - 1 : m[j].node # x
    <3> SUFFICES ASSUME NEW j \in 1 .. i - 1 PROVE m[j].node # x
      OBVIOUS
    <3>1. j \in 1 .. Len(m) /\ j < i
      OBVIOUS
    <3> QED BY <2>1, <3>1 DEF Straight
  <2>4. memorize(m, x, time)
          = [j \in 1 .. i |-> [m[j] EXCEPT !.time = m[j].time + (time - m[i].time)]]
    BY <1>2, <2>2 DEF memorize
  <2>5. ASSUME NEW j \in 1 .. i
        PROVE  [m[j] EXCEPT !.time = m[j].time + (time - m[i].time)]
                 = [node |-> m[j].node, time |-> m[j].time + (time - m[i].time)]
    <3>1. m[j] \in Stop
      OBVIOUS
    <3> QED BY <3>1 DEF Stop
  <2>6. memorize(m, x, time)
          = [j \in 1 .. i |-> [node |-> m[j].node, time |-> m[j].time + (time - m[i].time)]]
    BY <2>4, <2>5
  <2> QED BY <2>1, <2>3, <2>6
<1> QED BY <1>1, <1>2

(* A hop keeps the memory straight and tied to the walk. *)
LEMMA memorizeOK ==
    ASSUME NEW w \in Seq(Stop), w # <<>>, NEW m \in Seq(Stop), m # <<>>,
           Straight(m), Remembers(w, m),
           NEW x \in Node, NEW time \in Nat, time > w[Len(w)].time
    PROVE  LET M == memorize(m, x, time)
               W == Append(w, [node |-> x, time |-> time])
           IN  /\ M \in Seq(Stop) /\ M # <<>> /\ Straight(M)
               /\ W \in Seq(Stop) /\ W # <<>> /\ Remembers(W, M)
<1> DEFINE new == [node |-> x, time |-> time]
           M == memorize(m, x, time)
           W == Append(w, new)
           n == Len(m)
           l == Len(w)
<1> SUFFICES /\ M \in Seq(Stop) /\ M # <<>> /\ Straight(M)
             /\ W \in Seq(Stop) /\ W # <<>> /\ Remembers(W, M)
  OBVIOUS
<1>1. n \in Nat /\ n > 0 /\ l \in Nat /\ l > 0 /\ new \in Stop
  BY DEF Stop
<1>2. /\ W \in Seq(Stop) /\ W # <<>> /\ Len(W) = l + 1 /\ W[l + 1] = new
      /\ \A k \in 1 .. l : W[k] = w[k]
  BY <1>1, AppendProperties
<1>3. PICK f \in [1 .. n -> 1 .. l] : Traced(w, m, f)
  BY DEF Remembers
<1>4. \A i \in 1 .. n : m[i] \in Stop /\ m[i].time \in Nat /\ m[i].node \in Node
  <2>1. \A i \in 1 .. n : m[i] \in Stop
    OBVIOUS
  <2> QED BY <2>1, StopFields
<1>5. \A k \in 1 .. l : w[k] \in Stop /\ w[k].time \in Nat
  <2>1. \A k \in 1 .. l : w[k] \in Stop
    OBVIOUS
  <2> QED BY <2>1, StopFields
<1>6. new.node = x /\ new.time = time
  OBVIOUS
<1>7. \A i \in 1 .. n : m[i].time < time
  <2>1. m[n] = w[l]
    BY <1>3 DEF Traced
  <2>2. \A i \in 1 .. n : i = n \/ m[i].time < m[n].time
    BY <1>1 DEF Straight
  <2>3. m[n].time \in Nat /\ m[n].time < time
    BY <1>1, <1>4, <2>1
  <2> QED BY <1>4, <2>2, <2>3
<1> HIDE DEF W, M, n, l, new
<1>8. CASE (\A j \in 1 .. n : m[j].node # x) /\ M = Append(m, new)
  <2>1. /\ M \in Seq(Stop) /\ M # <<>> /\ Len(M) = n + 1 /\ M[n + 1] = new
        /\ \A k \in 1 .. n : M[k] = m[k]
    BY <1>1, <1>8, AppendProperties DEF n
  <2>2. Straight(M)
    <3> SUFFICES ASSUME NEW i \in 1 .. n + 1, NEW j \in 1 .. n + 1, i < j
                 PROVE  M[i].node # M[j].node /\ M[i].time < M[j].time
      BY <2>1 DEF Straight
    <3>1. i \in 1 .. n
      BY <1>1
    <3>2. CASE j = n + 1
      BY <1>6, <1>7, <1>8, <2>1, <3>1, <3>2
    <3>3. CASE j # n + 1
      <4>1. j \in 1 .. n
        BY <1>1, <3>3
      <4> QED BY <2>1, <3>1, <4>1 DEF Straight, n
    <3> QED BY <3>2, <3>3
  <2> DEFINE g == [i \in 1 .. n + 1 |-> IF i = n + 1 THEN l + 1 ELSE f[i]]
  <2>3. /\ g \in [1 .. n + 1 -> 1 .. l + 1] /\ g[n + 1] = l + 1
        /\ \A i \in 1 .. n : g[i] = f[i] /\ f[i] \in 1 .. l
    <3>1. \A i \in 1 .. n : f[i] \in 1 .. l /\ f[i] \in 1 .. l + 1 /\ i # n + 1 /\ i \in 1 .. n + 1
      BY <1>1
    <3>2. l + 1 \in 1 .. l + 1 /\ n + 1 \in 1 .. n + 1
      BY <1>1
    <3>3. \A i \in 1 .. n + 1 : i = n + 1 \/ i \in 1 .. n
      BY <1>1
    <3> QED BY <3>1, <3>2, <3>3
  <2> HIDE DEF g
  <2>4. ASSUME NEW i \in 1 .. n + 1 PROVE LeftAt(W, M[i].node, g[i])
    <3>1. CASE i = n + 1
      <4>1. \A j \in l + 1 + 1 .. l + 1 : FALSE
        BY <1>1
      <4> QED BY <1>2, <2>1, <2>3, <3>1, <4>1 DEF LeftAt
    <3>2. CASE i # n + 1
      <4>1. i \in 1 .. n
        BY <1>1, <3>2
      <4>2. LeftAt(w, m[i].node, f[i])
        BY <1>3, <4>1 DEF Traced, n
      <4>3. \A j \in f[i] + 1 .. l + 1 : j = l + 1 \/ (j \in f[i] + 1 .. l /\ j \in 1 .. l)
        BY <1>1, <2>3, <4>1
      <4>4. m[i].node # x
        BY <1>8, <4>1
      <4> QED BY <1>2, <1>6, <2>1, <2>3, <4>1, <4>2, <4>3, <4>4 DEF LeftAt, l
    <3> QED BY <3>1, <3>2
  <2>5. ASSUME NEW i \in 1 .. n
        PROVE  /\ g[i] < l + 1
               /\ M[i + 1].node = W[g[i] + 1].node
               /\ M[i + 1].time - M[i].time = W[g[i] + 1].time - W[g[i]].time
    <3>1. g[i] = f[i] /\ f[i] \in 1 .. l /\ W[f[i]] = w[f[i]] /\ M[i] = m[i]
      BY <1>2, <2>1, <2>3
    <3>2. CASE i = n
      <4>1. m[n] = w[l]
        BY <1>3 DEF Traced, n, l
      <4>2. f[n] = l
        <5>1. LeftAt(w, w[l].node, f[n])
          BY <1>1, <1>3, <4>1 DEF Traced, n
        <5>2. ~(l \in f[n] + 1 .. l)
          BY <5>1 DEF LeftAt, l
        <5> QED BY <1>1, <3>1, <3>2, <5>2
      <4> QED BY <1>1, <1>2, <2>1, <3>1, <3>2, <4>1, <4>2
    <3>3. CASE i # n
      <4>1. i \in 1 .. n - 1 /\ i + 1 \in 1 .. n
        BY <1>1, <3>3
      <4>2. /\ f[i] < l
            /\ m[i + 1].node = w[f[i] + 1].node
            /\ m[i + 1].time - m[i].time = w[f[i] + 1].time - w[f[i]].time
        BY <1>3, <4>1 DEF Traced, n, l
      <4>3. f[i] + 1 \in 1 .. l
        BY <1>1, <3>1, <4>2
      <4>4. M[i + 1] = m[i + 1] /\ W[f[i] + 1] = w[f[i] + 1]
        BY <1>2, <2>1, <4>1, <4>3
      <4>5. g[i] < l + 1
        BY <1>1, <3>1
      <4> QED BY <3>1, <4>2, <4>4, <4>5
    <3> QED BY <3>2, <3>3
  <2>6. Len(M) - 1 = n
    BY <1>1, <2>1
  <2>7. Traced(W, M, g)
    BY <1>2, <2>1, <2>4, <2>5, <2>6 DEF Traced
  <2> QED BY <1>2, <2>1, <2>2, <2>3, <2>7 DEF Remembers
<1>9. ASSUME NEW i \in 1 .. n, m[i].node = x, \A j \in 1 .. i - 1 : m[j].node # x,
             M = [j \in 1 .. i |-> [node |-> m[j].node, time |-> m[j].time + (time - m[i].time)]]
      PROVE  /\ M \in Seq(Stop) /\ M # <<>> /\ Straight(M)
             /\ W \in Seq(Stop) /\ W # <<>> /\ Remembers(W, M)
  <2> DEFINE d == time - m[i].time
  <2>1. d \in Nat /\ m[i].time + d = time
    BY <1>4, <1>7
  <2>2. \A j \in 1 .. i : j \in 1 .. n /\ m[j].time + d \in Nat
    <3>1. \A j \in 1 .. i : j \in 1 .. n
      BY <1>1
    <3> HIDE DEF d
    <3> QED BY <1>4, <2>1, <3>1
  <2>3. \A j \in 1 .. i : M[j].node = m[j].node /\ M[j].time = m[j].time + d /\ M[j] \in Stop
    BY <1>4, <1>9, <2>2 DEF Stop
  <2>4. M \in Seq(Stop) /\ Len(M) = i /\ M # <<>>
    <3>1. DOMAIN M = 1 .. i /\ M \in [1 .. i -> Stop] /\ i \in Nat /\ i > 0
      BY <1>1, <1>9, <2>3
    <3>2. M \in Seq(Stop) /\ Len(M) = i
      BY <3>1
    <3> QED BY <3>1, <3>2
  <2>5. M[i] = new
    BY <1>4, <1>9, <2>1 DEF new
  <2> HIDE DEF d
  <2>6. Straight(M)
    <3> SUFFICES ASSUME NEW j \in 1 .. i, NEW k \in 1 .. i, j < k
                 PROVE  M[j].node # M[k].node /\ M[j].time < M[k].time
      BY <2>4 DEF Straight
    <3>1. j \in 1 .. n /\ k \in 1 .. n
      BY <2>2
    <3>2. m[j].node # m[k].node /\ m[j].time < m[k].time
      BY <3>1 DEF Straight, n
    <3>3. M[j].node # M[k].node
      BY <2>3, <3>2
    <3>4. /\ M[j].time = m[j].time + d /\ M[k].time = m[k].time + d
          /\ m[j].time \in Nat /\ m[k].time \in Nat /\ d \in Nat
      BY <1>4, <2>1, <2>3, <3>1
    <3>5. M[j].time < M[k].time
      BY <3>2, <3>4
    <3> QED BY <3>3, <3>5
  <2> DEFINE g == [j \in 1 .. i |-> IF j = i THEN l + 1 ELSE f[j]]
  <2>7. /\ g \in [1 .. i -> 1 .. l + 1] /\ g[i] = l + 1
        /\ \A j \in 1 .. i - 1 : g[j] = f[j] /\ f[j] \in 1 .. l /\ j \in 1 .. n
    <3>1. \A j \in 1 .. i : f[j] \in 1 .. l /\ f[j] \in 1 .. l + 1
      BY <1>1, <2>2
    <3>2. l + 1 \in 1 .. l + 1 /\ i \in 1 .. i
      BY <1>1
    <3>3. \A j \in 1 .. i - 1 : j \in 1 .. i /\ j # i /\ j \in 1 .. n
      BY <1>1
    <3> QED BY <3>1, <3>2, <3>3
  <2> HIDE DEF g
  <2>8. ASSUME NEW j \in 1 .. i PROVE LeftAt(W, M[j].node, g[j])
    <3>1. CASE j = i
      <4>1. \A k \in l + 1 + 1 .. l + 1 : FALSE
        BY <1>1
      <4> QED BY <1>2, <2>5, <2>7, <3>1, <4>1 DEF LeftAt
    <3>2. CASE j # i
      <4>1. j \in 1 .. i - 1 /\ j \in 1 .. n
        BY <1>1, <3>2
      <4>2. LeftAt(w, m[j].node, f[j])
        BY <1>3, <4>1 DEF Traced, n
      <4>3. f[j] \in 1 .. l /\ g[j] = f[j]
        BY <2>7, <4>1
      <4>4. \A k \in f[j] + 1 .. l + 1 : k = l + 1 \/ (k \in f[j] + 1 .. l /\ k \in 1 .. l)
        BY <1>1, <4>3
      <4>5. m[j].node # x /\ M[j].node = m[j].node
        BY <1>9, <2>3, <4>1
      <4> QED BY <1>2, <1>6, <4>2, <4>3, <4>4, <4>5 DEF LeftAt, l
    <3> QED BY <3>1, <3>2
  <2>9. ASSUME NEW j \in 1 .. i - 1
        PROVE  /\ g[j] < l + 1
               /\ M[j + 1].node = W[g[j] + 1].node
               /\ M[j + 1].time - M[j].time = W[g[j] + 1].time - W[g[j]].time
    <3>1. j \in 1 .. n - 1 /\ j \in 1 .. i /\ j + 1 \in 1 .. i /\ j \in 1 .. n /\ j + 1 \in 1 .. n
      BY <1>1
    <3>2. /\ f[j] < l
          /\ m[j + 1].node = w[f[j] + 1].node
          /\ m[j + 1].time - m[j].time = w[f[j] + 1].time - w[f[j]].time
      BY <1>3, <3>1 DEF Traced, n, l
    <3>3. f[j] \in 1 .. l /\ g[j] = f[j]
      BY <2>7
    <3>4. f[j] + 1 \in 1 .. l
      BY <1>1, <3>2, <3>3
    <3>5. W[f[j]] = w[f[j]] /\ W[f[j] + 1] = w[f[j] + 1]
      BY <1>2, <3>3, <3>4
    <3>6. M[j + 1].time - M[j].time = m[j + 1].time - m[j].time
      BY <1>4, <2>1, <2>3, <3>1
    <3>7. M[j + 1].node = m[j + 1].node
      BY <2>3, <3>1
    <3>8. g[j] < l + 1
      BY <1>1, <3>3
    <3> QED BY <3>2, <3>3, <3>5, <3>6, <3>7, <3>8
  <2>10. Traced(W, M, g)
    BY <1>2, <2>4, <2>5, <2>8, <2>9 DEF Traced
  <2> QED BY <1>2, <2>4, <2>6, <2>7, <2>10 DEF Remembers
<1>10. \/ (\A j \in 1 .. n : m[j].node # x) /\ M = Append(m, new)
       \/ \E i \in 1 .. n :
             /\ m[i].node = x /\ \A j \in 1 .. i - 1 : m[j].node # x
             /\ M = [j \in 1 .. i |->
                       [node |-> m[j].node, time |-> m[j].time + (time - m[i].time)]]
  BY memorizeIs DEF M, new, n
<1> QED BY <1>8, <1>9, <1>10

-----------------------------------------------------------------------------
(* Samples, best and mean trip times.                                       *)

(* What is subtracted does not grow when it is divided and rounded down. *)
LEMMA DivLeast ==
    ASSUME NEW a \in Int, NEW b \in Nat \ {0}, NEW d \in Nat, a >= -d
    PROVE  a \div b \in Int /\ a \div b >= -d
<1> DEFINE k == a \div b
           r == a % b
<1>1. k \in Int /\ r \in Int /\ a = b * k + r /\ r <= b - 1
  OBVIOUS
<1> HIDE DEF k, r
<1>2. SUFFICES ASSUME k + 1 <= -d PROVE FALSE
  BY <1>1 DEF k
<1>3. (b - 1) * (k + 1) <= 0
  <2>1. b - 1 >= 0 /\ k + 1 <= 0 /\ b - 1 \in Int /\ k + 1 \in Int
    BY <1>1, <1>2
  <2> DEFINE p == b - 1
             q == k + 1
  <2> HIDE DEF p, q
  <2>2. p \in Int /\ q \in Int /\ p >= 0 /\ q <= 0 => p * q <= 0
    OBVIOUS
  <2> QED BY <2>1, <2>2 DEF p, q
<1>4. (b - 1) * (k + 1) = b * k + b - k - 1
  BY <1>1
<1>5. b * k \in Int
  BY <1>1
<1> DEFINE bk == b * k
<1> HIDE DEF bk
<1>6. bk \in Int /\ bk + b - k - 1 <= 0 /\ a = bk + r
  BY <1>1, <1>3, <1>4, <1>5 DEF bk
<1> QED BY <1>1, <1>2, <1>6

LEMMA ScaledLess ==
    ASSUME NEW a \in Int, NEW b \in Int, a <= b
    PROVE  a * Scale \in Int /\ b * Scale \in Int /\ a * Scale <= b * Scale
<1>1. Scale \in Int /\ Scale > 0
  BY TripAssumption
<1> QED BY <1>1

(* One more sample. *)
LEMMA SampleSound ==
    ASSUME NEW s \in Seq(Nat), NEW st \in State, Sound(s, st), NEW tt \in Nat, tt > 0
    PROVE  LET s1  == Append(s, tt)
               st1 == [best |-> best(s1),
                       mean |-> IF s = <<>> THEN tt * Scale ELSE mean(st.mean, tt)]
           IN  s1 \in Seq(Nat) /\ s1 # <<>> /\ s1[Len(s1)] = tt /\ st1 \in State /\ Sound(s1, st1)
<1> DEFINE n == Len(s)
           s1 == Append(s, tt)
           b  == best(s1)
           mn == IF s = <<>> THEN tt * Scale ELSE mean(st.mean, tt)
           IsLeast(t) == t \in {s1[i] : i \in 1 .. Len(s1)} /\ \A i \in 1 .. Len(s1) : t <= s1[i]
<1> SUFFICES /\ s1 \in Seq(Nat) /\ s1 # <<>> /\ s1[Len(s1)] = tt
             /\ [best |-> b, mean |-> mn] \in State /\ Sound(s1, [best |-> b, mean |-> mn])
  OBVIOUS
<1>1. n \in Nat /\ st.best \in Int /\ st.mean \in Int
  BY DEF State
<1>2. /\ s1 \in Seq(Nat) /\ s1 # <<>> /\ Len(s1) = n + 1 /\ s1[n + 1] = tt
      /\ \A i \in 1 .. n : s1[i] = s[i]
  BY AppendProperties
<1>3. s = <<>> <=> n = 0
  BY EmptySeq
<1>4. \A i \in 1 .. n : s[i] \in Nat /\ s[i] > 0 /\ st.best <= s[i]
  BY DEF Sound
<1>5. n > 0 => /\ \E i \in 1 .. n : s[i] = st.best
               /\ st.best * Scale <= st.mean
  BY <1>3 DEF Sound
<1> HIDE DEF s1, n
<1>6. \A i \in 1 .. n + 1 : i \in 1 .. n \/ i = n + 1
  BY <1>1
<1>7. n + 1 \in 1 .. n + 1
  BY <1>1
<1>8. IF n > 0 /\ st.best <= tt THEN IsLeast(st.best) ELSE IsLeast(tt)
  <2>1. \A i \in 1 .. n : i \in 1 .. n + 1
    BY <1>1
  <2>2. tt \in {s1[i] : i \in 1 .. Len(s1)}
    BY <1>2, <1>7
  <2>3. n > 0 => st.best \in {s1[i] : i \in 1 .. Len(s1)}
    BY <1>2, <1>5, <2>1
  <2>4. CASE n > 0 /\ st.best <= tt
    <3>1. \A i \in 1 .. n + 1 : st.best <= s1[i]
      BY <1>2, <1>4, <1>6, <2>4
    <3> QED BY <1>2, <2>3, <2>4, <3>1
  <2>5. CASE n > 0 /\ ~(st.best <= tt)
    <3>1. \A i \in 1 .. n : tt <= s[i]
      BY <1>1, <1>4, <2>5
    <3>2. \A i \in 1 .. n + 1 : tt <= s1[i]
      BY <1>2, <1>6, <3>1
    <3> QED BY <1>2, <2>2, <2>5, <3>2
  <2>6. CASE ~(n > 0)
    <3>1. \A i \in 1 .. n + 1 : tt <= s1[i]
      BY <1>1, <1>2, <1>6, <2>6
    <3> QED BY <1>2, <2>2, <2>6, <3>1
  <2> QED BY <2>4, <2>5, <2>6
<1>9. /\ IsLeast(b) /\ b \in Nat /\ b > 0 /\ b <= tt /\ (n > 0 => b <= st.best)
  <2>1. b = CHOOSE t : IsLeast(t)
    BY DEF best, Least
  <2>2. \E t : IsLeast(t)
    BY <1>8
  <2>3. IsLeast(b)
    <3> HIDE DEF IsLeast, b
    <3> QED BY <2>1, <2>2
  <2> HIDE DEF b
  <2>4. \A i \in 1 .. n + 1 : s1[i] \in Nat /\ s1[i] > 0
    BY <1>2, <1>4, <1>6
  <2>5. b \in Nat /\ b > 0
    BY <1>2, <2>3, <2>4
  <2>6. b <= tt
    BY <1>2, <1>7, <2>3
  <2>7. n > 0 => b <= st.best
    BY <1>1, <1>2, <1>5, <2>3
  <2> QED BY <2>3, <2>5, <2>6, <2>7
<1> HIDE DEF b
<1>10. mn \in Int /\ b * Scale <= mn
  <2>1. /\ tt * Scale \in Int /\ b * Scale \in Int /\ b * Scale <= tt * Scale
    <3>1. b \in Int /\ tt \in Int /\ b <= tt
      BY <1>9
    <3> QED BY <3>1, ScaledLess, Zenon
  <2>2. CASE n = 0
    BY <1>3, <2>1, <2>2
  <2>3. CASE n # 0
    <3>1. /\ n > 0 /\ mn = mean(st.mean, tt)
      BY <1>1, <1>3, <2>3
    <3> DEFINE B == b * Scale
               T == tt * Scale
               D == st.best * Scale
    <3>2. B <= D /\ D <= st.mean /\ D \in Int
      <4>1. b \in Int /\ st.best \in Int /\ b <= st.best
        BY <1>1, <1>9, <3>1
      <4>2. B <= D /\ D \in Int
        BY <4>1, ScaledLess, Zenon
      <4> QED BY <1>5, <3>1, <4>2
    <3>3. mn = st.mean + (T - st.mean) \div Weight
      BY <3>1 DEF mean
    <3>4. B \in Int /\ T \in Int /\ B <= T
      BY <2>1
    <3> HIDE DEF B, T, D, mn
    <3>5. st.mean - B \in Nat /\ T - st.mean \in Int /\ T - st.mean >= -(st.mean - B)
      BY <1>1, <3>2, <3>4
    <3>6. /\ (T - st.mean) \div Weight \in Int
          /\ (T - st.mean) \div Weight >= -(st.mean - B)
      BY <3>5, TripAssumption, DivLeast
    <3>7. mn \in Int /\ B <= mn
      BY <1>1, <3>3, <3>4, <3>6
    <3> QED BY <3>7 DEF B
  <2> QED BY <2>2, <2>3
<1> HIDE DEF mn
<1>11. [best |-> b, mean |-> mn] \in State
  BY <1>9, <1>10 DEF State
<1>12. \A i \in 1 .. Len(s1) : s1[i] > 0 /\ b <= s1[i]
  BY <1>2, <1>4, <1>6, <1>9
<1>13. \E i \in 1 .. Len(s1) : s1[i] = b
  BY <1>9
<1>14. Sound(s1, [best |-> b, mean |-> mn])
  BY <1>10, <1>12, <1>13 DEF Sound
<1> QED BY <1>2, <1>11, <1>14

-----------------------------------------------------------------------------
(* The actions.                                                             *)

LEMMA InitTInv == Init => TInv
<1> SUFFICES ASSUME Init PROVE TInv
  OBVIOUS
<1>1. walk = <<>> /\ mem = <<>> /\ back = 0 /\ walk \in Seq(Stop) /\ mem \in Seq(Stop)
  BY DEF Init
<1>2. Straight(mem)
  BY <1>1 DEF Straight
<1>3. AntOK
  BY <1>1, <1>2 DEF AntOK
<1>4. AgentsOK
  <2> DEFINE none == <<>>
  <2>1. /\ window = [x \in Node |-> [d \in Node |-> none]]
        /\ traffic = [x \in Node |-> [d \in Node |-> NoTraffic]]
    BY DEF Init
  <2>2. none \in Seq(Nat) /\ NoTraffic \in State
    BY DEF NoTraffic, State
  <2>3. Sound(none, NoTraffic)
    BY DEF Sound
  <2> HIDE DEF none
  <2> QED BY <2>1, <2>2, <2>3 DEF AgentsOK
<1> QED BY <1>1, <1>3, <1>4 DEF TInv

LEMMA LaunchTInv == TInv /\ Launch => TInv'
<1> SUFFICES ASSUME TInv, Launch PROVE TInv'
  OBVIOUS
<1> DEFINE one == <<[node |-> Source, time |-> 0]>>
<1>1. walk' = one /\ mem' = one /\ UNCHANGED <<back, window, traffic>> /\ back = 0
  BY DEF Launch, Idle, TInv, AntOK
<1>2. one \in Seq(Stop) /\ Len(one) = 1 /\ one # <<>>
  BY TripAssumption DEF Stop
<1> HIDE DEF one
<1>3. Straight(one)
  BY <1>2 DEF Straight
<1>4. Remembers(one, one)
  <2> DEFINE f == [i \in 1 .. Len(one) |-> 1]
  <2>1. f \in [1 .. Len(one) -> 1 .. Len(one)] /\ f[1] = 1
    BY <1>2
  <2> HIDE DEF f
  <2>2. Traced(one, one, f)
    BY <1>2, <2>1 DEF Traced, LeftAt
  <2> QED BY <2>1, <2>2 DEF Remembers
<1>5. AntOK'
  BY <1>1, <1>2, <1>3, <1>4 DEF AntOK
<1>6. AgentsOK'
  BY <1>1 DEF TInv, AgentsOK
<1> QED BY <1>1, <1>5, <1>6 DEF TInv

LEMMA HopTInv ==
    ASSUME TInv, NEW x \in Node, NEW delay \in Delay, Hop(x, delay)
    PROVE  TInv'
<1> DEFINE time == At.time + delay
           new == [node |-> x, time |-> time]
<1>1. /\ walk # <<>> /\ mem # <<>> /\ back = 0
      /\ walk \in Seq(Stop) /\ mem \in Seq(Stop)
      /\ Straight(mem) /\ Remembers(walk, mem)
  BY DEF Hop, Idle, TInv, AntOK
<1>2. /\ walk' = Append(walk, new) /\ mem' = memorize(mem, x, time)
      /\ back' = (IF x = Target THEN Len(mem') - 1 ELSE 0)
      /\ UNCHANGED <<window, traffic>>
  BY DEF Hop
<1>3. time \in Nat /\ time > walk[Len(walk)].time
  <2>1. Len(walk) \in 1 .. Len(walk)
    BY <1>1
  <2>2. walk[Len(walk)] \in Stop
    BY <1>1, <2>1
  <2>3. walk[Len(walk)].time \in Nat /\ delay \in Nat /\ delay > 0
    BY <2>2, StopFields, TripAssumption
  <2> QED BY <2>3 DEF At
<1> HIDE DEF time
<1>4. /\ mem' \in Seq(Stop) /\ mem' # <<>> /\ Straight(mem')
      /\ walk' \in Seq(Stop) /\ walk' # <<>> /\ Remembers(walk', mem')
  BY <1>1, <1>2, <1>3, memorizeOK
<1>5. Len(mem') \in Nat /\ Len(mem') > 0
  BY <1>4
<1>6. back' \in Nat /\ back' < Len(mem')
  BY <1>2, <1>5
<1>7. AntOK'
  BY <1>4, <1>6 DEF AntOK
<1>8. AgentsOK'
  BY <1>2 DEF TInv, AgentsOK
<1>9. back' > 0 => Taught(mem', back', window')
  <2> SUFFICES ASSUME back' > 0 PROVE Taught(mem', back', window')
    OBVIOUS
  <2>1. back' = Len(mem') - 1
    BY <1>2
  <2>2. \A i \in back' + 1 .. Len(mem') : \A j \in i + 1 .. Len(mem') : FALSE
    BY <1>5, <2>1
  <2> QED BY <2>2 DEF Taught
<1> QED BY <1>7, <1>8, <1>9 DEF TInv

(* What a node learns: a sample for every node beyond it. *)
LEMMA Learns ==
    ASSUME TInv, back > 0, update_traffic(mem[back].node)
    PROVE  /\ AgentsOK'
           /\ \A y \in Node \ {mem[back].node} : window'[y] = window[y]
           /\ \A j \in back + 1 .. Len(mem) :
                 LET s == window'[mem[back].node][mem[j].node]
                 IN  s # <<>> /\ s[Len(s)] = mem[j].time - mem[back].time
<1> DEFINE x == mem[back].node
           n == Len(mem)
<1>1. /\ mem \in Seq(Stop) /\ Straight(mem) /\ n \in Nat /\ back \in 1 .. n /\ back \in Nat
      /\ window \in [Node -> [Node -> Seq(Nat)]]
      /\ traffic \in [Node -> [Node -> State]]
      /\ \A y, d \in Node : Sound(window[y][d], traffic[y][d])
  BY DEF TInv, AntOK, AgentsOK
<1>2. \A i \in 1 .. n : mem[i].node \in Node /\ mem[i].time \in Nat
  <2>1. \A i \in 1 .. n : mem[i] \in Stop
    BY <1>1
  <2> QED BY <2>1, StopFields
<1>3. \A i \in 1 .. n : First(mem, mem[i].node) = i
  BY <1>1, FirstIs
<1>4. x \in Node /\ First(mem, x) = back
  BY <1>1, <1>2, <1>3
<1>5. Beyond(x) = {mem[k].node : k \in back + 1 .. n}
  BY <1>4 DEF Beyond
<1>6. ASSUME NEW j \in back + 1 .. n
      PROVE  /\ mem[j].node \in Node /\ mem[j].node \in Beyond(x)
             /\ Sample(x, mem[j].node) = mem[j].time - mem[back].time
             /\ Sample(x, mem[j].node) \in Nat /\ Sample(x, mem[j].node) > 0
  <2>1. j \in 1 .. n /\ back < j
    BY <1>1
  <2>2. Sample(x, mem[j].node) = mem[j].time - mem[back].time
    BY <1>3, <1>4, <2>1 DEF Sample
  <2>3. mem[j].time > mem[back].time
    BY <1>1, <2>1 DEF Straight
  <2>4. mem[j].time \in Nat /\ mem[back].time \in Nat /\ mem[j].node \in Node
    BY <1>1, <1>2, <2>1
  <2> QED BY <1>5, <2>2, <2>3, <2>4
<1>7. \A d \in Beyond(x) : Sample(x, d) \in Nat /\ Sample(x, d) > 0
  BY <1>5, <1>6
<1> DEFINE win(d) == IF d \in Beyond(x) THEN Append(window[x][d], Sample(x, d)) ELSE window[x][d]
           trf(d) == IF d \notin Beyond(x) THEN traffic[x][d]
                     ELSE [best |-> best(Append(window[x][d], Sample(x, d))),
                           mean |-> IF window[x][d] = <<>> THEN Sample(x, d) * Scale
                                    ELSE mean(traffic[x][d].mean, Sample(x, d))]
<1>8. /\ window' = [window EXCEPT ![x] = [d \in Node |-> win(d)]]
      /\ traffic' = [traffic EXCEPT ![x] = [d \in Node |-> trf(d)]]
  BY <1>1, <1>4 DEF update_traffic
<1>9. ASSUME NEW d \in Node
      PROVE  /\ win(d) \in Seq(Nat) /\ trf(d) \in State /\ Sound(win(d), trf(d))
             /\ d \in Beyond(x) => win(d) # <<>> /\ win(d)[Len(win(d))] = Sample(x, d)
  <2>1. window[x][d] \in Seq(Nat) /\ traffic[x][d] \in State /\ Sound(window[x][d], traffic[x][d])
    BY <1>1, <1>4
  <2>2. CASE d \in Beyond(x)
    <3> DEFINE s == window[x][d]
               st == traffic[x][d]
               tt == Sample(x, d)
    <3>1. tt \in Nat /\ tt > 0 /\ s \in Seq(Nat) /\ st \in State /\ Sound(s, st)
      BY <1>7, <2>1, <2>2
    <3>2. /\ win(d) = Append(s, tt)
          /\ trf(d) = [best |-> best(Append(s, tt)),
                       mean |-> IF s = <<>> THEN tt * Scale ELSE mean(st.mean, tt)]
      BY <2>2
    <3> HIDE DEF s, st, tt, win, trf
    <3> QED BY <3>1, <3>2, SampleSound DEF tt
  <2>3. CASE d \notin Beyond(x)
    BY <2>1, <2>3
  <2> QED BY <2>2, <2>3
<1> HIDE DEF win, trf, x
<1>10. /\ window' \in [Node -> [Node -> Seq(Nat)]]
       /\ \A d \in Node : window'[x][d] = win(d)
       /\ \A y \in Node \ {x} : window'[y] = window[y]
  BY <1>1, <1>4, <1>8, <1>9
<1>11. /\ traffic' \in [Node -> [Node -> State]]
       /\ \A d \in Node : traffic'[x][d] = trf(d)
       /\ \A y \in Node \ {x} : traffic'[y] = traffic[y]
  BY <1>1, <1>4, <1>8, <1>9
<1>12. \A y, d \in Node : Sound(window'[y][d], traffic'[y][d])
  <2> SUFFICES ASSUME NEW y \in Node, NEW d \in Node
               PROVE  Sound(window'[y][d], traffic'[y][d])
    OBVIOUS
  <2>1. CASE y = x
    BY <1>9, <1>10, <1>11, <2>1
  <2>2. CASE y # x
    BY <1>1, <1>10, <1>11, <2>2
  <2> QED BY <2>1, <2>2
<1>13. AgentsOK'
  BY <1>10, <1>11, <1>12 DEF AgentsOK
<1>14. ASSUME NEW j \in back + 1 .. n
       PROVE  LET s == window'[x][mem[j].node]
              IN  s # <<>> /\ s[Len(s)] = mem[j].time - mem[back].time
  BY <1>6, <1>9, <1>10
<1> QED BY <1>10, <1>13, <1>14 DEF x, n

LEMMA TeachTInv == TInv /\ Teach => TInv'
<1> SUFFICES ASSUME TInv, Teach PROVE TInv'
  OBVIOUS
<1> DEFINE n == Len(mem)
<1>1. back > 0 /\ update_traffic(mem[back].node) /\ back' = back - 1
  BY DEF Teach
<1>2. /\ AntOK /\ back \in Nat /\ back < n /\ n \in Nat /\ mem \in Seq(Stop) /\ Straight(mem)
      /\ Taught(mem, back, window) /\ walk # <<>>
  BY <1>1 DEF TInv, AntOK
<1>3. AgentsOK'
  BY <1>1, Learns
<1>4. CASE back = 1
  <2>1. walk' = <<>> /\ mem' = <<>> /\ back' = 0
    BY <1>1, <1>4 DEF Teach
  <2>2. AntOK'
    BY <2>1 DEF AntOK, Straight
  <2> QED BY <1>3, <2>1, <2>2 DEF TInv
<1>5. CASE back # 1
  <2>1. walk' = walk /\ mem' = mem
    BY <1>5 DEF Teach
  <2>2. back' \in Nat /\ back' < n
    BY <1>1, <1>2
  <2>3. AntOK'
    BY <1>2, <2>1, <2>2 DEF AntOK
  <2>4. ASSUME NEW i \in back .. n, NEW j \in i + 1 .. n
        PROVE  LET s == window'[mem[i].node][mem[j].node]
               IN  s # <<>> /\ s[Len(s)] = mem[j].time - mem[i].time
    <3>1. CASE i = back
      <4>1. j \in back + 1 .. n
        BY <3>1
      <4> QED BY <1>1, <3>1, <4>1, Learns
    <3>2. CASE i # back
      <4>1. /\ i \in back + 1 .. n /\ i \in 1 .. n /\ back \in 1 .. n /\ back < i
        BY <1>1, <1>2, <3>2
      <4>2. mem[i].node # mem[back].node
        BY <1>2, <4>1 DEF Straight
      <4>3. mem[i].node \in Node
        BY <1>2, <4>1, StopFields
      <4>4. window'[mem[i].node] = window[mem[i].node]
        BY <1>1, <4>2, <4>3, Learns
      <4> QED BY <1>2, <4>1, <4>4 DEF Taught
    <3> QED BY <3>1, <3>2
  <2>5. back' + 1 = back
    BY <1>1, <1>2
  <2>6. Taught(mem', back', window')
    <3> HIDE DEF n
    <3> QED BY <2>1, <2>4, <2>5 DEF Taught, n
  <2> QED BY <1>3, <2>3, <2>6 DEF TInv
<1> QED BY <1>4, <1>5

LEMMA NextTInv == TInv /\ [Next]_vars => TInv'
<1> SUFFICES ASSUME TInv, [Next]_vars PROVE TInv'
  OBVIOUS
<1>1. CASE Lose
  <2>1. walk' = <<>> /\ mem' = <<>> /\ back' = 0 /\ UNCHANGED <<window, traffic>>
    BY <1>1 DEF Lose
  <2>2. AntOK'
    BY <2>1 DEF AntOK, Straight
  <2>3. AgentsOK'
    BY <2>1 DEF TInv, AgentsOK
  <2> QED BY <2>1, <2>2, <2>3 DEF TInv
<1>2. CASE UNCHANGED vars
  BY <1>2 DEF TInv, AntOK, AgentsOK, vars
<1> QED BY <1>1, <1>2, LaunchTInv, HopTInv, TeachTInv DEF Next

LEMMA TInvHolds == Spec => []TInv
<1> QED BY InitTInv, NextTInv, PTL DEF Spec

-----------------------------------------------------------------------------
(* The hops that the memory's times are those of. *)
LEMMA HopTimes ==
    ASSUME TInv, walk # <<>>
    PROVE  /\ mem[Len(mem)] = walk[Len(walk)]
           /\ \A i \in 1 .. Len(mem) - 1 :
                 /\ mem[i + 1].node = walk[LastStop(mem[i].node) + 1].node
                 /\ mem[i + 1].time - mem[i].time = HopTime(i)
<1> DEFINE Left(x, k) == walk[k].node = x /\ \A j \in k + 1 .. Len(walk) : walk[j].node # x
<1>1. walk \in Seq(Stop) /\ mem \in Seq(Stop) /\ Remembers(walk, mem)
  BY DEF TInv, AntOK
<1>2. PICK f \in [1 .. Len(mem) -> 1 .. Len(walk)] : Traced(walk, mem, f)
  BY <1>1 DEF Remembers
<1>3. ASSUME NEW i \in 1 .. Len(mem) PROVE LastStop(mem[i].node) = f[i]
  <2> DEFINE x == mem[i].node
  <2>1. Left(x, f[i]) /\ f[i] \in 1 .. Len(walk)
    BY <1>2 DEF Traced, LeftAt
  <2>2. ASSUME NEW k \in 1 .. Len(walk), NEW l \in 1 .. Len(walk), Left(x, k), Left(x, l), k < l
        PROVE  FALSE
    <3>1. l \in k + 1 .. Len(walk)
      BY <1>1, <2>2
    <3> QED BY <2>2, <3>1
  <2>3. \A k \in 1 .. Len(walk) : Left(x, k) => k = f[i]
    <3> SUFFICES ASSUME NEW k \in 1 .. Len(walk), Left(x, k), k # f[i] PROVE FALSE
      OBVIOUS
    <3>1. k < f[i] \/ f[i] < k
      BY <1>1, <2>1
    <3> HIDE DEF Left
    <3> QED BY <2>1, <2>2, <3>1
  <2>4. LastStop(x) = CHOOSE k \in 1 .. Len(walk) : Left(x, k)
    BY DEF LastStop
  <2> HIDE DEF Left
  <2> QED BY <2>1, <2>3, <2>4
<1>4. \A i \in 1 .. Len(mem) - 1 : i \in 1 .. Len(mem)
  BY <1>1
<1> QED BY <1>2, <1>3, <1>4 DEF Traced, HopTime

(* memorize keeps, however many loops it cuts out, the times of the hops on which
   the ant left its nodes for the last time.                                *)
THEOREM MemoryHasHopTimes == Spec => []TimesAreHops
<1>1. TInv => TimesAreHops
  BY HopTimes DEF TimesAreHops, Idle, At
<1> QED BY <1>1, TInvHolds, PTL

(* The samples that update_traffic makes of one memory at the nodes of the way
   back are the trip times of the walk without its loops: hop by hop those of
   the hops that the memory keeps, and their sums.                          *)
THEOREM TripTimesAddUp == Spec => []SamplesAddUp
<1>1. TInv => SamplesAddUp
  <2> DEFINE told(i, j) == LET s == window[mem[i].node][mem[j].node] IN s[Len(s)]
  <2> SUFFICES ASSUME TInv, back > 0
               PROVE  /\ \A i \in back + 1 .. Len(mem) - 1 : told(i, i + 1) = HopTime(i)
                      /\ \A i, j, k \in back + 1 .. Len(mem) :
                            i < j /\ j < k => told(i, k) = told(i, j) + told(j, k)
    BY DEF SamplesAddUp
  <2>1. Taught(mem, back, window) /\ mem \in Seq(Stop) /\ back \in Nat /\ walk # <<>>
    BY DEF TInv, AntOK
  <2>2. ASSUME NEW i \in back + 1 .. Len(mem), NEW j \in i + 1 .. Len(mem)
        PROVE  told(i, j) = mem[j].time - mem[i].time
    BY <2>1, <2>2 DEF Taught
  <2> HIDE DEF told
  <2>3. ASSUME NEW i \in back + 1 .. Len(mem) - 1 PROVE told(i, i + 1) = HopTime(i)
    <3>1. /\ i \in back + 1 .. Len(mem) /\ i + 1 \in i + 1 .. Len(mem)
          /\ i \in 1 .. Len(mem) - 1
      BY <2>1
    <3> QED BY <2>1, <2>2, <3>1, HopTimes
  <2>4. ASSUME NEW i \in back + 1 .. Len(mem), NEW j \in back + 1 .. Len(mem),
               NEW k \in back + 1 .. Len(mem), i < j, j < k
        PROVE  told(i, k) = told(i, j) + told(j, k)
    <3>1. j \in i + 1 .. Len(mem) /\ k \in i + 1 .. Len(mem) /\ k \in j + 1 .. Len(mem)
      BY <2>1, <2>4
    <3>2. /\ told(i, j) = mem[j].time - mem[i].time
          /\ told(i, k) = mem[k].time - mem[i].time
          /\ told(j, k) = mem[k].time - mem[j].time
      BY <2>2, <3>1
    <3>3. mem[i] \in Stop /\ mem[j] \in Stop /\ mem[k] \in Stop
      BY <2>1
    <3>4. mem[i].time \in Int /\ mem[j].time \in Int /\ mem[k].time \in Int
      BY <3>3, StopFields
    <3> QED BY <3>2, <3>4
  <2> QED BY <2>3, <2>4
<1> QED BY <1>1, TInvHolds, PTL

(* Whatever update_traffic is told, the best trip time it keeps is positive and
   neither a sample nor the mean is below it.                               *)
THEOREM ReinforcementFactorSound == Spec => []FactorSound
<1>1. TInv => FactorSound
  <2> SUFFICES ASSUME TInv, NEW x \in Node, NEW d \in Node, NEW i \in 1 .. Len(window[x][d])
               PROVE  LET best_tt == traffic[x][d].best
                      IN  /\ 0 < best_tt /\ best_tt <= window[x][d][i]
                          /\ best_tt * Scale <= traffic[x][d].mean
    BY DEF FactorSound
  <2>1. Sound(window[x][d], traffic[x][d]) /\ window[x][d] \in Seq(Nat)
    BY DEF TInv, AgentsOK
  <2>2. window[x][d] # <<>>
    BY <2>1
  <2>3. /\ \E k \in 1 .. Len(window[x][d]) : window[x][d][k] = traffic[x][d].best
        /\ traffic[x][d].best * Scale <= traffic[x][d].mean
        /\ \A k \in 1 .. Len(window[x][d]) :
              window[x][d][k] > 0 /\ traffic[x][d].best <= window[x][d][k]
    BY <2>1, <2>2 DEF Sound
  <2>4. 0 < traffic[x][d].best
    BY <2>1, <2>3
  <2> QED BY <2>3, <2>4
<1> QED BY <1>1, TInvHolds, PTL

=============================================================================
