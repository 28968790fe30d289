------------------------ MODULE TraceAnalysisProofs ------------------------
(***************************************************************************)
(* Theorems about TraceAnalysis, for any packets, nodes and length of the  *)
(* trace: what of the history it is that each script reports.              *)
(*                                                                         *)
(* The scripts know the lines only, so the argument goes through them.     *)
(* First, what every kind of line has at the places the scripts look at.   *)
(* Then, that each step adds one line of an agent, which tells of one send *)
(* or one delivery, or two of a packet between two links, or only lines    *)
(* that the script passes over. The Perl scripts look at the whole trace:  *)
(* it is a log, with one line for every packet sent and one behind it for  *)
(* every packet delivered. The awk scripts read line by line: what they    *)
(* have stored is the history so far.                                      *)
(***************************************************************************)
EXTENDS TraceAnalysis, SequenceLemmas

-----------------------------------------------------------------------------
(* Sums over sets.                                                          *)

AnyOf(T) == CHOOSE p \in T : TRUE

(* h[T] is the sum of g over T, added up in the order that CHOOSE has. *)
IsTotal(h, g, S) ==
    /\ h \in [SUBSET S -> Int]
    /\ \A T \in SUBSET S : h[T] = IF T = {} THEN 0 ELSE g[AnyOf(T)] + h[T \ {AnyOf(T)}]

Unfolds(k, g, S) ==
    \A T \in SUBSET S : k[T] = IF T = {} THEN 0 ELSE g[AnyOf(T)] + k[T \ {AnyOf(T)}]

(* The same, in every order. *)
Additive(h, g, S) ==
    /\ h \in [SUBSET S -> Int]
    /\ h[{}] = 0
    /\ \A T \in SUBSET S : \A p \in T : h[T] = h[T \ {p}] + g[p]

LEMMA AnyOfIn == \A T : T # {} => AnyOf(T) \in T
BY DEF AnyOf

LEMMA SubsetSizes ==
    ASSUME NEW S, IsFiniteSet(S)
    PROVE  /\ Cardinality(S) \in Nat
           /\ \A T \in SUBSET S :
                 /\ IsFiniteSet(T) /\ Cardinality(T) \in 0 .. Cardinality(S)
                 /\ \A p \in T : Cardinality(T \ {p}) = Cardinality(T) - 1
                 /\ T = {} <=> Cardinality(T) = 0
<1>1. Cardinality(S) \in Nat
  BY FS_CardinalityType
<1>2. ASSUME NEW T \in SUBSET S
      PROVE  /\ IsFiniteSet(T) /\ Cardinality(T) \in 0 .. Cardinality(S)
             /\ \A p \in T : Cardinality(T \ {p}) = Cardinality(T) - 1
             /\ T = {} <=> Cardinality(T) = 0
  <2>1. IsFiniteSet(T) /\ Cardinality(T) <= Cardinality(S)
    BY FS_Subset
  <2>2. Cardinality(T) \in Nat
    BY <2>1, FS_CardinalityType
  <2>3. \A p \in T : Cardinality(T \ {p}) = Cardinality(T) - 1
    BY <2>1, FS_RemoveElement
  <2>4. T = {} <=> Cardinality(T) = 0
    BY <2>1, FS_EmptySet
  <2> QED BY <1>1, <2>1, <2>2, <2>3, <2>4
<1> QED BY <1>1, <1>2

LEMMA TotalGrows ==
    ASSUME NEW S, IsFiniteSet(S), NEW g \in [S -> Int], NEW h, IsTotal(h, g, S)
    PROVE  Additive(h, g, S)
<1> DEFINE n == Cardinality(S)
           Grows(T) == \A p \in T : h[T] = h[T \ {p}] + g[p]
           P == {k \in 0 .. n : \A T \in SUBSET S : Cardinality(T) = k => Grows(T)}
<1>1. /\ n \in Nat
      /\ \A T \in SUBSET S : /\ Cardinality(T) \in 0 .. n
                             /\ \A p \in T : Cardinality(T \ {p}) = Cardinality(T) - 1
                             /\ T = {} <=> Cardinality(T) = 0
  BY SubsetSizes
<1>2. 0 \in P
  BY <1>1
<1>3. \A k \in 1 .. n : k - 1 \in P => k \in P
  <2> SUFFICES ASSUME NEW k \in 1 .. n, k - 1 \in P, NEW T \in SUBSET S,
                      Cardinality(T) = k, NEW p \in T
               PROVE  h[T] = h[T \ {p}] + g[p]
    OBVIOUS
  <2> DEFINE q == AnyOf(T)
             Tx == T \ {p}
             Ty == T \ {q}
             Txy == T \ {p, q}
  <2>1. q \in T /\ h[T] = g[q] + h[Ty]
    BY AnyOfIn DEF IsTotal
  <2>2. /\ Tx \in SUBSET S /\ Ty \in SUBSET S /\ Txy \in SUBSET S
        /\ h[Tx] \in Int /\ h[Ty] \in Int /\ h[Txy] \in Int
        /\ g[p] \in Int /\ g[q] \in Int
    BY <2>1 DEF IsTotal
  <2>3. Grows(Tx) /\ Grows(Ty)
    BY <1>1, <2>1, <2>2
  <2>4. CASE p = q
    BY <2>1, <2>2, <2>4
  <2>5. CASE p # q
    <3>1. Tx \ {q} = Txy /\ Ty \ {p} = Txy
      OBVIOUS
    <3>2. h[Tx] = h[Txy] + g[q] /\ h[Ty] = h[Txy] + g[p]
      BY <2>1, <2>3, <2>5, <3>1
    <3> HIDE DEF Tx, Ty, Txy, q
    <3>3. h[T] = h[Tx] + g[p]
      BY <2>1, <2>2, <3>2
    <3> QED BY <3>3 DEF Tx
  <2> QED BY <2>4, <2>5
<1>4. \A k \in 0 .. n : k \in P
  <2> HIDE DEF P
  <2> QED BY <1>1, <1>2, <1>3, Climb
<1>5. \A T \in SUBSET S : Grows(T)
  BY <1>1, <1>4
<1>6. {} \in SUBSET S
  OBVIOUS
<1> QED BY <1>5, <1>6 DEF IsTotal, Additive

LEMMA TotalExists ==
    ASSUME NEW S, IsFiniteSet(S), NEW g \in [S -> Int]
    PROVE  \E h : IsTotal(h, g, S)
<1> DEFINE n == Cardinality(S)
           P == {k \in 0 .. n :
                   \A T \in SUBSET S : Cardinality(T) = k => \E h : Additive(h, g, T)}
<1>1. /\ n \in Nat
      /\ \A T \in SUBSET S : /\ Cardinality(T) \in 0 .. n
                             /\ \A p \in T : Cardinality(T \ {p}) = Cardinality(T) - 1
                             /\ T = {} <=> Cardinality(T) = 0
  BY SubsetSizes
<1>2. 0 \in P
  <2> SUFFICES ASSUME NEW T \in SUBSET S, Cardinality(T) = 0
               PROVE  \E h : Additive(h, g, T)
    BY <1>1
  <2>1. T = {}
    BY <1>1
  <2>2. Additive([R \in SUBSET T |-> 0], g, T)
    BY <2>1 DEF Additive
  <2> QED BY <2>2
<1>3. \A k \in 1 .. n : k - 1 \in P => k \in P
  <2> SUFFICES ASSUME NEW k \in 1 .. n, k - 1 \in P, NEW T \in SUBSET S, Cardinality(T) = k
               PROVE  \E h : Additive(h, g, T)
    BY <1>1
  <2>1. PICK p \in T : TRUE
    BY <1>1
  <2>2. PICK h : Additive(h, g, T \ {p})
    BY <1>1
  <2> DEFINE f == [R \in SUBSET T |-> IF p \in R THEN h[R \ {p}] + g[p] ELSE h[R]]
  <2>3. \A R \in SUBSET T : /\ R \ {p} \in SUBSET (T \ {p})
                            /\ p \notin R => R \in SUBSET (T \ {p})
                            /\ h[R \ {p}] \in Int /\ g[p] \in Int
    BY <2>2 DEF Additive
  <2>4. f \in [SUBSET T -> Int]
    BY <2>2, <2>3 DEF Additive
  <2>5. f[{}] = 0
    BY <2>2 DEF Additive
  <2>6. ASSUME NEW R \in SUBSET T, NEW q \in R PROVE f[R] = f[R \ {q}] + g[q]
    <3>1. R \ {q} \in SUBSET T /\ g[q] \in Int
      OBVIOUS
    <3>2. CASE p = q
      <4>1. f[R] = h[R \ {p}] + g[p] /\ f[R \ {q}] = h[R \ {q}]
        BY <3>1, <3>2
      <4> QED BY <3>2, <4>1
    <3>3. CASE p # q /\ p \in R
      <4> DEFINE Rx == R \ {p}
                 Rxy == R \ {p, q}
      <4>1. Rx \ {q} = Rxy /\ (R \ {q}) \ {p} = Rxy /\ q \in Rx
        BY <3>3
      <4>2. f[R] = h[Rx] + g[p] /\ f[R \ {q}] = h[Rxy] + g[p]
        BY <3>1, <3>3, <4>1
      <4>3. h[Rx] = h[Rxy] + g[q]
        <5>1. Rx \in SUBSET (T \ {p}) /\ q \in Rx /\ Rx \ {q} = Rxy
          BY <4>1
        <5> HIDE DEF Rx, Rxy
        <5> QED BY <2>2, <5>1 DEF Additive
      <4>4. h[Rxy] \in Int /\ g[p] \in Int
        BY <2>3, <3>1, <4>1
      <4> HIDE DEF Rx, Rxy, f
      <4> QED BY <3>1, <4>2, <4>3, <4>4
    <3>4. CASE p \notin R
      <4>1. f[R] = h[R] /\ f[R \ {q}] = h[R \ {q}]
        BY <3>1, <3>4
      <4> QED BY <2>2, <2>3, <3>4, <4>1 DEF Additive
    <3> QED BY <3>2, <3>3, <3>4
  <2> HIDE DEF f
  <2>7. Additive(f, g, T)
    BY <2>4, <2>5, <2>6 DEF Additive
  <2> QED BY <2>7
<1>4. n \in P
  <2> HIDE DEF P
  <2> QED BY <1>1, <1>2, <1>3, Climb
<1>5. PICK h : Additive(h, g, S)
  BY <1>4
<1>6. ASSUME NEW T \in SUBSET S
      PROVE  h[T] = IF T = {} THEN 0 ELSE g[AnyOf(T)] + h[T \ {AnyOf(T)}]
  <2>1. CASE T = {}
    BY <1>5, <2>1 DEF Additive
  <2>2. CASE T # {}
    <3>1. AnyOf(T) \in T /\ T \ {AnyOf(T)} \in SUBSET S
      BY <2>2, AnyOfIn
    <3>2. h[T \ {AnyOf(T)}] \in Int /\ g[AnyOf(T)] \in Int
      BY <1>5, <3>1 DEF Additive
    <3>3. h[T] = h[T \ {AnyOf(T)}] + g[AnyOf(T)]
      BY <1>5, <3>1 DEF Additive
    <3> QED BY <2>2, <3>2, <3>3
  <2> QED BY <2>1, <2>2
<1> QED BY <1>5, <1>6 DEF IsTotal, Additive

(* A part has the same sum whatever it is a part of. *)
LEMMA TotalsAgree ==
    ASSUME NEW S, IsFiniteSet(S), NEW R, R \subseteq S, NEW g, NEW h, NEW k,
           IsTotal(h, g, S), Unfolds(k, g, R)
    PROVE  \A T \in SUBSET R : h[T] = k[T]
<1> DEFINE n == Cardinality(S)
           P == {j \in 0 .. n : \A T \in SUBSET R : Cardinality(T) = j => h[T] = k[T]}
<1>1. /\ n \in Nat
      /\ \A T \in SUBSET S : /\ Cardinality(T) \in 0 .. n
                             /\ \A p \in T : Cardinality(T \ {p}) = Cardinality(T) - 1
                             /\ T = {} <=> Cardinality(T) = 0
  BY SubsetSizes
<1>2. 0 \in P
  <2>1. h[{}] = 0 /\ k[{}] = 0
    BY DEF IsTotal, Unfolds
  <2> QED BY <1>1, <2>1
<1>3. \A j \in 1 .. n : j - 1 \in P => j \in P
  <2> SUFFICES ASSUME NEW j \in 1 .. n, j - 1 \in P, NEW T \in SUBSET R, Cardinality(T) = j
               PROVE  h[T] = k[T]
    BY <1>1
  <2> DEFINE q == AnyOf(T)
  <2>1. T # {} /\ T \in SUBSET S
    BY <1>1
  <2>2. q \in T /\ T \ {q} \in SUBSET R
    BY <2>1, AnyOfIn
  <2>3. h[T \ {q}] = k[T \ {q}]
    BY <1>1, <2>1, <2>2
  <2>4. h[T] = g[q] + h[T \ {q}] /\ k[T] = g[q] + k[T \ {q}]
    BY <2>1 DEF IsTotal, Unfolds
  <2> QED BY <2>3, <2>4
<1>4. \A j \in 0 .. n : j \in P
  <2> HIDE DEF P
  <2> QED BY <1>1, <1>2, <1>3, Climb
<1> QED BY <1>1, <1>4
(* A sum over a set is the value that any total has there. *)
LEMMA SumIs ==
    ASSUME NEW P, IsFiniteSet(P), NEW g \in [P -> Int], NEW h, IsTotal(h, g, P),
           NEW S \in SUBSET P
    PROVE  SumFunctionOnSet(g, S) = h[S] /\ h[S] \in Int
<1> DEFINE Body(f, T) == IF T = {} THEN 0 ELSE g[AnyOf(T)] + f[T \ {AnyOf(T)}]
           iter == CHOOSE f : f = [T \in SUBSET S |-> Body(f, T)]
           k == [T \in SUBSET S |-> h[T]]
<1>1. SumFunctionOnSet(g, S) = iter[S]
  BY DEF SumFunctionOnSet, FoldFunctionOnSet, MapThenFoldSet, AnyOf
<1>2. k = [T \in SUBSET S |-> Body(k, T)]
  <2>1. ASSUME NEW T \in SUBSET S PROVE h[T] = Body(k, T)
    <3>1. T \in SUBSET P /\ T \ {AnyOf(T)} \in SUBSET S
      OBVIOUS
    <3> QED BY <3>1 DEF IsTotal
  <2> HIDE DEF Body
  <2> QED BY <2>1
<1>3. iter = [T \in SUBSET S |-> Body(iter, T)]
  <2> HIDE DEF Body, k
  <2> QED BY <1>2
<1> HIDE DEF iter, k
<1>4. Unfolds(iter, g, S)
  BY <1>3 DEF Unfolds
<1>5. \A T \in SUBSET S : h[T] = iter[T]
  <2>1. S \subseteq P /\ IsFiniteSet(P) /\ IsTotal(h, g, P)
    OBVIOUS
  <2>2. PICK m : m = iter
    OBVIOUS
  <2>3. Unfolds(m, g, S)
    BY <1>4, <2>2
  <2>4. \A T \in SUBSET S : h[T] = m[T]
    BY <2>1, <2>3, TotalsAgree
  <2> QED BY <2>2, <2>4
<1> QED BY <1>1, <1>5 DEF IsTotal

(* One more summand, or a greater one. *)
LEMMA SumGrows ==
    ASSUME NEW P, IsFiniteSet(P), NEW g \in [P -> Int]
    PROVE  /\ SumFunctionOnSet(g, {}) = 0
           /\ \A S \in SUBSET P : SumFunctionOnSet(g, S) \in Int
           /\ \A S \in SUBSET P : \A p \in P \ S :
                 SumFunctionOnSet(g, S \union {p}) = SumFunctionOnSet(g, S) + g[p]
           /\ \A p \in P : \A n \in Int :
                 SumFunctionOnSet([g EXCEPT ![p] = @ + n], P) = SumFunctionOnSet(g, P) + n
<1>1. PICK h : IsTotal(h, g, P)
  BY TotalExists
<1>2. \A S \in SUBSET P : SumFunctionOnSet(g, S) = h[S] /\ h[S] \in Int
  BY <1>1, SumIs
<1>3. Additive(h, g, P)
  BY <1>1, TotalGrows
<1>4. ASSUME NEW S \in SUBSET P, NEW p \in P \ S
      PROVE  SumFunctionOnSet(g, S \union {p}) = SumFunctionOnSet(g, S) + g[p]
  <2>1. S \union {p} \in SUBSET P /\ p \in S \union {p} /\ (S \union {p}) \ {p} = S
    OBVIOUS
  <2>2. h[S \union {p}] = h[S] + g[p]
    BY <1>3, <2>1 DEF Additive
  <2> QED BY <1>2, <2>1, <2>2
<1>5. ASSUME NEW p \in P, NEW n \in Int
      PROVE  SumFunctionOnSet([g EXCEPT ![p] = @ + n], P) = SumFunctionOnSet(g, P) + n
  <2> DEFINE g1 == [g EXCEPT ![p] = @ + n]
             R == P \ {p}
  <2>1. g1 \in [P -> Int] /\ g1[p] = g[p] + n /\ \A q \in R : g1[q] = g[q]
    OBVIOUS
  <2>2. R \subseteq P /\ R \in SUBSET P /\ P \in SUBSET P /\ p \notin R
    OBVIOUS
  <2> HIDE DEF g1
  <2>3. PICK k : IsTotal(k, g1, P)
    BY <2>1, TotalExists
  <2>4. Additive(k, g1, P)
    BY <2>1, <2>3, TotalGrows
  <2>5. Unfolds(k, g, R)
    <3>1. ASSUME NEW T \in SUBSET R
          PROVE  k[T] = IF T = {} THEN 0 ELSE g[AnyOf(T)] + k[T \ {AnyOf(T)}]
      <4>1. T \in SUBSET P /\ (T # {} => AnyOf(T) \in R)
        BY AnyOfIn
      <4>2. k[T] = IF T = {} THEN 0 ELSE g1[AnyOf(T)] + k[T \ {AnyOf(T)}]
        BY <2>3, <4>1 DEF IsTotal
      <4> HIDE DEF R
      <4> QED BY <2>1, <4>1, <4>2
    <3> QED BY <3>1 DEF Unfolds
  <2>6. h[R] = k[R]
    <3>1. R \in SUBSET R
      OBVIOUS
    <3> HIDE DEF R
    <3> QED BY <1>1, <2>2, <2>5, <3>1, TotalsAgree
  <2>7. h[P] = h[R] + g[p] /\ k[P] = k[R] + g1[p]
    BY <1>3, <2>2, <2>4 DEF Additive
  <2>8. SumFunctionOnSet(g1, P) = k[P] /\ SumFunctionOnSet(g, P) = h[P]
    BY <1>2, <2>1, <2>2, <2>3, SumIs
  <2>9. h[R] \in Int /\ g[p] \in Int
    BY <1>2, <2>2
  <2> HIDE DEF R
  <2>10. SumFunctionOnSet(g1, P) = SumFunctionOnSet(g, P) + n
    BY <2>1, <2>6, <2>7, <2>8, <2>9
  <2> QED BY <2>10 DEF g1
<1>6. SumFunctionOnSet(g, {}) = 0
  <2>1. {} \in SUBSET P
    OBVIOUS
  <2> QED BY <1>2, <1>3, <2>1 DEF Additive
<1> QED BY <1>2, <1>4, <1>5, <1>6

-----------------------------------------------------------------------------
(* The fields of a line.                                                    *)

(* The words in a trace, and the fields, which all have a number. *)
Tags == {"-t", "-Hs", "-Hd", "-Ni", "-Nx", "-Ny", "-Nz", "-Ne", "-Nl", "-Nw",
         "-Ma", "-Md", "-Ms", "-Mt", "-Is", "-Id", "-It", "-Il", "-If", "-Ii", "-Iv",
         "-P", "-Po", "-Pms", "-Ps", "-Pmd", "-Pd", "-Pn", "-Pi", "-Pf", "-Pa", "-Pl"}
Levels == {"AGT", "RTR", "IFQ", "MAC", "link"}
Types  == {"+", "s", "r", "f", "d", "D"}
PTypes == {"cbr", "tcp", "ack", "MAC", "ARP", "Ant"}
Words  == Tags \union Levels \union Types \union PTypes
          \union {"", "*", "_node_", "why", "N", "-n", "-e"}
Fields == [word : Words, num : Int]

LEMMA FieldsIn ==
    /\ \A w \in Words : Word(w) \in Fields /\ Word(w).word = w
    /\ \A n \in Int : Num(n) \in Fields /\ Num(n).num = n
    /\ \A w, v \in Words : Word(w) = Word(v) => w = v
    /\ \A m, n \in Int : Num(m) = Num(n) => m = n
    /\ \A n \in Int, w \in Words : w # "" => Num(n) # Word(w)
<1>1. \A w \in Words : Word(w) \in Fields /\ Word(w).word = w /\ Word(w).num = 0
  BY DEF Fields, Word
<1>2. \A n \in Int : Num(n) \in Fields /\ Num(n).num = n /\ Num(n).word = ""
  <2>1. "" \in Words
    BY DEF Words
  <2> HIDE DEF Words
  <2> QED BY <2>1 DEF Fields, Num
<1> QED BY <1>1, <1>2

LEMMA Joins ==
    ASSUME NEW s \in Seq(Fields), NEW t \in Seq(Fields)
    PROVE  /\ s \o t \in Seq(Fields) /\ Len(s \o t) = Len(s) + Len(t)
           /\ \A k \in 1 .. Len(s) : (s \o t)[k] = s[k]
           /\ \A k \in Len(s) + 1 .. Len(s) + Len(t) : (s \o t)[k] = t[k - Len(s)]
OBVIOUS

Stars == {s \in Seq(Fields) : \A k \in 1 .. Len(s) : s[k] = Word("*")}

LEMMA StarsJoin == \A s, t \in Stars : s \o t \in Stars
<1> SUFFICES ASSUME NEW s \in Stars, NEW t \in Stars PROVE s \o t \in Stars
  OBVIOUS
<1>1. /\ s \in Seq(Fields) /\ t \in Seq(Fields) /\ Len(s) \in Nat /\ Len(t) \in Nat
      /\ \A k \in 1 .. Len(s) : s[k] = Word("*")
      /\ \A k \in 1 .. Len(t) : t[k] = Word("*")
  BY DEF Stars
<1>2. /\ s \o t \in Seq(Fields) /\ Len(s \o t) = Len(s) + Len(t)
      /\ \A k \in 1 .. Len(s) : (s \o t)[k] = s[k]
      /\ \A k \in Len(s) + 1 .. Len(s) + Len(t) : (s \o t)[k] = t[k - Len(s)]
  BY <1>1, Joins
<1>3. ASSUME NEW k \in 1 .. Len(s) + Len(t) PROVE (s \o t)[k] = Word("*")
  <2>1. k \in 1 .. Len(s) \/ (k \in Len(s) + 1 .. Len(s) + Len(t) /\ k - Len(s) \in 1 .. Len(t))
    BY <1>1
  <2> QED BY <1>1, <1>2, <2>1
<1> QED BY <1>2, <1>3 DEF Stars

LEMMA ValuesAreStars == \A n \in Nat : Values(n) \in Stars /\ Len(Values(n)) = n
<1> SUFFICES ASSUME NEW n \in Nat PROVE Values(n) \in Stars /\ Len(Values(n)) = n
  OBVIOUS
<1>1. Word("*") \in Fields
  <2>1. "*" \in Words
    BY DEF Words
  <2> QED BY <2>1, FieldsIn
<1>2. Values(n) \in Seq(Fields) /\ Len(Values(n)) = n
  BY <1>1 DEF Values
<1>3. \A k \in 1 .. n : Values(n)[k] = Word("*")
  BY DEF Values
<1> QED BY <1>2, <1>3 DEF Stars

LEMMA TaggedIs ==
    ASSUME NEW tags \in Seq(Tags)
    PROVE  Tagged(tags) \in Seq(Fields) /\ Len(Tagged(tags)) = 2 * Len(tags)
<1>1. 2 * Len(tags) \in Nat
  OBVIOUS
<1>2. ASSUME NEW k \in 1 .. 2 * Len(tags)
      PROVE  (IF k % 2 = 1 THEN Word(tags[(k + 1) \div 2]) ELSE Word("*")) \in Fields
  <2>1. (k + 1) \div 2 \in 1 .. Len(tags)
    OBVIOUS
  <2>2. tags[(k + 1) \div 2] \in Tags
    BY <2>1
  <2>3. Tags \subseteq Words /\ "*" \in Words
    BY DEF Words
  <2> QED BY <2>2, <2>3, FieldsIn
<1> HIDE DEF Fields
<1> QED BY <1>1, <1>2 DEF Tagged
-----------------------------------------------------------------------------
(* Where the trace objects put what the scripts look for.                   *)

Events == [type : Types, level : Levels, away : BOOLEAN, ptype : PTypes,
           id : Int, size : Int, time : Int]

LEMMA OpIn == \A e \in Events : Op(e) \in Words /\ Word(Op(e)) \in Fields
<1> SUFFICES ASSUME NEW e \in Events PROVE Op(e) \in Words
  BY FieldsIn
<1>1. e.type \in Types /\ "f" \in Types /\ "d" \in Types
  BY DEF Events, Types
<1>2. Op(e) \in Types
  BY <1>1 DEF Op
<1> QED BY <1>2 DEF Words

(* The line l has the fields of h and behind them nothing that is read. *)
Begins(l, h) ==
    /\ l \in Seq(Fields) /\ Len(l) >= Len(h)
    /\ \A k \in 1 .. Len(h) : l[k] = h[k]
    /\ \A k \in Len(h) + 1 .. Len(l) : l[k] = Word("*")

LEMMA BeginsStill ==
    ASSUME NEW h \in Seq(Fields), NEW l, Begins(l, h), NEW t \in Stars
    PROVE  Begins(l \o t, h)
<1>1. l \in Seq(Fields) /\ t \in Seq(Fields) /\ Len(l) \in Nat /\ Len(t) \in Nat /\ Len(h) \in Nat
  BY DEF Begins, Stars
<1>2. /\ l \o t \in Seq(Fields) /\ Len(l \o t) = Len(l) + Len(t)
      /\ \A k \in 1 .. Len(l) : (l \o t)[k] = l[k]
      /\ \A k \in Len(l) + 1 .. Len(l) + Len(t) : (l \o t)[k] = t[k - Len(l)]
  BY <1>1, Joins
<1>3. \A k \in 1 .. Len(h) : (l \o t)[k] = h[k]
  BY <1>1, <1>2 DEF Begins
<1>4. ASSUME NEW k \in Len(h) + 1 .. Len(l) + Len(t) PROVE (l \o t)[k] = Word("*")
  <2>1. CASE k <= Len(l)
    BY <1>1, <1>2, <2>1 DEF Begins
  <2>2. CASE k > Len(l)
    <3>1. k - Len(l) \in 1 .. Len(t) /\ k \in Len(l) + 1 .. Len(l) + Len(t)
      BY <1>1, <2>2
    <3> QED BY <1>2, <3>1 DEF Stars
  <2> QED BY <1>1, <2>1, <2>2
<1>5. Len(l) + Len(t) >= Len(h)
  BY <1>1 DEF Begins
<1> QED BY <1>2, <1>3, <1>4, <1>5 DEF Begins

(* What CMUTrace::format writes in the old format. *)
Written(e) ==
    <<Word(Op(e)), Num(e.time), Word("_node_"), Word(e.level), Word("why"),
      Num(e.id), Word(e.ptype), Num(e.size)>>

LEMMA WirelessLine ==
    ASSUME format = "wireless", NEW e \in Events
    PROVE  Written(e) \in Seq(Fields) /\ Begins(Line(e), Written(e))
<1> DEFINE h == Written(e)
           mac_common == format_mac_common(e)
           body == CASE e.ptype = "MAC"            -> <<>>
                     [] e.ptype = "ARP"            -> format_arp(e)
                     [] e.ptype = "cbr"            -> format_ip(e) \o format_rtp(e)
                     [] e.ptype \in {"tcp", "ack"} -> format_ip(e) \o format_tcp(e)
                     [] e.ptype = "Ant"            -> format_ip(e) \o format_antnet(e)
<1>1. h \in Seq(Fields)
  <2>1. /\ e.level \in Words /\ e.ptype \in Words /\ "_node_" \in Words /\ "why" \in Words
        /\ e.time \in Int /\ e.id \in Int /\ e.size \in Int
    BY DEF Events, Words
  <2>2. /\ Word(Op(e)) \in Fields /\ Num(e.time) \in Fields /\ Word("_node_") \in Fields
        /\ Word(e.level) \in Fields /\ Word("why") \in Fields /\ Num(e.id) \in Fields
        /\ Word(e.ptype) \in Fields /\ Num(e.size) \in Fields
    BY <2>1, OpIn, FieldsIn
  <2> HIDE DEF Fields
  <2> QED BY <2>2 DEF Written
<1>2. Begins(h, h)
  BY <1>1 DEF Begins
<1>3. \A n \in {3, 4, 5, 10} : Values(n) \in Stars
  BY ValuesAreStars
<1>4. MacFields \in Stars /\ (Node # {} => EnergyFields \in Stars)
  BY <1>3 DEF MacFields, EnergyFields
<1>5. Begins(mac_common, h)
  <2>1. mac_common = (h \o MacFields) \o EnergyFields
    BY DEF format_mac_common, Written
  <2>2. Begins(h \o MacFields, h)
    BY <1>1, <1>2, <1>4, BeginsStill
  <2>3. <<>> \in Stars
    BY DEF Stars
  <2>4. EnergyFields \in Stars
    BY <1>4, <2>3 DEF EnergyFields
  <2> HIDE DEF h, mac_common
  <2> QED BY <1>1, <2>1, <2>2, <2>4, BeginsStill
<1>6. body \in Stars
  <2>1. /\ format_arp(e) \in Stars /\ format_ip(e) \in Stars /\ format_rtp(e) \in Stars
        /\ format_tcp(e) \in Stars /\ format_antnet(e) \in Stars
    BY <1>3 DEF format_arp, format_ip, format_rtp, format_tcp, format_antnet
  <2>2. /\ format_ip(e) \o format_rtp(e) \in Stars
        /\ format_ip(e) \o format_tcp(e) \in Stars
        /\ format_ip(e) \o format_antnet(e) \in Stars
    BY <2>1, StarsJoin
  <2>3. <<>> \in Stars
    BY DEF Stars
  <2>4. e.ptype \in PTypes
    BY DEF Events
  <2> HIDE DEF Stars
  <2> QED BY <2>1, <2>2, <2>3, <2>4 DEF PTypes
<1>7. Line(e) = mac_common \o body
  BY DEF Line, CMUTrace
<1> HIDE DEF h, mac_common, body
<1>8. Begins(Line(e), h)
  BY <1>1, <1>5, <1>6, <1>7, BeginsStill
<1> QED BY <1>1, <1>8 DEF h

(* A field that stands alone. *)
LEMMA Alone == \A f \in Fields : /\ <<f>> \in Seq(Fields) /\ Len(<<f>>) = 1 /\ <<f>>[1] = f
BY DEF Fields

LEMMA WiredLine ==
    ASSUME format = "wired", NEW e \in Events
    PROVE  LET l == Line(e)
           IN  /\ l \in Seq(Fields) /\ Len(l) = 12
               /\ l[1] = Word(e.type) /\ l[2] = Num(e.time) /\ l[6] = Num(e.size)
               /\ l[12] = Num(e.id)
<1> DEFINE v == Values(3)
           w == Values(5)
           a == <<Word(e.type), Num(e.time)>>
           b == a \o v
           c == b \o <<Num(e.size)>>
           d == c \o w
           l == d \o <<Num(e.id)>>
<1>1. Line(e) = l
  BY DEF Line, LinkTrace
<1>2. Word(e.type) \in Fields /\ Num(e.time) \in Fields /\ Num(e.size) \in Fields /\ Num(e.id) \in Fields
  <2>1. e.type \in Words /\ e.time \in Int /\ e.id \in Int /\ e.size \in Int
    BY DEF Events, Words
  <2> QED BY <2>1, FieldsIn
<1>3. v \in Seq(Fields) /\ Len(v) = 3 /\ w \in Seq(Fields) /\ Len(w) = 5
  BY ValuesAreStars DEF Stars
<1> HIDE DEF v, w
<1>4. /\ <<Num(e.size)>> \in Seq(Fields) /\ Len(<<Num(e.size)>>) = 1
      /\ <<Num(e.size)>>[1] = Num(e.size)
      /\ <<Num(e.id)>> \in Seq(Fields) /\ Len(<<Num(e.id)>>) = 1
      /\ <<Num(e.id)>>[1] = Num(e.id)
  BY <1>2, Alone
<1>5. a \in Seq(Fields) /\ Len(a) = 2 /\ a[1] = Word(e.type) /\ a[2] = Num(e.time)
  <2> HIDE DEF Fields
  <2> QED BY <1>2
<1> HIDE DEF a
<1>6. b \in Seq(Fields) /\ Len(b) = 5 /\ b[1] = a[1] /\ b[2] = a[2]
  <2>1. /\ b \in Seq(Fields) /\ Len(b) = Len(a) + Len(v)
        /\ \A k \in 1 .. Len(a) : b[k] = a[k]
        /\ \A k \in Len(a) + 1 .. Len(a) + Len(v) : b[k] = v[k - Len(a)]
    BY <1>3, <1>5, Joins
  <2> HIDE DEF b
  <2> QED BY <1>3, <1>5, <2>1
<1> HIDE DEF b
<1>7. c \in Seq(Fields) /\ Len(c) = 6 /\ c[1] = b[1] /\ c[2] = b[2] /\ c[6] = Num(e.size)
  <2>1. /\ c \in Seq(Fields) /\ Len(c) = Len(b) + Len(<<Num(e.size)>>)
        /\ \A k \in 1 .. Len(b) : c[k] = b[k]
        /\ \A k \in Len(b) + 1 .. Len(b) + Len(<<Num(e.size)>>) : c[k] = <<Num(e.size)>>[k - Len(b)]
    BY <1>4, <1>6, Joins
  <2> HIDE DEF c
  <2> QED BY <1>4, <1>6, <2>1
<1> HIDE DEF c
<1>8. d \in Seq(Fields) /\ Len(d) = 11 /\ d[1] = c[1] /\ d[2] = c[2] /\ d[6] = c[6]
  <2>1. /\ d \in Seq(Fields) /\ Len(d) = Len(c) + Len(w)
        /\ \A k \in 1 .. Len(c) : d[k] = c[k]
        /\ \A k \in Len(c) + 1 .. Len(c) + Len(w) : d[k] = w[k - Len(c)]
    BY <1>3, <1>7, Joins
  <2> HIDE DEF d
  <2> QED BY <1>3, <1>7, <2>1
<1> HIDE DEF d
<1>9. /\ l \in Seq(Fields) /\ Len(l) = 12 /\ l[1] = d[1] /\ l[2] = d[2] /\ l[6] = d[6]
      /\ l[12] = Num(e.id)
  <2>1. /\ l \in Seq(Fields) /\ Len(l) = Len(d) + Len(<<Num(e.id)>>)
        /\ \A k \in 1 .. Len(d) : l[k] = d[k]
        /\ \A k \in Len(d) + 1 .. Len(d) + Len(<<Num(e.id)>>) : l[k] = <<Num(e.id)>>[k - Len(d)]
    BY <1>4, <1>8, Joins
  <2> HIDE DEF l
  <2> QED BY <1>4, <1>8, <2>1
<1> QED BY <1>1, <1>5, <1>6, <1>7, <1>8, <1>9

(* A pair of fields. *)
LEMMA Pair ==
    \A f, g \in Fields : /\ <<f, g>> \in Seq(Fields) /\ Len(<<f, g>>) = 2
                         /\ <<f, g>>[1] = f /\ <<f, g>>[2] = g
BY DEF Fields

LEMMA TagsIn == \A tag \in Tags : Word(tag) \in Fields
BY FieldsIn DEF Words

LEMMA TaggedOne ==
    \A f \in Tags : Tagged(<<f>>) \in Seq(Fields) /\ Len(Tagged(<<f>>)) = 2
<1> SUFFICES ASSUME NEW f \in Tags
             PROVE  Tagged(<<f>>) \in Seq(Fields) /\ Len(Tagged(<<f>>)) = 2
  OBVIOUS
<1> DEFINE tags == <<f>>
<1>1. tags \in Seq(Tags) /\ Len(tags) = 1
  OBVIOUS
<1> HIDE DEF tags
<1>2. Tagged(tags) \in Seq(Fields) /\ Len(Tagged(tags)) = 2 * Len(tags)
  BY <1>1, TaggedIs
<1>3. Len(Tagged(tags)) = 2
  BY <1>1, <1>2
<1> QED BY <1>2, <1>3 DEF tags

LEMMA TaggedThree ==
    \A f, g, h \in Tags :
        Tagged(<<f, g, h>>) \in Seq(Fields) /\ Len(Tagged(<<f, g, h>>)) = 6
<1> SUFFICES ASSUME NEW f \in Tags, NEW g \in Tags, NEW h \in Tags
             PROVE  Tagged(<<f, g, h>>) \in Seq(Fields) /\ Len(Tagged(<<f, g, h>>)) = 6
  OBVIOUS
<1> DEFINE tags == <<f, g, h>>
<1>1. tags \in Seq(Tags) /\ Len(tags) = 3
  OBVIOUS
<1> HIDE DEF tags
<1>2. Tagged(tags) \in Seq(Fields) /\ Len(Tagged(tags)) = 2 * Len(tags)
  BY <1>1, TaggedIs
<1>3. Len(Tagged(tags)) = 6
  BY <1>1, <1>2
<1> QED BY <1>2, <1>3 DEF tags

(* What format_ip writes in the new format. *)
LEMMA IpFields ==
    ASSUME format = "newtrace", NEW e \in Events
    PROVE  LET ip == format_ip(e)
           IN  /\ ip \in Seq(Fields) /\ Len(ip) = 14
               /\ ip[8] = Num(e.size) /\ ip[12] = Num(e.id)
<1> DEFINE u == Tagged(<<"-Is", "-Id", "-It">>)
           v == Tagged(<<"-If">>)
           w == Tagged(<<"-Iv">>)
           s == <<Word("-Il"), Num(e.size)>>
           t == <<Word("-Ii"), Num(e.id)>>
           a == u \o s
           b == a \o v
           c == b \o t
           ip == c \o w
<1>1. format_ip(e) = ip
  BY DEF format_ip
<1>2. Num(e.size) \in Fields /\ Num(e.id) \in Fields /\ Word("-Il") \in Fields /\ Word("-Ii") \in Fields
  <2>1. e.size \in Int /\ e.id \in Int
    BY DEF Events
  <2>2. "-Il" \in Tags /\ "-Ii" \in Tags
    BY DEF Tags
  <2> QED BY <2>1, <2>2, FieldsIn, TagsIn
<1>3. /\ u \in Seq(Fields) /\ Len(u) = 6 /\ v \in Seq(Fields) /\ Len(v) = 2
      /\ w \in Seq(Fields) /\ Len(w) = 2
  <2>1. "-Is" \in Tags /\ "-Id" \in Tags /\ "-It" \in Tags /\ "-If" \in Tags /\ "-Iv" \in Tags
    BY DEF Tags
  <2> QED BY <2>1, TaggedOne, TaggedThree
<1>4. /\ s \in Seq(Fields) /\ Len(s) = 2 /\ s[2] = Num(e.size)
      /\ t \in Seq(Fields) /\ Len(t) = 2 /\ t[2] = Num(e.id)
  BY <1>2, Pair
<1> HIDE DEF u, v, w, s, t
<1>5. a \in Seq(Fields) /\ Len(a) = 8 /\ a[8] = Num(e.size)
  <2>1. /\ a \in Seq(Fields) /\ Len(a) = Len(u) + Len(s)
        /\ \A k \in 1 .. Len(u) : a[k] = u[k]
        /\ \A k \in Len(u) + 1 .. Len(u) + Len(s) : a[k] = s[k - Len(u)]
    BY <1>3, <1>4, Joins
  <2> HIDE DEF a
  <2> QED BY <1>3, <1>4, <2>1
<1> HIDE DEF a
<1>6. b \in Seq(Fields) /\ Len(b) = 10 /\ b[8] = Num(e.size)
  <2>1. /\ b \in Seq(Fields) /\ Len(b) = Len(a) + Len(v)
        /\ \A k \in 1 .. Len(a) : b[k] = a[k]
        /\ \A k \in Len(a) + 1 .. Len(a) + Len(v) : b[k] = v[k - Len(a)]
    BY <1>3, <1>5, Joins
  <2> HIDE DEF b
  <2> QED BY <1>3, <1>5, <2>1
<1> HIDE DEF b
<1>7. c \in Seq(Fields) /\ Len(c) = 12 /\ c[8] = Num(e.size) /\ c[12] = Num(e.id)
  <2>1. /\ c \in Seq(Fields) /\ Len(c) = Len(b) + Len(t)
        /\ \A k \in 1 .. Len(b) : c[k] = b[k]
        /\ \A k \in Len(b) + 1 .. Len(b) + Len(t) : c[k] = t[k - Len(b)]
    BY <1>4, <1>6, Joins
  <2> HIDE DEF c
  <2> QED BY <1>4, <1>6, <2>1
<1> HIDE DEF c
<1>8. /\ ip \in Seq(Fields) /\ Len(ip) = 14
      /\ ip[8] = Num(e.size) /\ ip[12] = Num(e.id)
  <2>1. /\ ip \in Seq(Fields) /\ Len(ip) = Len(c) + Len(w)
        /\ \A k \in 1 .. Len(c) : ip[k] = c[k]
        /\ \A k \in Len(c) + 1 .. Len(c) + Len(w) : ip[k] = w[k - Len(c)]
    BY <1>3, <1>7, Joins
  <2> HIDE DEF ip
  <2> QED BY <1>3, <1>7, <2>1
<1> QED BY <1>1, <1>8

(* What format_mac_common writes in the new format. *)
LEMMA MacCommonFields ==
    ASSUME format = "newtrace", mac = "802_11", NEW e \in Events
    PROVE  LET l == format_mac_common(e)
           IN  /\ l \in Seq(Fields) /\ Len(l) = 29
               /\ l[1] = Word(Op(e)) /\ l[2] = Word("-t") /\ l[3] = Num(e.time)
               /\ l[19] = Word(e.level)
<1> DEFINE u == <<Word(Op(e)), Word("-t"), Num(e.time)>>
           v == Tagged(<<"-Hs", "-Hd", "-Ni", "-Nx", "-Ny", "-Nz", "-Ne">>)
           s == <<Word("-Nl"), Word(e.level)>>
           t == Tagged(<<"-Nw">>)
           w == Tagged(<<"-Ma", "-Md", "-Ms", "-Mt">>)
           a == u \o v
           b == a \o s
           c == b \o t
           l == c \o w
<1>1. format_mac_common(e) = l
  BY DEF format_mac_common, MacFields
<1>2. /\ Word(Op(e)) \in Fields /\ Word("-t") \in Fields /\ Num(e.time) \in Fields
      /\ Word("-Nl") \in Fields /\ Word(e.level) \in Fields
  <2>1. e.time \in Int /\ e.level \in Words
    BY DEF Events, Words
  <2>2. "-t" \in Tags /\ "-Nl" \in Tags
    BY DEF Tags
  <2> QED BY <2>1, <2>2, FieldsIn, TagsIn, OpIn
<1>3. /\ v \in Seq(Fields) /\ Len(v) = 14 /\ t \in Seq(Fields) /\ Len(t) = 2
      /\ w \in Seq(Fields) /\ Len(w) = 8
  <2> DEFINE vs == <<"-Hs", "-Hd", "-Ni", "-Nx", "-Ny", "-Nz", "-Ne">>
             ws == <<"-Ma", "-Md", "-Ms", "-Mt">>
  <2>1. vs \in Seq(Tags) /\ Len(vs) = 7
    BY DEF Tags
  <2>2. ws \in Seq(Tags) /\ Len(ws) = 4
    BY DEF Tags
  <2> HIDE DEF vs, ws
  <2>3. v \in Seq(Fields) /\ Len(v) = 2 * Len(vs)
    BY <2>1, TaggedIs DEF vs
  <2>4. w \in Seq(Fields) /\ Len(w) = 2 * Len(ws)
    BY <2>2, TaggedIs DEF ws
  <2>5. t \in Seq(Fields) /\ Len(t) = 2
    <3>1. "-Nw" \in Tags
      BY DEF Tags
    <3> QED BY <3>1, TaggedOne
  <2> HIDE DEF v, w, t
  <2> QED BY <2>1, <2>2, <2>3, <2>4, <2>5
<1>4. s \in Seq(Fields) /\ Len(s) = 2 /\ s[2] = Word(e.level)
  BY <1>2, Pair
<1>5. /\ u \in Seq(Fields) /\ Len(u) = 3
      /\ u[1] = Word(Op(e)) /\ u[2] = Word("-t") /\ u[3] = Num(e.time)
  <2> HIDE DEF Fields
  <2> QED BY <1>2
<1> HIDE DEF u, v, w, s, t
<1>6. a \in Seq(Fields) /\ Len(a) = 17 /\ a[1] = u[1] /\ a[2] = u[2] /\ a[3] = u[3]
  <2>1. /\ a \in Seq(Fields) /\ Len(a) = Len(u) + Len(v)
        /\ \A k \in 1 .. Len(u) : a[k] = u[k]
        /\ \A k \in Len(u) + 1 .. Len(u) + Len(v) : a[k] = v[k - Len(u)]
    BY <1>3, <1>5, Joins
  <2> HIDE DEF a
  <2> QED BY <1>3, <1>5, <2>1
<1> HIDE DEF a
<1>7. /\ b \in Seq(Fields) /\ Len(b) = 19 /\ b[1] = u[1] /\ b[2] = u[2] /\ b[3] = u[3]
      /\ b[19] = Word(e.level)
  <2>1. /\ b \in Seq(Fields) /\ Len(b) = Len(a) + Len(s)
        /\ \A k \in 1 .. Len(a) : b[k] = a[k]
        /\ \A k \in Len(a) + 1 .. Len(a) + Len(s) : b[k] = s[k - Len(a)]
    BY <1>4, <1>6, Joins
  <2> HIDE DEF b
  <2> QED BY <1>4, <1>6, <2>1
<1> HIDE DEF b
<1>8. /\ c \in Seq(Fields) /\ Len(c) = 21 /\ c[1] = u[1] /\ c[2] = u[2] /\ c[3] = u[3]
      /\ c[19] = Word(e.level)
  <2>1. /\ c \in Seq(Fields) /\ Len(c) = Len(b) + Len(t)
        /\ \A k \in 1 .. Len(b) : c[k] = b[k]
        /\ \A k \in Len(b) + 1 .. Len(b) + Len(t) : c[k] = t[k - Len(b)]
    BY <1>3, <1>7, Joins
  <2> HIDE DEF c
  <2> QED BY <1>3, <1>7, <2>1
<1> HIDE DEF c
<1>9. /\ l \in Seq(Fields) /\ Len(l) = 29 /\ l[1] = u[1] /\ l[2] = u[2] /\ l[3] = u[3]
      /\ l[19] = Word(e.level)
  <2>1. /\ l \in Seq(Fields) /\ Len(l) = Len(c) + Len(w)
        /\ \A k \in 1 .. Len(c) : l[k] = c[k]
        /\ \A k \in Len(c) + 1 .. Len(c) + Len(w) : l[k] = w[k - Len(c)]
    BY <1>3, <1>8, Joins
  <2> HIDE DEF l
  <2>2. /\ 1 \in 1 .. Len(c) /\ 2 \in 1 .. Len(c) /\ 3 \in 1 .. Len(c) /\ 19 \in 1 .. Len(c)
        /\ Len(c) + Len(w) = 29
    BY <1>3, <1>8
  <2>3. Len(l) = 29 /\ l[1] = c[1] /\ l[2] = c[2] /\ l[3] = c[3] /\ l[19] = c[19]
    BY <2>1, <2>2
  <2> QED BY <1>8, <2>1, <2>3
<1> QED BY <1>1, <1>5, <1>9

LEMMA NewLine ==
    ASSUME format = "newtrace", mac = "802_11", NEW e \in Events
    PROVE  LET l == Line(e)
           IN  /\ l \in Seq(Fields) /\ Len(l) >= 29
               /\ l[1] = Word(Op(e)) /\ l[2] = Word("-t") /\ l[3] = Num(e.time)
               /\ l[19] = Word(e.level)
               /\ e.ptype \in {"cbr", "tcp", "ack"} =>
                      Len(l) >= 43 /\ l[37] = Num(e.size) /\ l[41] = Num(e.id)
<1> DEFINE m == format_mac_common(e)
           ip == format_ip(e)
           body == CASE e.ptype = "MAC"            -> <<>>
                     [] e.ptype = "ARP"            -> format_arp(e)
                     [] e.ptype = "cbr"            -> ip \o format_rtp(e)
                     [] e.ptype \in {"tcp", "ack"} -> ip \o format_tcp(e)
                     [] e.ptype = "Ant"            -> ip \o format_antnet(e)
           l == m \o body
<1>1. Line(e) = l
  BY DEF Line, CMUTrace
<1>2. /\ m \in Seq(Fields) /\ Len(m) = 29
      /\ m[1] = Word(Op(e)) /\ m[2] = Word("-t") /\ m[3] = Num(e.time)
      /\ m[19] = Word(e.level)
  BY MacCommonFields
<1>3. ip \in Seq(Fields) /\ Len(ip) = 14 /\ ip[8] = Num(e.size) /\ ip[12] = Num(e.id)
  BY IpFields
<1> HIDE DEF m, ip
<1>4. /\ format_arp(e) \in Seq(Fields) /\ format_rtp(e) \in Seq(Fields)
      /\ format_tcp(e) \in Seq(Fields) /\ format_antnet(e) \in Seq(Fields)
  <2>1. /\ <<"-P", "-Po", "-Pms", "-Ps", "-Pmd", "-Pd">> \in Seq(Tags)
        /\ <<"-Pn", "-Pi", "-Pf", "-Po">> \in Seq(Tags)
        /\ <<"-Pn", "-Ps", "-Pa", "-Pf", "-Po">> \in Seq(Tags)
        /\ <<"-P", "-Po", "-Ps", "-Pl">> \in Seq(Tags)
    BY DEF Tags
  <2> QED BY <2>1, TaggedIs DEF format_arp, format_rtp, format_tcp, format_antnet
<1>5. \A s \in Seq(Fields) : /\ ip \o s \in Seq(Fields) /\ Len(ip \o s) >= 14
                             /\ (ip \o s)[8] = Num(e.size) /\ (ip \o s)[12] = Num(e.id)
  <2> SUFFICES ASSUME NEW s \in Seq(Fields)
               PROVE  /\ ip \o s \in Seq(Fields) /\ Len(ip \o s) >= 14
                      /\ (ip \o s)[8] = Num(e.size) /\ (ip \o s)[12] = Num(e.id)
    OBVIOUS
  <2>1. /\ ip \o s \in Seq(Fields) /\ Len(ip \o s) = Len(ip) + Len(s)
        /\ \A k \in 1 .. Len(ip) : (ip \o s)[k] = ip[k]
    BY <1>3, Joins
  <2>2. Len(s) \in Nat
    OBVIOUS
  <2> DEFINE r == ip \o s
  <2> HIDE DEF r
  <2> QED BY <1>3, <2>1, <2>2 DEF r
<1>6. /\ body \in Seq(Fields)
      /\ e.ptype \in {"cbr", "tcp", "ack"} =>
            Len(body) >= 14 /\ body[8] = Num(e.size) /\ body[12] = Num(e.id)
  <2>1. e.ptype \in PTypes
    BY DEF Events
  <2>2. <<>> \in Seq(Fields)
    OBVIOUS
  <2> HIDE DEF Fields
  <2>3. CASE e.ptype = "MAC"
    BY <2>2, <2>3
  <2>4. CASE e.ptype = "ARP"
    BY <1>4, <2>4
  <2>5. CASE e.ptype = "cbr"
    BY <1>4, <1>5, <2>5
  <2>6. CASE e.ptype \in {"tcp", "ack"}
    BY <1>4, <1>5, <2>6
  <2>7. CASE e.ptype = "Ant"
    BY <1>4, <1>5, <2>7
  <2> QED BY <2>1, <2>3, <2>4, <2>5, <2>6, <2>7 DEF PTypes
<1> HIDE DEF body
<1>7. /\ l \in Seq(Fields) /\ Len(l) = Len(m) + Len(body)
      /\ \A k \in 1 .. Len(m) : l[k] = m[k]
      /\ \A k \in Len(m) + 1 .. Len(m) + Len(body) : l[k] = body[k - Len(m)]
  BY <1>2, <1>6, Joins
<1> HIDE DEF l
<1>8. Len(body) \in Nat
  BY <1>6
<1>9. /\ Len(l) >= 29 /\ l[1] = m[1] /\ l[2] = m[2] /\ l[3] = m[3] /\ l[19] = m[19]
  <2>1. /\ 1 \in 1 .. Len(m) /\ 2 \in 1 .. Len(m) /\ 3 \in 1 .. Len(m) /\ 19 \in 1 .. Len(m)
        /\ Len(m) + Len(body) >= 29
    BY <1>2, <1>8
  <2> QED BY <1>7, <2>1
<1>10. ASSUME e.ptype \in {"cbr", "tcp", "ack"}
       PROVE  Len(l) >= 43 /\ l[37] = body[8] /\ l[41] = body[12]
  <2>1. Len(body) >= 14
    BY <1>6, <1>10
  <2>2. /\ 37 \in Len(m) + 1 .. Len(m) + Len(body) /\ 37 - Len(m) = 8
        /\ 41 \in Len(m) + 1 .. Len(m) + Len(body) /\ 41 - Len(m) = 12
        /\ Len(m) + Len(body) >= 43
    BY <1>2, <1>8, <2>1
  <2> QED BY <1>7, <2>2
<1> QED BY <1>1, <1>2, <1>6, <1>7, <1>9, <1>10
-----------------------------------------------------------------------------
(* The log of a wireless trace: which lines the Perl scripts look at.       *)

(* A line from which they take nothing, and the one of an agent that sends or
   receives p at time t.                                                    *)
Quiet(l) == \A op \in {"s", "r"} : ~IsAgent(l, op) /\ ~Matches(l, op, "AGT")

Says(l, op, p, t) ==
    /\ x(l, 5) = Num(p) /\ x(l, 1) = Num(t)
    /\ \A o \in {"s", "r"} : (IsAgent(l, o) <=> o = op) /\ (Matches(l, o, "AGT") <=> o = op)

LEMMA WirelessFields ==
    ASSUME format = "wireless", NEW e \in Events
    PROVE  LET l == Line(e)
           IN  /\ l \in Seq(Fields) /\ Len(l) >= 8
               /\ l[1] = Word(Op(e)) /\ l[2] = Num(e.time) /\ l[4] = Word(e.level)
               /\ l[6] = Num(e.id)
               /\ \A k \in 2 .. Len(l) : l[k] = Word("AGT") => k = 4
<1> DEFINE h == Written(e)
           l == Line(e)
<1>1. h \in Seq(Fields) /\ Begins(l, h)
  BY WirelessLine
<1>2. /\ Len(h) = 8 /\ h[1] = Word(Op(e)) /\ h[2] = Num(e.time) /\ h[3] = Word("_node_")
      /\ h[4] = Word(e.level) /\ h[5] = Word("why") /\ h[6] = Num(e.id)
      /\ h[7] = Word(e.ptype) /\ h[8] = Num(e.size)
  BY DEF Written
<1> HIDE DEF h, l
<1>3. /\ Word("_node_") # Word("AGT") /\ Word("why") # Word("AGT") /\ Word("*") # Word("AGT")
      /\ Word(e.ptype) # Word("AGT") /\ Num(e.time) # Word("AGT") /\ Num(e.id) # Word("AGT")
      /\ Num(e.size) # Word("AGT")
  <2>1. e.ptype # "AGT"
    BY DEF Events, PTypes
  <2> QED BY <2>1 DEF Word, Num
<1>4. /\ l \in Seq(Fields) /\ Len(l) >= 8 /\ Len(l) \in Nat
      /\ \A k \in 1 .. 8 : l[k] = h[k]
      /\ \A k \in 9 .. Len(l) : l[k] = Word("*")
  BY <1>1, <1>2 DEF Begins
<1>5. /\ l[1] = h[1] /\ l[2] = h[2] /\ l[3] = h[3] /\ l[4] = h[4] /\ l[5] = h[5]
      /\ l[6] = h[6] /\ l[7] = h[7] /\ l[8] = h[8]
  BY <1>4
<1>6. ASSUME NEW k \in 2 .. Len(l), l[k] = Word("AGT") PROVE k = 4
  <2>1. k \in 1 .. 8
    BY <1>3, <1>4, <1>6
  <2>2. k \in {2, 3, 4, 5, 6, 7, 8}
    BY <2>1
  <2> QED BY <1>2, <1>3, <1>5, <1>6, <2>2
<1> QED BY <1>2, <1>4, <1>5, <1>6 DEF l

LEMMA FieldAt == \A l : \A k \in Nat : k <= Len(l) => Field(l, k) = l[k]
BY DEF Field

LEMMA AgentLines ==
    ASSUME NEW l \in Seq(Fields), Len(l) >= 8,
           \A k \in 2 .. Len(l) : l[k] = Word("AGT") => k = 4
    PROVE  \A op : /\ IsAgent(l, op) <=> l[1] = Word(op) /\ l[4] = Word("AGT")
                   /\ Matches(l, op, "AGT") <=> l[1] = Word(op) /\ l[4] = Word("AGT")
<1>1. Len(l) \in Nat /\ 4 \in 2 .. Len(l)
  OBVIOUS
<1>2. 1 <= Len(l) /\ 4 <= Len(l)
  BY <1>1
<1>3. x(l, 0) = l[1] /\ x(l, 3) = l[4]
  BY <1>2, FieldAt DEF x
<1> QED BY <1>1, <1>3 DEF IsAgent, Matches

LEMMA WirelessLines ==
    ASSUME format = "wireless", NEW e \in Events
    PROVE  /\ Line(e) \in Seq(Fields)
           /\ e.level # "AGT" => Quiet(Line(e))
           /\ e.level = "AGT" /\ e.type \in {"s", "r"} => Says(Line(e), e.type, e.id, e.time)
           /\ e.level = "AGT" /\ e.type \notin {"s", "r"} => Quiet(Line(e))
<1> DEFINE l == Line(e)
<1>1. /\ l \in Seq(Fields) /\ Len(l) >= 8
      /\ l[1] = Word(Op(e)) /\ l[2] = Num(e.time) /\ l[4] = Word(e.level)
      /\ l[6] = Num(e.id)
      /\ \A k \in 2 .. Len(l) : l[k] = Word("AGT") => k = 4
  BY WirelessFields
<1> HIDE DEF l
<1>2. \A op : /\ IsAgent(l, op) <=> Word(Op(e)) = Word(op) /\ Word(e.level) = Word("AGT")
              /\ Matches(l, op, "AGT") <=> Word(Op(e)) = Word(op) /\ Word(e.level) = Word("AGT")
  BY <1>1, AgentLines
<1>3. \A w, v : Word(w) = Word(v) <=> w = v
  BY DEF Word
<1>4. e.level = "AGT" => Op(e) = e.type
  BY DEF Op
<1>5. x(l, 5) = Num(e.id) /\ x(l, 1) = Num(e.time)
  <2>1. 6 <= Len(l) /\ 2 <= Len(l)
    BY <1>1
  <2> QED BY <1>1, <2>1, FieldAt DEF x
<1> QED BY <1>1, <1>2, <1>3, <1>4, <1>5 DEF Quiet, Says, l

LEMMA EnergyLine ==
    ASSUME NEW n \in Int, NEW left \in Int, NEW t \in Int
    PROVE  LET l == EnergyTrace(n, left, t)
           IN  /\ l \in Seq(Fields) /\ Len(l) = 7
               /\ l[1] = Word("N") /\ l[2] = Word("-t") /\ l[3] = Num(t)
               /\ Quiet(l)
<1> DEFINE l == EnergyTrace(n, left, t)
<1>1. /\ Word("N") \in Fields /\ Word("-t") \in Fields /\ Num(t) \in Fields
      /\ Word("-n") \in Fields /\ Num(n) \in Fields /\ Word("-e") \in Fields
      /\ Num(left) \in Fields
  <2>1. "N" \in Words /\ "-t" \in Words /\ "-n" \in Words /\ "-e" \in Words
    BY DEF Words, Tags
  <2> QED BY <2>1, FieldsIn
<1>2. /\ l \in Seq(Fields) /\ Len(l) = 7
      /\ l[1] = Word("N") /\ l[2] = Word("-t") /\ l[3] = Num(t)
  BY <1>1 DEF EnergyTrace
<1> HIDE DEF l
<1>3. \A op \in {"s", "r"} : Word("N") # Word(op)
  BY DEF Word
<1>4. x(l, 0) = Word("N")
  BY <1>2 DEF x, Field
<1>5. Quiet(l)
  BY <1>2, <1>3, <1>4 DEF Quiet, IsAgent, Matches
<1> QED BY <1>2, <1>5 DEF l
-----------------------------------------------------------------------------
(* A log tells where each packet was sent and delivered.                    *)

Traces == Seq(Seq(Fields))

(* The packets that have a time. *)
Timed(f) == {p \in Packet : f[p] > 0}

LEMMA TimedIs == Sent = Timed(sent) /\ Delivered = Timed(got)
BY DEF Sent, Delivered, Timed

Logged(tr, se, go, s, r) ==
    /\ \A i \in 1 .. Len(tr) :
          \/ Quiet(tr[i])
          \/ \E p \in Timed(se) : s[p] = i
          \/ \E p \in Timed(go) : r[p] = i
    /\ \A p \in Timed(se) : Says(tr[s[p]], "s", p, se[p])
    /\ \A p \in Timed(go) : s[p] < r[p] /\ Says(tr[r[p]], "r", p, go[p])

HasLog(tr, se, go) ==
    \E s \in [Timed(se) -> 1 .. Len(tr)], r \in [Timed(go) -> 1 .. Len(tr)] :
        Logged(tr, se, go, s, r)

LEMMA LogQuiet ==
    ASSUME NEW tr \in Traces, NEW ls \in Traces, NEW se, NEW go, HasLog(tr, se, go),
           \A i \in 1 .. Len(ls) : Quiet(ls[i])
    PROVE  HasLog(tr \o ls, se, go)
<1> DEFINE u == tr \o ls
<1>1. PICK s \in [Timed(se) -> 1 .. Len(tr)], r \in [Timed(go) -> 1 .. Len(tr)] :
          Logged(tr, se, go, s, r)
  BY DEF HasLog
<1>2. /\ u \in Traces /\ Len(u) = Len(tr) + Len(ls) /\ Len(tr) \in Nat /\ Len(ls) \in Nat
      /\ \A i \in 1 .. Len(tr) : u[i] = tr[i]
      /\ \A i \in Len(tr) + 1 .. Len(u) : u[i] = ls[i - Len(tr)]
  BY DEF Traces
<1> HIDE DEF u
<1>3. s \in [Timed(se) -> 1 .. Len(u)] /\ r \in [Timed(go) -> 1 .. Len(u)]
  BY <1>2
<1>4. \A i \in Len(tr) + 1 .. Len(u) : Quiet(u[i])
  <2>1. \A i \in Len(tr) + 1 .. Len(u) : i - Len(tr) \in 1 .. Len(ls)
    BY <1>2
  <2> QED BY <1>2, <2>1
<1>5. \A i \in 1 .. Len(u) : i \in 1 .. Len(tr) \/ i \in Len(tr) + 1 .. Len(u)
  BY <1>2
<1>6. Logged(u, se, go, s, r)
  BY <1>1, <1>2, <1>4, <1>5 DEF Logged
<1> QED BY <1>3, <1>6 DEF HasLog, u

LEMMA LogSend ==
    ASSUME NEW tr \in Traces, NEW l \in Seq(Fields), NEW se \in [Packet -> Nat],
           NEW go, HasLog(tr, se, go), Timed(go) \subseteq Timed(se),
           NEW p \in Packet, se[p] = 0, NEW t \in Nat \ {0}, Says(l, "s", p, t)
    PROVE  HasLog(Append(tr, l), [se EXCEPT ![p] = t], go)
<1> DEFINE u == Append(tr, l)
           n == Len(tr) + 1
           se1 == [se EXCEPT ![p] = t]
<1>1. PICK s \in [Timed(se) -> 1 .. Len(tr)], r \in [Timed(go) -> 1 .. Len(tr)] :
          Logged(tr, se, go, s, r)
  BY DEF HasLog
<1> DEFINE s1 == [a \in Timed(se1) |-> IF a = p THEN n ELSE s[a]]
<1>2. /\ u \in Traces /\ Len(u) = n /\ n \in Nat /\ Len(tr) \in Nat
      /\ \A i \in 1 .. Len(tr) : u[i] = tr[i]
      /\ u[n] = l
  BY DEF Traces
<1>3. /\ Timed(se1) = Timed(se) \union {p} /\ p \notin Timed(se)
      /\ se1[p] = t /\ \A a \in Timed(se) : se1[a] = se[a]
  BY DEF Timed
<1> HIDE DEF u, n, se1
<1>4. s1[p] = n /\ \A a \in Timed(se) : s1[a] = s[a]
  BY <1>3
<1>5. s1 \in [Timed(se1) -> 1 .. Len(u)] /\ r \in [Timed(go) -> 1 .. Len(u)]
  <2>1. 1 .. Len(tr) \subseteq 1 .. Len(u) /\ n \in 1 .. Len(u)
    BY <1>2 DEF n
  <2> QED BY <1>3, <2>1
<1> HIDE DEF s1
<1>6. \A i \in 1 .. Len(u) : i \in 1 .. Len(tr) \/ i = n
  BY <1>2 DEF n
<1>7. \A i \in 1 .. Len(u) : \/ Quiet(u[i])
                             \/ \E a \in Timed(se1) : s1[a] = i
                             \/ \E a \in Timed(go) : r[a] = i
  BY <1>1, <1>2, <1>3, <1>4, <1>6 DEF Logged
<1>8. \A a \in Timed(se1) : Says(u[s1[a]], "s", a, se1[a])
  BY <1>1, <1>2, <1>3, <1>4 DEF Logged
<1>9. \A a \in Timed(go) : s1[a] < r[a] /\ Says(u[r[a]], "r", a, go[a])
  BY <1>1, <1>2, <1>3, <1>4 DEF Logged
<1>10. Logged(u, se1, go, s1, r)
  BY <1>7, <1>8, <1>9 DEF Logged
<1> QED BY <1>5, <1>10 DEF HasLog, u, se1

LEMMA LogDeliver ==
    ASSUME NEW tr \in Traces, NEW l \in Seq(Fields), NEW se,
           NEW go \in [Packet -> Nat], HasLog(tr, se, go),
           NEW p \in Timed(se), go[p] = 0, NEW t \in Nat \ {0}, Says(l, "r", p, t)
    PROVE  HasLog(Append(tr, l), se, [go EXCEPT ![p] = t])
<1> DEFINE u == Append(tr, l)
           n == Len(tr) + 1
           go1 == [go EXCEPT ![p] = t]
<1>1. PICK s \in [Timed(se) -> 1 .. Len(tr)], r \in [Timed(go) -> 1 .. Len(tr)] :
          Logged(tr, se, go, s, r)
  BY DEF HasLog
<1> DEFINE r1 == [a \in Timed(go1) |-> IF a = p THEN n ELSE r[a]]
<1>2. /\ u \in Traces /\ Len(u) = n /\ n \in Nat /\ Len(tr) \in Nat
      /\ \A i \in 1 .. Len(tr) : u[i] = tr[i]
      /\ u[n] = l
  BY DEF Traces
<1>3. /\ Timed(go1) = Timed(go) \union {p} /\ p \notin Timed(go)
      /\ go1[p] = t /\ \A a \in Timed(go) : go1[a] = go[a]
  BY DEF Timed
<1> HIDE DEF u, n, go1
<1>4. r1[p] = n /\ \A a \in Timed(go) : r1[a] = r[a]
  BY <1>3
<1>5. r1 \in [Timed(go1) -> 1 .. Len(u)] /\ s \in [Timed(se) -> 1 .. Len(u)]
  <2>1. 1 .. Len(tr) \subseteq 1 .. Len(u) /\ n \in 1 .. Len(u)
    BY <1>2 DEF n
  <2> QED BY <1>3, <2>1
<1> HIDE DEF r1
<1>6. \A i \in 1 .. Len(u) : i \in 1 .. Len(tr) \/ i = n
  BY <1>2 DEF n
<1>7. \A i \in 1 .. Len(u) : \/ Quiet(u[i])
                             \/ \E a \in Timed(se) : s[a] = i
                             \/ \E a \in Timed(go1) : r1[a] = i
  BY <1>1, <1>2, <1>3, <1>4, <1>6 DEF Logged
<1>8. \A a \in Timed(se) : Says(u[s[a]], "s", a, se[a])
  BY <1>1, <1>2 DEF Logged
<1>9. ASSUME NEW a \in Timed(go1) PROVE s[a] < r1[a] /\ Says(u[r1[a]], "r", a, go1[a])
  <2>1. CASE a = p
    <3>1. s[p] < n
      BY <1>2 DEF n
    <3> QED BY <1>2, <1>3, <1>4, <2>1, <3>1
  <2>2. CASE a # p
    BY <1>1, <1>2, <1>3, <1>4, <2>2 DEF Logged
  <2> QED BY <2>1, <2>2
<1>10. Logged(u, se, go1, s, r1)
  BY <1>7, <1>8, <1>9 DEF Logged
<1> QED BY <1>5, <1>10 DEF HasLog, u, go1
-----------------------------------------------------------------------------
(* What the Perl scripts find in a log.                                     *)

LEMMA NumIs == /\ \A n : Num(n).num = n
                 /\ \A p, q : Num(p) = Num(q) => p = q
BY DEF Num

LEMMA LogLines ==
    ASSUME NEW tr \in Traces, NEW se, NEW go, Timed(go) \subseteq Timed(se),
           NEW s \in [Timed(se) -> 1 .. Len(tr)], NEW r \in [Timed(go) -> 1 .. Len(tr)],
           Logged(tr, se, go, s, r)
    PROVE  \A i \in 1 .. Len(tr) :
              /\ IsAgent(tr[i], "s") <=> \E p \in Timed(se) : s[p] = i
              /\ IsAgent(tr[i], "r") <=> \E p \in Timed(go) : r[p] = i
              /\ \A op \in {"s", "r"} : Matches(tr[i], op, "AGT") <=> IsAgent(tr[i], op)
<1> SUFFICES ASSUME NEW i \in 1 .. Len(tr)
             PROVE  /\ IsAgent(tr[i], "s") <=> \E p \in Timed(se) : s[p] = i
                    /\ IsAgent(tr[i], "r") <=> \E p \in Timed(go) : r[p] = i
                    /\ \A op \in {"s", "r"} : Matches(tr[i], op, "AGT") <=> IsAgent(tr[i], op)
  OBVIOUS
<1>1. /\ \A p \in Timed(se) : Says(tr[s[p]], "s", p, se[p])
      /\ \A p \in Timed(go) : Says(tr[r[p]], "r", p, go[p])
      /\ \/ Quiet(tr[i])
         \/ \E p \in Timed(se) : s[p] = i
         \/ \E p \in Timed(go) : r[p] = i
  BY DEF Logged
<1>2. \A p \in Timed(se) : s[p] = i =>
          /\ IsAgent(tr[i], "s") /\ ~IsAgent(tr[i], "r")
          /\ Matches(tr[i], "s", "AGT") /\ ~Matches(tr[i], "r", "AGT")
  BY <1>1 DEF Says
<1>3. \A p \in Timed(go) : r[p] = i =>
          /\ IsAgent(tr[i], "r") /\ ~IsAgent(tr[i], "s")
          /\ Matches(tr[i], "r", "AGT") /\ ~Matches(tr[i], "s", "AGT")
  BY <1>1 DEF Says
<1>4. Quiet(tr[i]) => /\ ~IsAgent(tr[i], "r") /\ ~IsAgent(tr[i], "s")
                      /\ ~Matches(tr[i], "r", "AGT") /\ ~Matches(tr[i], "s", "AGT")
  BY DEF Quiet
<1> QED BY <1>1, <1>2, <1>3, <1>4

LEMMA TimedSubset == \A f : Timed(f) \subseteq Nat /\ IsFiniteSet(Timed(f))
<1> SUFFICES ASSUME NEW f PROVE Timed(f) \subseteq Nat /\ IsFiniteSet(Timed(f))
  OBVIOUS
<1>1. Timed(f) \subseteq Packet
  BY DEF Timed
<1> QED BY <1>1, TraceAssumption, FS_Subset

LEMMA SameSize ==
    ASSUME NEW T, IsFiniteSet(T), NEW U, NEW f \in [T -> U],
           \A p, q \in T : f[p] = f[q] => p = q, \A u \in U : \E p \in T : f[p] = u
    PROVE  Cardinality(U) = Cardinality(T)
<1>1. f \in Bijection(T, U)
  BY DEF Bijection, Injection, Surjection, IsInjective
<1> QED BY <1>1, FS_Bijection DEF ExistsBijection

LEMMA CountsLogged ==
    ASSUME NEW tr \in Traces, NEW se, NEW go, Timed(go) \subseteq Timed(se), HasLog(tr, se, go)
    PROVE  /\ Count(tr, "s", "AGT") = Cardinality(Timed(se))
           /\ Count(tr, "r", "AGT") = Cardinality(Timed(go))
<1>1. PICK s \in [Timed(se) -> 1 .. Len(tr)], r \in [Timed(go) -> 1 .. Len(tr)] :
          Logged(tr, se, go, s, r)
  BY DEF HasLog
<1>2. \A i \in 1 .. Len(tr) :
          /\ Matches(tr[i], "s", "AGT") <=> \E p \in Timed(se) : s[p] = i
          /\ Matches(tr[i], "r", "AGT") <=> \E p \in Timed(go) : r[p] = i
  BY <1>1, LogLines
<1> DEFINE A == {i \in 1 .. Len(tr) : Matches(tr[i], "s", "AGT")}
           B == {i \in 1 .. Len(tr) : Matches(tr[i], "r", "AGT")}
<1>3. /\ s \in [Timed(se) -> A] /\ \A i \in A : \E p \in Timed(se) : s[p] = i
      /\ r \in [Timed(go) -> B] /\ \A i \in B : \E p \in Timed(go) : r[p] = i
  BY <1>2
<1>4. /\ \A p, q \in Timed(se) : s[p] = s[q] => p = q
      /\ \A p, q \in Timed(go) : r[p] = r[q] => p = q
  <2> HIDE DEF A, B
  <2>1. /\ \A p \in Timed(se) : x(tr[s[p]], 5) = Num(p)
        /\ \A p \in Timed(go) : x(tr[r[p]], 5) = Num(p)
    BY <1>1 DEF Logged, Says
  <2>2. \A p, q \in Timed(se) : s[p] = s[q] => Num(p) = Num(q)
    BY <2>1
  <2>3. \A p, q \in Timed(go) : r[p] = r[q] => Num(p) = Num(q)
    BY <2>1
  <2> QED BY <2>2, <2>3, NumIs, Zenon
<1> HIDE DEF A, B
<1>5. Cardinality(A) = Cardinality(Timed(se)) /\ Cardinality(B) = Cardinality(Timed(go))
  BY <1>3, <1>4, TimedSubset, SameSize
<1> QED BY <1>5 DEF Count, A, B

(* The recursion of delay_pl, which goes from the last line to the first. *)
Outcome == [count : Int, sum : Int]

LEMMA DelaysLogged ==
    ASSUME NEW tr \in Traces, NEW se \in [Packet -> Nat], NEW go \in [Packet -> Nat],
           Timed(go) \subseteq Timed(se), HasLog(tr, se, go),
           NEW g \in [Timed(go) -> Int], \A p \in Timed(go) : g[p] = go[p] - se[p],
           NEW h, IsTotal(h, g, Timed(go))
    PROVE  delay_pl(tr) = [count |-> Cardinality(Timed(go)), sum |-> h[Timed(go)]]
<1>2. PICK s \in [Timed(se) -> 1 .. Len(tr)], r \in [Timed(go) -> 1 .. Len(tr)] :
          Logged(tr, se, go, s, r)
  BY DEF HasLog
<1>5. \A i \in 1 .. Len(tr) :
          /\ IsAgent(tr[i], "s") <=> \E p \in Timed(se) : s[p] = i
          /\ IsAgent(tr[i], "r") <=> \E p \in Timed(go) : r[p] = i
          /\ \A op \in {"s", "r"} : Matches(tr[i], op, "AGT") <=> IsAgent(tr[i], op)
  BY <1>2, LogLines
<1> DEFINE n   == Len(tr)
           end == Len(tr) + 1
           Body(f, i) ==
              IF i = end THEN [count |-> 0, sum |-> 0]
              ELSE IF ~IsAgent(tr[i], "s") THEN f[i + 1]
              ELSE IF Receives(tr, i) = {} THEN f[seek(i, end)]
              ELSE LET j == Min(Receives(tr, i))
                       rest == f[seek(i, j)]
                   IN  [count |-> rest.count + 1,
                        sum   |-> rest.sum + x(tr[j], 1).num - x(tr[i], 1).num]
           from == CHOOSE f : f = [i \in 1 .. end |-> Body(f, i)]
<1>1. delay_pl(tr) = from[1]
  BY DEF delay_pl
<1> DEFINE D(i) == {p \in Timed(go) : s[p] >= i}
           F == [i \in 1 .. end |-> [count |-> Cardinality(D(i)), sum |-> h[D(i)]]]
<1>3. n \in Nat /\ end \in Nat
  BY DEF Traces
<1>4. /\ \A p \in Timed(se) : Says(tr[s[p]], "s", p, se[p])
      /\ \A p \in Timed(go) : s[p] < r[p] /\ Says(tr[r[p]], "r", p, go[p])
  BY <1>2 DEF Logged
<1>6. Timed(se) \subseteq Nat /\ Timed(go) \subseteq Nat /\ IsFiniteSet(Timed(go))
  BY TimedSubset
<1>7. Additive(h, g, Timed(go))
  BY <1>6, TotalGrows
(* Which line receives what the i-th line sent. *)
<1>8. ASSUME NEW p \in Timed(se), NEW i, i = s[p]
      PROVE  /\ p \in Timed(go) => Receives(tr, i) = {r[p]}
             /\ p \notin Timed(go) => Receives(tr, i) = {}
  <2>1. i \in 1 .. n /\ x(tr[i], 5) = Num(p)
    BY <1>4, <1>8 DEF Says
  <2>2. \A q \in Timed(go) : r[q] \in 1 .. n /\ x(tr[r[q]], 5) = Num(q) /\ IsAgent(tr[r[q]], "r")
    BY <1>4 DEF Says
  <2>3. \A q : Num(q) = Num(p) => q = p
    BY DEF Num
  <2>4. Receives(tr, i) = {j \in i + 1 .. n : IsAgent(tr[j], "r") /\ x(tr[j], 5) = Num(p)}
    BY <2>1 DEF Receives
  <2>5. \A j \in i + 1 .. n : j \in 1 .. n
    BY <1>3, <2>1
  <2>6. \A j \in Receives(tr, i) : p \in Timed(go) /\ j = r[p]
    BY <1>5, <2>2, <2>3, <2>4, <2>5
  <2>7. p \in Timed(go) => r[p] \in i + 1 .. n
    <3>1. p \in Timed(go) => s[p] < r[p] /\ r[p] \in 1 .. n
      BY <1>4
    <3> QED BY <1>3, <1>8, <2>1, <3>1
  <2> QED BY <2>2, <2>4, <2>6, <2>7
<1>9. \A i \in 1 .. end : /\ D(i) \in SUBSET Timed(go)
                          /\ Cardinality(D(i)) \in Nat /\ h[D(i)] \in Int
  <2> SUFFICES ASSUME NEW i \in 1 .. end
               PROVE  /\ D(i) \in SUBSET Timed(go)
                      /\ Cardinality(D(i)) \in Nat /\ h[D(i)] \in Int
    OBVIOUS
  <2>1. D(i) \in SUBSET Timed(go)
    OBVIOUS
  <2> HIDE DEF D
  <2> QED BY <1>6, <1>7, <2>1, SubsetSizes DEF Additive
<1>10. F \in [1 .. end -> Outcome]
  <2> HIDE DEF D
  <2> QED BY <1>9 DEF Outcome
<1>11. ASSUME NEW i \in 1 .. end PROVE F[i] = Body(F, i)
  <2>1. CASE i = end
    <3>1. \A p \in Timed(go) : s[p] \in 1 .. n
      OBVIOUS
    <3>2. D(i) = {}
      BY <1>3, <2>1, <3>1
    <3>3. Cardinality({}) = 0 /\ h[{}] = 0
      BY <1>7, FS_EmptySet DEF Additive
    <3>4. F[i] = [count |-> 0, sum |-> 0]
      BY <3>2, <3>3
    <3> QED BY <2>1, <3>4
  <2>2. CASE i # end /\ ~\E p \in Timed(go) : s[p] = i
    <3>1. i \in 1 .. n /\ i + 1 \in 1 .. end
      BY <1>3, <2>2
    <3>2. \A p \in Timed(go) : s[p] \in Nat /\ s[p] # i
      BY <2>2
    <3>3. D(i) = D(i + 1)
      BY <3>1, <3>2
    <3>4. F[i] = F[i + 1]
      BY <3>1, <3>3
    <3>5. IsAgent(tr[i], "s") => Receives(tr, i) = {}
      BY <1>5, <1>8, <2>2, <3>1
    <3> HIDE DEF F
    <3> QED BY <2>2, <3>4, <3>5 DEF seek
  <2>3. ASSUME i # end, NEW p \in Timed(go), s[p] = i PROVE F[i] = Body(F, i)
    <3>1. i \in 1 .. n /\ i + 1 \in 1 .. end
      BY <1>3, <2>3
    <3>2. IsAgent(tr[i], "s") /\ Receives(tr, i) = {r[p]}
      BY <1>5, <1>8, <2>3, <3>1
    <3>3. Min({r[p]}) = r[p]
      <4>1. r[p] \in Nat
        OBVIOUS
      <4> QED BY <4>1 DEF Min
    <3>4. x(tr[r[p]], 1).num = go[p] /\ x(tr[i], 1).num = se[p]
      <4>1. x(tr[r[p]], 1) = Num(go[p]) /\ x(tr[i], 1) = Num(se[p])
        BY <1>4, <2>3 DEF Says
      <4> HIDE DEF F, from, D, Body
      <4> QED BY <4>1, NumIs
    <3>5. /\ D(i) \in SUBSET Timed(go) /\ p \in D(i) /\ D(i + 1) = D(i) \ {p}
      <4>1. \A q \in Timed(go) : s[q] = i => q = p
        <5>1. \A q \in Timed(go) : s[q] = i => Num(q) = Num(p)
          BY <1>4, <2>3 DEF Says
        <5> QED BY <5>1 DEF Num
      <4>2. \A q \in Timed(go) : s[q] \in Nat
        OBVIOUS
      <4>3. \A q \in Timed(go) : s[q] >= i + 1 <=> s[q] >= i /\ q # p
        BY <2>3, <3>1, <4>1, <4>2
      <4> QED BY <2>3, <3>1, <4>2, <4>3
    <3>6. Cardinality(D(i + 1)) = Cardinality(D(i)) - 1 /\ h[D(i)] = h[D(i + 1)] + g[p]
      <4> HIDE DEF D
      <4>1. Cardinality(D(i) \ {p}) = Cardinality(D(i)) - 1
        BY <1>6, <3>5, SubsetSizes
      <4>2. h[D(i)] = h[D(i) \ {p}] + g[p]
        BY <1>7, <3>5 DEF Additive
      <4> QED BY <3>5, <4>1, <4>2
    <3>7. F[i + 1].count = Cardinality(D(i + 1)) /\ F[i + 1].sum = h[D(i + 1)]
      BY <3>1
    <3>8. F[i] = [count |-> F[i + 1].count + 1, sum |-> F[i + 1].sum + go[p] - se[p]]
      <4>1. F[i] = [count |-> Cardinality(D(i)), sum |-> h[D(i)]]
        OBVIOUS
      <4>2. go[p] \in Int /\ se[p] \in Int
        BY DEF Timed
      <4> HIDE DEF D, F
      <4>3. Cardinality(D(i)) = F[i + 1].count + 1
        BY <1>9, <3>1, <3>6, <3>7
      <4>4. h[D(i)] = F[i + 1].sum + go[p] - se[p]
        BY <1>9, <3>1, <3>6, <3>7, <4>2
      <4> QED BY <4>1, <4>3, <4>4
    <3> HIDE DEF F
    <3> QED BY <2>3, <3>2, <3>3, <3>4, <3>8 DEF seek
  <2> QED BY <2>1, <2>2, <2>3
<1>12. F = [i \in 1 .. end |-> Body(F, i)]
  <2> HIDE DEF Body
  <2>1. F = [i \in 1 .. end |-> F[i]]
    OBVIOUS
  <2> HIDE DEF F
  <2> QED BY <1>11, <2>1
<1>13. from = [i \in 1 .. end |-> Body(from, i)]
  <2> HIDE DEF F, Body
  <2> QED BY <1>12
<1> DEFINE T == {k \in 0 .. n : from[end - k] = F[end - k]}
<1>14. 0 \in T
  <2>1. end \in 1 .. end /\ end - 0 = end
    BY <1>3
  <2>2. from[end] = Body(from, end) /\ F[end] = Body(F, end)
    <3> HIDE DEF from, F, Body
    <3> QED BY <1>11, <1>13, <2>1
  <2> HIDE DEF from, F
  <2>3. from[end] = F[end]
    BY <2>2
  <2> QED BY <1>3, <2>1, <2>3
<1>15. \A k \in 1 .. n : k - 1 \in T => k \in T
  <2> HIDE DEF from, F, Body
  <2> SUFFICES ASSUME NEW k \in 1 .. n, from[end - (k - 1)] = F[end - (k - 1)]
               PROVE  from[end - k] = F[end - k]
    BY <1>3
  <2> DEFINE i == end - k
  <2>1. i \in 1 .. end /\ i + 1 = end - (k - 1) /\ i # end
    BY <1>3
  <2>2. from[i] = Body(from, i) /\ F[i] = Body(F, i)
    <3> HIDE DEF i
    <3> QED BY <1>11, <1>13, <2>1
  <2>3. from[i + 1] = F[i + 1]
    BY <2>1
  <2> HIDE DEF i
  <2>4. from[i] = F[i]
    BY <2>2, <2>3 DEF seek, Body
  <2> QED BY <2>4 DEF i
<1>16. from[1] = F[1]
  <2>1. n \in T
    <3>1. n \in Nat
      BY <1>3
    <3> HIDE DEF T, n
    <3>2. \A k \in 0 .. n : k \in T
      BY <3>1, <1>14, <1>15, Climb, Zenon
    <3> QED BY <3>1, <3>2
  <2>2. from[end - n] = F[end - n] /\ end - n = 1
    <3> HIDE DEF from, F
    <3>1. end - n = 1
      BY <1>3
    <3> HIDE DEF n, end
    <3>2. from[end - n] = F[end - n]
      BY <2>1
    <3> QED BY <3>1, <3>2
  <2> HIDE DEF from, F
  <2> QED BY <2>2
<1>17. D(1) = Timed(go)
  <2>1. \A p \in Timed(go) : s[p] \in 1 .. n
    OBVIOUS
  <2> QED BY <2>1
<1>18. F[1] = [count |-> Cardinality(Timed(go)), sum |-> h[Timed(go)]]
  <2>1. 1 \in 1 .. end
    BY <1>3
  <2> QED BY <1>17, <2>1
<1> HIDE DEF from, F
<1> QED BY <1>1, <1>16, <1>18
-----------------------------------------------------------------------------
(* What a step does to the trace and to the history.                        *)

(* The traces whose lines are followed below: all but the new format with SMAC,
   which no script reads as it is written.                                  *)
Readable == format \in {"wired", "wireless"} \/ (format = "newtrace" /\ mac = "802_11")

History ==
    /\ now \in Nat /\ now >= 1
    /\ sent \in [Packet -> Nat] /\ got \in [Packet -> Nat]
    /\ hops \in [Packet -> Nat] /\ heard \in [Packet -> Nat]
    /\ flying \subseteq Sent /\ Delivered \subseteq Sent
    /\ \A p \in flying : p \notin Delivered
    /\ energy \in [Node -> Nat]
    /\ trace \in Traces
    /\ now <= Len(trace) + 1 /\ Len(trace) <= MaxLines
    /\ \A p \in Packet : sent[p] <= now /\ got[p] <= now /\ heard[p] <= now
    /\ \A p \in Delivered : heard[p] = got[p]

(* A line that tells of no agent: of a packet on its way, of another one, or of a
   battery; of a link, that it drops a packet.                              *)
Side(l) ==
    \/ \E e \in Events :
          /\ l = Line(e) /\ e.level \in Levels \ {"AGT"}
          /\ format = "wired" => e.type = "d"
    \/ format # "wired" /\ \E n, left, t \in Int : l = EnergyTrace(n, left, t)

(* The event of an agent at p. *)
OfAgent(e, type, p) ==
    /\ e \in Events /\ e.type = type /\ e.level = "AGT"
    /\ e.id = p /\ e.size = Size[p] /\ e.ptype \in {"cbr", "tcp", "ack"}

Sends(p, t, e) ==
    /\ p \in Packet /\ p \notin Sent /\ t \in Times /\ e.time = t
    /\ OfAgent(e, IF format = "wired" THEN "+" ELSE "s", p)
    /\ trace' = trace \o <<Line(e)>> /\ Len(trace) + 1 <= MaxLines
    /\ now' = t /\ flying' = flying \union {p}
    /\ sent' = [sent EXCEPT ![p] = t] /\ UNCHANGED <<got, hops, heard>>

Delivers(p, t, e) ==
    /\ p \in flying /\ t \in Times /\ e.time = t
    /\ OfAgent(e, "r", p)
    /\ trace' = trace \o <<Line(e)>> /\ Len(trace) + 1 <= MaxLines
    /\ now' = t /\ flying' = flying \ {p}
    /\ got' = [got EXCEPT ![p] = t] /\ sent' = sent /\ Arrives(p, t)

(* One link has brought the packet, the next one takes it: e and f. *)
Forwards(p, t, e, f) ==
    /\ format = "wired" /\ p \in flying /\ t \in Times
    /\ e \in Events /\ e.type = "r" /\ f \in Events /\ f.type = "+"
    /\ e.id = p /\ f.id = p /\ e.time = t /\ e.size = Size[p]
    /\ trace' = trace \o <<Line(e), Line(f)>> /\ Len(trace) + 2 <= MaxLines
    /\ now' = t /\ flying' = flying
    /\ UNCHANGED <<sent, got>> /\ Arrives(p, t)

HistoryStays == UNCHANGED <<sent, got, hops, heard>>

Passes(ls) ==
    /\ \A i \in 1 .. Len(ls) : Side(ls[i])
    /\ ls \in Traces /\ trace' = trace \o ls /\ Len(trace) + Len(ls) <= MaxLines
    /\ now' \in Times /\ (Len(ls) = 0 => now' = now)
    /\ flying' \subseteq flying /\ HistoryStays

LEMMA DataEvents ==
    ASSUME NEW type \in Types, NEW level \in Levels, NEW away \in BOOLEAN,
           NEW p \in Packet, NEW t \in Int
    PROVE  LET e == Event(type, level, away, PType[p], p, Size[p], t)
           IN  /\ e \in Events /\ e.type = type /\ e.level = level /\ e.id = p
               /\ e.time = t /\ e.size = Size[p] /\ e.ptype \in {"cbr", "tcp", "ack"}
<1>1. PType[p] \in {"cbr", "tcp", "ack"} /\ Size[p] \in Int /\ p \in Int
  BY TraceAssumption
<1>2. PType[p] \in PTypes
  BY <1>1 DEF PTypes
<1> HIDE DEF PTypes, Types, Levels
<1> QED BY <1>1, <1>2 DEF Events, Event

LEMMA Named ==
    /\ \A y \in {"+", "s", "r", "d", "D"} : y \in Types
    /\ \A y \in {"AGT", "RTR", "IFQ", "MAC", "link"} : y \in Levels
    /\ \A y \in {"RTR", "IFQ", "MAC", "link"} : y \in Levels \ {"AGT"}
BY DEF Types, Levels

LEMMA SendSteps ==
    ASSUME History, NEW p \in Packet, NEW t \in Times, Send(p, t)
    PROVE  \E e : Sends(p, t, e)
<1> DEFINE type == IF format = "wired" THEN "+" ELSE "s"
           e == Event(type, "AGT", FALSE, PType[p], p, Size[p], t)
<1>1. t \in Int
  BY DEF History, Times
<1>2. type \in Types /\ "AGT" \in Levels
  BY Named
<1>3. e.time = t /\ OfAgent(e, type, p)
  <2>1. FALSE \in BOOLEAN
    OBVIOUS
  <2> HIDE DEF type
  <2>2. /\ e \in Events /\ e.type = type /\ e.level = "AGT" /\ e.id = p
        /\ e.time = t /\ e.size = Size[p] /\ e.ptype \in {"cbr", "tcp", "ack"}
    BY <1>1, <1>2, <2>1, DataEvents, Zenon
  <2> QED BY <2>2 DEF OfAgent
<1> HIDE DEF e
<1>4. Write(<<Line(e)>>, t)
  BY DEF Send, Data, e
<1>5. trace' = trace \o <<Line(e)>> /\ Len(trace) + 1 <= MaxLines /\ now' = t
  BY <1>4 DEF Write
<1> QED BY <1>3, <1>5 DEF Send, Sends

LEMMA DeliverSteps ==
    ASSUME History, NEW p \in Packet, NEW t \in Times, Deliver(p, t)
    PROVE  \E e : Delivers(p, t, e)
<1> DEFINE e == Event("r", "AGT", TRUE, PType[p], p, Size[p], t)
<1>1. t \in Int
  BY DEF History, Times
<1>2. "r" \in Types /\ "AGT" \in Levels
  BY Named
<1>3. e.time = t /\ OfAgent(e, "r", p)
  <2>1. PType[p] \in {"cbr", "tcp", "ack"} /\ Size[p] \in Int /\ p \in Int
    BY TraceAssumption
  <2>2. PType[p] \in PTypes
    BY <2>1 DEF PTypes
  <2> HIDE DEF PTypes, Types, Levels
  <2>3. e \in Events
    BY <1>1, <1>2, <2>1, <2>2 DEF Events, Event
  <2>4. /\ e.type = "r" /\ e.level = "AGT" /\ e.id = p
        /\ e.time = t /\ e.size = Size[p] /\ e.ptype = PType[p]
    BY DEF Event
  <2> QED BY <2>1, <2>3, <2>4 DEF OfAgent
<1> HIDE DEF e
<1>4. Write(<<Line(e)>>, t)
  BY DEF Deliver, Data, e
<1>5. trace' = trace \o <<Line(e)>> /\ Len(trace) + 1 <= MaxLines /\ now' = t
  BY <1>4 DEF Write
<1> QED BY <1>3, <1>5 DEF Deliver, Delivers

LEMMA LinesAreFields ==
    ASSUME Readable
    PROVE  /\ \A e \in Events : Line(e) \in Seq(Fields)
           /\ \A l : Side(l) => l \in Seq(Fields)
<1>1. ASSUME NEW e \in Events PROVE Line(e) \in Seq(Fields)
  BY WiredLine, WirelessLines, NewLine DEF Readable
<1> QED BY <1>1, EnergyLine DEF Side

(* What the routers, the queues and the MACs write of a packet is of its side. *)
LEMMA DataSides ==
    ASSUME History, NEW p \in flying, NEW t \in Int, NEW type \in Types,
           NEW level \in Levels \ {"AGT"}, NEW away \in BOOLEAN,
           format = "wired" => type = "d"
    PROVE  Side(Data(type, level, away, p, t))
<1> DEFINE e == Event(type, level, away, PType[p], p, Size[p], t)
<1>1. /\ p \in Packet /\ level \in Levels /\ away \in BOOLEAN /\ type \in Types
      /\ t \in Int
  BY DEF History, Sent
<1>2. /\ e \in Events /\ e.type = type /\ e.level = level /\ e.id = p
      /\ e.time = t /\ e.size = Size[p] /\ e.ptype \in {"cbr", "tcp", "ack"}
  <2> HIDE DEF e
  <2>1. ASSUME NEW ee, ee = Event(type, level, away, PType[p], p, Size[p], t)
        PROVE  /\ ee \in Events /\ ee.type = type /\ ee.level = level /\ ee.id = p
               /\ ee.time = t /\ ee.size = Size[p] /\ ee.ptype \in {"cbr", "tcp", "ack"}
    BY <1>1, <2>1, DataEvents
  <2> QED BY <2>1 DEF e
<1>3. Data(type, level, away, p, t) = Line(e)
  BY DEF Data
<1> HIDE DEF e
<1> QED BY <1>2, <1>3 DEF Side

LEMMA WriteSides ==
    ASSUME Readable, History, NEW ls, NEW n \in Nat \ {0}, NEW S, ls \in [1 .. n -> S],
           \A i \in 1 .. n : Side(ls[i]),
           NEW t \in Times, Write(ls, t), flying' \subseteq flying, HistoryStays
    PROVE  Passes(ls)
<1>1. \A i \in 1 .. n : ls[i] \in Seq(Fields)
  BY LinesAreFields
<1>2. ls \in [1 .. n -> Seq(Fields)]
  BY <1>1
<1>3. ls \in Traces /\ Len(ls) = n
  BY <1>2 DEF Traces
<1> QED BY <1>3 DEF Passes, Write

LEMMA ForwardSteps ==
    ASSUME History, NEW p \in Packet, NEW t \in Times, Hop(p, t)
    PROVE  \E e, f \in Events : Forwards(p, t, e, f)
<1> DEFINE e == Event("r", "link", TRUE, PType[p], p, Size[p], t)
           f == Event("+", "link", TRUE, PType[p], p, Size[p], t)
<1>1. t \in Int
  BY DEF History, Times
<1>2. "r" \in Types /\ "+" \in Types /\ "link" \in Levels
  BY Named
<1>3. /\ e \in Events /\ e.type = "r" /\ f \in Events /\ f.type = "+"
      /\ e.id = p /\ f.id = p /\ e.time = t /\ e.size = Size[p]
  <2>1. PType[p] \in {"cbr", "tcp", "ack"} /\ Size[p] \in Int /\ p \in Int
    BY TraceAssumption
  <2>2. PType[p] \in PTypes
    BY <2>1 DEF PTypes
  <2> HIDE DEF PTypes, Types, Levels
  <2>3. e \in Events /\ f \in Events
    BY <1>1, <1>2, <2>1, <2>2 DEF Events, Event
  <2>4. /\ e.type = "r" /\ f.type = "+" /\ e.id = p /\ f.id = p
        /\ e.time = t /\ e.size = Size[p]
    BY DEF Event
  <2> QED BY <2>3, <2>4
<1> HIDE DEF e, f
<1>4. Write(<<Line(e), Line(f)>>, t)
  BY DEF Hop, Data, e, f
<1>5. trace' = trace \o <<Line(e), Line(f)>> /\ Len(trace) + 2 <= MaxLines /\ now' = t
  <2>1. Len(<<Line(e), Line(f)>>) = 2
    OBVIOUS
  <2> QED BY <1>4, <2>1 DEF Write
<1>6. Forwards(p, t, e, f)
  BY <1>3, <1>5 DEF Hop, Forwards
<1> QED BY <1>3, <1>6

LEMMA RelaySides ==
    ASSUME Readable, History, NEW p \in Packet, Relay(p)
    PROVE  \E ls : Passes(ls)
<1>1. /\ p \in flying /\ format # "wired" /\ flying' = flying /\ HistoryStays
      /\ now \in Int /\ now \in Times
  BY DEF Relay, History, Times, HistoryStays
<1>2. PICK at \in {<<"RTR", FALSE>>, <<"RTR", TRUE>>, <<"MAC", TRUE>>} :
          Write([i \in 1 .. 2 |-> Data(<<"r", "s">>[i], at[1], at[2], p, now)], now)
  BY DEF Relay
<1> DEFINE ls == [i \in 1 .. 2 |-> Data(<<"r", "s">>[i], at[1], at[2], p, now)]
<1>3. at[1] \in Levels \ {"AGT"} /\ at[2] \in BOOLEAN
  <2>1. at[1] \in {"RTR", "MAC"} /\ at[2] \in BOOLEAN
    <3>1. CASE at = <<"RTR", FALSE>>
      BY <3>1
    <3>2. CASE at = <<"RTR", TRUE>>
      BY <3>2
    <3>3. CASE at = <<"MAC", TRUE>>
      BY <3>3
    <3> QED BY <3>1, <3>2, <3>3
  <2> QED BY <2>1, Named
<1>4. \A i \in 1 .. 2 : <<"r", "s">>[i] \in Types
  <2>1. \A i \in 1 .. 2 : <<"r", "s">>[i] \in {"r", "s"}
    OBVIOUS
  <2> QED BY <2>1, Named
<1>5. \A i \in 1 .. 2 : Side(Data(<<"r", "s">>[i], at[1], at[2], p, now))
  BY <1>1, <1>3, <1>4, DataSides, Zenon
<1>6. ls \in [1 .. 2 -> {ls[i] : i \in 1 .. 2}] /\ \A i \in 1 .. 2 : Side(ls[i])
  BY <1>5
<1>7. Write(ls, now) /\ flying' \subseteq flying
  BY <1>1, <1>2
<1> HIDE DEF ls
<1>8. 2 \in Nat \ {0}
  OBVIOUS
<1>9. Passes(ls)
  BY <1>1, <1>6, <1>7, <1>8, WriteSides, Zenon
<1> QED BY <1>9

LEMMA OneSide ==
    ASSUME Readable, History, NEW l, Side(l), NEW t \in Times, Write(<<l>>, t),
           flying' \subseteq flying, HistoryStays
    PROVE  \E ls : Passes(ls)
<1> DEFINE ls == <<l>>
<1>1. ls \in [1 .. 1 -> {l}] /\ \A i \in 1 .. 1 : ls[i] = l
  OBVIOUS
<1>2. Write(ls, t)
  OBVIOUS
<1> HIDE DEF ls
<1>3. \A i \in 1 .. 1 : Side(ls[i])
  BY <1>1
<1>4. 1 \in Nat \ {0}
  OBVIOUS
<1>5. Passes(ls)
  BY <1>1, <1>2, <1>3, <1>4, WriteSides, Zenon
<1> QED BY <1>5

LEMMA DropSides ==
    ASSUME Readable, History, NEW p \in Packet, Drop(p)
    PROVE  \E ls : Passes(ls)
<1> DEFINE type == IF format = "wired" THEN "d" ELSE "D"
<1>1. PICK level \in {"RTR", "IFQ"} : Write(<<Data(type, level, TRUE, p, now)>>, now)
  BY DEF Drop
<1>2. /\ p \in flying /\ flying' \subseteq flying /\ HistoryStays
      /\ now \in Int /\ now \in Times
  BY DEF Drop, History, Times, HistoryStays
<1>3. /\ type \in Types /\ level \in Levels \ {"AGT"} /\ TRUE \in BOOLEAN
      /\ format = "wired" => type = "d"
  BY Named
<1> HIDE DEF type
<1>4. Side(Data(type, level, TRUE, p, now))
  BY <1>2, <1>3, DataSides, Zenon
<1> QED BY <1>1, <1>2, <1>4, OneSide, Zenon

LEMMA OverheadSides ==
    ASSUME Readable, History, Overhead
    PROVE  \E ls : Passes(ls)
<1>1. PICK o \in Others : Write(<<Line(Event(o.type, o.level, FALSE, o.ptype, 0, 1, now))>>, now)
  BY DEF Overhead
<1> DEFINE e == Event(o.type, o.level, FALSE, o.ptype, 0, 1, now)
<1>2. /\ format # "wired" /\ flying' \subseteq flying /\ HistoryStays
      /\ now \in Int /\ now \in Times
  BY DEF Overhead, History, Times, HistoryStays
<1>3. e \in Events /\ e.level \in Levels \ {"AGT"}
  <2>1. o.type \in {"s", "r"} /\ o.level \in {"RTR", "MAC"} /\ o.ptype \in {"MAC", "ARP", "Ant"}
    BY TraceAssumption
  <2>2. o.type \in Types /\ o.level \in Levels \ {"AGT"} /\ o.ptype \in PTypes
    BY <2>1, Named DEF PTypes
  <2> HIDE DEF Types, Levels, PTypes
  <2> QED BY <1>2, <2>2 DEF Events, Event
<1> HIDE DEF e
<1>4. Side(Line(e)) /\ Write(<<Line(e)>>, now)
  BY <1>1, <1>2, <1>3 DEF Side, e
<1> QED BY <1>2, <1>4, OneSide, Zenon

LEMMA DrainSides ==
    ASSUME Readable, History, NEW n \in Node, Drain(n)
    PROVE  \E ls : Passes(ls)
<1> DEFINE l == EnergyTrace(n, energy[n] - 1, now)
<1>1. /\ Write(<<l>>, now) /\ flying' \subseteq flying /\ HistoryStays
      /\ now \in Times
  BY DEF Drain, Times, HistoryStays
<1>2. n \in Int /\ energy[n] - 1 \in Int /\ now \in Int
  BY TraceAssumption DEF History
<1>3. Side(l)
  BY <1>2 DEF Drain, Side
<1> HIDE DEF l
<1> QED BY <1>1, <1>3, OneSide, Zenon

LEMMA NoLine ==
    ASSUME Readable, History, trace' = trace, now' = now, flying' \subseteq flying,
           HistoryStays
    PROVE  \E ls : Passes(ls)
<1> DEFINE ls == <<>>
<1>1. ls \in Traces /\ Len(ls) = 0 /\ trace \o ls = trace
  BY DEF History, Traces
<1>2. now' \in Times /\ Len(trace) + 0 <= MaxLines
  BY DEF History, Traces, Times
<1> HIDE DEF ls
<1>3. \A i \in 1 .. Len(ls) : Side(ls[i])
  BY <1>1
<1> QED BY <1>1, <1>2, <1>3 DEF Passes

(* No step changes what the run writes. *)
LEMMA FormatStays == [Next]_vars => format' = format /\ mac' = mac
BY DEF Next, vars, Write, Send, Hop, Relay, Deliver, Drop, Overhead, Vanish, Drain

(* What any step is. *)
LEMMA StepsOf ==
    ASSUME Readable, History, [Next]_vars
    PROVE  /\ format' = format /\ mac' = mac
           /\ energy' \in [Node -> Nat]
           /\ \/ \E p \in Packet, t \in Times, e \in Events : Sends(p, t, e)
              \/ \E p \in Packet, t \in Times, e \in Events : Delivers(p, t, e)
              \/ \E p \in Packet, t \in Times, e, f \in Events : Forwards(p, t, e, f)
              \/ \E ls : Passes(ls)
<1>1. format' = format /\ mac' = mac
  BY FormatStays
<1>2. energy' \in [Node -> Nat]
  <2>1. energy' = energy \/ \E n \in Node : Drain(n)
    BY DEF Next, vars, Send, Hop, Relay, Deliver, Drop, Overhead, Vanish
  <2>2. ASSUME NEW n \in Node, Drain(n) PROVE energy' \in [Node -> Nat]
    <3>1. energy[n] > 0 /\ energy' = [energy EXCEPT ![n] = energy[n] - 1] /\ energy \in [Node -> Nat]
      BY <2>2 DEF Drain, History
    <3>2. energy[n] - 1 \in Nat
      BY <3>1
    <3> QED BY <3>1, <3>2
  <2> QED BY <2>1, <2>2 DEF History
<1>3. ASSUME NEW p \in Packet, NEW t \in Times, Send(p, t)
      PROVE  \E e \in Events : Sends(p, t, e)
  <2>1. PICK e : Sends(p, t, e)
    BY <1>3, SendSteps
  <2>2. e \in Events
    BY <2>1 DEF Sends, OfAgent
  <2> QED BY <2>1, <2>2
<1>4. ASSUME NEW p \in Packet, NEW t \in Times, Deliver(p, t)
      PROVE  \E e \in Events : Delivers(p, t, e)
  <2>1. PICK e : Delivers(p, t, e)
    BY <1>4, DeliverSteps
  <2>2. e \in Events
    BY <2>1 DEF Delivers, OfAgent
  <2> QED BY <2>1, <2>2
<1>5. ASSUME NEW p \in Packet, Vanish(p) PROVE \E ls : Passes(ls)
  <2>1. trace' = trace /\ now' = now /\ flying' \subseteq flying /\ HistoryStays
    BY <1>5 DEF Vanish, HistoryStays
  <2> QED BY <2>1, NoLine
<1>6. CASE UNCHANGED vars
  <2>1. trace' = trace /\ now' = now /\ flying' \subseteq flying /\ HistoryStays
    BY <1>6 DEF vars, HistoryStays
  <2> QED BY <1>1, <1>2, <2>1, NoLine
<1>7. CASE Next
  BY <1>1, <1>2, <1>3, <1>4, <1>5, <1>7, ForwardSteps, RelaySides, DropSides, OverheadSides, DrainSides
     DEF Next
<1> QED BY <1>6, <1>7

LEMMA Longer ==
    ASSUME NEW tr \in Traces
    PROVE  /\ \A l \in Seq(Fields) :
                 /\ tr \o <<l>> = Append(tr, l) /\ tr \o <<l>> \in Traces
                 /\ Len(tr \o <<l>>) = Len(tr) + 1
           /\ \A ls \in Traces : tr \o ls \in Traces /\ Len(tr \o ls) = Len(tr) + Len(ls)
<1> HIDE DEF Fields
<1> QED BY DEF Traces

LEMMA TwoLonger ==
    ASSUME NEW tr \in Traces, NEW l \in Seq(Fields), NEW m \in Seq(Fields)
    PROVE  /\ tr \o <<l, m>> = (tr \o <<l>>) \o <<m>>
           /\ tr \o <<l, m>> \in Traces /\ Len(tr \o <<l, m>>) = Len(tr) + 2
<1> DEFINE S == Seq(Fields)
           a == <<l>>
           b == <<m>>
           c == <<l, m>>
<1>1. tr \in Seq(S) /\ a \in Seq(S) /\ b \in Seq(S) /\ c = a \o b /\ Len(c) = 2 /\ c \in Seq(S)
  <2>1. tr \in Seq(S) /\ l \in S /\ m \in S
    BY DEF Traces
  <2> HIDE DEF S
  <2>2. a \in Seq(S) /\ b \in Seq(S) /\ c \in Seq(S) /\ Len(c) = 2
    BY <2>1
  <2>3. /\ a \o b \in Seq(S) /\ Len(a \o b) = 2
        /\ (a \o b)[1] = l /\ (a \o b)[2] = m /\ c[1] = l /\ c[2] = m
    BY <2>1
  <2>4. c = a \o b
    <3>1. \A i \in 1 .. 2 : i = 1 \/ i = 2
      OBVIOUS
    <3>2. \A i \in 1 .. Len(c) : c[i] = (a \o b)[i]
      BY <2>2, <2>3, <3>1
    <3> HIDE DEF a, b, c
    <3> QED BY <2>2, <2>3, <3>2, SeqEqual
  <2> QED BY <2>1, <2>2, <2>4
<1> HIDE DEF S, a, b, c
<1>2. (tr \o a) \o b = tr \o (a \o b)
  BY <1>1, ConcatAssociative
<1>3. tr \o c \in Seq(S) /\ Len(tr \o c) = Len(tr) + 2
  BY <1>1
<1> QED BY <1>1, <1>2, <1>3 DEF Traces, S, a, b, c

LEMMA HistoryStarts == Init => History
<1> SUFFICES ASSUME Init PROVE History
  OBVIOUS
<1>1. /\ sent \in [Packet -> Nat] /\ got \in [Packet -> Nat]
      /\ hops \in [Packet -> Nat] /\ heard \in [Packet -> Nat]
      /\ \A p \in Packet : sent[p] = 0 /\ got[p] = 0 /\ heard[p] = 0
  BY DEF Init
<1>2. Sent = {} /\ Delivered = {}
  BY <1>1 DEF Sent, Delivered
<1>3. trace \in Traces /\ Len(trace) = 0
  BY DEF Init, Traces
<1>4. energy \in [Node -> Nat]
  BY TraceAssumption DEF Init
<1> QED BY <1>1, <1>2, <1>3, <1>4, TraceAssumption DEF Init, History

LEMMA HistoryGoesOn == Readable /\ History /\ [Next]_vars => History'
<1> SUFFICES ASSUME Readable, History, [Next]_vars PROVE History'
  OBVIOUS
<1>1. energy' \in [Node -> Nat]
  BY StepsOf
<1>2. /\ now \in Nat /\ now >= 1 /\ trace \in Traces /\ Len(trace) \in Nat
      /\ now <= Len(trace) + 1 /\ MaxLines \in Nat
      /\ sent \in [Packet -> Nat] /\ got \in [Packet -> Nat]
      /\ hops \in [Packet -> Nat] /\ heard \in [Packet -> Nat]
      /\ \A p \in Packet : sent[p] <= now /\ got[p] <= now /\ heard[p] <= now
      /\ \A p \in Delivered : heard[p] = got[p]
      /\ flying \subseteq Packet /\ \A p \in flying : p \notin Delivered
  BY TraceAssumption DEF History, Traces, Sent
<1>3. \A t \in Times : t \in Nat /\ t >= now /\ t <= now + 1
  BY <1>2 DEF Times
<1>4. CASE \E p \in Packet, t \in Times, e \in Events : Sends(p, t, e)
  <2>1. PICK p \in Packet, t \in Times, e \in Events : Sends(p, t, e)
    BY <1>4
  <2>2. /\ trace' = trace \o <<Line(e)>> /\ Len(trace) + 1 <= MaxLines /\ now' = t
        /\ sent' = [sent EXCEPT ![p] = t] /\ got' = got /\ flying' = flying \union {p}
        /\ hops' = hops /\ heard' = heard /\ p \notin Sent
    BY <2>1 DEF Sends
  <2>3. trace' \in Traces /\ Len(trace') = Len(trace) + 1
    BY <1>2, <2>2, LinesAreFields, Longer
  <2>4. now' \in Nat /\ now' >= 1 /\ now' <= Len(trace') + 1 /\ Len(trace') <= MaxLines
    BY <1>2, <1>3, <2>2, <2>3
  <2>5. /\ sent' \in [Packet -> Nat]
        /\ \A q \in Packet : sent'[q] <= now' /\ got'[q] <= now' /\ heard'[q] <= now'
    BY <1>2, <1>3, <2>2
  <2>6. Sent' = Sent \union {p} /\ Delivered' = Delivered
    BY <1>2, <1>3, <2>2 DEF Sent, Delivered
  <2>7. flying' \subseteq Sent' /\ Delivered' \subseteq Sent' /\ \A q \in flying' : q \notin Delivered'
    BY <2>2, <2>6 DEF History
  <2> QED BY <1>1, <1>2, <2>2, <2>3, <2>4, <2>5, <2>6, <2>7 DEF History
<1>5. CASE \E p \in Packet, t \in Times, e \in Events : Delivers(p, t, e)
  <2>1. PICK p \in Packet, t \in Times, e \in Events : Delivers(p, t, e)
    BY <1>5
  <2>2. /\ trace' = trace \o <<Line(e)>> /\ Len(trace) + 1 <= MaxLines /\ now' = t
        /\ got' = [got EXCEPT ![p] = t] /\ sent' = sent /\ flying' = flying \ {p}
        /\ hops' = [hops EXCEPT ![p] = @ + 1] /\ heard' = [heard EXCEPT ![p] = t]
        /\ p \in flying
    BY <2>1 DEF Delivers, Arrives
  <2>3. trace' \in Traces /\ Len(trace') = Len(trace) + 1
    BY <1>2, <2>2, LinesAreFields, Longer
  <2>4. now' \in Nat /\ now' >= 1 /\ now' <= Len(trace') + 1 /\ Len(trace') <= MaxLines
    BY <1>2, <1>3, <2>2, <2>3
  <2>5. /\ got' \in [Packet -> Nat] /\ hops' \in [Packet -> Nat] /\ heard' \in [Packet -> Nat]
        /\ \A q \in Packet : sent'[q] <= now' /\ got'[q] <= now' /\ heard'[q] <= now'
    <3>1. hops' \in [Packet -> Nat]
      BY <1>2, <2>2
    <3>2. got' \in [Packet -> Nat] /\ heard' \in [Packet -> Nat]
      BY <1>2, <1>3, <2>2
    <3>3. ASSUME NEW q \in Packet
          PROVE  sent'[q] <= now' /\ got'[q] <= now' /\ heard'[q] <= now'
      <4>1. /\ sent[q] \in Nat /\ got[q] \in Nat /\ heard[q] \in Nat /\ t \in Nat /\ t >= now
            /\ sent'[q] = sent[q] /\ got'[q] \in {got[q], t} /\ heard'[q] \in {heard[q], t}
        BY <1>2, <1>3, <2>2
      <4> QED BY <1>2, <2>2, <4>1
    <3> QED BY <3>1, <3>2, <3>3
  <2>6. Delivered' = Delivered \union {p} /\ Sent' = Sent
    BY <1>2, <1>3, <2>2 DEF Sent, Delivered
  <2>7. \A q \in Delivered' : heard'[q] = got'[q]
    BY <1>2, <2>2, <2>6
  <2>8. flying' \subseteq Sent' /\ Delivered' \subseteq Sent' /\ \A q \in flying' : q \notin Delivered'
    BY <2>2, <2>6 DEF History
  <2> QED BY <1>1, <1>2, <2>2, <2>3, <2>4, <2>5, <2>7, <2>8 DEF History
<1>6. CASE \E p \in Packet, t \in Times, e, f \in Events : Forwards(p, t, e, f)
  <2>1. PICK p \in Packet, t \in Times, e \in Events, f \in Events : Forwards(p, t, e, f)
    BY <1>6
  <2>2. /\ trace' = trace \o <<Line(e), Line(f)>> /\ Len(trace) + 2 <= MaxLines /\ now' = t
        /\ got' = got /\ sent' = sent /\ flying' = flying
        /\ hops' = [hops EXCEPT ![p] = @ + 1] /\ heard' = [heard EXCEPT ![p] = t]
        /\ p \in flying
    BY <2>1 DEF Forwards, Arrives
  <2>3. trace' \in Traces /\ Len(trace') = Len(trace) + 2
    BY <1>2, <2>2, LinesAreFields, TwoLonger
  <2>4. now' \in Nat /\ now' >= 1 /\ now' <= Len(trace') + 1 /\ Len(trace') <= MaxLines
    BY <1>2, <1>3, <2>2, <2>3
  <2>5. /\ hops' \in [Packet -> Nat] /\ heard' \in [Packet -> Nat]
        /\ \A q \in Packet : sent'[q] <= now' /\ got'[q] <= now' /\ heard'[q] <= now'
    <3>1. hops' \in [Packet -> Nat]
      BY <1>2, <2>2
    <3>2. heard' \in [Packet -> Nat]
      BY <1>2, <1>3, <2>2
    <3>3. ASSUME NEW q \in Packet
          PROVE  sent'[q] <= now' /\ got'[q] <= now' /\ heard'[q] <= now'
      <4>1. /\ sent[q] \in Nat /\ got[q] \in Nat /\ heard[q] \in Nat /\ t \in Nat /\ t >= now
            /\ sent'[q] = sent[q] /\ got'[q] = got[q] /\ heard'[q] \in {heard[q], t}
        BY <1>2, <1>3, <2>2
      <4> QED BY <1>2, <2>2, <4>1
    <3> QED BY <3>1, <3>2, <3>3
  <2>6. Delivered' = Delivered /\ Sent' = Sent
    BY <2>2 DEF Sent, Delivered
  <2>7. \A q \in Delivered' : heard'[q] = got'[q]
    BY <1>2, <2>2, <2>6 DEF Delivered
  <2> QED BY <1>1, <1>2, <2>2, <2>3, <2>4, <2>5, <2>6, <2>7 DEF History
<1>7. CASE \E ls : Passes(ls)
  <2>1. PICK ls : Passes(ls)
    BY <1>7
  <2>2. /\ ls \in Traces /\ trace' = trace \o ls /\ Len(trace) + Len(ls) <= MaxLines
        /\ now' \in Times /\ (Len(ls) = 0 => now' = now)
        /\ flying' \subseteq flying /\ sent' = sent /\ got' = got
        /\ hops' = hops /\ heard' = heard
    BY <2>1 DEF Passes, HistoryStays
  <2>3. trace' \in Traces /\ Len(trace') = Len(trace) + Len(ls) /\ Len(ls) \in Nat
    <3>1. Len(ls) \in Nat
      BY <2>2 DEF Traces
    <3> QED BY <1>2, <2>2, <3>1, Longer
  <2>4. now' \in Nat /\ now' >= 1 /\ now' <= Len(trace') + 1 /\ Len(trace') <= MaxLines
    BY <1>2, <1>3, <2>2, <2>3
  <2>5. \A q \in Packet : sent'[q] <= now' /\ got'[q] <= now' /\ heard'[q] <= now'
    BY <1>2, <1>3, <2>2
  <2>6. Sent' = Sent /\ Delivered' = Delivered
    BY <2>2 DEF Sent, Delivered
  <2> QED BY <1>1, <1>2, <2>2, <2>3, <2>4, <2>5, <2>6 DEF History
<1> QED BY <1>4, <1>5, <1>6, <1>7, StepsOf

-----------------------------------------------------------------------------
(* A wireless trace is a log of the history.                                *)

LogKept == Readable => History /\ (format = "wireless" => HasLog(trace, sent, got))

LEMMA LogStarts == Init => HasLog(trace, sent, got)
<1> SUFFICES ASSUME Init PROVE HasLog(trace, sent, got)
  OBVIOUS
<1> DEFINE s == [p \in {} |-> 1]
<1>1. Len(trace) = 0
  BY DEF Init
<1>2. Timed(sent) = {} /\ Timed(got) = {}
  BY DEF Init, Timed
<1>3. s \in [Timed(sent) -> 1 .. Len(trace)] /\ s \in [Timed(got) -> 1 .. Len(trace)]
  BY <1>2
<1>4. Logged(trace, sent, got, s, s)
  BY <1>1, <1>2 DEF Logged
<1> QED BY <1>3, <1>4 DEF HasLog

LEMMA LogGoesOn ==
    ASSUME format = "wireless", History, [Next]_vars, HasLog(trace, sent, got)
    PROVE  HasLog(trace, sent, got)'
<1>1. Readable
  BY DEF Readable
<1>2. /\ trace \in Traces /\ sent \in [Packet -> Nat] /\ got \in [Packet -> Nat]
      /\ now \in Nat /\ now >= 1
      /\ Timed(got) \subseteq Timed(sent) /\ \A p \in flying : p \in Timed(sent) /\ p \notin Timed(got)
  BY TimedIs DEF History
<1>3. \A t \in Times : t \in Nat \ {0}
  BY <1>2 DEF Times
<1>4. CASE \E p \in Packet, t \in Times, e \in Events : Sends(p, t, e)
  <2>1. PICK p \in Packet, t \in Times, e \in Events : Sends(p, t, e)
    BY <1>4
  <2>2. /\ trace' = trace \o <<Line(e)>> /\ e.time = t /\ OfAgent(e, "s", p)
        /\ sent' = [sent EXCEPT ![p] = t] /\ got' = got /\ p \notin Sent
    BY <2>1 DEF Sends
  <2>3. Says(Line(e), "s", p, t) /\ Line(e) \in Seq(Fields)
    BY <2>2, WirelessLines DEF OfAgent
  <2>4. trace' = Append(trace, Line(e))
    BY <1>2, <2>2, <2>3, Longer
  <2>5. sent[p] = 0
    BY <1>2, <2>2 DEF Sent
  <2>6. HasLog(Append(trace, Line(e)), [sent EXCEPT ![p] = t], got)
    BY <1>2, <1>3, <2>3, <2>5, LogSend
  <2> QED BY <2>2, <2>4, <2>6
<1>5. CASE \E p \in Packet, t \in Times, e \in Events : Delivers(p, t, e)
  <2>1. PICK p \in Packet, t \in Times, e \in Events : Delivers(p, t, e)
    BY <1>5
  <2>2. /\ trace' = trace \o <<Line(e)>> /\ e.time = t /\ OfAgent(e, "r", p)
        /\ got' = [got EXCEPT ![p] = t] /\ sent' = sent /\ p \in flying
    BY <2>1 DEF Delivers
  <2>3. Says(Line(e), "r", p, t) /\ Line(e) \in Seq(Fields)
    BY <2>2, WirelessLines DEF OfAgent
  <2>4. trace' = Append(trace, Line(e))
    BY <1>2, <2>2, <2>3, Longer
  <2>5. got[p] = 0 /\ p \in Timed(sent)
    BY <1>2, <2>2 DEF Timed
  <2>6. HasLog(Append(trace, Line(e)), sent, [got EXCEPT ![p] = t])
    BY <1>2, <1>3, <2>3, <2>5, LogDeliver
  <2> QED BY <2>2, <2>4, <2>6
<1>6. CASE \E ls : Passes(ls)
  <2>1. PICK ls : Passes(ls)
    BY <1>6
  <2>2. /\ ls \in Traces /\ trace' = trace \o ls /\ sent' = sent /\ got' = got
        /\ \A i \in 1 .. Len(ls) : Side(ls[i])
    BY <2>1 DEF Passes, HistoryStays
  <2>3. \A l : Side(l) => Quiet(l)
    BY WirelessLines, EnergyLine DEF Side
  <2>4. HasLog(trace \o ls, sent, got)
    BY <1>2, <2>2, <2>3, LogQuiet
  <2> QED BY <2>2, <2>4
<1>7. ~\E p \in Packet, t \in Times, e, f \in Events : Forwards(p, t, e, f)
  BY DEF Forwards
<1> QED BY <1>1, <1>4, <1>5, <1>6, <1>7, StepsOf

LEMMA LogAlways == Spec => []LogKept
<1>1. Init => LogKept
  BY HistoryStarts, LogStarts DEF LogKept
<1>2. LogKept /\ [Next]_vars => LogKept'
  <2> SUFFICES ASSUME LogKept, [Next]_vars, Readable' PROVE LogKept'
    BY DEF LogKept
  <2>1. format' = format /\ mac' = mac
    BY FormatStays
  <2>2. Readable
    BY <2>1 DEF Readable
  <2>3. History /\ History'
    BY <2>2, HistoryGoesOn DEF LogKept
  <2>4. format' = "wireless" => HasLog(trace, sent, got)'
    BY <2>1, <2>2, <2>3, LogGoesOn DEF LogKept
  <2> QED BY <2>3, <2>4 DEF LogKept
<1> QED BY <1>1, <1>2, PTL DEF Spec

(* antnetanalizer.pl counts every data packet sent and every one delivered once:
   its patterns match no line of a router, a queue, a MAC or a battery.     *)
THEOREM DeliveryRatioMeasured == Spec => []RatioMeasured
<1>1. LogKept => RatioMeasured
  <2> SUFFICES ASSUME LogKept, format = "wireless"
               PROVE  /\ Count(trace, "s", "AGT") = Cardinality(Sent)
                      /\ Count(trace, "r", "AGT") = Cardinality(Delivered)
    BY DEF RatioMeasured, antnetanalizer
  <2>1. History /\ HasLog(trace, sent, got)
    BY DEF LogKept, Readable
  <2>2. trace \in Traces /\ Timed(got) \subseteq Timed(sent)
    BY <2>1, TimedIs DEF History
  <2> QED BY <2>1, <2>2, TimedIs, CountsLogged
<1> QED BY <1>1, LogAlways, PTL

(* Delay.pl counts every delivered packet once, with its own delay, whatever is
   lost and however packets overtake each other: the "s" line of a packet comes
   before its "r" line, each is the only one of the agents, and from every line
   the script goes on with the next.                                        *)
THEOREM PacketDelaysMeasured == Spec => []DelayMeasured
<1>1. LogKept => DelayMeasured
  <2> SUFFICES ASSUME LogKept, format = "wireless"
               PROVE  delay_pl(trace) = [count |-> Cardinality(Delivered),
                                         sum   |-> SumFunctionOnSet(Delay, Delivered)]
    BY DEF DelayMeasured
  <2>1. History /\ HasLog(trace, sent, got)
    BY DEF LogKept, Readable
  <2>2. /\ trace \in Traces /\ Timed(got) \subseteq Timed(sent) /\ Delivered = Timed(got)
        /\ sent \in [Packet -> Nat] /\ got \in [Packet -> Nat]
    BY <2>1, TimedIs DEF History
  <2> DEFINE D == Timed(got)
             g == [p \in D |-> Delay[p]]
  <2>3. IsFiniteSet(D) /\ D \in SUBSET Packet /\ IsFiniteSet(Packet)
    BY TimedSubset, TraceAssumption DEF Timed
  <2>4. /\ g \in [D -> Int] /\ \A p \in D : g[p] = got[p] - sent[p] /\ g[p] = Delay[p]
        /\ Delay \in [Packet -> Int]
    BY <2>2 DEF Delay, Timed
  <2> HIDE DEF D, g
  <2>5. PICK h : IsTotal(h, g, D)
    BY <2>3, <2>4, TotalExists
  <2>6. SumFunctionOnSet(Delay, D) = h[D]
    <3>1. PICK d : d = Delay
      OBVIOUS
    <3>2. PICK k : IsTotal(k, d, Packet)
      BY <2>3, <2>4, <3>1, TotalExists
    <3>3. Unfolds(h, d, D)
      BY <2>4, <2>5, <3>1, AnyOfIn DEF IsTotal, Unfolds
    <3>4. D \subseteq Packet /\ D \in SUBSET D
      BY <2>3
    <3>5. \A T \in SUBSET D : k[T] = h[T]
      BY <2>3, <3>2, <3>3, <3>4, TotalsAgree
    <3>6. SumFunctionOnSet(d, D) = k[D]
      BY <2>3, <2>4, <3>1, <3>2, SumIs
    <3> QED BY <3>1, <3>4, <3>5, <3>6
  <2>7. delay_pl(trace) = [count |-> Cardinality(D), sum |-> h[D]]
    BY <2>1, <2>2, <2>4, <2>5, DelaysLogged DEF D
  <2> QED BY <2>2, <2>6, <2>7 DEF D
<1> QED BY <1>1, LogAlways, PTL

-----------------------------------------------------------------------------
(* The awk scripts read line after line.                                    *)

AwkStates ==
    [sendTime : [Packet -> Int], recvTime : [Packet -> Int],
     startTime : Int, stopTime : Int, recvdSize : Int, recvdNum : Int]

LEMMA AwkLineIs ==
    ASSUME NEW a \in AwkStates, NEW line \in Seq(Fields)
    PROVE  LET l == Parsed(line)
               b == AwkLine(a, line)
           IN  /\ b \in AwkStates
               /\ Starts(a, l) =>
                     /\ b.sendTime = [a.sendTime EXCEPT ![l.pkt_id] = l.time]
                     /\ b.startTime = IF l.time < a.startTime THEN l.time ELSE a.startTime
                     /\ b.recvTime = a.recvTime /\ b.stopTime = a.stopTime
                     /\ b.recvdSize = a.recvdSize
               /\ ~Starts(a, l) /\ Ends(l) =>
                     /\ b.recvTime = [a.recvTime EXCEPT ![l.pkt_id] = l.time]
                     /\ b.stopTime = IF l.time > a.stopTime THEN l.time ELSE a.stopTime
                     /\ b.recvdSize = a.recvdSize + l.pkt_size
                     /\ b.sendTime = a.sendTime /\ b.startTime = a.startTime
               /\ ~Starts(a, l) /\ ~Ends(l) => b = a
<1> DEFINE l == Parsed(line)
           i == l.pkt_id
           t == l.time
           first == IF t < a.startTime THEN t ELSE a.startTime
           last == IF t > a.stopTime THEN t ELSE a.stopTime
           size == a.recvdSize + l.pkt_size
           num == a.recvdNum + 1
           s == [a EXCEPT !.sendTime[i] = t, !.startTime = first]
           e == [a EXCEPT !.recvTime[i] = t, !.stopTime = last, !.recvdSize = size,
                          !.recvdNum = num]
<1>1. AwkLine(a, line) = IF Starts(a, l) THEN s ELSE IF Ends(l) THEN e ELSE a
  BY DEF AwkLine
<1>2. \A k \in Nat \ {0} : Field(line, k).num \in Int
  <2> SUFFICES ASSUME NEW k \in Nat \ {0} PROVE Field(line, k).num \in Int
    OBVIOUS
  <2>1. CASE k <= Len(line)
    <3>1. k \in 1 .. Len(line)
      BY <2>1
    <3>2. line[k] \in Fields
      BY <3>1
    <3> QED BY <2>1, <3>2 DEF Field, Fields
  <2>2. CASE ~(k <= Len(line))
    BY <2>2 DEF Field, Word
  <2> QED BY <2>1, <2>2
<1>3. t \in Int /\ l.pkt_size \in Int
  BY <1>2 DEF Parsed
<1> HIDE DEF l, t
<1>4. first \in Int /\ last \in Int /\ size \in Int /\ num \in Int
  BY <1>3 DEF AwkStates
<1> HIDE DEF i, first, last, size, num
<1>5. /\ s \in AwkStates /\ s.sendTime = [a.sendTime EXCEPT ![i] = t]
      /\ s.recvTime = a.recvTime /\ s.startTime = first
      /\ s.stopTime = a.stopTime /\ s.recvdSize = a.recvdSize
  BY <1>3, <1>4 DEF AwkStates
<1>6. /\ e \in AwkStates /\ e.recvTime = [a.recvTime EXCEPT ![i] = t]
      /\ e.sendTime = a.sendTime /\ e.startTime = a.startTime
      /\ e.stopTime = last /\ e.recvdSize = size
  BY <1>3, <1>4 DEF AwkStates
<1> HIDE DEF s, e
<1> QED BY <1>1, <1>5, <1>6 DEF i, t, first, last, size, l

LEMMA AwkTypes ==
    /\ AwkBegin \in AwkStates
    /\ \A a \in AwkStates, l \in Seq(Fields) : AwkLine(a, l) \in AwkStates
<1>1. AwkBegin \in AwkStates
  BY DEF AwkBegin, AwkStates
<1> QED BY <1>1, AwkLineIs

IsRead(f, tr) ==
    f = [k \in 0 .. Len(tr) |-> IF k = 0 THEN AwkBegin ELSE AwkLine(f[k - 1], tr[k])]

LEMMA AwkIsRead ==
    ASSUME NEW tr \in Traces
    PROVE  \E f \in [0 .. Len(tr) -> AwkStates] : IsRead(f, tr) /\ awk(tr) = f[Len(tr)]
<1> DEFINE n == Len(tr)
           G == [k \in 1 .. n |-> [a \in AwkStates |-> AwkLine(a, tr[k])]]
           read == CHOOSE f : IsRead(f, tr)
<1>1. n \in Nat /\ \A k \in 1 .. n : tr[k] \in Seq(Fields)
  BY DEF Traces
<1>2. G \in Steps(n, AwkStates)
  BY <1>1, AwkTypes DEF Steps
<1>3. PICK g \in [0 .. n -> AwkStates] : Stepped(g, n, AwkBegin, G)
  <2> HIDE DEF G, n
  <2> QED BY <1>1, <1>2, AwkTypes, Iterates
<1>4. IsRead(g, tr)
  <2> SUFFICES ASSUME NEW k \in 0 .. n
               PROVE  g[k] = IF k = 0 THEN AwkBegin ELSE AwkLine(g[k - 1], tr[k])
    BY DEF IsRead
  <2>1. CASE k = 0
    BY <1>3, <2>1 DEF Stepped
  <2>2. CASE k # 0
    <3>1. k \in 1 .. n /\ k - 1 \in 0 .. n
      BY <1>1, <2>2
    <3>2. g[k] = G[k][g[k - 1]] /\ g[k - 1] \in AwkStates
      BY <1>3, <3>1 DEF Stepped
    <3> QED BY <2>2, <3>1, <3>2
  <2> QED BY <2>1, <2>2
<1>5. IsRead(read, tr)
  BY <1>4
<1>6. awk(tr) = read[n]
  BY DEF awk, IsRead
<1> HIDE DEF read, G
<1>7. \A k \in 0 .. n : read[k] = g[k]
  <2> DEFINE T == {k \in 0 .. n : read[k] = g[k]}
  <2>1. 0 \in T
    BY <1>1, <1>4, <1>5 DEF IsRead
  <2>2. ASSUME NEW k \in 1 .. n, k - 1 \in T PROVE k \in T
    <3>1. k \in 0 .. n /\ k # 0 /\ read[k - 1] = g[k - 1]
      BY <1>1, <2>2
    <3>2. read[k] = AwkLine(read[k - 1], tr[k]) /\ g[k] = AwkLine(g[k - 1], tr[k])
      BY <1>4, <1>5, <3>1 DEF IsRead
    <3> QED BY <3>1, <3>2
  <2> HIDE DEF T, n
  <2>3. \A k \in 0 .. n : k \in T
    BY <1>1, <2>1, <2>2, Climb
  <2> QED BY <2>3 DEF T
<1>8. n \in 0 .. n
  BY <1>1
<1> QED BY <1>3, <1>4, <1>6, <1>7, <1>8

(* From the end of tr it reads on. *)
LEMMA AwkReadsOn ==
    ASSUME NEW tr \in Traces, NEW ls \in Traces
    PROVE  \E g \in [0 .. Len(ls) -> AwkStates] :
              /\ g[0] = awk(tr) /\ g[Len(ls)] = awk(tr \o ls)
              /\ \A k \in 1 .. Len(ls) : g[k] = AwkLine(g[k - 1], ls[k])
<1> DEFINE n == Len(tr)
           m == Len(ls)
           u == tr \o ls
<1>1. /\ n \in Nat /\ m \in Nat /\ u \in Traces /\ Len(u) = n + m
      /\ \A k \in 1 .. n : u[k] = tr[k]
      /\ \A k \in 1 .. m : u[n + k] = ls[k]
  BY DEF Traces
<1> HIDE DEF n, m, u
<1>2. PICK f \in [0 .. n -> AwkStates] : IsRead(f, tr) /\ awk(tr) = f[n]
  BY AwkIsRead DEF n
<1>3. PICK h \in [0 .. n + m -> AwkStates] : IsRead(h, u) /\ awk(u) = h[n + m]
  BY <1>1, AwkIsRead
<1>4. /\ f[0] = AwkBegin /\ h[0] = AwkBegin
      /\ \A k \in 1 .. n : f[k] = AwkLine(f[k - 1], tr[k])
      /\ \A k \in 1 .. n + m : h[k] = AwkLine(h[k - 1], u[k])
  <2>1. /\ 0 \in 0 .. n /\ 0 \in 0 .. n + m
        /\ \A k \in 1 .. n : k \in 0 .. n /\ k # 0
        /\ \A k \in 1 .. n + m : k \in 0 .. n + m /\ k # 0
    BY <1>1
  <2>2. /\ f = [k \in 0 .. n |-> IF k = 0 THEN AwkBegin ELSE AwkLine(f[k - 1], tr[k])]
        /\ h = [k \in 0 .. n + m |-> IF k = 0 THEN AwkBegin ELSE AwkLine(h[k - 1], u[k])]
    BY <1>1, <1>2, <1>3 DEF IsRead, n
  <2> QED BY <2>1, <2>2
<1>5. h[n] = f[n]
  <2> DEFINE T == {k \in 0 .. n : h[k] = f[k]}
  <2>1. 0 \in T
    BY <1>1, <1>4
  <2>2. ASSUME NEW k \in 1 .. n, k - 1 \in T PROVE k \in T
    <3>1. k \in 0 .. n /\ k \in 1 .. n + m /\ h[k - 1] = f[k - 1]
      BY <1>1, <2>2
    <3> QED BY <1>1, <1>4, <3>1
  <2> HIDE DEF T
  <2>3. \A k \in 0 .. n : k \in T
    BY <1>1, <2>1, <2>2, Climb
  <2> QED BY <1>1, <2>3 DEF T
<1> DEFINE g == [k \in 0 .. m |-> h[n + k]]
<1>6. g \in [0 .. m -> AwkStates] /\ g[0] = h[n] /\ g[m] = h[n + m]
  BY <1>1
<1>7. ASSUME NEW k \in 1 .. m PROVE g[k] = AwkLine(g[k - 1], ls[k])
  <2>1. n + k \in 1 .. n + m /\ k \in 0 .. m /\ k - 1 \in 0 .. m /\ (n + k) - 1 = n + (k - 1)
    BY <1>1
  <2>2. h[n + k] = AwkLine(h[n + (k - 1)], u[n + k])
    BY <1>4, <2>1
  <2> QED BY <1>1, <2>1, <2>2
<1> HIDE DEF g
<1> QED BY <1>2, <1>3, <1>5, <1>6, <1>7 DEF m, u

LEMMA AwkOneLine ==
    ASSUME NEW tr \in Traces, NEW l \in Seq(Fields)
    PROVE  awk(tr) \in AwkStates /\ awk(tr \o <<l>>) = AwkLine(awk(tr), l)
<1> DEFINE ls == <<l>>
<1>1. ls \in Traces /\ Len(ls) = 1 /\ ls[1] = l
  <2> HIDE DEF Fields
  <2> QED BY DEF Traces
<1> HIDE DEF ls
<1>2. PICK g \in [0 .. 1 -> AwkStates] :
          /\ g[0] = awk(tr) /\ g[1] = awk(tr \o ls)
          /\ \A k \in 1 .. 1 : g[k] = AwkLine(g[k - 1], ls[k])
  BY <1>1, AwkReadsOn
<1>3. g[1] = AwkLine(g[0], l) /\ g[0] \in AwkStates
  BY <1>1, <1>2
<1> QED BY <1>2, <1>3 DEF ls

LEMMA AwkAlong ==
    ASSUME NEW tr \in Traces, NEW ls \in Traces, NEW W \in SUBSET AwkStates, awk(tr) \in W,
           \A a \in W : \A i \in 1 .. Len(ls) : AwkLine(a, ls[i]) \in W
    PROVE  awk(tr \o ls) \in W
<1> DEFINE m == Len(ls)
<1>1. PICK g \in [0 .. m -> AwkStates] :
          /\ g[0] = awk(tr) /\ g[m] = awk(tr \o ls)
          /\ \A k \in 1 .. m : g[k] = AwkLine(g[k - 1], ls[k])
  BY AwkReadsOn
<1>2. m \in Nat
  BY DEF Traces
<1> DEFINE T == {k \in 0 .. m : g[k] \in W}
<1>3. 0 \in T
  BY <1>1, <1>2
<1>4. \A k \in 1 .. m : k - 1 \in T => k \in T
  BY <1>1, <1>2
<1>5. \A k \in 0 .. m : k \in T
  <2> HIDE DEF T, m
  <2> QED BY <1>2, <1>3, <1>4, Climb
<1> QED BY <1>1, <1>2, <1>5

LEMMA AwkTwoLines ==
    ASSUME NEW tr \in Traces, NEW l \in Seq(Fields), NEW m \in Seq(Fields)
    PROVE  awk(tr \o <<l, m>>) = AwkLine(AwkLine(awk(tr), l), m)
<1>1. tr \o <<l>> \in Traces /\ tr \o <<l, m>> = (tr \o <<l>>) \o <<m>>
  BY Longer, TwoLonger
<1>2. awk((tr \o <<l>>) \o <<m>>) = AwkLine(awk(tr \o <<l>>), m)
  BY <1>1, AwkOneLine
<1>3. awk(tr \o <<l>>) = AwkLine(awk(tr), l)
  BY AwkOneLine
<1> QED BY <1>1, <1>2, <1>3

(* t is the first of the times in f, or the last one.  Without any the script's
   first time is where it starts.                                           *)
Beginning == 1000000

Earliest(f, t) ==
    /\ Timed(f) = {} => t = Beginning
    /\ Timed(f) # {} => \E p \in Timed(f) : t = f[p]
    /\ \A p \in Timed(f) : t <= f[p]

Latest(f, t) ==
    /\ Timed(f) = {} => t = 0
    /\ Timed(f) # {} => \E p \in Timed(f) : t = f[p]
    /\ \A p \in Timed(f) : t >= f[p]

LEMMA EarliestGrows ==
    ASSUME NEW f \in [Packet -> Nat], NEW p \in Packet, f[p] = 0, NEW t \in Nat \ {0},
           t <= Beginning, NEW c \in Int, Earliest(f, c)
    PROVE  Earliest([f EXCEPT ![p] = t], IF t < c THEN t ELSE c)
<1> DEFINE g == [f EXCEPT ![p] = t]
           d == IF t < c THEN t ELSE c
<1>0. Beginning \in Int
  BY DEF Beginning
<1>1. Timed(g) = Timed(f) \union {p}
  BY DEF Timed
<1>2. /\ g[p] = t /\ \A q \in Timed(f) : g[q] = f[q] /\ f[q] \in Nat
      /\ Timed(f) = {} => c = Beginning
      /\ Timed(f) # {} => \E q \in Timed(f) : c = f[q]
      /\ \A q \in Timed(f) : c <= f[q]
  BY DEF Timed, Earliest
<1>3. d \in Int /\ d <= t /\ d <= c /\ (d = t \/ (d = c /\ c < t) \/ (d = c /\ c = t))
  OBVIOUS
<1> HIDE DEF g, d
<1>4. \A q \in Timed(g) : d <= g[q]
  BY <1>1, <1>2, <1>3
<1>5. \E q \in Timed(g) : d = g[q]
  BY <1>1, <1>2, <1>3
<1>6. Earliest(g, d)
  BY <1>1, <1>4, <1>5 DEF Earliest
<1> QED BY <1>6 DEF g, d

LEMMA LatestGrows ==
    ASSUME NEW f \in [Packet -> Nat], NEW p \in Packet, NEW t \in Nat \ {0}, f[p] <= t,
           NEW c \in Int, Latest(f, c)
    PROVE  Latest([f EXCEPT ![p] = t], IF t > c THEN t ELSE c)
<1> DEFINE g == [f EXCEPT ![p] = t]
           d == IF t > c THEN t ELSE c
<1>1. Timed(g) = Timed(f) \union {p}
  BY DEF Timed
<1>2. /\ g[p] = t /\ \A q \in Timed(f) : f[q] \in Nat /\ (q # p => g[q] = f[q])
      /\ Timed(f) = {} => c = 0
      /\ Timed(f) # {} => \E q \in Timed(f) : c = f[q]
      /\ \A q \in Timed(f) : c >= f[q]
  BY DEF Timed, Latest
<1>3. d \in Int /\ d >= t /\ d >= c /\ (d = t \/ (d = c /\ c > t))
  OBVIOUS
<1> HIDE DEF g, d
<1>4. \A q \in Timed(g) : d >= g[q]
  BY <1>1, <1>2, <1>3
<1>5. \E q \in Timed(g) : d = g[q]
  BY <1>1, <1>2, <1>3
<1>6. Latest(g, d)
  BY <1>1, <1>4, <1>5 DEF Latest
<1> QED BY <1>6 DEF g, d

(* The least and the greatest of integers. *)
LEMMA MinIs ==
    ASSUME NEW S, NEW m \in S, S \subseteq Int, \A k \in S : m <= k
    PROVE  Min(S) = m
<1>1. \A j \in S : (\A k \in S : j <= k) => j = m
  OBVIOUS
<1>2. \E j \in S : \A k \in S : j <= k
  OBVIOUS
<1>3. Min(S) \in S /\ \A k \in S : Min(S) <= k
  BY <1>2 DEF Min
<1> QED BY <1>1, <1>3

LEMMA MaxIs ==
    ASSUME NEW S, NEW m \in S, S \subseteq Int, \A k \in S : m >= k
    PROVE  Max(S) = m
<1>1. \A j \in S : (\A k \in S : j >= k) => j = m
  OBVIOUS
<1>2. \E j \in S : \A k \in S : j >= k
  OBVIOUS
<1>3. Max(S) \in S /\ \A k \in S : Max(S) >= k
  BY <1>2 DEF Max
<1> QED BY <1>1, <1>3

LEMMA FirstAndLast ==
    ASSUME NEW f \in [Packet -> Nat], NEW T, T = Timed(f), T # {}, NEW c
    PROVE  /\ Earliest(f, c) => c = Min({f[p] : p \in T})
           /\ Latest(f, c) => c = Max({f[p] : p \in T})
<1> DEFINE S == {f[p] : p \in T}
<1>1. S \subseteq Int
  BY DEF Timed
<1>2. ASSUME Earliest(f, c) PROVE c = Min(S)
  <2>1. c \in S /\ \A k \in S : c <= k
    BY <1>2 DEF Earliest
  <2> HIDE DEF S
  <2> QED BY <1>1, <2>1, MinIs
<1>3. ASSUME Latest(f, c) PROVE c = Max(S)
  <2>1. c \in S /\ \A k \in S : c >= k
    BY <1>3 DEF Latest
  <2> HIDE DEF S
  <2> QED BY <1>1, <2>1, MaxIs
<1> QED BY <1>2, <1>3

LEMMA WordIs == \A w : Word(w).word = w
BY DEF Word

(* What the awk scripts take out of a line. *)
LEMMA ParsedWired ==
    ASSUME format = "wired", NEW e \in Events
    PROVE  LET l == Parsed(Line(e))
           IN  /\ l.event = e.type /\ l.level = "AGT" /\ l.time = e.time
               /\ l.pkt_id = e.id /\ l.pkt_size = e.size
<1> DEFINE w == Line(e)
<1>1. /\ Len(w) = 12 /\ w[1] = Word(e.type) /\ w[2] = Num(e.time) /\ w[6] = Num(e.size)
      /\ w[12] = Num(e.id)
  BY WiredLine
<1> HIDE DEF w
<1>2. /\ Field(w, 1) = Word(e.type) /\ Field(w, 2) = Num(e.time)
      /\ Field(w, 6) = Num(e.size) /\ Field(w, 12) = Num(e.id)
  BY <1>1 DEF Field
<1>3. Num(e.time) # Word("-t")
  BY DEF Num, Word
<1>4. Word(e.type).word = e.type /\ \A n : Num(n).num = n
  BY DEF Word, Num
<1>5. Parsed(w) = [event |-> e.type, time |-> e.time, level |-> "AGT",
                   pkt_size |-> e.size, pkt_id |-> e.id]
  BY <1>2, <1>3, <1>4 DEF Parsed
<1> QED BY <1>5 DEF w

LEMMA ParsedNew ==
    ASSUME format = "newtrace", mac = "802_11", NEW e \in Events
    PROVE  LET l == Parsed(Line(e))
           IN  /\ l.event = Op(e) /\ l.level = e.level /\ l.time = e.time
               /\ e.ptype \in {"cbr", "tcp", "ack"} => l.pkt_id = e.id /\ l.pkt_size = e.size
<1> DEFINE w == Line(e)
<1>1. /\ w \in Seq(Fields) /\ Len(w) >= 29
      /\ w[1] = Word(Op(e)) /\ w[2] = Word("-t") /\ w[3] = Num(e.time)
      /\ w[19] = Word(e.level)
      /\ e.ptype \in {"cbr", "tcp", "ack"} =>
             Len(w) >= 43 /\ w[37] = Num(e.size) /\ w[41] = Num(e.id)
  BY NewLine
<1> HIDE DEF w
<1>2. Len(w) \in Nat
  BY <1>1
<1>3. /\ Field(w, 1) = Word(Op(e)) /\ Field(w, 2) = Word("-t") /\ Field(w, 3) = Num(e.time)
      /\ Field(w, 19) = Word(e.level)
  <2>1. 1 <= Len(w) /\ 2 <= Len(w) /\ 3 <= Len(w) /\ 19 <= Len(w)
    BY <1>1, <1>2
  <2> QED BY <1>1, <2>1, FieldAt
<1>4. e.ptype \in {"cbr", "tcp", "ack"} => Field(w, 37) = Num(e.size) /\ Field(w, 41) = Num(e.id)
  <2>1. Len(w) >= 43 => 37 <= Len(w) /\ 41 <= Len(w)
    BY <1>2
  <2> QED BY <1>1, <2>1, FieldAt
<1> DEFINE l == Parsed(w)
<1>6. l = [event |-> Field(w, 1).word, time |-> Field(w, 3).num, level |-> Field(w, 19).word,
           pkt_size |-> Field(w, 37).num, pkt_id |-> Field(w, 41).num]
  BY <1>3 DEF Parsed
<1>7. /\ l.event = Field(w, 1).word /\ l.level = Field(w, 19).word /\ l.time = Field(w, 3).num
      /\ l.pkt_size = Field(w, 37).num /\ l.pkt_id = Field(w, 41).num
  BY <1>6
<1> HIDE DEF l
<1> QED BY <1>3, <1>4, <1>7, NumIs, WordIs DEF l, w

LEMMA ParsedEnergy ==
    \A n, left, t \in Int : Parsed(EnergyTrace(n, left, t)).level # "AGT"
<1> SUFFICES ASSUME NEW n \in Int, NEW left \in Int, NEW t \in Int
             PROVE  Parsed(EnergyTrace(n, left, t)).level # "AGT"
  OBVIOUS
<1> DEFINE w == EnergyTrace(n, left, t)
<1>1. Len(w) = 7 /\ w[2] = Word("-t")
  BY EnergyLine
<1> HIDE DEF w
<1>2. 2 <= Len(w) /\ ~(19 <= Len(w))
  BY <1>1
<1>3. Field(w, 2) = Word("-t")
  BY <1>1, <1>2 DEF Field
<1>4. Parsed(w).level = Field(w, 19).word
  BY <1>3 DEF Parsed
<1>5. Field(w, 19).word = ""
  BY <1>2, WordIs, Zenon DEF Field
<1>6. Parsed(w).level # "AGT"
  BY <1>4, <1>5, Zenon
<1> QED BY <1>6 DEF w

(* With the 802.11 MAC no side line of the new format is of an agent. *)
LEMMA SidesNotOfAgents ==
    ASSUME format = "newtrace", mac = "802_11", NEW l, Side(l)
    PROVE  Parsed(l).level # "AGT"
<1>1. CASE \E e \in Events : l = Line(e) /\ e.level \in Levels \ {"AGT"}
  BY <1>1, ParsedNew
<1>2. CASE \E n, left, t \in Int : l = EnergyTrace(n, left, t)
  BY <1>2, ParsedEnergy
<1> QED BY <1>1, <1>2 DEF Side

(* An agent's line starts a packet, or is another one of its way, or ends it. *)
LEMMA AwkStarts ==
    ASSUME NEW a \in AwkStates, NEW line \in Seq(Fields), NEW p \in Packet, NEW t \in Int,
           Parsed(line).level = "AGT", Parsed(line).pkt_id = p, Parsed(line).time = t,
           Parsed(line).event \in {"+", "s"}, a.sendTime[p] = 0
    PROVE  /\ AwkLine(a, line) \in AwkStates
           /\ AwkLine(a, line).sendTime = [a.sendTime EXCEPT ![p] = t]
           /\ AwkLine(a, line).recvTime = a.recvTime
           /\ AwkLine(a, line).startTime = IF t < a.startTime THEN t ELSE a.startTime
           /\ AwkLine(a, line).stopTime = a.stopTime
           /\ AwkLine(a, line).recvdSize = a.recvdSize
<1>1. Starts(a, Parsed(line))
  BY DEF Starts
<1> QED BY <1>1, AwkLineIs

LEMMA AwkGoesBy ==
    ASSUME NEW a \in AwkStates, NEW line \in Seq(Fields), NEW p,
           Parsed(line).level = "AGT", Parsed(line).pkt_id = p,
           Parsed(line).event # "r",
           Parsed(line).event \in {"+", "s"} => a.sendTime[p] # 0
    PROVE  AwkLine(a, line) = a
<1>1. ~Starts(a, Parsed(line)) /\ ~Ends(Parsed(line))
  BY DEF Starts, Ends
<1> QED BY <1>1, AwkLineIs

LEMMA AwkSkips ==
    ASSUME NEW a \in AwkStates, NEW line \in Seq(Fields), Parsed(line).level # "AGT"
    PROVE  AwkLine(a, line) = a
<1>1. ~Starts(a, Parsed(line)) /\ ~Ends(Parsed(line))
  BY DEF Starts, Ends
<1> QED BY <1>1, AwkLineIs

LEMMA AwkEnds ==
    ASSUME NEW a \in AwkStates, NEW line \in Seq(Fields), NEW p \in Packet, NEW t \in Int,
           Parsed(line).level = "AGT", Parsed(line).pkt_id = p, Parsed(line).time = t,
           Parsed(line).event = "r"
    PROVE  /\ AwkLine(a, line) \in AwkStates
           /\ AwkLine(a, line).recvTime = [a.recvTime EXCEPT ![p] = t]
           /\ AwkLine(a, line).sendTime = a.sendTime
           /\ AwkLine(a, line).startTime = a.startTime
           /\ AwkLine(a, line).stopTime = IF t > a.stopTime THEN t ELSE a.stopTime
           /\ AwkLine(a, line).recvdSize = a.recvdSize + Parsed(line).pkt_size
<1>1. ~Starts(a, Parsed(line)) /\ Ends(Parsed(line))
  BY DEF Starts, Ends
<1> QED BY <1>1, AwkLineIs

-----------------------------------------------------------------------------
(* Delay.awk, Throughput.awk and the trace of links.                        *)

(* What they have stored: when each packet was sent and last heard of, and what
   the links have carried from the first sending to the last arrival.  Their
   first sending is 1000000 until there is one: the clock must not get that far,
   and the lines bound it.                                                  *)
Bounded == MaxLines < 1000000

Linked(a) ==
    /\ a \in AwkStates
    /\ \A p \in Packet : a.sendTime[p] = sent[p] /\ a.recvTime[p] = heard[p]
    /\ a.recvdSize = SumFunctionOnSet(Carried, Packet)
    /\ Latest(heard, a.stopTime)
    /\ Bounded => Earliest(sent, a.startTime)

LinksKept == format = "wired" => History /\ Linked(awk(trace))

LEMMA AwkOfEmpty == Init => awk(trace) = AwkBegin
<1> SUFFICES ASSUME Init PROVE awk(trace) = AwkBegin
  OBVIOUS
<1>1. trace \in Traces /\ Len(trace) = 0
  BY DEF Init, Traces
<1>2. PICK f \in [0 .. 0 -> AwkStates] : IsRead(f, trace) /\ awk(trace) = f[0]
  BY <1>1, AwkIsRead
<1>3. f[0] = AwkBegin
  BY <1>1, <1>2 DEF IsRead
<1> QED BY <1>2, <1>3

LEMMA NotTooLate ==
    ASSUME History', NEW t, now' = t, Bounded
    PROVE  t <= Beginning
<1>1. t <= Len(trace') + 1 /\ Len(trace') <= MaxLines /\ Len(trace') \in Nat /\ t \in Nat
  BY DEF History, Traces
<1> QED BY <1>1, TraceAssumption DEF Bounded, Beginning

LEMMA LinkSends ==
    ASSUME format = "wired", History, History', NEW a, Linked(a), NEW p \in Packet,
           NEW t \in Times, NEW e \in Events, Sends(p, t, e), NEW b, b = AwkLine(a, Line(e))
    PROVE  Linked(b)'
<1>1. /\ e.time = t /\ OfAgent(e, "+", p) /\ now' = t /\ p \notin Sent
      /\ sent' = [sent EXCEPT ![p] = t] /\ hops' = hops /\ heard' = heard
  BY DEF Sends
<1>2. PICK l : l = Line(e)
  OBVIOUS
<1>3. /\ l \in Seq(Fields) /\ Parsed(l).event = "+" /\ Parsed(l).level = "AGT"
      /\ Parsed(l).time = t /\ Parsed(l).pkt_id = p
  BY <1>1, <1>2, LinesAreFields, ParsedWired DEF OfAgent, Readable
<1>4. /\ a \in AwkStates /\ a.startTime \in Int /\ a.sendTime \in [Packet -> Int]
      /\ \A q \in Packet : a.sendTime[q] = sent[q] /\ a.recvTime[q] = heard[q]
      /\ a.recvdSize = SumFunctionOnSet(Carried, Packet) /\ Latest(heard, a.stopTime)
      /\ Bounded => Earliest(sent, a.startTime)
  BY DEF Linked, AwkStates
<1>5. sent \in [Packet -> Nat] /\ sent[p] = 0 /\ t \in Nat \ {0}
  BY <1>1 DEF History, Sent, Times
<1>6. /\ b \in AwkStates /\ b.sendTime = [a.sendTime EXCEPT ![p] = t]
      /\ b.recvTime = a.recvTime /\ b.stopTime = a.stopTime /\ b.recvdSize = a.recvdSize
      /\ b.startTime = IF t < a.startTime THEN t ELSE a.startTime
  <2>1. Parsed(l).event \in {"+", "s"} /\ t \in Int /\ a.sendTime[p] = 0
    BY <1>3, <1>4, <1>5
  <2> QED BY <1>2, <1>3, <1>4, <2>1, AwkStarts
<1>7. \A q \in Packet : b.sendTime[q] = sent'[q] /\ b.recvTime[q] = heard'[q]
  BY <1>1, <1>4, <1>5, <1>6
<1>8. b.recvdSize = SumFunctionOnSet(Carried, Packet)'
  <2>1. Carried' = Carried
    BY <1>1 DEF Carried
  <2> QED BY <1>4, <1>6, <2>1
<1>9. Latest(heard', b.stopTime)
  BY <1>1, <1>4, <1>6
<1>10. Bounded => Earliest(sent', b.startTime)
  <2>1. PICK f, c : f = sent /\ c = a.startTime
    OBVIOUS
  <2>2. f \in [Packet -> Nat] /\ f[p] = 0 /\ c \in Int
    BY <1>4, <1>5, <2>1
  <2>3. ASSUME t <= Beginning, Earliest(f, c)
        PROVE  Earliest([f EXCEPT ![p] = t], IF t < c THEN t ELSE c)
    BY <1>5, <2>2, <2>3, EarliestGrows
  <2>4. sent' = [f EXCEPT ![p] = t] /\ b.startTime = IF t < c THEN t ELSE c
    BY <1>1, <1>6, <2>1
  <2>5. Bounded => t <= Beginning
    BY <1>1, NotTooLate
  <2>6. Bounded => Earliest(f, c)
    BY <1>4, <2>1
  <2> QED BY <2>3, <2>4, <2>5, <2>6
<1> QED BY <1>6, <1>7, <1>8, <1>9, <1>10 DEF Linked

(* A packet has come over one more link: the links carry more, by its size. *)
LEMMA LinkBrings ==
    ASSUME format = "wired", History, NEW a, Linked(a), NEW p \in Packet, NEW t \in Times,
           Arrives(p, t), sent' = sent, NEW e \in Events,
           e.type = "r", e.id = p, e.time = t, e.size = Size[p], NEW b, b = AwkLine(a, Line(e))
    PROVE  Linked(b)'
<1>1. hops' = [hops EXCEPT ![p] = @ + 1] /\ heard' = [heard EXCEPT ![p] = t]
  BY DEF Arrives
<1>2. PICK l : l = Line(e)
  OBVIOUS
<1>3. /\ l \in Seq(Fields) /\ Parsed(l).event = "r" /\ Parsed(l).level = "AGT"
      /\ Parsed(l).time = t /\ Parsed(l).pkt_id = p /\ Parsed(l).pkt_size = Size[p]
  BY <1>2, LinesAreFields, ParsedWired DEF Readable
<1>4. /\ a \in AwkStates /\ a.stopTime \in Int /\ a.recvTime \in [Packet -> Int]
      /\ \A q \in Packet : a.sendTime[q] = sent[q] /\ a.recvTime[q] = heard[q]
      /\ a.recvdSize = SumFunctionOnSet(Carried, Packet) /\ Latest(heard, a.stopTime)
      /\ Bounded => Earliest(sent, a.startTime)
  BY DEF Linked, AwkStates
<1>5. /\ heard \in [Packet -> Nat] /\ hops \in [Packet -> Nat] /\ now \in Nat
      /\ heard[p] <= now /\ t \in Nat \ {0} /\ now <= t
  BY DEF History, Times
<1>6. /\ b \in AwkStates /\ b.recvTime = [a.recvTime EXCEPT ![p] = t]
      /\ b.sendTime = a.sendTime /\ b.startTime = a.startTime
      /\ b.recvdSize = a.recvdSize + Size[p]
      /\ b.stopTime = IF t > a.stopTime THEN t ELSE a.stopTime
  <2>1. t \in Int
    BY <1>5
  <2> QED BY <1>2, <1>3, <1>4, <2>1, AwkEnds
<1>7. \A q \in Packet : b.sendTime[q] = sent'[q] /\ b.recvTime[q] = heard'[q]
  BY <1>1, <1>4, <1>5, <1>6
<1>8. b.recvdSize = SumFunctionOnSet(Carried, Packet)'
  <2>1. PICK c : c = Carried
    OBVIOUS
  <2>2. c \in [Packet -> Int] /\ Size[p] \in Int /\ IsFiniteSet(Packet)
    BY <1>5, <2>1, TraceAssumption DEF Carried
  <2>3. Carried' = [c EXCEPT ![p] = @ + Size[p]]
    <3>1. ASSUME NEW q \in Packet
          PROVE  Size[q] * hops'[q] = IF q = p THEN c[q] + Size[p] ELSE c[q]
      <4>1. hops[q] \in Int /\ Size[q] \in Int /\ c[q] = Size[q] * hops[q]
        BY <1>5, <2>1, TraceAssumption DEF Carried
      <4>2. CASE q = p
        <5>1. hops'[q] = hops[q] + 1
          BY <1>1, <1>5, <4>2
        <5>2. Size[q] * (hops[q] + 1) = Size[q] * hops[q] + Size[q]
          BY <4>1
        <5> QED BY <4>1, <4>2, <5>1, <5>2
      <4>3. CASE q # p
        BY <1>1, <1>5, <4>1, <4>3
      <4> QED BY <4>2, <4>3
    <3> QED BY <2>2, <3>1 DEF Carried
  <2>4. SumFunctionOnSet([c EXCEPT ![p] = @ + Size[p]], Packet) = SumFunctionOnSet(c, Packet) + Size[p]
    BY <2>2, SumGrows
  <2> QED BY <1>4, <1>6, <2>1, <2>3, <2>4
<1>9. Latest(heard', b.stopTime)
  <2>1. PICK f, c : f = heard /\ c = a.stopTime
    OBVIOUS
  <2>2. f \in [Packet -> Nat] /\ f[p] <= t /\ c \in Int /\ Latest(f, c)
    <3>1. f[p] \in Nat
      BY <1>5, <2>1
    <3>2. f[p] <= t
      BY <1>5, <2>1, <3>1
    <3> QED BY <1>4, <1>5, <2>1, <3>2
  <2>3. Latest([f EXCEPT ![p] = t], IF t > c THEN t ELSE c)
    BY <1>5, <2>2, LatestGrows
  <2>4. heard' = [f EXCEPT ![p] = t] /\ b.stopTime = IF t > c THEN t ELSE c
    BY <1>1, <1>6, <2>1
  <2> QED BY <2>3, <2>4
<1>10. Bounded => Earliest(sent', b.startTime)
  BY <1>4, <1>6
<1> QED BY <1>6, <1>7, <1>8, <1>9, <1>10 DEF Linked

LEMMA LinksGoOn ==
    ASSUME format = "wired", History, History', [Next]_vars, Linked(awk(trace))
    PROVE  Linked(awk(trace))'
<1>1. Readable /\ trace \in Traces /\ \A q \in flying : q \in Packet /\ sent[q] > 0
  BY DEF Readable, History, Sent
<1>2. PICK a : a = awk(trace)
  OBVIOUS
<1>3. Linked(a) /\ a \in AwkStates
  BY <1>2 DEF Linked
<1>4. CASE \E p \in Packet, t \in Times, e \in Events : Sends(p, t, e)
  <2>1. PICK p \in Packet, t \in Times, e \in Events : Sends(p, t, e)
    BY <1>4
  <2>2. PICK b : b = AwkLine(a, Line(e))
    OBVIOUS
  <2>3. awk(trace') = b
    BY <1>1, <1>2, <2>1, <2>2, LinesAreFields, AwkOneLine DEF Sends
  <2>4. Linked(b)'
    BY <1>3, <2>1, <2>2, LinkSends
  <2> QED BY <2>3, <2>4
<1>5. CASE \E p \in Packet, t \in Times, e \in Events : Delivers(p, t, e)
  <2>1. PICK p \in Packet, t \in Times, e \in Events : Delivers(p, t, e)
    BY <1>5
  <2>2. PICK b : b = AwkLine(a, Line(e))
    OBVIOUS
  <2>3. awk(trace') = b
    BY <1>1, <1>2, <2>1, <2>2, LinesAreFields, AwkOneLine DEF Delivers
  <2>4. /\ Arrives(p, t) /\ sent' = sent
        /\ e.type = "r" /\ e.id = p /\ e.time = t /\ e.size = Size[p]
    BY <2>1 DEF Delivers, OfAgent
  <2>5. Linked(b)'
    BY <1>3, <2>2, <2>4, LinkBrings
  <2> QED BY <2>3, <2>5
<1>6. CASE \E p \in Packet, t \in Times, e, f \in Events : Forwards(p, t, e, f)
  <2>1. PICK p \in Packet, t \in Times, e \in Events, f \in Events : Forwards(p, t, e, f)
    BY <1>6
  <2>2. PICK b : b = AwkLine(a, Line(e))
    OBVIOUS
  <2>3. /\ Arrives(p, t) /\ sent' = sent /\ p \in flying
        /\ e.type = "r" /\ e.id = p /\ e.time = t /\ e.size = Size[p]
        /\ f.type = "+" /\ f.id = p /\ trace' = trace \o <<Line(e), Line(f)>>
    BY <2>1 DEF Forwards
  <2>4. Linked(b)'
    BY <1>3, <2>2, <2>3, LinkBrings
  <2>5. b \in AwkStates /\ b.sendTime[p] # 0
    BY <1>1, <2>3, <2>4 DEF Linked
  <2>6. AwkLine(b, Line(f)) = b
    <3>1. PICK l : l = Line(f)
      OBVIOUS
    <3>2. /\ l \in Seq(Fields) /\ Parsed(l).event = "+" /\ Parsed(l).level = "AGT"
          /\ Parsed(l).pkt_id = p
      BY <1>1, <2>3, <3>1, LinesAreFields, ParsedWired
    <3>3. Parsed(l).event # "r"
      BY <3>2
    <3>4. AwkLine(b, l) = b
      BY <2>5, <3>2, <3>3, AwkGoesBy
    <3> QED BY <3>1, <3>4
  <2>7. awk(trace') = b
    <3>1. Line(e) \in Seq(Fields) /\ Line(f) \in Seq(Fields)
      BY <1>1, LinesAreFields
    <3>2. awk(trace \o <<Line(e), Line(f)>>) = AwkLine(AwkLine(awk(trace), Line(e)), Line(f))
      BY <1>1, <3>1, AwkTwoLines
    <3> QED BY <1>2, <2>2, <2>3, <2>6, <3>2
  <2> QED BY <2>4, <2>7
<1>7. CASE \E ls : Passes(ls)
  <2>1. PICK ls : Passes(ls)
    BY <1>7
  <2>2. /\ ls \in Traces /\ trace' = trace \o ls
        /\ sent' = sent /\ hops' = hops /\ heard' = heard
        /\ \A i \in 1 .. Len(ls) : Side(ls[i])
    BY <2>1 DEF Passes, HistoryStays
  <2>3. ASSUME NEW l, Side(l) PROVE AwkLine(a, l) = a
    <3>1. PICK e \in Events : l = Line(e) /\ e.type = "d"
      BY <2>3 DEF Side
    <3>2. l \in Seq(Fields) /\ Parsed(l).event = "d"
      BY <1>1, <3>1, LinesAreFields, ParsedWired
    <3>3. ~Starts(a, Parsed(l)) /\ ~Ends(Parsed(l))
      BY <3>2 DEF Starts, Ends
    <3> QED BY <1>3, <3>2, <3>3, AwkLineIs
  <2> DEFINE W == {a}
  <2>4. /\ W \in SUBSET AwkStates /\ a \in W
        /\ \A c \in W : \A i \in 1 .. Len(ls) : AwkLine(c, ls[i]) \in W
    BY <1>3, <2>2, <2>3
  <2>5. awk(trace \o ls) \in W
    <3> HIDE DEF W
    <3> QED BY <1>1, <1>2, <2>2, <2>4, AwkAlong
  <2>6. awk(trace') = a
    BY <2>2, <2>5
  <2>7. Carried' = Carried
    BY <2>2 DEF Carried
  <2>8. Linked(a)'
    BY <1>3, <2>2, <2>7 DEF Linked
  <2> QED BY <2>6, <2>8
<1> QED BY <1>1, <1>4, <1>5, <1>6, <1>7, StepsOf

LEMMA NothingCarried == Init => SumFunctionOnSet(Carried, Packet) = 0
<1> SUFFICES ASSUME Init PROVE SumFunctionOnSet(Carried, Packet) = 0
  OBVIOUS
<1>1. PICK c : c = Carried
  OBVIOUS
<1>2. c \in [Packet -> Int] /\ IsFiniteSet(Packet) /\ \A p \in Packet : c[p] = 0
  <2>1. \A p \in Packet : Size[p] \in Int /\ hops[p] = 0
    BY TraceAssumption DEF Init
  <2>2. \A p \in Packet : Size[p] * hops[p] = 0
    BY <2>1
  <2> QED BY <1>1, <2>2, TraceAssumption DEF Carried
<1> DEFINE h == [T \in SUBSET Packet |-> 0]
<1>3. IsTotal(h, c, Packet)
  <2>1. ASSUME NEW T \in SUBSET Packet
        PROVE  h[T] = IF T = {} THEN 0 ELSE c[AnyOf(T)] + h[T \ {AnyOf(T)}]
    <3>1. T # {} => AnyOf(T) \in Packet
      BY AnyOfIn
    <3> QED BY <1>2, <3>1
  <2>2. h \in [SUBSET Packet -> Int]
    OBVIOUS
  <2> HIDE DEF h
  <2> QED BY <2>1, <2>2 DEF IsTotal
<1>4. SumFunctionOnSet(c, Packet) = h[Packet]
  <2>1. Packet \in SUBSET Packet
    OBVIOUS
  <2> HIDE DEF h
  <2> QED BY <1>2, <1>3, <2>1, SumIs
<1> QED BY <1>1, <1>4

LEMMA LinksAlways == Spec => []LinksKept
<1>1. Init => LinksKept
  <2> SUFFICES ASSUME Init PROVE Linked(awk(trace))
    BY HistoryStarts DEF LinksKept
  <2>1. /\ AwkBegin \in AwkStates
        /\ \A p \in Packet : AwkBegin.sendTime[p] = 0 /\ AwkBegin.recvTime[p] = 0
        /\ AwkBegin.recvdSize = 0 /\ AwkBegin.startTime = 1000000 /\ AwkBegin.stopTime = 0
    BY AwkTypes DEF AwkBegin
  <2>2. /\ \A p \in Packet : sent[p] = 0 /\ heard[p] = 0
        /\ Timed(sent) = {} /\ Timed(heard) = {}
    BY DEF Init, Timed
  <2>3. Latest(heard, 0) /\ Earliest(sent, AwkBegin.startTime)
    BY <2>1, <2>2 DEF Latest, Earliest, Beginning
  <2>4. Linked(AwkBegin)
    BY <2>1, <2>2, <2>3, NothingCarried DEF Linked
  <2> QED BY <2>4, AwkOfEmpty
<1>2. LinksKept /\ [Next]_vars => LinksKept'
  <2> SUFFICES ASSUME LinksKept, [Next]_vars, format' = "wired" PROVE LinksKept'
    BY DEF LinksKept
  <2>1. format = "wired"
    BY FormatStays
  <2>2. Readable
    BY <2>1 DEF Readable
  <2>3. History /\ History' /\ Linked(awk(trace))
    BY <2>1, <2>2, HistoryGoesOn DEF LinksKept
  <2> QED BY <2>1, <2>3, LinksGoOn DEF LinksKept
<1> QED BY <1>1, <1>2, PTL DEF Spec

(* Delay.awk reads only the hops of a wired trace, and keeps for every packet the
   first enqueueing and the last arrival: for one that is delivered that is its
   delay, as no later "+" moves its start and no line of it follows.  Its
   average is over all that came over a link, delivered or not.              *)
THEOREM HopDelaysMeasured == Spec => []HopDelayMeasured
<1>1. LinksKept => HopDelayMeasured
  <2> SUFFICES ASSUME LinksKept, format = "wired"
               PROVE  /\ \A p \in Delivered :
                             awk(trace).recvTime[p] - awk(trace).sendTime[p] = Delay[p]
                      /\ delay_awk(trace) = [recvdNum |-> Cardinality(Heard),
                                             delay    |-> SumFunctionOnSet(HopDelay, Heard)]
    BY DEF HopDelayMeasured
  <2>1. PICK a : a = awk(trace)
    OBVIOUS
  <2>2. \A p \in Packet : a.sendTime[p] = sent[p] /\ a.recvTime[p] = heard[p]
    BY <2>1 DEF LinksKept, Linked
  <2>3. \A p \in Delivered : p \in Packet /\ heard[p] = got[p]
    BY DEF LinksKept, History, Delivered
  <2>4. \A p \in Delivered : a.recvTime[p] - a.sendTime[p] = Delay[p]
    BY <2>2, <2>3 DEF Delay
  <2>5. {i \in Packet : a.recvTime[i] > 0} = Heard
    BY <2>2 DEF Heard
  <2>6. [i \in Packet |-> a.recvTime[i] - a.sendTime[i]] = HopDelay
    BY <2>2 DEF HopDelay
  <2>7. delay_awk(trace) = [recvdNum |-> Cardinality(Heard),
                            delay    |-> SumFunctionOnSet(HopDelay, Heard)]
    BY <2>1, <2>5, <2>6, Zenon DEF delay_awk
  <2> QED BY <2>1, <2>4, <2>7
<1> QED BY <1>1, LinksAlways, PTL

-----------------------------------------------------------------------------
(* Throughput.awk and the new format.                                       *)

(* The send times, the bytes that were delivered, and the first and the last time. *)
Measured(a) ==
    /\ a \in AwkStates
    /\ \A p \in Packet : a.sendTime[p] = sent[p]
    /\ a.recvdSize = SumFunctionOnSet(Size, Delivered)
    /\ Latest(got, a.stopTime)
    /\ Bounded => Earliest(sent, a.startTime)

BytesKept == format = "newtrace" /\ mac = "802_11" => History /\ Measured(awk(trace))

LEMMA AgentSends ==
    ASSUME format = "newtrace", mac = "802_11", History, History', NEW a, Measured(a),
           NEW p \in Packet, NEW t \in Times, NEW e \in Events, Sends(p, t, e),
           NEW b, b = AwkLine(a, Line(e))
    PROVE  Measured(b)'
<1>1. /\ e.time = t /\ OfAgent(e, "s", p) /\ now' = t /\ p \notin Sent
      /\ sent' = [sent EXCEPT ![p] = t] /\ got' = got
  BY DEF Sends
<1>2. PICK l : l = Line(e)
  OBVIOUS
<1>3. /\ l \in Seq(Fields) /\ Parsed(l).event = "s" /\ Parsed(l).level = "AGT"
      /\ Parsed(l).time = t /\ Parsed(l).pkt_id = p
  <2>1. l \in Seq(Fields)
    BY <1>2, LinesAreFields DEF Readable
  <2> QED BY <1>1, <1>2, <2>1, ParsedNew DEF OfAgent, Op
<1>4. /\ a \in AwkStates /\ a.startTime \in Int /\ a.sendTime \in [Packet -> Int]
      /\ \A q \in Packet : a.sendTime[q] = sent[q]
      /\ a.recvdSize = SumFunctionOnSet(Size, Delivered) /\ Latest(got, a.stopTime)
      /\ Bounded => Earliest(sent, a.startTime)
  BY DEF Measured, AwkStates
<1>5. sent \in [Packet -> Nat] /\ sent[p] = 0 /\ t \in Nat \ {0}
  BY <1>1 DEF History, Sent, Times
<1>6. /\ b \in AwkStates /\ b.sendTime = [a.sendTime EXCEPT ![p] = t]
      /\ b.stopTime = a.stopTime /\ b.recvdSize = a.recvdSize
      /\ b.startTime = IF t < a.startTime THEN t ELSE a.startTime
  <2>1. Parsed(l).event \in {"+", "s"} /\ t \in Int /\ a.sendTime[p] = 0
    BY <1>3, <1>4, <1>5
  <2> QED BY <1>2, <1>3, <1>4, <2>1, AwkStarts
<1>7. \A q \in Packet : b.sendTime[q] = sent'[q]
  BY <1>1, <1>4, <1>5, <1>6
<1>8. b.recvdSize = SumFunctionOnSet(Size, Delivered)'
  <2>1. Delivered' = Delivered
    BY <1>1 DEF Delivered
  <2> QED BY <1>4, <1>6, <2>1
<1>9. Latest(got', b.stopTime)
  BY <1>1, <1>4, <1>6
<1>10. Bounded => Earliest(sent', b.startTime)
  <2>1. PICK f, c : f = sent /\ c = a.startTime
    OBVIOUS
  <2>2. f \in [Packet -> Nat] /\ f[p] = 0 /\ c \in Int
    BY <1>4, <1>5, <2>1
  <2>3. ASSUME t <= Beginning, Earliest(f, c)
        PROVE  Earliest([f EXCEPT ![p] = t], IF t < c THEN t ELSE c)
    BY <1>5, <2>2, <2>3, EarliestGrows
  <2>4. sent' = [f EXCEPT ![p] = t] /\ b.startTime = IF t < c THEN t ELSE c
    BY <1>1, <1>6, <2>1
  <2>5. Bounded => t <= Beginning
    BY <1>1, NotTooLate
  <2>6. Bounded => Earliest(f, c)
    BY <1>4, <2>1
  <2> QED BY <2>3, <2>4, <2>5, <2>6
<1> QED BY <1>6, <1>7, <1>8, <1>9, <1>10 DEF Measured

LEMMA AgentReceives ==
    ASSUME format = "newtrace", mac = "802_11", History, NEW a, Measured(a),
           NEW p \in Packet, NEW t \in Times, NEW e \in Events, Delivers(p, t, e),
           NEW b, b = AwkLine(a, Line(e))
    PROVE  Measured(b)'
<1>1. e.time = t /\ OfAgent(e, "r", p) /\ got' = [got EXCEPT ![p] = t] /\ sent' = sent
  BY DEF Delivers
<1>2. PICK l : l = Line(e)
  OBVIOUS
<1>3. /\ l \in Seq(Fields) /\ Parsed(l).event = "r" /\ Parsed(l).level = "AGT"
      /\ Parsed(l).time = t /\ Parsed(l).pkt_id = p /\ Parsed(l).pkt_size = Size[p]
  <2>1. l \in Seq(Fields)
    BY <1>2, LinesAreFields DEF Readable
  <2> QED BY <1>1, <1>2, <2>1, ParsedNew DEF OfAgent, Op
<1>4. /\ a \in AwkStates /\ a.stopTime \in Int
      /\ \A q \in Packet : a.sendTime[q] = sent[q]
      /\ a.recvdSize = SumFunctionOnSet(Size, Delivered) /\ Latest(got, a.stopTime)
      /\ Bounded => Earliest(sent, a.startTime)
  BY DEF Measured, AwkStates
<1>5. got \in [Packet -> Nat] /\ p \notin Delivered /\ got[p] = 0 /\ t \in Nat \ {0}
  BY DEF History, Times, Delivered, Delivers
<1>6. /\ b \in AwkStates /\ b.sendTime = a.sendTime /\ b.startTime = a.startTime
      /\ b.recvdSize = a.recvdSize + Size[p]
      /\ b.stopTime = IF t > a.stopTime THEN t ELSE a.stopTime
  <2>1. t \in Int
    BY <1>5
  <2>2. /\ AwkLine(a, l) \in AwkStates
        /\ AwkLine(a, l).recvTime = [a.recvTime EXCEPT ![p] = t]
        /\ AwkLine(a, l).sendTime = a.sendTime
        /\ AwkLine(a, l).startTime = a.startTime
        /\ AwkLine(a, l).stopTime = IF t > a.stopTime THEN t ELSE a.stopTime
        /\ AwkLine(a, l).recvdSize = a.recvdSize + Parsed(l).pkt_size
    BY <1>3, <1>4, <2>1, AwkEnds
  <2> QED BY <1>2, <1>3, <2>2
<1>7. b.recvdSize = SumFunctionOnSet(Size, Delivered)'
  <2>1. PICK D : D = Delivered
    OBVIOUS
  <2>2. D \in SUBSET Packet /\ p \in Packet \ D /\ Delivered' = D \union {p}
    BY <1>1, <1>5, <2>1 DEF Delivered
  <2>3. IsFiniteSet(Packet) /\ Size \in [Packet -> Int]
    BY TraceAssumption
  <2>4. SumFunctionOnSet(Size, D \union {p}) = SumFunctionOnSet(Size, D) + Size[p]
    BY <2>2, <2>3, SumGrows
  <2> QED BY <1>4, <1>6, <2>1, <2>2, <2>4
<1>8. Latest(got', b.stopTime)
  <2>1. PICK f, c : f = got /\ c = a.stopTime
    OBVIOUS
  <2>2. f \in [Packet -> Nat] /\ f[p] <= t /\ c \in Int /\ Latest(f, c)
    BY <1>4, <1>5, <2>1
  <2>3. Latest([f EXCEPT ![p] = t], IF t > c THEN t ELSE c)
    BY <1>5, <2>2, LatestGrows
  <2>4. got' = [f EXCEPT ![p] = t] /\ b.stopTime = IF t > c THEN t ELSE c
    BY <1>1, <1>6, <2>1
  <2> QED BY <2>3, <2>4
<1>9. Bounded => Earliest(sent', b.startTime)
  BY <1>1, <1>4, <1>6
<1> QED BY <1>1, <1>4, <1>6, <1>7, <1>8, <1>9 DEF Measured

LEMMA BytesGoOn ==
    ASSUME format = "newtrace", mac = "802_11", History, History', [Next]_vars,
           Measured(awk(trace))
    PROVE  Measured(awk(trace))'
<1>1. Readable /\ trace \in Traces
  BY DEF Readable, History
<1>2. PICK a : a = awk(trace)
  OBVIOUS
<1>3. Measured(a) /\ a \in AwkStates
  BY <1>2 DEF Measured
<1>4. CASE \E p \in Packet, t \in Times, e \in Events : Sends(p, t, e)
  <2>1. PICK p \in Packet, t \in Times, e \in Events : Sends(p, t, e)
    BY <1>4
  <2>2. PICK b : b = AwkLine(a, Line(e))
    OBVIOUS
  <2>3. awk(trace') = b
    BY <1>1, <1>2, <2>1, <2>2, LinesAreFields, AwkOneLine DEF Sends
  <2>4. Measured(b)'
    BY <1>3, <2>1, <2>2, AgentSends
  <2> QED BY <2>3, <2>4
<1>5. CASE \E p \in Packet, t \in Times, e \in Events : Delivers(p, t, e)
  <2>1. PICK p \in Packet, t \in Times, e \in Events : Delivers(p, t, e)
    BY <1>5
  <2>2. PICK b : b = AwkLine(a, Line(e))
    OBVIOUS
  <2>3. awk(trace') = b
    BY <1>1, <1>2, <2>1, <2>2, LinesAreFields, AwkOneLine DEF Delivers
  <2>4. Measured(b)'
    BY <1>3, <2>1, <2>2, AgentReceives
  <2> QED BY <2>3, <2>4
<1>6. CASE \E ls : Passes(ls)
  <2>1. PICK ls : Passes(ls)
    BY <1>6
  <2>2. /\ ls \in Traces /\ trace' = trace \o ls /\ sent' = sent /\ got' = got
        /\ \A i \in 1 .. Len(ls) : Side(ls[i])
    BY <2>1 DEF Passes, HistoryStays
  <2>3. \A l : Side(l) => AwkLine(a, l) = a
    BY <1>1, <1>3, SidesNotOfAgents, LinesAreFields, AwkSkips
  <2> DEFINE W == {a}
  <2>4. /\ W \in SUBSET AwkStates /\ a \in W
        /\ \A c \in W : \A i \in 1 .. Len(ls) : AwkLine(c, ls[i]) \in W
    BY <1>3, <2>2, <2>3
  <2>5. awk(trace \o ls) \in W
    <3> HIDE DEF W
    <3> QED BY <1>1, <1>2, <2>2, <2>4, AwkAlong
  <2>6. awk(trace') = a
    BY <2>2, <2>5
  <2>7. Delivered' = Delivered
    BY <2>2 DEF Delivered
  <2>8. Measured(a)'
    BY <1>3, <2>2, <2>7 DEF Measured
  <2> QED BY <2>6, <2>8
<1>7. ~\E p \in Packet, t \in Times, e, f \in Events : Forwards(p, t, e, f)
  BY DEF Forwards
<1> QED BY <1>1, <1>4, <1>5, <1>6, <1>7, StepsOf

LEMMA BytesAlways == Spec => []BytesKept
<1>1. Init => BytesKept
  <2> SUFFICES ASSUME Init PROVE Measured(awk(trace))
    BY HistoryStarts DEF BytesKept
  <2>1. /\ AwkBegin \in AwkStates /\ \A p \in Packet : AwkBegin.sendTime[p] = 0
        /\ AwkBegin.recvdSize = 0 /\ AwkBegin.startTime = 1000000 /\ AwkBegin.stopTime = 0
    BY AwkTypes DEF AwkBegin
  <2>2. /\ Delivered = {} /\ \A p \in Packet : sent[p] = 0
        /\ Timed(sent) = {} /\ Timed(got) = {}
    BY DEF Init, Delivered, Timed
  <2>3. SumFunctionOnSet(Size, {}) = 0
    <3>1. IsFiniteSet(Packet) /\ Size \in [Packet -> Int]
      BY TraceAssumption
    <3> QED BY <3>1, SumGrows
  <2>4. Latest(got, 0) /\ Earliest(sent, AwkBegin.startTime)
    BY <2>1, <2>2 DEF Latest, Earliest, Beginning
  <2>5. Measured(AwkBegin)
    BY <2>1, <2>2, <2>3, <2>4 DEF Measured
  <2> QED BY <2>5, AwkOfEmpty
<1>2. BytesKept /\ [Next]_vars => BytesKept'
  <2> SUFFICES ASSUME BytesKept, [Next]_vars, format' = "newtrace", mac' = "802_11"
               PROVE  BytesKept'
    BY DEF BytesKept
  <2>1. format = "newtrace" /\ mac = "802_11"
    BY FormatStays
  <2>2. Readable
    BY <2>1 DEF Readable
  <2>3. History /\ History' /\ Measured(awk(trace))
    BY <2>1, <2>2, HistoryGoesOn DEF BytesKept
  <2> QED BY <2>1, <2>3, BytesGoOn DEF BytesKept
<1> QED BY <1>1, <1>2, PTL DEF Spec

(* Throughput.awk sums, in the new format with the 802.11 MAC, the bytes of the
   packets that agents received, from the first send to the last delivery; in
   the trace of a link the bytes of every packet once for each link it has come
   over, up to the last arrival at any hop.  Of the traces of cmu-trace.cc in
   the old format, whose fields are others, it says nothing.  The script starts
   with a first send at 1000000: the clock must not get that far, and the lines
   bound it.                                                                *)
THEOREM BytesMeasured == Spec => [](MaxLines < 1000000 => ThroughputMeasured)
<1>1. BytesKept /\ LinksKept /\ Bounded => ThroughputMeasured
  <2> SUFFICES ASSUME BytesKept, LinksKept, Bounded PROVE ThroughputMeasured
    OBVIOUS
  <2>1. PICK a : a = awk(trace)
    OBVIOUS
  <2>2. /\ Sent = Timed(sent) /\ Delivered = Timed(got) /\ Heard = Timed(heard)
    BY TimedIs DEF Heard, Timed
  <2>3. ASSUME format = "newtrace", mac = "802_11"
        PROVE  /\ a.recvdSize = SumFunctionOnSet(Size, Delivered)
               /\ Sent # {} => a.startTime = Min({sent[p] : p \in Sent})
               /\ Delivered # {} => a.stopTime = Max({got[p] : p \in Delivered})
    <3>1. /\ a.recvdSize = SumFunctionOnSet(Size, Delivered)
          /\ Latest(got, a.stopTime) /\ Earliest(sent, a.startTime)
      BY <2>1, <2>3 DEF BytesKept, Measured
    <3>2. sent \in [Packet -> Nat] /\ got \in [Packet -> Nat]
      BY <2>3 DEF BytesKept, History
    <3> QED BY <2>2, <3>1, <3>2, FirstAndLast
  <2>4. ASSUME format = "wired"
        PROVE  /\ a.recvdSize = SumFunctionOnSet(Carried, Packet)
               /\ Sent # {} => a.startTime = Min({sent[p] : p \in Sent})
               /\ Heard # {} => a.stopTime = Max({heard[p] : p \in Heard})
    <3>1. /\ a.recvdSize = SumFunctionOnSet(Carried, Packet)
          /\ Latest(heard, a.stopTime) /\ Earliest(sent, a.startTime)
      BY <2>1, <2>4 DEF LinksKept, Linked
    <3>2. sent \in [Packet -> Nat] /\ heard \in [Packet -> Nat]
      BY <2>4 DEF LinksKept, History
    <3> QED BY <2>2, <3>1, <3>2, FirstAndLast
  <2> QED BY <2>1, <2>3, <2>4 DEF ThroughputMeasured
<1>2. MaxLines < 1000000 => Bounded
  BY DEF Bounded
<1> QED BY <1>1, <1>2, BytesAlways, LinksAlways, PTL

=============================================================================
