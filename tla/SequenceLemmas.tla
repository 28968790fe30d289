--------------------------- MODULE SequenceLemmas ---------------------------
(***************************************************************************)
(* Lemmas that the proofs about several components need: induction on a    *)
(* bounded set of numbers, functions defined by recursion, and waiting     *)
(* lines, which are a sequence s of served packets followed by a sequence  *)
(* t of waiting ones.                                                      *)
(*                                                                         *)
(* The induction is Climb, which rests on the pigeonhole principle: a set  *)
(* closed under successors that is not all of 0 .. n could be moved into   *)
(* itself without its 0.                                                   *)
(***************************************************************************)
EXTENDS Integers, Sequences, FiniteSets, SequenceTheorems, FiniteSetTheorems, TLAPS

(* What holds of 0 and is handed on from each number to the next holds up to n. *)
LEMMA Climb ==
    ASSUME NEW n \in Nat, NEW T, 0 \in T, \A k \in 1 .. n : k - 1 \in T => k \in T
    PROVE  \A k \in 0 .. n : k \in T
<1> DEFINE U == {k \in 0 .. n : \A j \in 0 .. k : j \in T}
           next == [k \in U |-> k + 1]
<1>1. SUFFICES ASSUME n \notin U PROVE FALSE
  OBVIOUS
<1>2. 0 \in U
  OBVIOUS
<1>3. \A k \in U : k + 1 \in U \ {0}
  <2> SUFFICES ASSUME NEW k \in U PROVE k + 1 \in U
    OBVIOUS
  <2>1. k + 1 \in 1 .. n
    BY <1>1
  <2>2. k + 1 \in T
    <3>1. k + 1 - 1 = k /\ k \in T
      OBVIOUS
    <3> QED BY <2>1, <3>1
  <2> QED BY <2>1, <2>2
<1>4. next \in [U -> U \ {0}]
  BY <1>3
<1>5. IsFiniteSet(U)
  <2>1. IsFiniteSet(0 .. n) /\ U \subseteq 0 .. n
    BY FS_Interval
  <2> QED BY <2>1, FS_Subset
<1>6. /\ IsFiniteSet(U \ {0})
      /\ Cardinality(U \ {0}) = Cardinality(U) - 1
      /\ Cardinality(U) \in Nat
  BY <1>2, <1>5, FS_RemoveElement, FS_CardinalityType
<1>7. PICK i \in U, j \in U : i # j /\ next[i] = next[j]
  <2>1. Cardinality(U \ {0}) < Cardinality(U)
    BY <1>6
  <2> HIDE DEF U, next
  <2> QED BY <1>4, <1>5, <1>6, <2>1, FS_PigeonHole
<1> QED BY <1>7

(* n steps on the values V, which may differ. *)
Steps(n, V) == [1 .. n -> [V -> V]]

(* f has the results of the steps one after the other, from z on. *)
Stepped(f, n, z, G) == f[0] = z /\ \A k \in 1 .. n : f[k] = G[k][f[k - 1]]

(* A value can be stepped n times: what a recursive definition on 0 .. n asks
   for exists.                                                              *)
LEMMA Iterates ==
    ASSUME NEW n \in Nat, NEW V, NEW z \in V, NEW G \in Steps(n, V)
    PROVE  \E f \in [0 .. n -> V] : Stepped(f, n, z, G)
<1> USE DEF Steps, Stepped
<1> DEFINE Upto(m) == {f \in [0 .. m -> V] :
                          f[0] = z /\ \A k \in 1 .. m : f[k] = G[k][f[k - 1]]}
           T == {m \in 0 .. n : Upto(m) # {}}
<1>1. 0 \in T
  <2>1. [k \in 0 .. 0 |-> z] \in Upto(0)
    OBVIOUS
  <2> QED BY <2>1
<1>2. \A m \in 1 .. n : m - 1 \in T => m \in T
  <2> SUFFICES ASSUME NEW m \in 1 .. n, m - 1 \in T PROVE m \in T
    OBVIOUS
  <2>1. PICK g \in [0 .. m - 1 -> V] :
          g[0] = z /\ \A k \in 1 .. m - 1 : g[k] = G[k][g[k - 1]]
    OBVIOUS
  <2> DEFINE last == G[m][g[m - 1]]
             f == [k \in 0 .. m |-> IF k = m THEN last ELSE g[k]]
  <2>2. last \in V
    <3>1. m - 1 \in 0 .. m - 1
      OBVIOUS
    <3> QED BY <3>1
  <2>3. f \in [0 .. m -> V] /\ f[0] = z
    BY <2>1, <2>2
  <2>4. ASSUME NEW k \in 1 .. m PROVE f[k] = G[k][f[k - 1]]
    <3>1. k - 1 \in 0 .. m - 1 /\ f[k - 1] = g[k - 1]
      OBVIOUS
    <3>2. CASE k = m
      BY <3>1, <3>2
    <3>3. CASE k # m
      <4>1. k \in 1 .. m - 1 /\ f[k] = g[k]
        BY <3>3
      <4> QED BY <2>1, <3>1, <4>1
    <3> QED BY <3>2, <3>3
  <2> HIDE DEF f
  <2>5. f \in Upto(m)
    BY <2>3, <2>4
  <2>6. m \in 0 .. n
    OBVIOUS
  <2> HIDE DEF Upto
  <2> QED BY <2>5, <2>6
<1>3. n \in T
  <2> HIDE DEF T
  <2>1. \A m \in 0 .. n : m \in T
    BY <1>1, <1>2, Climb
  <2> QED BY <2>1
<1> QED BY <1>3

-----------------------------------------------------------------------------
(* Lines.                                                                   *)

(* Serving the head of the queue leaves the line as it is. *)
LEMMA ServeKeepsLine ==
    ASSUME NEW S, NEW s \in Seq(S), NEW t \in Seq(S), t # <<>>
    PROVE  /\ Head(t) \in S /\ Tail(t) \in Seq(S)
           /\ Append(s, Head(t)) \in Seq(S) /\ Append(s, Head(t)) # <<>>
           /\ Append(s, Head(t)) \o Tail(t) = s \o t
<1>1. Head(t) \in S /\ Tail(t) \in Seq(S) /\ Head(t) = t[1]
  BY HeadTailProperties
<1>2. t = <<Head(t)>> \o Tail(t)
  BY <1>1, HeadTailProperties, SeqEqual, ConcatProperties
<1>3. Append(s, Head(t)) = s \o <<Head(t)>> /\ <<Head(t)>> \in Seq(S)
  BY <1>1, AppendIsConcat
<1>4. (s \o <<Head(t)>>) \o Tail(t) = s \o (<<Head(t)>> \o Tail(t))
  BY <1>1, <1>3, ConcatAssociative
<1>5. Append(s, Head(t)) \in Seq(S) /\ Append(s, Head(t)) # <<>>
  BY <1>1, AppendProperties
<1> QED BY <1>1, <1>2, <1>3, <1>4, <1>5

(* A packet that joins the queue joins the line. *)
LEMMA JoinsLine ==
    ASSUME NEW S, NEW s \in Seq(S), NEW t \in Seq(S), NEW x \in S
    PROVE  /\ Append(t, x) \in Seq(S) /\ Append(t, x) # <<>>
           /\ s \o Append(t, x) = Append(s \o t, x)
<1>1. Append(t, x) = t \o <<x>> /\ <<x>> \in Seq(S)
  BY AppendIsConcat
<1>2. s \o t \in Seq(S)
  BY ConcatProperties
<1>3. Append(s \o t, x) = (s \o t) \o <<x>>
  BY <1>2, AppendIsConcat
<1>4. (s \o t) \o <<x>> = s \o (t \o <<x>>)
  BY <1>1, ConcatAssociative
<1> QED BY <1>1, <1>3, <1>4, AppendProperties

(* The first of the line leaves it. *)
LEMMA LeavesLine ==
    ASSUME NEW S, NEW s \in Seq(S), NEW t \in Seq(S), s # <<>>
    PROVE  /\ Head(s) \in S /\ Tail(s) \in Seq(S)
           /\ s \o t # <<>> /\ Head(s \o t) = Head(s)
           /\ Tail(s) \o t = Tail(s \o t)
<1>1. Head(s) \in S /\ Tail(s) \in Seq(S) /\ Head(s) = s[1] /\ Len(s) \in Nat /\ Len(s) > 0
  BY HeadTailProperties, EmptySeq
<1>2. s \o t \in Seq(S) /\ Len(s \o t) = Len(s) + Len(t) /\ (s \o t)[1] = s[1]
  BY <1>1, ConcatProperties
<1>3. s \o t # <<>> /\ Head(s \o t) = (s \o t)[1]
  BY <1>1, <1>2, EmptySeq
<1>4. /\ Tail(s \o t) \in Seq(S)
      /\ Len(Tail(s \o t)) = Len(s) + Len(t) - 1
      /\ \A i \in 1 .. Len(Tail(s \o t)) : Tail(s \o t)[i] = (s \o t)[i + 1]
  BY <1>2, <1>3, HeadTailProperties
<1>5. /\ Len(Tail(s)) = Len(s) - 1
      /\ \A i \in 1 .. Len(Tail(s)) : Tail(s)[i] = s[i + 1]
  BY <1>1, HeadTailProperties
<1>6. /\ Tail(s) \o t \in Seq(S)
      /\ Len(Tail(s) \o t) = Len(Tail(s)) + Len(t)
      /\ \A i \in 1 .. Len(Tail(s)) + Len(t) :
            (Tail(s) \o t)[i] = IF i <= Len(Tail(s)) THEN Tail(s)[i] ELSE t[i - Len(Tail(s))]
  BY <1>1, ConcatProperties
<1>7. \A i \in 1 .. Len(s) + Len(t) : (s \o t)[i] = IF i <= Len(s) THEN s[i] ELSE t[i - Len(s)]
  BY ConcatProperties
<1>8. Len(t) \in Nat
  OBVIOUS
<1>9. \A i \in 1 .. Len(Tail(s) \o t) : (Tail(s) \o t)[i] = Tail(s \o t)[i]
  BY <1>1, <1>4, <1>5, <1>6, <1>7, <1>8
<1>10. Tail(s) \o t = Tail(s \o t)
  BY <1>4, <1>5, <1>6, <1>8, <1>9, <1>1, SeqEqual
<1> QED BY <1>1, <1>2, <1>3, <1>10

=============================================================================
