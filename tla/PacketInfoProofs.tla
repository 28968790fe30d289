-------------------------- MODULE PacketInfoProofs --------------------------
(***************************************************************************)
(* Theorems about PacketInfo, for all numbers of built-in types, names and *)
(* classifiers.                                                            *)
(***************************************************************************)
EXTENDS PacketInfo, SequenceLemmas

(* packet.cc's copy counts what was registered. *)
Counted ==
    /\ PT_NTYPE \in [File -> Int] /\ initCopy \in File /\ given \in Seq(Name)
    /\ PT_NTYPE[Lib] = Builtin + Len(given)

(* The table: the built-in types, then the names in the order in which they
   were registered, then "undefined".                                       *)
Table ==
    /\ nPkt_ = Builtin + Len(given) + 1
    /\ name_ \in [0 .. Builtin + Len(given) -> Name \union Int]
    /\ name_[Builtin + Len(given)] = Undefined
    /\ \A t \in 0 .. Builtin - 1 : name_[t] = t
    /\ \A i \in 1 .. Len(given) : name_[Builtin + i - 1] = given[i]

TableOK == Counted /\ (initCopy = Lib => Table)

(* Place r[c] in the chain: the one that is asked last has place 1, and every
   other is followed by the one a place below.                              *)
Chain(r) ==
    /\ \A c, d \in registered : r[c] = r[d] => c = d
    /\ \A c \in registered :
          IF r[c] = 1 THEN next_[c] = Null
          ELSE next_[c] \in registered /\ r[next_[c]] = r[c] - 1
    /\ IF registered = {} THEN pc_ = Null
       ELSE pc_ \in registered /\ r[pc_] = Cardinality(registered)

(* All that were added are in one chain, which begins with pc_. *)
Chained == \E r \in [registered -> 1 .. Cardinality(registered)] : Chain(r)

IInv ==
    /\ TableOK
    /\ registered \subseteq Classifier /\ pc_ \in Classifier \union {Null}
    /\ next_ \in [Classifier -> Classifier \union {Null}]
    /\ Chained

-----------------------------------------------------------------------------
(* The table of names.                                                      *)

LEMMA Numbers ==
    /\ Builtin \in Nat /\ Builtin > 0 /\ PT_SMAC \in Nat /\ PT_SMAC < Builtin
    /\ MaxTypes \in Nat /\ Lib \in File
    /\ Undefined \in Int /\ Garbage \in Int /\ Undefined < 0 /\ Garbage < 0
BY TypesAssumption DEF Undefined, Garbage

(* What getType returns: the least of the entries with the name. *)
LEMMA getTypeLeast ==
    ASSUME NEW nm, NEW f, NEW t \in 0 .. nPkt_ - 1, nPkt_ \in Nat, name_[t] = nm,
           \A i \in 0 .. t - 1 : name_[i] # nm
    PROVE  getType(nm, f) = t
<1> DEFINE found == {i \in 0 .. nPkt_ - 1 : name_[i] = nm}
<1>1. t \in found
  OBVIOUS
<1>2. \A i \in found : t <= i
  OBVIOUS
<1>3. \A i \in found : (\A j \in found : i <= j) => i = t
  BY <1>1, <1>2
<1>4. getType(nm, f) = IF found = {} THEN PT_NTYPE[f]
                       ELSE CHOOSE i \in found : \A j \in found : i <= j
  BY DEF getType
<1> HIDE DEF found
<1> QED BY <1>1, <1>2, <1>3, <1>4

LEMMA getTypeNone ==
    ASSUME NEW nm, NEW f, \A i \in 0 .. nPkt_ - 1 : name_[i] # nm
    PROVE  getType(nm, f) = PT_NTYPE[f]
<1>1. {i \in 0 .. nPkt_ - 1 : name_[i] = nm} = {}
  OBVIOUS
<1> QED BY <1>1 DEF getType

(* The entries of the table by their kind. *)
LEMMA Entries ==
    ASSUME Counted, Table
    PROVE  /\ Len(given) \in Nat /\ nPkt_ \in Nat
           /\ nPkt_ - 1 = Builtin + Len(given)
           /\ \A t \in 0 .. Builtin - 1 : name_[t] = t
           /\ \A i \in 1 .. Len(given) :
                 name_[Builtin + i - 1] = given[i] /\ given[i] \in Name
           /\ \A t \in 0 .. nPkt_ - 1 :
                 \/ t \in 0 .. Builtin - 1
                 \/ \E i \in 1 .. Len(given) : t = Builtin + i - 1
                 \/ t = Builtin + Len(given) /\ name_[t] = Undefined
<1>1. Len(given) \in Nat /\ \A i \in 1 .. Len(given) : given[i] \in Name
  BY DEF Counted
<1>2. Builtin \in Nat /\ Builtin > 0
  BY Numbers
<1>3. nPkt_ = Builtin + Len(given) + 1
  BY DEF Table
<1>4. ASSUME NEW t \in 0 .. nPkt_ - 1
      PROVE  \/ t \in 0 .. Builtin - 1
             \/ \E i \in 1 .. Len(given) : t = Builtin + i - 1
             \/ t = Builtin + Len(given) /\ name_[t] = Undefined
  <2>1. CASE t < Builtin
    BY <1>2, <2>1
  <2>2. CASE t >= Builtin /\ t < Builtin + Len(given)
    <3>1. t - Builtin + 1 \in 1 .. Len(given) /\ t = Builtin + (t - Builtin + 1) - 1
      BY <1>1, <1>2, <2>2
    <3> QED BY <3>1
  <2>3. CASE t = Builtin + Len(given)
    BY <2>3 DEF Table
  <2> QED BY <1>1, <1>2, <1>3, <2>1, <2>2, <2>3
<1> QED BY <1>1, <1>2, <1>3, <1>4 DEF Table

LEMMA addPacketTable ==
    ASSUME TableOK, NEW nm \in Name, addPacket(nm)
    PROVE  TableOK'
<1> DEFINE n == Builtin + Len(given)
<1>1. /\ Counted /\ Len(given) \in Nat /\ Lib \in File
      /\ Builtin \in Nat /\ 0 < Builtin /\ PT_SMAC \in Nat /\ PT_SMAC < Builtin
  BY Numbers DEF TableOK, Counted
<1>2. /\ given' \in Seq(Name) /\ Len(given') = Len(given) + 1
      /\ given'[Len(given) + 1] = nm
      /\ \A i \in 1 .. Len(given) : given'[i] = given[i]
  BY <1>1 DEF Counted, addPacket
<1>3. PT_NTYPE' = [PT_NTYPE EXCEPT ![Lib] = @ + 1] /\ initCopy' = initCopy
  BY DEF addPacket
<1>4. /\ PT_NTYPE' \in [File -> Int] /\ PT_NTYPE[Lib] = n /\ n \in Nat
      /\ PT_NTYPE'[Lib] = n + 1
  BY <1>1, <1>3 DEF Counted
<1>5. Counted'
  <2>1. initCopy' \in File
    BY <1>1, <1>3 DEF Counted
  <2>2. PT_NTYPE'[Lib] = Builtin + Len(given')
    <3>1. Builtin + (Len(given) + 1) = (Builtin + Len(given)) + 1
      BY <1>1
    <3> QED BY <1>2, <1>4, <3>1
  <2> HIDE DEF n
  <2> QED BY <1>2, <1>4, <2>1, <2>2 DEF Counted
<1>6. ASSUME initCopy = Lib PROVE Table'
  <2>1. Table
    BY <1>3, <1>6 DEF TableOK
  <2>2. nPkt_ = n + 1
    BY <2>1 DEF Table
  <2> DEFINE old == named(n + 1)
  <2>3. /\ nPkt_' = IF nPkt_ < PT_NTYPE'[initCopy] + 1 THEN PT_NTYPE'[initCopy] + 1 ELSE nPkt_
        /\ name_' = [i \in 0 .. nPkt_' - 1 |->
                        IF i = PT_NTYPE[Lib] THEN nm
                        ELSE IF nPkt_ < PT_NTYPE'[initCopy] + 1
                             THEN named(PT_NTYPE'[initCopy])[i] ELSE name_[i]]
    BY DEF addPacket
  <2>4. nPkt_ < n + 2 /\ PT_NTYPE'[initCopy] = n + 1 /\ (n + 2) - 1 = n + 1 /\ (n + 1) + 1 = n + 2
    BY <1>4, <1>6, <2>2
  <2>5. nPkt_' = n + 2
    BY <2>3, <2>4
  <2>6. name_' = [i \in 0 .. n + 1 |-> IF i = n THEN nm ELSE old[i]]
    <3> HIDE DEF n, old
    <3> QED BY <1>4, <2>3, <2>4, <2>5 DEF old
  <2>7. /\ \A t \in 0 .. Builtin - 1 : name_[t] = t
        /\ \A i \in 1 .. Len(given) : name_[Builtin + i - 1] = given[i]
        /\ \A i \in 1 .. Len(given) : given[i] \in Name
    BY <2>1, Entries, <1>1
  <2> HIDE DEF old
  <2>8. \A t \in 0 .. n + 1 :
           old[t] = IF t = n + 1 THEN Undefined
                    ELSE IF t < Builtin THEN t
                    ELSE IF t > PT_SMAC /\ t < nPkt_ THEN name_[t] ELSE Garbage
    BY DEF old, named
  <2>9. \A t \in 0 .. n + 1 : name_'[t] = IF t = n THEN nm ELSE old[t]
    BY <2>6
  <2>10. ASSUME NEW t \in 0 .. Builtin - 1 PROVE name_'[t] = t
    <3>1. t \in 0 .. n + 1 /\ t # n /\ t # n + 1 /\ t < Builtin
      BY <1>1
    <3> QED BY <2>8, <2>9, <3>1
  <2>11. ASSUME NEW i \in 1 .. Len(given) PROVE name_'[Builtin + i - 1] = given'[i]
    <3>1. /\ Builtin + i - 1 \in 0 .. n + 1 /\ Builtin + i - 1 # n /\ Builtin + i - 1 # n + 1
          /\ ~(Builtin + i - 1 < Builtin)
          /\ Builtin + i - 1 > PT_SMAC /\ Builtin + i - 1 < nPkt_
      BY <1>1, <2>2
    <3>2. name_'[Builtin + i - 1] = name_[Builtin + i - 1]
      BY <2>8, <2>9, <3>1
    <3> QED BY <1>2, <2>7, <3>2
  <2>12. name_'[n] = nm /\ name_'[n + 1] = Undefined
    <3>1. n \in 0 .. n + 1 /\ n + 1 \in 0 .. n + 1 /\ n + 1 # n
      BY <1>4
    <3> QED BY <2>8, <2>9, <3>1
  <2>13. \A i \in 1 .. Len(given) + 1 : name_'[Builtin + i - 1] = given'[i]
    <3> SUFFICES ASSUME NEW i \in 1 .. Len(given) + 1
                 PROVE  name_'[Builtin + i - 1] = given'[i]
      OBVIOUS
    <3>1. CASE i = Len(given) + 1
      <4>1. Builtin + i - 1 = n
        BY <1>1, <3>1
      <4> QED BY <1>2, <2>12, <3>1, <4>1
    <3>2. CASE i # Len(given) + 1
      <4>1. i \in 1 .. Len(given)
        BY <1>1, <3>2
      <4> QED BY <2>11, <4>1
    <3> QED BY <3>1, <3>2
  <2>14. name_' \in [0 .. n + 1 -> Name \union Int]
    <3>1. ASSUME NEW t \in 0 .. n + 1 PROVE name_'[t] \in Name \union Int
      <4>1. CASE t < Builtin
        <5>1. t \in 0 .. Builtin - 1 /\ t \in Int
          BY <1>1, <4>1
        <5> QED BY <2>10, <5>1
      <4>2. CASE t >= Builtin /\ t < n
        <5>1. t - Builtin + 1 \in 1 .. Len(given) /\ Builtin + (t - Builtin + 1) - 1 = t
          BY <1>1, <4>2
        <5> QED BY <1>2, <2>7, <2>11, <5>1
      <4>3. CASE t = n \/ t = n + 1
        BY <2>12, <4>3, Numbers
      <4>4. t < Builtin \/ (t >= Builtin /\ t < n) \/ t = n \/ t = n + 1
        BY <1>1, <1>4
      <4> QED BY <4>1, <4>2, <4>3, <4>4
    <3> QED BY <2>6, <3>1
  <2>15. Builtin + Len(given') = n + 1 /\ nPkt_' = Builtin + Len(given') + 1
    <3>1. Builtin + (Len(given) + 1) = (Builtin + Len(given)) + 1 /\ n + 2 = (n + 1) + 1
      BY <1>1, <1>4
    <3> QED BY <1>2, <2>5, <3>1
  <2> HIDE DEF n
  <2> QED BY <1>2, <2>10, <2>12, <2>13, <2>14, <2>15 DEF Table
<1> QED BY <1>3, <1>5, <1>6 DEF TableOK

-----------------------------------
(* The chain of classifiers.                                                *)

LEMMA RegisteredFinite ==
    ASSUME registered \subseteq Classifier
    PROVE  /\ IsFiniteSet(registered) /\ Cardinality(registered) \in Nat
           /\ Cardinality(Classifier) \in Nat
           /\ Cardinality(registered) <= Cardinality(Classifier)
BY TypesAssumption, FS_Subset, FS_CardinalityType

LEMMA addPacketClassifierChained ==
    ASSUME registered \subseteq Classifier, next_ \in [Classifier -> Classifier \union {Null}],
           Chained, NEW pc \in Classifier, addPacketClassifier(pc)
    PROVE  Chained'
<1> DEFINE n == Cardinality(registered)
           R == registered \union {pc}
<1>1. PICK r \in [registered -> 1 .. n] : Chain(r)
  BY DEF Chained
<1>2. /\ pc \notin registered /\ registered' = R /\ pc_' = pc
      /\ next_' = [next_ EXCEPT ![pc] = pc_]
  BY DEF addPacketClassifier
<1>3. n \in Nat /\ Cardinality(R) = n + 1
  BY <1>2, RegisteredFinite, FS_AddElement
<1>4. registered = {} => n = 0
  BY FS_EmptySet
<1>5. /\ next_'[pc] = pc_
      /\ \A c \in registered : next_'[c] = next_[c] /\ c # pc /\ c \in R
  BY <1>2
<1> HIDE DEF n
<1>6. PICK s \in [R -> 1 .. n + 1] :
        /\ s[pc] = n + 1
        /\ \A c \in registered : s[c] = r[c] /\ r[c] \in 1 .. n
  <2> DEFINE t == [c \in R |-> IF c = pc THEN n + 1 ELSE r[c]]
  <2>1. \A c \in registered : r[c] \in 1 .. n /\ r[c] \in 1 .. n + 1
    BY <1>3
  <2>2. n + 1 \in 1 .. n + 1
    BY <1>3
  <2>3. /\ t \in [R -> 1 .. n + 1] /\ t[pc] = n + 1
        /\ \A c \in registered : t[c] = r[c]
    BY <1>2, <2>1, <2>2
  <2> HIDE DEF t
  <2> QED BY <2>1, <2>3
<1>7. \A c, d \in R : s[c] = s[d] => c = d
  BY <1>1, <1>3, <1>6 DEF Chain
<1>8. ASSUME NEW c \in R
      PROVE  IF s[c] = 1 THEN next_'[c] = Null
             ELSE next_'[c] \in R /\ s[next_'[c]] = s[c] - 1
  <2>1. CASE c = pc /\ registered = {}
    BY <1>1, <1>4, <1>5, <1>6, <2>1 DEF Chain
  <2>2. CASE c = pc /\ registered # {}
    <3>1. pc_ \in registered /\ r[pc_] = n
      BY <1>1, <2>2 DEF Chain, n
    <3> QED BY <1>3, <1>5, <1>6, <2>2, <3>1
  <2>3. CASE c # pc
    <3>1. c \in registered
      BY <2>3
    <3> QED BY <1>1, <1>5, <1>6, <3>1 DEF Chain
  <2> QED BY <2>1, <2>2, <2>3
<1>9. Chain(s)'
  BY <1>2, <1>3, <1>6, <1>7, <1>8 DEF Chain
<1> QED BY <1>2, <1>3, <1>6, <1>9 DEF Chained

IsAsk(f, type) ==
    f = [n \in 0 .. Cardinality(Classifier) |->
            [pc \in Classifier \union {Null} |->
                IF pc = Null \/ n = 0 THEN "UNCLASSIFIED"
                ELSE IF Knows[pc][type] # "UNCLASSIFIED" THEN Knows[pc][type]
                ELSE f[n - 1][next_[pc]]]]

LEMMA AskExists ==
    ASSUME next_ \in [Classifier -> Classifier \union {Null}], NEW type \in Types
    PROVE  \E f : IsAsk(f, type)
<1> DEFINE N == Cardinality(Classifier)
           P == Classifier \union {Null}
           V == [P -> Class]
           z == [pc \in P |-> "UNCLASSIFIED"]
           Turn(g) == [pc \in P |-> IF pc = Null THEN "UNCLASSIFIED"
                                    ELSE IF Knows[pc][type] # "UNCLASSIFIED" THEN Knows[pc][type]
                                    ELSE g[next_[pc]]]
           G == [k \in 1 .. N |-> [g \in V |-> Turn(g)]]
<1>1. N \in Nat
  BY TypesAssumption, FS_CardinalityType
<1>2. "UNCLASSIFIED" \in Class /\ \A pc \in Classifier : Knows[pc][type] \in Class
  BY TypesAssumption DEF Class
<1>3. z \in V
  BY <1>2
<1>4. ASSUME NEW g \in V PROVE Turn(g) \in V
  <2>1. \A pc \in Classifier : next_[pc] \in P /\ g[next_[pc]] \in Class
    OBVIOUS
  <2> QED BY <1>2, <2>1
<1>5. G \in Steps(N, V)
  <2> HIDE DEF Turn, V
  <2> QED BY <1>4 DEF Steps
<1> HIDE DEF N
<1>6. PICK f \in [0 .. N -> V] : Stepped(f, N, z, G)
  <2> HIDE DEF G, V, z
  <2> QED BY <1>1, <1>3, <1>5, Iterates
<1> DEFINE Row(n) == [pc \in P |->
                        IF pc = Null \/ n = 0 THEN "UNCLASSIFIED"
                        ELSE IF Knows[pc][type] # "UNCLASSIFIED" THEN Knows[pc][type]
                        ELSE f[n - 1][next_[pc]]]
<1>7. f[0] = Row(0)
  BY <1>6 DEF Stepped
<1>8. ASSUME NEW k \in 1 .. N PROVE f[k] = Row(k)
  <2>1. k - 1 \in 0 .. N /\ k # 0
    BY <1>1
  <2>2. f[k - 1] \in V
    BY <2>1
  <2>3. f[k] = Turn(f[k - 1])
    <3> HIDE DEF Turn, V
    <3> QED BY <1>6, <2>2 DEF Stepped
  <2>4. Turn(f[k - 1]) = Row(k)
    BY <2>1
  <2> QED BY <2>3, <2>4
<1>9. \A n \in 0 .. N : f[n] = Row(n)
  <2> HIDE DEF Row
  <2>1. \A n \in 0 .. N : n = 0 \/ n \in 1 .. N
    BY <1>1
  <2> QED BY <1>7, <1>8, <2>1
<1>10. f = [n \in 0 .. N |-> Row(n)]
  <2> HIDE DEF Row
  <2> QED BY <1>9
<1>11. IsAsk(f, type)
  BY <1>10 DEF IsAsk, N
<1> QED BY <1>11

(* Every classifier in the chain is asked until one knows the type. *)
LEMMA ChainAsked ==
    ASSUME IInv, NEW type \in Types, NEW c \in registered, Knows[c][type] # "UNCLASSIFIED"
    PROVE  classify(type) # "UNCLASSIFIED"
<1> DEFINE N == Cardinality(Classifier)
           m == Cardinality(registered)
           ask[n \in 0 .. Cardinality(Classifier)] ==
               [pc \in Classifier \union {Null} |->
                   IF pc = Null \/ n = 0 THEN "UNCLASSIFIED"
                   ELSE IF Knows[pc][type] # "UNCLASSIFIED" THEN Knows[pc][type]
                   ELSE ask[n - 1][next_[pc]]]
<1>1. classify(type) = IF Known[type] # "UNCLASSIFIED" THEN Known[type]
                       ELSE ask[N][pc_]
  BY DEF classify
<1>2. IsAsk(ask, type)
  <2>1. ask = CHOOSE f : IsAsk(f, type)
    BY DEF IsAsk
  <2>2. IsAsk(CHOOSE f : IsAsk(f, type), type)
    BY AskExists DEF IInv
  <2> HIDE DEF ask
  <2> QED BY <2>1, <2>2
<1> HIDE DEF ask
<1>3. /\ registered \subseteq Classifier /\ m \in Nat /\ N \in Nat /\ m <= N
      /\ next_ \in [Classifier -> Classifier \union {Null}]
  BY RegisteredFinite DEF IInv
<1>4. PICK r \in [registered -> 1 .. m] : Chain(r)
  BY DEF IInv, Chained
<1>5. ASSUME NEW n \in 1 .. N, NEW pc \in registered
      PROVE  ask[n][pc] = IF Knows[pc][type] # "UNCLASSIFIED" THEN Knows[pc][type]
                          ELSE ask[n - 1][next_[pc]]
  <2>1. n \in 0 .. N /\ n # 0 /\ pc \in Classifier \union {Null} /\ pc # Null
    BY <1>3, TypesAssumption
  <2>2. ask[n] = [d \in Classifier \union {Null} |->
                    IF d = Null \/ n = 0 THEN "UNCLASSIFIED"
                    ELSE IF Knows[d][type] # "UNCLASSIFIED" THEN Knows[d][type]
                    ELSE ask[n - 1][next_[d]]]
    BY <1>2, <2>1 DEF IsAsk
  <2> QED BY <2>1, <2>2
<1> DEFINE Told(k) == \A d \in registered : \A n \in k .. N :
                         r[d] = k /\ r[c] <= k => ask[n][d] # "UNCLASSIFIED"
           T == {k \in 0 .. m : Told(k)}
<1>6. \A d \in registered : r[d] \in 1 .. m
  OBVIOUS
<1> HIDE DEF m, N
<1>7. 0 \in T
  BY <1>3, <1>6
<1>8. ASSUME NEW k \in 1 .. m, k - 1 \in T PROVE k \in T
  <2>1. k \in 0 .. m /\ Told(k - 1)
    BY <1>8
  <2>2. ASSUME NEW d \in registered, NEW n \in k .. N, r[d] = k, r[c] <= k
        PROVE  ask[n][d] # "UNCLASSIFIED"
    <3>1. n \in 1 .. N /\ n - 1 \in (k - 1) .. N
      BY <1>3
    <3>2. ask[n][d] = IF Knows[d][type] # "UNCLASSIFIED" THEN Knows[d][type]
                      ELSE ask[n - 1][next_[d]]
      BY <1>5, <3>1
    <3>3. CASE Knows[d][type] # "UNCLASSIFIED"
      BY <3>2, <3>3
    <3>4. CASE Knows[d][type] = "UNCLASSIFIED"
      <4>1. r[c] # k
        BY <1>4, <2>2, <3>4 DEF Chain
      <4>2. r[c] \in 1 .. m
        BY <1>6
      <4>3. r[c] <= k - 1 /\ k # 1
        BY <1>3, <2>2, <4>1, <4>2
      <4>4. next_[d] \in registered /\ r[next_[d]] = k - 1
        BY <1>4, <2>2, <4>3 DEF Chain
      <4>5. ask[n - 1][next_[d]] # "UNCLASSIFIED"
        BY <2>1, <3>1, <4>3, <4>4
      <4> QED BY <3>2, <3>4, <4>5
    <3> QED BY <3>3, <3>4
  <2>3. Told(k)
    BY <2>2
  <2> HIDE DEF Told
  <2> QED BY <2>1, <2>3
<1>9. m \in T
  <2> HIDE DEF T
  <2>1. \A k \in 0 .. m : k \in T
    BY <1>3, <1>7, <1>8, Climb
  <2> QED BY <1>3, <2>1
<1>10. pc_ \in registered /\ r[pc_] = m
  BY <1>4 DEF Chain, m
<1>11. ask[N][pc_] # "UNCLASSIFIED"
  <2>1. N \in m .. N /\ r[c] <= m
    BY <1>3, <1>6
  <2> QED BY <1>9, <1>10, <2>1
<1> QED BY <1>1, <1>11

-----------------------------------------------------------------------------
LEMMA InitIInv == Init => IInv
<1> SUFFICES ASSUME Init PROVE IInv
  OBVIOUS
<1>1. Builtin \in Nat /\ 0 < Builtin /\ Lib \in File
  BY Numbers
<1>2. TableOK
  <2>1. /\ PT_NTYPE = [f \in File |-> Builtin] /\ initCopy \in File /\ given = <<>>
        /\ nPkt_ = Builtin + 1
        /\ name_ = [i \in 0 .. Builtin |-> IF i = Builtin THEN Undefined ELSE i]
    BY DEF Init
  <2>2. Len(given) = 0 /\ given \in Seq(Name) /\ Builtin + Len(given) = Builtin
    BY <1>1, <2>1
  <2>3. Counted
    BY <1>1, <2>1, <2>2 DEF Counted
  <2>4. name_ \in [0 .. Builtin -> Name \union Int] /\ name_[Builtin] = Undefined
    BY <1>1, <2>1, Numbers
  <2>5. \A t \in 0 .. Builtin - 1 : name_[t] = t
    BY <1>1, <2>1
  <2>6. \A i \in 1 .. Len(given) : FALSE
    BY <2>2
  <2> QED BY <2>1, <2>2, <2>3, <2>4, <2>5, <2>6 DEF TableOK, Table
<1>3. registered = {} /\ pc_ = Null /\ next_ \in [Classifier -> Classifier \union {Null}]
  BY DEF Init
<1>4. Chained
  <2>1. \E r : r \in [registered -> 1 .. Cardinality(registered)]
    <3>1. [c \in registered |-> 1] \in [registered -> 1 .. Cardinality(registered)]
      BY <1>3
    <3> QED BY <3>1
  <2> QED BY <1>3, <2>1 DEF Chained, Chain
<1> QED BY <1>2, <1>3, <1>4 DEF IInv

LEMMA NextIInv == IInv /\ [Next]_vars => IInv'
<1> SUFFICES ASSUME IInv, [Next]_vars PROVE IInv'
  OBVIOUS
<1>1. ASSUME NEW nm \in Name, addPacket(nm) PROVE IInv'
  <2>1. TableOK'
    BY <1>1, addPacketTable DEF IInv
  <2>2. UNCHANGED <<pc_, next_, registered>>
    BY <1>1 DEF addPacket
  <2>3. Chained'
    BY <2>2 DEF IInv, Chained, Chain
  <2> QED BY <2>1, <2>2, <2>3 DEF IInv
<1>2. ASSUME NEW pc \in Classifier, addPacketClassifier(pc) PROVE IInv'
  <2>1. Chained'
    BY <1>2, addPacketClassifierChained DEF IInv
  <2>2. TableOK'
    BY <1>2 DEF IInv, TableOK, Counted, Table, addPacketClassifier
  <2>3. /\ registered' \subseteq Classifier /\ pc_' \in Classifier \union {Null}
        /\ next_' \in [Classifier -> Classifier \union {Null}]
    BY <1>2 DEF IInv, addPacketClassifier
  <2> QED BY <2>1, <2>2, <2>3 DEF IInv
<1>3. CASE UNCHANGED vars
  <2>1. TableOK' /\ Chained'
    BY <1>3 DEF IInv, TableOK, Counted, Table, Chained, Chain, vars
  <2> QED BY <1>3, <2>1 DEF IInv, vars
<1> QED BY <1>1, <1>2, <1>3 DEF Next

LEMMA IInvHolds == Spec => []IInv
<1> QED BY InitIInv, NextIInv, PTL DEF Spec

(* initName keeps the name of every type when addPacket makes the table larger,
   and getType finds each name, in every file, with the first type that was
   registered by it.                                                        *)
THEOREM TypesFoundByName == Spec => []NamesRoundTrip
<1>1. IInv => NamesRoundTrip
  <2> SUFFICES ASSUME IInv, initCopy = Lib PROVE NamesRoundTrip
    BY DEF NamesRoundTrip
  <2>1. Counted /\ Table
    BY DEF IInv, TableOK
  <2>2. /\ Len(given) \in Nat /\ nPkt_ \in Nat
        /\ nPkt_ - 1 = Builtin + Len(given)
        /\ \A t \in 0 .. Builtin - 1 : name_[t] = t
        /\ \A i \in 1 .. Len(given) :
              name_[Builtin + i - 1] = given[i] /\ given[i] \in Name
        /\ \A t \in 0 .. nPkt_ - 1 :
              \/ t \in 0 .. Builtin - 1
              \/ \E i \in 1 .. Len(given) : t = Builtin + i - 1
              \/ t = Builtin + Len(given) /\ name_[t] = Undefined
    BY <2>1, Entries
  <2>3. Builtin \in Nat /\ Builtin > 0 /\ Name \cap Int = {} /\ Undefined \in Int
    BY Numbers, NamesAssumption
  <2>4. ASSUME NEW f \in File, NEW t \in 0 .. Builtin - 1 PROVE getType(t, f) = t
    <3>1. t \in 0 .. nPkt_ - 1 /\ name_[t] = t
      BY <2>2, <2>3
    <3>2. \A i \in 0 .. t - 1 : name_[i] # t
      BY <2>2, <2>3
    <3> QED BY <2>2, <3>1, <3>2, getTypeLeast
  <2>5. ASSUME NEW f \in File, NEW i \in 1 .. Len(given),
               \A j \in 1 .. i - 1 : given[j] # given[i]
        PROVE  getType(given[i], f) = Builtin + i - 1
    <3> DEFINE u == Builtin + i - 1
    <3>1. u \in 0 .. nPkt_ - 1 /\ name_[u] = given[i] /\ given[i] \in Name
      BY <2>2, <2>3
    <3>2. ASSUME NEW t \in 0 .. u - 1 PROVE name_[t] # given[i]
      <4>1. t \in 0 .. nPkt_ - 1 /\ t # Builtin + Len(given)
        BY <2>2, <2>3
      <4>2. CASE t \in 0 .. Builtin - 1
        BY <2>2, <2>3, <3>1, <4>2
      <4>3. ASSUME NEW j \in 1 .. Len(given), t = Builtin + j - 1
            PROVE  name_[t] # given[i]
        <5>1. j \in 1 .. i - 1
          BY <2>3, <4>3
        <5> QED BY <2>2, <2>5, <4>3, <5>1
      <4> QED BY <2>2, <4>1, <4>2, <4>3
    <3> HIDE DEF u
    <3>3. getType(given[i], f) = u
      BY <2>2, <3>1, <3>2, getTypeLeast
    <3> QED BY <3>3 DEF u
  <2>6. ASSUME NEW nm \in Name, Unknown(nm) PROVE getType(nm, Lib) = Builtin + Len(given)
    <3>1. ASSUME NEW t \in 0 .. nPkt_ - 1 PROVE name_[t] # nm
      <4>1. nm \notin Int
        BY <2>3
      <4>2. CASE t \in 0 .. Builtin - 1
        BY <2>2, <4>1, <4>2
      <4>3. CASE \E i \in 1 .. Len(given) : t = Builtin + i - 1
        BY <2>2, <2>6, <4>3 DEF Unknown
      <4>4. CASE name_[t] = Undefined
        BY <2>3, <4>1, <4>4
      <4> QED BY <2>2, <4>2, <4>3, <4>4
    <3>2. getType(nm, Lib) = PT_NTYPE[Lib]
      BY <3>1, getTypeNone
    <3> QED BY <2>1, <3>2 DEF Counted
  <2> QED BY <2>4, <2>5, <2>6 DEF NamesRoundTrip
<1> QED BY <1>1, IInvHolds, PTL

(* p_info::classify reaches every classifier that addPacketClassifier added,
   whichever were added after it.                                           *)
THEOREM EveryClassifierAsked == Spec => []AllAsked
<1>1. IInv => AllAsked
  BY ChainAsked DEF AllAsked
<1> QED BY <1>1, IInvHolds, PTL

=============================================================================
