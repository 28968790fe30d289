-------------------------- MODULE PacketPoolProofs --------------------------
(***************************************************************************)
(* Theorems about PacketPool, for any number of packets, heap objects and  *)
(* references.                                                             *)
(*                                                                         *)
(* The invariants hold together: that a packet is released by its last     *)
(* reference only (CountsReferences) keeps the free list sound, and that   *)
(* the list is sound makes the packet that alloc takes one that nobody     *)
(* holds, so that setting its reference to 1 is right.                     *)
(***************************************************************************)
EXTENDS PacketPool, TLAPS, SequenceTheorems

(* An event in the scheduler's queue has the scheduler's reference. *)
PendingHeld == \A p \in Packet : Pending(p) => refs[p] > 0

(* Packets that nobody made are not in use. *)
UnmadeUnused == \A p \in Packet : fflag[p] => p \in made

IInv ==
    /\ TypeOK
    /\ CountsReferences
    /\ FreeListSound
    /\ PendingHeld
    /\ UnmadeUnused

-----------------------------------------------------------------------------
LEMMA InitIInv == Init => IInv
BY PoolAssumption DEF Init, IInv, TypeOK, CountsReferences, FreeListSound, InPool,
                      PendingHeld, Pending, UnmadeUnused

(* What taking the head off a list without repetitions leaves. *)

In(s, x)     == \E i \in 1 .. Len(s) : s[i] = x
Injective(s) == \A i, j \in 1 .. Len(s) : s[i] = s[j] => i = j

LEMMA HeadTaken ==
    ASSUME NEW S, NEW s \in Seq(S), s # <<>>, Injective(s)
    PROVE  /\ Tail(s) \in Seq(S)
           /\ In(s, Head(s))
           /\ \A x \in S : In(Tail(s), x) <=> In(s, x) /\ x # Head(s)
           /\ Injective(Tail(s))
<1>1. /\ Len(s) \in Nat /\ Len(s) > 0 /\ Head(s) = s[1]
      /\ Tail(s) \in Seq(S) /\ Len(Tail(s)) = Len(s) - 1
      /\ \A i \in 1 .. Len(s) - 1 : Tail(s)[i] = s[i + 1]
  OBVIOUS
<1>2. ASSUME NEW x \in S, In(Tail(s), x) PROVE In(s, x) /\ x # Head(s)
  <2>1. PICK i \in 1 .. Len(s) - 1 : Tail(s)[i] = x
    BY <1>1, <1>2 DEF In
  <2>2. i + 1 \in 1 .. Len(s) /\ s[i + 1] = x /\ 1 \in 1 .. Len(s) /\ i + 1 # 1
    BY <2>1, <1>1
  <2> QED BY <2>2, <1>1 DEF In, Injective
<1>3. ASSUME NEW x \in S, In(s, x), x # Head(s) PROVE In(Tail(s), x)
  <2>1. PICK i \in 1 .. Len(s) : s[i] = x
    BY <1>3 DEF In
  <2>2. i - 1 \in 1 .. Len(s) - 1 /\ (i - 1) + 1 = i
    BY <2>1, <1>1, <1>3
  <2> QED BY <2>1, <2>2, <1>1 DEF In
<1>4. Injective(Tail(s))
  <2> SUFFICES ASSUME NEW i \in 1 .. Len(s) - 1, NEW j \in 1 .. Len(s) - 1,
                      Tail(s)[i] = Tail(s)[j]
               PROVE  i = j
    BY <1>1 DEF Injective
  <2>1. i + 1 \in 1 .. Len(s) /\ j + 1 \in 1 .. Len(s) /\ s[i + 1] = s[j + 1]
    BY <1>1
  <2> QED BY <2>1 DEF Injective
<1> QED BY <1>1, <1>2, <1>3, <1>4 DEF In

(* What putting a new element at the head of such a list yields. *)
LEMMA HeadPut ==
    ASSUME NEW S, NEW s \in Seq(S), NEW p \in S, ~In(s, p), Injective(s)
    PROVE  /\ <<p>> \o s \in Seq(S)
           /\ \A x \in S : In(<<p>> \o s, x) <=> In(s, x) \/ x = p
           /\ Injective(<<p>> \o s)
<1> DEFINE t == <<p>> \o s
<1>1. /\ Len(s) \in Nat /\ t \in Seq(S) /\ Len(t) = Len(s) + 1 /\ t[1] = p
      /\ \A i \in 1 .. Len(s) : t[i + 1] = s[i]
  OBVIOUS
<1>2. \A i \in 1 .. Len(t) : i # 1 => i - 1 \in 1 .. Len(s) /\ t[i] = s[i - 1]
  <2> SUFFICES ASSUME NEW i \in 1 .. Len(t), i # 1
               PROVE  i - 1 \in 1 .. Len(s) /\ t[i] = s[i - 1]
    OBVIOUS
  <2>1. i - 1 \in 1 .. Len(s) /\ (i - 1) + 1 = i
    BY <1>1
  <2> QED BY <2>1, <1>1
<1> HIDE DEF t
<1>3. \A x \in S : In(t, x) <=> In(s, x) \/ x = p
  <2> SUFFICES ASSUME NEW x \in S PROVE In(t, x) <=> In(s, x) \/ x = p
    OBVIOUS
  <2>1. In(t, x) => In(s, x) \/ x = p
    BY <1>1, <1>2 DEF In
  <2>2. ASSUME In(s, x) PROVE In(t, x)
    <3>1. PICK i \in 1 .. Len(s) : s[i] = x
      BY <2>2 DEF In
    <3>2. i + 1 \in 1 .. Len(t) /\ t[i + 1] = x
      BY <3>1, <1>1
    <3> QED BY <3>2 DEF In
  <2>3. x = p => In(t, x)
    <3>1. 1 \in 1 .. Len(t)
      BY <1>1
    <3> QED BY <3>1, <1>1 DEF In
  <2> QED BY <2>1, <2>2, <2>3
<1>4. Injective(t)
  <2> SUFFICES ASSUME NEW i \in 1 .. Len(t), NEW j \in 1 .. Len(t), t[i] = t[j]
               PROVE  i = j
    BY DEF Injective
  <2>1. CASE i # 1 /\ j # 1
    <3>1. i - 1 = j - 1
      BY <2>1, <1>2 DEF Injective
    <3> QED BY <3>1
  <2>2. CASE i = 1 /\ j # 1
    BY <2>2, <1>1, <1>2 DEF In
  <2>3. CASE i # 1 /\ j = 1
    BY <2>3, <1>1, <1>2 DEF In
  <2> QED BY <2>1, <2>2, <2>3
<1> QED BY <1>1, <1>3, <1>4 DEF t

(* The packet that alloc takes was used by nobody, and leaves the list. *)
LEMMA TakeKeepsIInv ==
    ASSUME IInv, NEW p \in Packet, Take(p),
           options' \in [Packet -> Object \union {NoObject}],
           data' \in [Packet -> Object \union {NoObject}],
           heap' \subseteq Object
    PROVE  IInv'
<1> USE DEF IInv
<1>1. CASE free_ = <<>>
  <2>1. p \notin made /\ made' = made \union {p} /\ free_' = free_
    BY <1>1 DEF Take
  <2>2. ~fflag[p] /\ ref_count[p] = 0 /\ refs[p] = 0
    BY <2>1 DEF UnmadeUnused, CountsReferences, TypeOK
  <2>3. TypeOK'
    <3>1. free_' \in Seq(made')
      BY <1>1, <2>1
    <3> QED BY <2>1, <3>1 DEF TypeOK, Take
  <2>4. CountsReferences'
    BY <2>2 DEF CountsReferences, TypeOK, Take
  <2>5. FreeListSound'
    BY <1>1, <2>1 DEF FreeListSound, InPool, TypeOK, Take
  <2>6. PendingHeld' /\ UnmadeUnused'
    BY <2>1 DEF PendingHeld, UnmadeUnused, Pending, TypeOK, Take
  <2> QED BY <2>3, <2>4, <2>5, <2>6
<1>2. CASE free_ # <<>>
  <2>1. p = Head(free_) /\ free_' = Tail(free_) /\ made' = made
    BY <1>2 DEF Take
  <2>2. free_ \in Seq(made) /\ Injective(free_)
    BY DEF TypeOK, FreeListSound, Injective
  <2>3. /\ free_' \in Seq(made)
        /\ In(free_, p)
        /\ \A q \in made : In(free_', q) <=> In(free_, q) /\ q # p
        /\ Injective(free_')
    BY <1>2, <2>1, <2>2, HeadTaken
  <2>4. p \in made
    BY <2>2, <2>3 DEF In
  <2>5. ~fflag[p] /\ ref_count[p] = 0 /\ refs[p] = 0
    BY <2>3, <2>4 DEF CountsReferences, FreeListSound, InPool, In, TypeOK
  <2>6. TypeOK'
    BY <2>1, <2>3 DEF TypeOK, Take
  <2>7. CountsReferences'
    BY <2>5 DEF CountsReferences, TypeOK, Take
  <2>8. \A q \in made : In(free_', q) <=> ~fflag'[q]
    BY <2>3 DEF FreeListSound, InPool, In, TypeOK, Take
  <2>9. FreeListSound'
    BY <2>1, <2>3, <2>8 DEF FreeListSound, InPool, In, Injective
  <2>10. PendingHeld' /\ UnmadeUnused'
    BY <2>1, <2>4 DEF PendingHeld, UnmadeUnused, Pending, TypeOK, Take
  <2> QED BY <2>6, <2>7, <2>9, <2>10
<1> QED BY <1>1, <1>2

(* Releasing a packet that its last holder gives back puts it on the list. *)
LEMMA FreeKeepsIInv ==
    ASSUME IInv, NEW p \in Packet, free(p) PROVE IInv'
<1> USE DEF IInv
<1>1. p \in made /\ fflag[p] /\ ref_count[p] = refs[p] - 1 /\ refs[p] \in Nat
  BY DEF free, UnmadeUnused, CountsReferences, TypeOK
<1>2. Pending(p) => refs[p] > 1
  BY <1>1 DEF free, Held, TypeOK
<1>3. CASE Release(p)
  <2>1. /\ Delete(p) /\ free_' = <<p>> \o free_ /\ made' = made /\ uid' = uid
        /\ fflag' = [fflag EXCEPT ![p] = FALSE]
        /\ ref_count' = ref_count
        /\ refs' = [refs EXCEPT ![p] = @ - 1]
    BY <1>3 DEF free
  <2>2. refs[p] = 1 /\ ~Pending(p)
    BY <1>1, <1>2, <1>3 DEF Release
  <2>3. free_ \in Seq(made) /\ Injective(free_) /\ ~In(free_, p)
    BY <1>1 DEF TypeOK, FreeListSound, InPool, In, Injective
  <2>4. /\ free_' \in Seq(made)
        /\ \A q \in made : In(free_', q) <=> In(free_, q) \/ q = p
        /\ Injective(free_')
    BY <1>1, <2>1, <2>3, HeadPut
  <2>5. TypeOK'
    BY <1>1, <2>1, <2>2, <2>4 DEF TypeOK, Delete
  <2>6. CountsReferences'
    BY <1>1, <2>1, <2>2 DEF CountsReferences, TypeOK
  <2>7. \A q \in made : In(free_', q) <=> ~fflag'[q]
    BY <2>1, <2>4 DEF FreeListSound, InPool, In, TypeOK
  <2>8. FreeListSound'
    BY <2>1, <2>4, <2>7 DEF FreeListSound, InPool, In, Injective
  <2>9. PendingHeld' /\ UnmadeUnused'
    BY <2>1, <2>2 DEF PendingHeld, UnmadeUnused, Pending, TypeOK
  <2> QED BY <2>5, <2>6, <2>8, <2>9
<1>4. CASE ~Release(p)
  <2>1. /\ UNCHANGED <<made, free_, fflag, uid, options, data, heap>>
        /\ ref_count' = [ref_count EXCEPT ![p] = @ - 1]
        /\ refs' = [refs EXCEPT ![p] = @ - 1]
    BY <1>4 DEF free, owned
  <2>2. refs[p] > 1
    BY <1>1, <1>4 DEF Release, TypeOK
  <2>3. TypeOK'
    BY <1>1, <2>1, <2>2 DEF TypeOK
  <2>4. CountsReferences'
    BY <1>1, <2>1, <2>2 DEF CountsReferences, TypeOK
  <2>5. FreeListSound'
    BY <2>1 DEF FreeListSound, InPool
  <2>6. PendingHeld' /\ UnmadeUnused'
    BY <2>1, <2>2 DEF PendingHeld, UnmadeUnused, Pending, TypeOK
  <2> QED BY <2>3, <2>4, <2>5, <2>6
<1> QED BY <1>3, <1>4

LEMMA StepIInv == IInv /\ [Next]_vars => IInv'
<1> SUFFICES ASSUME IInv, [Next]_vars PROVE IInv'
  OBVIOUS
<1> USE DEF IInv
<1>1. ASSUME NEW p \in Packet, alloc(p) PROVE IInv'
  <2>1. UNCHANGED owned
    BY <1>1 DEF alloc
  <2> QED BY <1>1, <2>1, TakeKeepsIInv DEF alloc, owned, TypeOK
<1>2. ASSUME NEW p \in Packet, allocWithData(p) PROVE IInv'
  <2>1. /\ Take(p)
        /\ options' \in [Packet -> Object \union {NoObject}]
        /\ data' \in [Packet -> Object \union {NoObject}]
        /\ heap' \subseteq Object
    BY <1>2 DEF allocWithData, TypeOK
  <2> QED BY <2>1, TakeKeepsIInv
<1>3. ASSUME NEW p \in Packet, refcopy(p) PROVE IInv'
  <2>1. /\ UNCHANGED <<made, free_, fflag, uid, options, data, heap>>
        /\ ref_count' = [ref_count EXCEPT ![p] = @ + 1]
        /\ refs' = [refs EXCEPT ![p] = @ + 1]
    BY <1>3 DEF refcopy, owned
  <2>2. refs[p] > 0
    BY <1>3 DEF refcopy, Held, TypeOK
  <2>3. TypeOK'
    <3>1. ref_count' \in [Packet -> Nat] /\ refs' \in [Packet -> Nat]
      BY <2>1 DEF TypeOK
    <3> QED BY <2>1, <3>1 DEF TypeOK
  <2>4. CountsReferences'
    <3>1. fflag[p] /\ ref_count[p] = refs[p] - 1 /\ refs[p] \in Nat
      BY <2>2 DEF CountsReferences, TypeOK
    <3> QED BY <2>1, <3>1 DEF CountsReferences, TypeOK
  <2>5. FreeListSound' /\ PendingHeld' /\ UnmadeUnused'
    BY <2>1, <2>2 DEF TypeOK, FreeListSound, InPool, PendingHeld, Pending, UnmadeUnused
  <2> QED BY <2>3, <2>4, <2>5
<1>4. ASSUME NEW p \in Packet, setdata(p) PROVE IInv'
  BY <1>4 DEF setdata, TypeOK, CountsReferences, FreeListSound, InPool,
              PendingHeld, Pending, UnmadeUnused
<1>5. ASSUME NEW p \in Packet, SetOptions(p) PROVE IInv'
  BY <1>5 DEF SetOptions, TypeOK, CountsReferences, FreeListSound, InPool,
              PendingHeld, Pending, UnmadeUnused
<1>6. ASSUME NEW p \in Packet, free(p) PROVE IInv'
  BY <1>6, FreeKeepsIInv
<1>7. ASSUME NEW p \in Packet, schedule(p) PROVE IInv'
  <2>1. refs[p] > 0
    BY <1>7 DEF schedule, Held, TypeOK
  <2> QED BY <1>7, <2>1 DEF schedule, owned, TypeOK, CountsReferences, FreeListSound,
                            InPool, PendingHeld, Pending, UnmadeUnused
<1>8. ASSUME NEW p \in Packet, dispatch(p) PROVE IInv'
  BY <1>8 DEF dispatch, owned, TypeOK, CountsReferences, FreeListSound, InPool,
              PendingHeld, Pending, UnmadeUnused
<1>9. ASSUME NEW p \in Packet, NEW q \in Packet, copy(p, q) PROVE IInv'
  <2>1. /\ Take(q)
        /\ options' \in [Packet -> Object \union {NoObject}]
        /\ data' \in [Packet -> Object \union {NoObject}]
        /\ heap' \subseteq Object
    BY <1>9 DEF copy, TypeOK
  <2> QED BY <2>1, TakeKeepsIInv
<1>10. CASE UNCHANGED vars
  BY <1>10 DEF vars, owned, TypeOK, CountsReferences, FreeListSound, InPool,
               PendingHeld, Pending, UnmadeUnused
<1> QED BY <1>1, <1>2, <1>3, <1>4, <1>5, <1>6, <1>7, <1>8, <1>9, <1>10
        DEF Next, freeAgain

THEOREM Invariance == Spec => []IInv
BY InitIInv, StepIInv, PTL DEF Spec

-----------------------------------------------------------------------------
(* Whatever clients do, every variable keeps its type. *)
THEOREM TypeCorrect == Spec => []TypeOK
BY Invariance, PTL DEF IInv

(* ref_count_ is one less than the references held: only the last free of a
   packet releases it.                                                      *)
THEOREM LastFreeReleases == Spec => []CountsReferences
BY Invariance, PTL DEF IInv

(* The free list holds the packets not in use, each once. *)
THEOREM FreeListIsSound == Spec => []FreeListSound
BY Invariance, PTL DEF IInv

(* The packet that alloc takes was used by nobody. *)
LEMMA TakesUnused ==
    ASSUME IInv, NEW p \in Packet, Take(p)
    PROVE  ~fflag[p] /\ refs[p] = 0
<1>1. CASE free_ = <<>>
  BY <1>1 DEF IInv, Take, UnmadeUnused, CountsReferences, TypeOK
<1>2. CASE free_ # <<>>
  <2>1. /\ free_ \in Seq(made) /\ Len(free_) \in Nat /\ Len(free_) > 0
        /\ p = free_[1] /\ p \in made
    BY <1>2 DEF IInv, Take, TypeOK
  <2>2. InPool(p)
    BY <2>1 DEF InPool
  <2> QED BY <2>1, <2>2 DEF IInv, FreeListSound, CountsReferences, TypeOK
<1> QED BY <1>1, <1>2

(* References go down in free only, and to more than 0 only when the packet
   is not released.                                                         *)
LEMMA TakeCountsUp ==
    ASSUME IInv, NEW p \in Packet, Take(p)
    PROVE  \A q \in Packet : refs'[q] >= refs[q]
<1>1. refs[p] = 0
  BY TakesUnused
<1>2. refs \in [Packet -> Nat] /\ refs' = [refs EXCEPT ![p] = 1]
  BY DEF IInv, TypeOK, Take
<1> QED BY <1>1, <1>2

LEMMA StepShares ==
    ASSUME IInv, [Next]_vars
    PROVE  [\A p \in Packet : refs'[p] < refs[p] /\ refs'[p] > 0
              => fflag'[p] /\ options'[p] = options[p] /\ data'[p] = data[p]]_vars
<1> SUFFICES ASSUME Next, NEW p \in Packet, refs'[p] < refs[p], refs'[p] > 0
             PROVE  fflag'[p] /\ options'[p] = options[p] /\ data'[p] = data[p]
  OBVIOUS
<1>1. PICK q \in Packet : free(q)
  <2>1. \A q \in Packet : ~Take(q)
    <3>1. refs[p] \in Nat /\ refs'[p] \in Nat
      BY StepIInv DEF IInv, TypeOK
    <3>2. ~(refs'[p] >= refs[p])
      BY <3>1
    <3> QED BY <3>2, TakeCountsUp
  <2>2. refs' # refs
    BY DEF IInv, TypeOK
  <2>3. ASSUME NEW q \in Packet, refcopy(q) PROVE FALSE
    BY <2>3 DEF refcopy, IInv, TypeOK
  <2> QED BY <2>1, <2>2, <2>3
          DEF Next, alloc, allocWithData, setdata, SetOptions, copy, freeAgain, vars,
              schedule, dispatch
<1>2. q = p
  BY <1>1 DEF free, IInv, TypeOK
<1>3. ~Release(p)
  <2>1. refs[p] # 1
    BY <1>1, <1>2 DEF free, IInv, TypeOK
  <2> QED BY <1>1, <1>2, <2>1 DEF free, Release, IInv, CountsReferences, TypeOK
<1> QED BY <1>1, <1>2, <1>3 DEF free, owned

(* Giving back a reference to a shared packet leaves it as it is. *)
THEOREM SharingIsSafe == Spec => SharedUntouched
<1>1. IInv /\ [Next]_vars =>
        [\A p \in Packet : refs'[p] < refs[p] /\ refs'[p] > 0
            => fflag'[p] /\ options'[p] = options[p] /\ data'[p] = data[p]]_vars
  BY StepShares
<1> QED BY <1>1, Invariance, PTL DEF Spec, SharedUntouched

-----------------------------------------------------------------------------
(* Ownership.  OwnedOnce, slot by slot.                                     *)

InUseOwns ==
    \A p \in Packet : /\ options[p] # NoObject => fflag[p] /\ options[p] \in heap
                      /\ data[p] # NoObject => fflag[p] /\ data[p] \in heap

NoLeak == \A o \in heap : \E p \in Packet : options[p] = o \/ data[p] = o

NoAlias ==
    /\ \A p, q \in Packet : options[p] # NoObject => options[p] # data[q]
    /\ \A p, q \in Packet : options[p] # NoObject /\ options[p] = options[q] => p = q
    /\ \A p, q \in Packet : data[p] # NoObject /\ data[p] = data[q] => p = q

Owners == InUseOwns /\ NoLeak /\ NoAlias

LEMMA InitOwners == Init => Owners
BY DEF Init, Owners, InUseOwns, NoLeak, NoAlias

(* A new packet owns what it is given, if that was not on the heap. *)
LEMMA TakeKeepsOwners ==
    ASSUME IInv, Owners, NEW p \in Packet, Take(p),
           NEW o \in (Object \ heap) \union {NoObject},
           NEW d \in (Object \ heap) \union {NoObject},
           o = d => o = NoObject,
           options' = [options EXCEPT ![p] = o],
           data' = [data EXCEPT ![p] = d],
           heap' = heap \union ({o, d} \ {NoObject})
    PROVE  Owners'
<1>1. options[p] = NoObject /\ data[p] = NoObject
  BY TakesUnused DEF Owners, InUseOwns
<1>2. /\ options \in [Packet -> Object \union {NoObject}]
      /\ data \in [Packet -> Object \union {NoObject}]
      /\ fflag \in [Packet -> BOOLEAN]
  BY DEF IInv, TypeOK
<1>3. InUseOwns'
  BY <1>1, <1>2 DEF Owners, InUseOwns, Take
<1>4. NoLeak'
  <2> SUFFICES ASSUME NEW h \in heap' PROVE \E q \in Packet : options'[q] = h \/ data'[q] = h
    BY DEF NoLeak
  <2>1. CASE h \in {o, d}
    BY <2>1, <1>2
  <2>2. CASE h \in heap
    <3>1. PICK q \in Packet : options[q] = h \/ data[q] = h
      BY <2>2 DEF Owners, NoLeak
    <3>2. h # NoObject
      BY <2>2, PoolAssumption DEF IInv, TypeOK
    <3> QED BY <3>1, <3>2, <1>1, <1>2
  <2> QED BY <2>1, <2>2
<1>5. NoAlias'
  BY <1>1, <1>2 DEF Owners, InUseOwns, NoAlias
<1> QED BY <1>3, <1>4, <1>5 DEF Owners

(* Deleting everything that a packet owns, and only that. *)
LEMMA DeleteKeepsOwners ==
    ASSUME IInv, Owners, NEW p \in Packet, Delete(p),
           fflag' = [fflag EXCEPT ![p] = FALSE]
    PROVE  Owners'
<1>1. /\ options \in [Packet -> Object \union {NoObject}]
      /\ data \in [Packet -> Object \union {NoObject}]
      /\ fflag \in [Packet -> BOOLEAN]
  BY DEF IInv, TypeOK
<1>2. InUseOwns'
  BY <1>1 DEF Owners, InUseOwns, NoAlias, Delete
<1>3. NoLeak'
  BY <1>1 DEF Owners, NoLeak, Delete
<1>4. NoAlias'
  BY <1>1 DEF Owners, NoAlias, Delete
<1> QED BY <1>2, <1>3, <1>4 DEF Owners

LEMMA StepOwners == IInv /\ Owners /\ [Next]_vars => Owners'
<1> SUFFICES ASSUME IInv, Owners, [Next]_vars PROVE Owners'
  OBVIOUS
<1>0. /\ options \in [Packet -> Object \union {NoObject}]
      /\ data \in [Packet -> Object \union {NoObject}]
      /\ fflag \in [Packet -> BOOLEAN] /\ heap \subseteq Object
      /\ NoObject \notin Object
  BY PoolAssumption DEF IInv, TypeOK
<1>1. ASSUME NEW p \in Packet, alloc(p) PROVE Owners'
  <2>1. options[p] = NoObject /\ data[p] = NoObject
    BY <1>1, TakesUnused DEF Owners, InUseOwns, alloc
  <2>2. /\ options' = [options EXCEPT ![p] = NoObject]
        /\ data' = [data EXCEPT ![p] = NoObject]
        /\ heap' = heap \union ({NoObject, NoObject} \ {NoObject})
    BY <1>0, <1>1, <2>1 DEF alloc, owned
  <2> QED BY <1>1, <2>2, TakeKeepsOwners DEF alloc
<1>2. ASSUME NEW p \in Packet, allocWithData(p) PROVE Owners'
  <2>1. options[p] = NoObject
    BY <1>2, TakesUnused DEF Owners, InUseOwns, allocWithData
  <2>2. PICK o \in Object \ heap : /\ data' = [data EXCEPT ![p] = o]
                                   /\ heap' = heap \union {o}
    BY <1>2 DEF allocWithData
  <2>3. /\ options' = [options EXCEPT ![p] = NoObject]
        /\ heap' = heap \union ({NoObject, o} \ {NoObject})
        /\ NoObject # o
    BY <1>0, <1>2, <2>1, <2>2 DEF allocWithData
  <2> QED BY <1>2, <2>2, <2>3, TakeKeepsOwners DEF allocWithData
<1>3. ASSUME NEW p \in Packet, refcopy(p) PROVE Owners'
  BY <1>3 DEF refcopy, owned, Owners, InUseOwns, NoLeak, NoAlias
<1>4. ASSUME NEW p \in Packet, Held(p) PROVE fflag[p]
  BY <1>4 DEF Held, IInv, CountsReferences, TypeOK
<1>5. ASSUME NEW p \in Packet, setdata(p) PROVE Owners'
  <2>1. PICK o \in Object \ heap : /\ data' = [data EXCEPT ![p] = o]
                                   /\ heap' = (heap \ {data[p]}) \union {o}
    BY <1>5 DEF setdata
  <2>2. options' = options /\ fflag' = fflag /\ fflag[p]
    BY <1>4, <1>5 DEF setdata
  <2>3. InUseOwns'
    BY <1>0, <2>1, <2>2 DEF Owners, InUseOwns, NoAlias
  <2>4. NoLeak'
    BY <1>0, <2>1, <2>2 DEF Owners, NoLeak
  <2>5. NoAlias'
    BY <1>0, <2>1, <2>2 DEF Owners, InUseOwns, NoAlias
  <2> QED BY <2>3, <2>4, <2>5 DEF Owners
<1>6. ASSUME NEW p \in Packet, SetOptions(p) PROVE Owners'
  <2>1. PICK o \in Object \ heap : /\ options' = [options EXCEPT ![p] = o]
                                   /\ heap' = heap \union {o}
    BY <1>6 DEF SetOptions
  <2>2. data' = data /\ fflag' = fflag /\ fflag[p] /\ options[p] = NoObject
    BY <1>4, <1>6 DEF SetOptions
  <2>3. InUseOwns'
    BY <1>0, <2>1, <2>2 DEF Owners, InUseOwns
  <2>4. NoLeak'
    BY <1>0, <2>1, <2>2 DEF Owners, NoLeak
  <2>5. NoAlias'
    BY <1>0, <2>1, <2>2 DEF Owners, InUseOwns, NoAlias
  <2> QED BY <2>3, <2>4, <2>5 DEF Owners
<1>7. ASSUME NEW p \in Packet, free(p) PROVE Owners'
  <2>1. CASE Release(p)
    BY <1>7, <2>1, DeleteKeepsOwners DEF free
  <2>2. CASE ~Release(p)
    BY <1>7, <2>2 DEF free, owned, Owners, InUseOwns, NoLeak, NoAlias
  <2> QED BY <2>1, <2>2
<1>8. ASSUME NEW p \in Packet, schedule(p) \/ dispatch(p) PROVE Owners'
  BY <1>8 DEF schedule, dispatch, owned, Owners, InUseOwns, NoLeak, NoAlias
<1>9. ASSUME NEW p \in Packet, NEW q \in Packet, copy(p, q) PROVE Owners'
  <2>1. PICK o, d \in (Object \ heap) \union {NoObject} :
           /\ o = d => o = NoObject
           /\ options' = [options EXCEPT ![q] = o]
           /\ data' = [data EXCEPT ![q] = d]
           /\ heap' = heap \union ({o, d} \ {NoObject})
    BY <1>9 DEF copy
  <2> QED BY <1>9, <2>1, TakeKeepsOwners DEF copy
<1>10. CASE UNCHANGED vars
  BY <1>10 DEF vars, owned, Owners, InUseOwns, NoLeak, NoAlias
<1> QED BY <1>1, <1>2, <1>3, <1>5, <1>6, <1>7, <1>8, <1>9, <1>10 DEF Next, freeAgain

LEMMA OwnersOwnOnce == IInv /\ Owners => OwnedOnce
<1> SUFFICES ASSUME IInv, Owners PROVE OwnedOnce
  OBVIOUS
<1> DEFINE slots == Packet \X {"options", "data"}
           At(s) == IF s[2] = "options" THEN options[s[1]] ELSE data[s[1]]
<1>1. \A s \in slots : s[1] \in Packet /\ s[2] \in {"options", "data"} /\ s = <<s[1], s[2]>>
  OBVIOUS
<1>2. \A p \in Packet : /\ <<p, "options">> \in slots /\ At(<<p, "options">>) = options[p]
                        /\ <<p, "data">> \in slots /\ At(<<p, "data">>) = data[p]
  OBVIOUS
<1>3. heap = {At(s) : s \in slots} \ {NoObject}
  <2>1. ASSUME NEW o \in heap PROVE o \in {At(s) : s \in slots} \ {NoObject}
    <3>1. PICK p \in Packet : options[p] = o \/ data[p] = o
      BY DEF Owners, NoLeak
    <3>2. o # NoObject
      BY PoolAssumption DEF IInv, TypeOK
    <3>3. \E s \in slots : At(s) = o
      BY <3>1, <1>2
    <3> QED BY <3>2, <3>3
  <2>2. ASSUME NEW s \in slots, At(s) # NoObject PROVE At(s) \in heap
    BY <2>2, <1>1 DEF Owners, InUseOwns
  <2> QED BY <2>1, <2>2
<1>4. \A s, t \in slots : At(s) = At(t) /\ At(s) # NoObject => s = t
  <2> SUFFICES ASSUME NEW s \in slots, NEW t \in slots, At(s) = At(t), At(s) # NoObject
               PROVE  s = t
    OBVIOUS
  <2>1. s[1] = t[1] /\ s[2] = t[2]
    BY <1>1 DEF Owners, NoAlias
  <2> QED BY <2>1, <1>1
<1>5. \A s \in slots : At(s) # NoObject => fflag[s[1]]
  BY <1>1 DEF Owners, InUseOwns
<1> QED BY <1>3, <1>4, <1>5 DEF OwnedOnce

(* Every heap object belongs to one packet in use, in one place: nothing
   leaks and nothing is deleted twice.                                      *)
THEOREM OwnershipIsSingle == Spec => []OwnedOnce
<1>1. Init => Owners
  BY InitOwners
<1>2. IInv /\ Owners /\ [Next]_vars => Owners'
  BY StepOwners
<1>3. IInv /\ Owners => OwnedOnce
  BY OwnersOwnOnce
<1> QED BY <1>1, <1>2, <1>3, Invariance, PTL DEF Spec

(* No assertion of alloc or free fails. *)
THEOREM AssertionsNeverFail == Spec => []AssertionsHold
<1>1. IInv /\ Owners => AssertionsHold
  <2> SUFFICES ASSUME IInv, Owners, NEW p \in Packet
               PROVE  /\ InPool(p) => data[p] = NoObject /\ ~fflag[p]
                      /\ Held(p) /\ Release(p) => ~Pending(p)
    BY DEF AssertionsHold
  <2>1. ASSUME InPool(p) PROVE data[p] = NoObject /\ ~fflag[p]
    <3>1. p \in made
      BY <2>1 DEF InPool, IInv, TypeOK
    <3> QED BY <2>1, <3>1 DEF IInv, FreeListSound, Owners, InUseOwns
  <2>2. ASSUME Held(p), Release(p) PROVE ~Pending(p)
    BY <2>2 DEF Held, Release, IInv, CountsReferences, TypeOK
  <2> QED BY <2>1, <2>2
<1> QED BY <1>1, InitOwners, StepOwners, Invariance, PTL DEF Spec

=============================================================================
