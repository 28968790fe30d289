----------------------------- MODULE PacketPool -----------------------------
(***************************************************************************)
(* Memory of packets (Ns2.35Files/packet.h): a free list that alloc takes  *)
(* from and free puts back to, a reference count for packets that several  *)
(* objects share, and what a packet owns on the heap: its user data and,   *)
(* for DCCP packets, the options its header points to.                     *)
(*                                                                         *)
(* The objects of the simulator are the clients.  They are modelled by the *)
(* references they hold, which each gives back once; that a second free of *)
(* a packet on the free list does nothing is the part of free they rely on *)
(* when they do not.  A packet in the scheduler's queue is an event with a *)
(* positive uid_.                                                          *)
(***************************************************************************)
EXTENDS Integers, Sequences, FiniteSets

CONSTANTS
    Packet,     \* packets that new can make
    Object,     \* heap objects: user data and DCCP options
    NoObject,   \* a null pointer
    MaxRefs     \* bound on the references to one packet

ASSUME PoolAssumption == NoObject \notin Object /\ MaxRefs \in Nat \ {0}

VARIABLES
    made,       \* the packets that exist
    free_,      \* the free list, head first
    fflag,      \* fflag_: the packet is in use
    ref_count,  \* ref_count_
    uid,        \* the sign of uid_: 0 new, 1 in the event queue, -1 dispatched
    options,    \* the DCCP options a header points to
    data,       \* data_
    heap,       \* the heap objects that exist
    refs        \* references the clients and the scheduler hold

owned == <<options, data, heap>>
vars  == <<made, free_, fflag, ref_count, uid, owned, refs>>

InPool(p) == \E i \in 1 .. Len(free_) : free_[i] = p

Pending(p) == uid[p] = 1

(* A client may act on a packet it holds a reference to. *)
Held(p) == refs[p] > (IF Pending(p) THEN 1 ELSE 0)

-----------------------------------------------------------------------------
Init ==
    /\ made = {}
    /\ free_ = <<>>
    /\ fflag = [p \in Packet |-> FALSE]
    /\ ref_count = [p \in Packet |-> 0]
    /\ uid = [p \in Packet |-> 0]
    /\ options = [p \in Packet |-> NoObject]
    /\ data = [p \in Packet |-> NoObject]
    /\ heap = {}
    /\ refs = [p \in Packet |-> 0]

(* Mutation: the packet stays on the list. *)
Take_keeps(p) ==
    /\ IF free_ = <<>> THEN p \notin made ELSE p = Head(free_)
    /\ made' = made \union {p} /\ UNCHANGED free_
    /\ fflag' = [fflag EXCEPT ![p] = TRUE]
    /\ uid' = [uid EXCEPT ![p] = 0]
    /\ refs' = [refs EXCEPT ![p] = 1]
    /\ UNCHANGED ref_count

(* alloc(): the head of the list or a new packet.  ref_count_ is not set. *)
Take(p) ==
    /\ IF free_ = <<>> THEN /\ p \notin made
                            /\ made' = made \union {p}
                            /\ UNCHANGED free_
       ELSE /\ p = Head(free_)
            /\ free_' = Tail(free_)
            /\ UNCHANGED made
    /\ fflag' = [fflag EXCEPT ![p] = TRUE]
    /\ uid' = [uid EXCEPT ![p] = 0]
    /\ refs' = [refs EXCEPT ![p] = 1]
    /\ UNCHANGED ref_count

alloc(p) == Take(p) /\ UNCHANGED owned

(* alloc(n): with a data buffer. *)
allocWithData(p) ==
    /\ Take(p)
    /\ \E o \in Object \ heap : /\ data' = [data EXCEPT ![p] = o]
                                /\ heap' = heap \union {o}
    /\ UNCHANGED options

refcopy(p) ==
    /\ Held(p) /\ refs[p] < MaxRefs
    /\ ref_count' = [ref_count EXCEPT ![p] = @ + 1]
    /\ refs' = [refs EXCEPT ![p] = @ + 1]
    /\ UNCHANGED <<made, free_, fflag, uid, owned>>

(* setdata(): replaces the data and deletes what was there. *)
setdata(p) ==
    /\ Held(p)
    /\ \E o \in Object \ heap : /\ data' = [data EXCEPT ![p] = o]
                                /\ heap' = (heap \ {data[p]}) \union {o}
    /\ UNCHANGED <<made, free_, fflag, ref_count, uid, options, refs>>

(* A DCCP agent hangs options into the header of its packet. *)
SetOptions(p) ==
    /\ Held(p) /\ options[p] = NoObject
    /\ \E o \in Object \ heap : /\ options' = [options EXCEPT ![p] = o]
                                /\ heap' = heap \union {o}
    /\ UNCHANGED <<made, free_, fflag, ref_count, uid, data, refs>>

(* Mutation: the header is copied, with the pointer in it. *)
copy_shallow(p, q) ==
    /\ Held(p) /\ Take(q)
    /\ options' = [options EXCEPT ![q] = options[p]]
    /\ \E d \in (Object \ heap) \union {NoObject} :
          /\ d = NoObject <=> data[p] = NoObject
          /\ data' = [data EXCEPT ![q] = d]
          /\ heap' = heap \union ({d} \ {NoObject})

(* copy(): a new packet with the same header and copies of what the old one
   owns.                                                                    *)
copy(p, q) ==
    /\ Held(p) /\ Take(q)
    /\ \E o, d \in (Object \ heap) \union {NoObject} :
          /\ o = NoObject <=> options[p] = NoObject
          /\ d = NoObject <=> data[p] = NoObject
          /\ o = d => o = NoObject
          /\ options' = [options EXCEPT ![q] = o]
          /\ data' = [data EXCEPT ![q] = d]
          /\ heap' = heap \union ({o, d} \ {NoObject})

-----------------------------------------------------------------------------
(* Packet::free                                                             *)

(* Mutations: every reference frees the packet; one too many is needed; the
   data is kept.                                                            *)
Release_always(p) == TRUE
Release_late(p) == ref_count[p] < 0
Delete_options(p) ==
    /\ heap' = heap \ {options[p]}
    /\ options' = [options EXCEPT ![p] = NoObject]
    /\ UNCHANGED data

(* This was the last reference. *)
Release(p) == ref_count[p] = 0

Delete(p) ==
    /\ heap' = heap \ {options[p], data[p]}
    /\ options' = [options EXCEPT ![p] = NoObject]
    /\ data' = [data EXCEPT ![p] = NoObject]

(* Mutation: a packet that is on the list is put there again. *)
freeAgain_relinks(p) ==
    /\ p \in made /\ ~fflag[p]
    /\ free_' = <<p>> \o free_
    /\ UNCHANGED <<made, fflag, ref_count, uid, owned, refs>>

(* On a packet on the free list: fflag_ is false, nothing happens. *)
freeAgain(p) == p \in made /\ ~fflag[p] /\ UNCHANGED vars

(* By a client that holds a reference. *)
free(p) ==
    /\ Held(p) /\ fflag[p]
    /\ refs' = [refs EXCEPT ![p] = @ - 1]
    /\ IF Release(p)
       THEN /\ Delete(p)
            /\ free_' = <<p>> \o free_
            /\ fflag' = [fflag EXCEPT ![p] = FALSE]
            /\ UNCHANGED ref_count
       ELSE /\ ref_count' = [ref_count EXCEPT ![p] = @ - 1]
            /\ UNCHANGED <<free_, fflag, owned>>
    /\ UNCHANGED <<made, uid>>

-----------------------------------------------------------------------------
(* The scheduler takes a reference over and hands it to a handler later.    *)

schedule(p) ==
    /\ Held(p) /\ ~Pending(p)
    /\ uid' = [uid EXCEPT ![p] = 1]
    /\ UNCHANGED <<made, free_, fflag, ref_count, owned, refs>>

dispatch(p) ==
    /\ Pending(p)
    /\ uid' = [uid EXCEPT ![p] = -1]
    /\ UNCHANGED <<made, free_, fflag, ref_count, owned, refs>>

Next ==
    \E p \in Packet :
        \/ alloc(p) \/ allocWithData(p) \/ refcopy(p) \/ setdata(p)
        \/ SetOptions(p) \/ free(p) \/ freeAgain(p) \/ schedule(p) \/ dispatch(p)
        \/ \E q \in Packet : copy(p, q)

Spec == Init /\ [][Next]_vars

-----------------------------------------------------------------------------
(* Properties.                                                              *)

TypeOK ==
    /\ made \subseteq Packet
    /\ free_ \in Seq(made)
    /\ fflag \in [Packet -> BOOLEAN]
    /\ ref_count \in [Packet -> Nat]
    /\ uid \in [Packet -> {-1, 0, 1}]
    /\ options \in [Packet -> Object \union {NoObject}]
    /\ data \in [Packet -> Object \union {NoObject}]
    /\ heap \subseteq Object
    /\ refs \in [Packet -> Nat]

(* A packet is in use while somebody holds a reference, and ref_count_ is one
   less than the references: so the last free, and no other, releases it.   *)
CountsReferences ==
    \A p \in Packet : /\ fflag[p] <=> refs[p] > 0
                      /\ ref_count[p] = (IF fflag[p] THEN refs[p] - 1 ELSE 0)

(* The free list has every packet that nobody uses, each once: the next_
   pointers make no cycle and no packet is given to two clients.            *)
FreeListSound ==
    /\ \A p \in made : InPool(p) <=> ~fflag[p]
    /\ \A i, j \in 1 .. Len(free_) : free_[i] = free_[j] => i = j

(* Every heap object belongs to one packet in use, in one place: nothing
   leaks and nothing is deleted twice, whatever was copied or replaced.     *)
OwnedOnce ==
    LET slots == Packet \X {"options", "data"}
        At(s) == IF s[2] = "options" THEN options[s[1]] ELSE data[s[1]]
    IN  /\ heap = {At(s) : s \in slots} \ {NoObject}
        /\ \A s, t \in slots : At(s) = At(t) /\ At(s) # NoObject => s = t
        /\ \A s \in slots : At(s) # NoObject => fflag[s[1]]

(* The assertions of alloc and free: a packet on the free list has no data
   and is no pending event, as an event that is pending has a reference.    *)
AssertionsHold ==
    \A p \in Packet : /\ InPool(p) => data[p] = NoObject /\ ~fflag[p]
                      /\ Held(p) /\ Release(p) => ~Pending(p)

(* One holder of a shared packet gives it back without disturbing what the
   others see.                                                              *)
SharedUntouched ==
    [][\A p \in Packet : refs'[p] < refs[p] /\ refs'[p] > 0
          => fflag'[p] /\ options'[p] = options[p] /\ data'[p] = data[p]]_vars

=============================================================================
