----------------------------- MODULE PacketInfo -----------------------------
(***************************************************************************)
(* Packet types (Ns2.35Files/packet.h): the table of their names, which    *)
(* grows when a module registers a type at run time, and the chain of      *)
(* classifiers that tell routing packets from data.                        *)
(*                                                                         *)
(* The 74 built-in types are scaled down; PT_SMAC is the last one whose    *)
(* name initName does not copy when the table grows.                       *)
(*                                                                         *)
(* PT_NTYPE is static in the header: every source file has a copy of its   *)
(* own.  addPacket is in packet.cc and raises that file's copy.  initName  *)
(* and getType are inline functions; which copy a call of them reads       *)
(* depends on whether it is inlined and which definition the linker keeps. *)
(***************************************************************************)
EXTENDS Integers, Sequences, FiniteSets

CONSTANTS
    Builtin,      \* number of built-in types, PT_NTYPE at first
    PT_SMAC,      \* a built-in type
    Name,         \* names that modules register
    Classifier,   \* classifier objects
    Null,         \* no classifier
    Known,        \* the classes that p_info::classify knows of itself
    Knows,        \* what a classifier's getClass says
    File,         \* the source files that include the header
    Lib,          \* packet.cc, the file of addPacket
    MaxTypes      \* bound on the types, built-in and registered

Types    == 0 .. MaxTypes
Class    == {"UNCLASSIFIED", "ROUTING", "DATApkt"}

ASSUME TypesAssumption ==
    /\ Builtin \in Nat \ {0} /\ PT_SMAC \in 0 .. Builtin - 1
    /\ Lib \in File /\ MaxTypes \in Nat /\ Builtin <= MaxTypes
    /\ Null \notin Classifier /\ IsFiniteSet(Classifier)
    /\ Known \in [Types -> Class] /\ Knows \in [Classifier -> [Types -> Class]]

(* The built-in names are represented by their types; modules register others. *)
ASSUME NamesAssumption == Name \cap Int = {}

VARIABLES
    PT_NTYPE,     \* file -> its copy of the type after the last
    initCopy,     \* the file whose copy initName reads for addPacket
    given,        \* the names registered so far, in order
    nPkt_,        \* entries of the table
    name_,        \* the table
    pc_,          \* the classifier to ask first
    next_,        \* the one to ask after each
    registered    \* the classifiers that have been added

vars == <<PT_NTYPE, initCopy, given, nPkt_, name_, pc_, next_, registered>>

(* Two entries that are no names. *)
Undefined == -1
Garbage   == -2

-----------------------------------------------------------------------------
(* Mutation: the names that modules registered are not copied. *)
named_anew(ntype) ==
    [i \in 0 .. ntype |-> IF i = ntype THEN Undefined
                          ELSE IF i < Builtin THEN i ELSE Garbage]

(* The table that initName builds for ntype types: entries above PT_SMAC are
   copied from the old one, then the built-in types are named (a built-in
   type stands for its name) and the last entry is "undefined".             *)
named(ntype) ==
    [i \in 0 .. ntype |->
        IF i = ntype THEN Undefined
        ELSE IF i < Builtin THEN i
        ELSE IF i > PT_SMAC /\ i < nPkt_ THEN name_[i]
        ELSE Garbage]

(* The first type with a name; the copy of PT_NTYPE in f, whose copy the call
   reads, if there is none.                                                 *)
getType(nm, f) ==
    LET found == {i \in 0 .. nPkt_ - 1 : name_[i] = nm}
    IN  IF found = {} THEN PT_NTYPE[f] ELSE CHOOSE i \in found : \A j \in found : i <= j

classify(type) ==
    LET ask[n \in 0 .. Cardinality(Classifier)] ==
            [pc \in Classifier \union {Null} |->
                IF pc = Null \/ n = 0 THEN "UNCLASSIFIED"
                ELSE IF Knows[pc][type] # "UNCLASSIFIED" THEN Knows[pc][type]
                ELSE ask[n - 1][next_[pc]]]
    IN  IF Known[type] # "UNCLASSIFIED" THEN Known[type]
        ELSE ask[Cardinality(Classifier)][pc_]

-----------------------------------------------------------------------------
(* The static packet_info has called initName on an empty table. *)
Init ==
    /\ PT_NTYPE = [f \in File |-> Builtin]
    /\ initCopy \in File
    /\ given = <<>>
    /\ nPkt_ = Builtin + 1
    /\ name_ = [i \in 0 .. Builtin |-> IF i = Builtin THEN Undefined ELSE i]
    /\ pc_ = Null
    /\ next_ = [c \in Classifier |-> Null]
    /\ registered = {}

(* addPacket: packet.cc has one more type; initName makes room, if the copy
   it reads says that there is too little; the name goes in, or is written
   beyond the table.  Nothing keeps a name from being registered twice.     *)
addPacket(nm) ==
    /\ PT_NTYPE[Lib] < MaxTypes
    /\ PT_NTYPE' = [PT_NTYPE EXCEPT ![Lib] = @ + 1]
    /\ LET last  == PT_NTYPE'[initCopy]
           grows == nPkt_ < last + 1
       IN  /\ nPkt_' = IF grows THEN last + 1 ELSE nPkt_
           /\ name_' = [i \in 0 .. nPkt_' - 1 |->
                           IF i = PT_NTYPE[Lib] THEN nm
                           ELSE IF grows THEN named(last)[i] ELSE name_[i]]
    /\ given' = Append(given, nm)
    /\ UNCHANGED <<initCopy, pc_, next_, registered>>

(* Mutation: the new classifier forgets the older ones. *)
addPacketClassifier_alone(pc) ==
    /\ pc \notin registered
    /\ next_' = [next_ EXCEPT ![pc] = Null]
    /\ pc_' = pc
    /\ registered' = registered \union {pc}
    /\ UNCHANGED <<PT_NTYPE, initCopy, given, nPkt_, name_>>

(* The new classifier is asked first.  One that is added twice would be its
   own successor.                                                           *)
addPacketClassifier(pc) ==
    /\ pc \notin registered
    /\ next_' = [next_ EXCEPT ![pc] = pc_]
    /\ pc_' = pc
    /\ registered' = registered \union {pc}
    /\ UNCHANGED <<PT_NTYPE, initCopy, given, nPkt_, name_>>

Next ==
    \/ \E nm \in Name : addPacket(nm)
    \/ \E pc \in Classifier : addPacketClassifier(pc)

Spec == Init /\ [][Next]_vars

-----------------------------------------------------------------------------
(* Properties.                                                              *)

Unknown(nm) == \A i \in 1 .. Len(given) : given[i] # nm

(* Where initName reads the copy that addPacket raises, every built-in type
   and every registered one is found by its name, in every file and however
   often the table has grown since; of a name that was registered twice, the
   first type.  packet.cc itself finds a name nobody registered nowhere.    *)
NamesRoundTrip ==
    initCopy = Lib =>
        /\ \A f \in File : \A t \in 0 .. Builtin - 1 : getType(t, f) = t
        /\ \A f \in File : \A i \in 1 .. Len(given) :
              (\A j \in 1 .. i - 1 : given[j] # given[i])
              => getType(given[i], f) = Builtin + i - 1
        /\ \A nm \in Name : Unknown(nm) => getType(nm, Lib) = Builtin + Len(given)

(* "This MUST be the LAST one": what a file takes for the type after the last,
   and getType returns for a name nobody registered, is no registered type,
   where initName reads the copy that addPacket raises.                     *)
LastOne ==
    initCopy = Lib =>
        \A nm \in Name, f \in File : Unknown(nm) => getType(nm, f) >= Builtin + Len(given)

(* A type that some registered classifier knows is classified: no classifier
   is cut off by those added after it.                                      *)
AllAsked ==
    \A t \in Types, c \in registered :
        Knows[c][t] # "UNCLASSIFIED" => classify(t) # "UNCLASSIFIED"

=============================================================================
