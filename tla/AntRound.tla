------------------------------ MODULE AntRound ------------------------------
(***************************************************************************)
(* What the exchange of ants promises, without packets, hops or walks.  An *)
(* ant finds a simple path of the topology; the nodes of the path learn    *)
(* from it one by one, from the last but one back to the first, each once; *)
(* then the round is over.  A round may be lost at any point, also by the  *)
(* step in which a node learns, and what the nodes behind that point       *)
(* learnt stays.                                                           *)
(***************************************************************************)
EXTENDS Integers, Sequences, FiniteSets

CONSTANTS Node, Dest, Link, Ant

VARIABLES
    table,    \* node -> destination -> sequence of [neighbor, phvalue]
    route     \* ant -> the path it found and the place of the next to learn

NoRoute == [path |-> <<>>, pos |-> 0]

(* A simple path of at least one link. *)
IsPath(q) ==
    /\ Len(q) > 1
    /\ \A i, j \in 1 .. Len(q) : q[i] = q[j] => i = j
    /\ \A i \in 1 .. Len(q) - 1 : {q[i], q[i+1]} \in Link

(* The entry of y gains in new over old, every other entry loses or stays. *)
Favours(old, new, y) ==
    /\ Len(new) = Len(old)
    /\ \A k \in 1 .. Len(old) :
          /\ new[k].neighbor = old[k].neighbor
          /\ IF old[k].neighbor = y THEN new[k].phvalue >= old[k].phvalue
                                    ELSE new[k].phvalue <= old[k].phvalue

OthersKeep(a) == \A b \in Ant \ {a} : route'[b] = route[b]

Init ==
    /\ table = [n \in Node |-> [d \in Dest |-> <<>>]]
    /\ route = [a \in Ant |-> NoRoute]

(* A node adds entries behind those its rows already have. *)
Extend(n) ==
    /\ \A m \in Node \ {n} : table'[m] = table[m]
    /\ \A d \in Dest : /\ Len(table'[n][d]) >= Len(table[n][d])
                       /\ \A k \in 1 .. Len(table[n][d]) : table'[n][d][k] = table[n][d][k]
    /\ UNCHANGED route

(* An ant has found a path; the last node but one learns first. *)
Find(a) ==
    /\ route[a] = NoRoute
    /\ IsPath(route'[a].path)
    /\ route'[a].pos = Len(route'[a].path) - 1
    /\ OthersKeep(a)
    /\ UNCHANGED table

(* The node whose turn it is favours the next node of the path, for every
   destination on the rest of the path and no other.                        *)
Learn(a) ==
    LET q   == route[a].path
        pos == route[a].pos
        x   == q[pos]
    IN  /\ route[a] # NoRoute
        /\ \A m \in Node \ {x} : table'[m] = table[m]
        /\ \A d \in Dest :
              IF \E k \in pos + 1 .. Len(q) : q[k] = d
              THEN Favours(table[x][d], table'[x][d], q[pos + 1])
              ELSE table'[x][d] = table[x][d]
        /\ route'[a] \in {NoRoute} \union (IF pos = 1 THEN {} ELSE {[path |-> q, pos |-> pos - 1]})
        /\ OthersKeep(a)

Lost(a) ==
    /\ route'[a] = NoRoute
    /\ OthersKeep(a)
    /\ UNCHANGED table

Next == \/ \E n \in Node : Extend(n)
        \/ \E a \in Ant : Find(a) \/ Learn(a) \/ Lost(a)

Spec == Init /\ [][Next]_<<table, route>>

=============================================================================
