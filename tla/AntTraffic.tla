----------------------------- MODULE AntTraffic -----------------------------
(***************************************************************************)
(* Trip times (AntNet/antnet.cc): memorize notes in an ant's memory how    *)
(* long it took to every node, and when it cuts out a loop it shifts the   *)
(* times of the nodes it keeps; update_traffic turns the memory of a       *)
(* backward ant into samples, best and mean trip times at a node.          *)
(*                                                                         *)
(* The agents build and carry the trip times, but none calls               *)
(* update_traffic; here every node on the way back does, which is where    *)
(* update_table is called.  Variances, and the factor that update_traffic  *)
(* computes from them, are left out: what that factor needs to be between  *)
(* 0 and 1 is FactorSound.                                                 *)
(***************************************************************************)
EXTENDS Integers, Sequences, FiniteSets

CONSTANTS
    Node,        \* addresses
    Link,        \* the links, as two-element sets of nodes
    Source,      \* the node that launches the ants
    Target,      \* their destination
    Delay,       \* how long a hop may take, in ticks
    Scale,       \* a mean trip time of one tick, in fixed point
    Weight,      \* one over VARSIGMA
    MaxHops,     \* bound on the hops of a walk
    MaxAnts      \* bound on the ants

ASSUME TripAssumption ==
    /\ Link \subseteq SUBSET Node /\ {Source, Target} \subseteq Node /\ Source # Target
    /\ Delay \subseteq Nat \ {0} /\ Scale \in Nat \ {0} /\ Weight \in Nat \ {0}
    /\ MaxHops \in Nat /\ MaxAnts \in Nat

VARIABLES
    ants,      \* ants launched so far
    walk,      \* history: every arrival of the ant, with the time since launch
    mem,       \* pkt_memory_
    back,      \* the place of mem the backward ant goes to; 0 is "forward"
    window,    \* window_ of every agent: the samples for every destination
    traffic    \* state_ of every agent: best_tt and mean_tt for every destination

vars == <<ants, walk, mem, back, window, traffic>>

Stop == [node : Node, time : Nat]

Idle == walk = <<>>
At   == walk[Len(walk)]

Visited(m, x) == \E i \in 1 .. Len(m) : m[i].node = x
First(m, x)   == CHOOSE i \in 1 .. Len(m) :
                    m[i].node = x /\ \A j \in 1 .. i - 1 : m[j].node # x

(* Mutation: the times of the kept nodes are not shifted. *)
memorize_unshifted(m, x, time) ==
    IF Visited(m, x) THEN SubSeq(m, 1, First(m, x))
    ELSE Append(m, [node |-> x, time |-> time])

(* A loop is cut out, and the time it took goes to all nodes before it. *)
memorize(m, x, time) ==
    IF Visited(m, x)
    THEN LET i == First(m, x)
         IN  [j \in 1 .. i |-> [m[j] EXCEPT !.time = @ + (time - m[i].time)]]
    ELSE Append(m, [node |-> x, time |-> time])

-----------------------------------------------------------------------------
NoTraffic == [best |-> 0, mean |-> 0]

Least(s) == CHOOSE t \in {s[i] : i \in 1 .. Len(s)} : \A i \in 1 .. Len(s) : t <= s[i]

(* Mutations: trip times are counted from the launch; the best is the first. *)
Sample_absolute(x, d) == mem[First(mem, d)].time
best_kept(s) == s[1]

(* How long the ant took from x to d. *)
Sample(x, d) == mem[First(mem, d)].time - mem[First(mem, x)].time

best(s) == Least(s)

(* The destinations that an ant with this memory teaches a node. *)
Beyond(x) == {mem[k].node : k \in First(mem, x) + 1 .. Len(mem)}

(* An exponential mean. *)
mean(old, tt) == old + (tt * Scale - old) \div Weight

update_traffic(x) ==
    /\ window' = [window EXCEPT ![x] =
          [d \in Node |-> IF d \in Beyond(x) THEN Append(@[d], Sample(x, d)) ELSE @[d]]]
    /\ traffic' = [traffic EXCEPT ![x] =
          [d \in Node |->
              IF d \notin Beyond(x) THEN @[d]
              ELSE [best |-> best(Append(window[x][d], Sample(x, d))),
                    mean |-> IF window[x][d] = <<>> THEN Sample(x, d) * Scale
                             ELSE mean(@[d].mean, Sample(x, d))]]]

-----------------------------------------------------------------------------
Init ==
    /\ ants = 0
    /\ walk = <<>> /\ mem = <<>> /\ back = 0
    /\ window = [x \in Node |-> [d \in Node |-> <<>>]]
    /\ traffic = [x \in Node |-> [d \in Node |-> NoTraffic]]

(* send_ant_pkt *)
Launch ==
    /\ Idle /\ ants < MaxAnts
    /\ ants' = ants + 1
    /\ walk' = <<[node |-> Source, time |-> 0]>>
    /\ mem' = walk'
    /\ UNCHANGED <<back, window, traffic>>

(* A forward ant comes to a neighbour that it did not come from; at the
   destination it turns.                                                    *)
Hop(x, delay) ==
    /\ ~Idle /\ back = 0 /\ Len(walk) <= MaxHops
    /\ {At.node, x} \in Link /\ x # At.node
    /\ Len(walk) > 1 => x # walk[Len(walk) - 1].node
    /\ walk' = Append(walk, [node |-> x, time |-> At.time + delay])
    /\ mem' = memorize(mem, x, At.time + delay)
    /\ back' = IF x = Target THEN Len(mem') - 1 ELSE 0
    /\ UNCHANGED <<ants, window, traffic>>

(* A backward ant comes to the next node of its memory. *)
Teach ==
    /\ back > 0
    /\ update_traffic(mem[back].node)
    /\ back' = back - 1
    /\ IF back = 1 THEN walk' = <<>> /\ mem' = <<>> ELSE UNCHANGED <<walk, mem>>
    /\ UNCHANGED ants

(* The ant is dropped at a full queue or runs out of hops. *)
Lose ==
    /\ ~Idle
    /\ walk' = <<>> /\ mem' = <<>> /\ back' = 0
    /\ UNCHANGED <<ants, window, traffic>>

Next ==
    \/ Launch
    \/ \E x \in Node, delay \in Delay : Hop(x, delay)
    \/ Teach
    \/ Lose

Spec == Init /\ [][Next]_vars

-----------------------------------------------------------------------------
(* Properties.                                                              *)

(* The last of the walk's stops at a node, and how long the hop from the i-th
   remembered node took on which the ant left it for the last time.         *)
LastStop(x) == CHOOSE k \in 1 .. Len(walk) :
                  walk[k].node = x /\ \A j \in k + 1 .. Len(walk) : walk[j].node # x

HopTime(i) == walk[LastStop(mem[i].node) + 1].time - walk[LastStop(mem[i].node)].time

(* Between neighbours in the memory lies exactly the time of the hop on which
   the ant left the first of them for the last time, however many loops were
   cut out before and after, and the last time is the age of the ant.       *)
TimesAreHops ==
    ~Idle =>
        /\ mem[Len(mem)] = At
        /\ \A i \in 1 .. Len(mem) - 1 :
              /\ mem[i + 1].node = walk[LastStop(mem[i].node) + 1].node
              /\ mem[i + 1].time - mem[i].time = HopTime(i)

(* Once an ant has taught a part of its path, its nodes were told the trip
   times of that path, without the loops of the walk: for the next node the
   time of the hop there, and for one further off the sum of the hops.      *)
SamplesAddUp ==
    LET told(i, j) == LET s == window[mem[i].node][mem[j].node] IN s[Len(s)]
    IN  back > 0 =>
            /\ \A i \in back + 1 .. Len(mem) - 1 : told(i, i + 1) = HopTime(i)
            /\ \A i, j, k \in back + 1 .. Len(mem) :
                  i < j /\ j < k => told(i, k) = told(i, j) + told(j, k)

(* No sample and no mean is below the best trip time, and no trip time is 0:
   the ratios in update_traffic divide by no zero and stay between 0 and 1. *)
FactorSound ==
    \A x, d \in Node : \A i \in 1 .. Len(window[x][d]) :
        LET best_tt == traffic[x][d].best
        IN  0 < best_tt /\ best_tt <= window[x][d][i] /\ best_tt * Scale <= traffic[x][d].mean

=============================================================================
