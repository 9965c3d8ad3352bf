-------------------------- MODULE MidiInputProofs --------------------------
(***************************************************************************)
(* Proofs about MidiInput: the list of parameters that the wrapper builds, *)
(* and what processMidiInputs makes of a block, whatever the tree of the   *)
(* plugin and the blocks of the host are.                                  *)
(*                                                                         *)
(* The order of a tree's parameters is a recursive function of the tree,   *)
(* so that the theorems about the list take it as an argument; JuceOrder   *)
(* says what it is.                                                        *)
(***************************************************************************)
EXTENDS MidiInput, SetInduction, SequenceTheorems, TLAPS

(***************************************************************************)
(* The walk over the tree.                                                 *)
(***************************************************************************)

Nodes(forests) == [index : Nat \cup {-1}, nodes : forests]

\* A forest that is not empty is a node and a forest.
LEMMA FirstNode ==
  ASSUME NEW forests, NEW order, JuceOrder(forests, order),
         NEW w \in forests, w # <<>>
  PROVE  /\ w \in Seq(Nodes(forests)) /\ Tail(w) \in forests
         /\ Head(w) \in Nodes(forests)
         /\ w = <<Head(w)>> \o Tail(w)
         /\ Len(Tail(w)) \in Nat /\ Len(w) = Len(Tail(w)) + 1
<1>1. w \in Seq(Nodes(forests)) /\ Tail(w) \in forests
  BY DEF JuceOrder, Nodes
<1>2. QED BY <1>1, HeadTailProperties, LenProperties

LEMMA Associative ==
  ASSUME NEW s \in Seq(Nat), NEW t \in Seq(Nat), NEW u \in Seq(Nat)
  PROVE  (s \o t) \o u = s \o (t \o u)
BY ConcatAssociative, SMTT(30)

\* The order of two forests, one after the other.
Joins(order, a, b) == order[a \o b] = order[a] \o order[b]

LEMMA OrderOfBoth ==
  ASSUME NEW forests, NEW order, JuceOrder(forests, order),
         NEW a \in forests, NEW b \in forests, a \o b \in forests
  PROVE  Joins(order, a, b)
<1> DEFINE T == {n \in Nat : \A x \in forests : Len(x) = n /\ x \o b \in forests
                               => order[x \o b] = order[x] \o order[b]}
<1>1. 0 \in T
  <2> SUFFICES ASSUME NEW x \in forests, Len(x) = 0
               PROVE  order[x \o b] = order[x] \o order[b]
    OBVIOUS
  <2>1. x = <<>> /\ b \in Seq(Nodes(forests)) /\ order[b] \in Seq(Nat)
    <3>1. x \in Seq(Nodes(forests)) BY DEF JuceOrder, Nodes
    <3>2. QED BY <3>1, EmptySeq DEF JuceOrder, Nodes
  <2>2. x \o b = b /\ <<>> \o order[b] = order[b] BY <2>1, ConcatEmptySeq
  <2>3. QED BY <2>1, <2>2 DEF JuceOrder
<1>2. ASSUME NEW n \in Nat, n \in T PROVE n + 1 \in T
  <2>0. n + 1 \in Nat OBVIOUS
  <2> HIDE DEF T
  <2> SUFFICES ASSUME NEW x \in forests, Len(x) = n + 1, x \o b \in forests
               PROVE  order[x \o b] = order[x] \o order[b]
    BY <2>0, Zenon DEF T
  <2> DEFINE y == x \o b
  <2>1. /\ x # <<>> /\ x \in Seq(Nodes(forests)) /\ b \in Seq(Nodes(forests))
        /\ y \in forests
    <3>1. x \in Seq(Nodes(forests)) /\ b \in Seq(Nodes(forests))
      BY DEF JuceOrder, Nodes
    <3>2. QED BY <3>1, EmptySeq
  <2>2. /\ Tail(x) \in forests /\ Head(x) \in Nodes(forests)
        /\ x = <<Head(x)>> \o Tail(x) /\ Len(Tail(x)) = n
    BY <2>1, FirstNode
  <2>3. y # <<>> /\ Head(y) = Head(x) /\ Tail(y) = Tail(x) \o b
    BY <2>1, HeadTailProperties, ConcatProperties
  <2>4. Tail(y) \in forests BY <2>1, <2>3, FirstNode
  <2>5. order[Tail(y)] = order[Tail(x)] \o order[b]
    BY <1>2, <2>2, <2>3, <2>4 DEF T
  <2>6. /\ order[Tail(x)] \in Seq(Nat) /\ order[b] \in Seq(Nat)
        /\ Head(x).nodes \in forests
    BY <2>2 DEF JuceOrder, Nodes
  <2> HIDE DEF y
  <2>7. CASE Head(x).index = -1
    <3>1. order[y] = order[Head(x).nodes] \o order[Tail(y)]
      BY <2>1, <2>3, <2>7 DEF JuceOrder
    <3>2. order[x] = order[Head(x).nodes] \o order[Tail(x)]
      BY <2>1, <2>7 DEF JuceOrder
    <3>3. order[Head(x).nodes] \in Seq(Nat) BY <2>6 DEF JuceOrder
    <3>4. (order[Head(x).nodes] \o order[Tail(x)]) \o order[b]
            = order[Head(x).nodes] \o (order[Tail(x)] \o order[b])
      BY <2>6, <3>3, Associative
    <3>5. QED BY <2>5, <3>1, <3>2, <3>4 DEF y
  <2>8. CASE Head(x).index # -1
    <3>1. order[y] = <<Head(x).index>> \o order[Tail(y)]
      BY <2>1, <2>3, <2>8 DEF JuceOrder
    <3>2. order[x] = <<Head(x).index>> \o order[Tail(x)]
      BY <2>1, <2>8 DEF JuceOrder
    <3>3. <<Head(x).index>> \in Seq(Nat) BY <2>2, <2>8 DEF Nodes
    <3>4. (<<Head(x).index>> \o order[Tail(x)]) \o order[b]
            = <<Head(x).index>> \o (order[Tail(x)] \o order[b])
      BY <2>6, <3>3, Associative
    <3>5. QED BY <2>5, <3>1, <3>2, <3>4 DEF y
  <2>9. QED BY <2>7, <2>8
<1> HIDE DEF T
<1>3. Nat \subseteq T BY <1>1, <1>2, Induction
<1>4. Len(a) \in Nat
  <2>1. a \in Seq(Nodes(forests)) BY DEF JuceOrder, Nodes
  <2>2. QED BY <2>1, LenProperties
<1>5. QED BY <1>3, <1>4 DEF T, Joins

\* static_cast<int16_t>, of a number that is not negative.
Ids == -IdLimit..(IdLimit - 1)

LEMMA CastOf ==
  ASSUME NEW i \in Nat
  PROVE  /\ Cast(i) \in Ids
         /\ i < IdLimit => Cast(i) = i
         /\ IdLimit <= i /\ i < 2 * IdLimit => Cast(i) < 0
<1> DEFINE m == 2 * IdLimit
<1>1. IdLimit \in Nat \ {0} BY RegistryAssumption
<1>2. m \in Nat /\ m > 0 /\ m = IdLimit + IdLimit BY <1>1
<1>3. Cast(i) = ((i + IdLimit) % m) - IdLimit BY DEF Cast
<1> HIDE DEF m
<1>4. (i + IdLimit) % m \in 0..(m - 1) BY <1>1, <1>2
<1>5. i + IdLimit < m => (i + IdLimit) % m = i + IdLimit BY <1>1, <1>2
<1>6. m <= i + IdLimit /\ i < m => (i + IdLimit) % m = i + IdLimit - m
  BY <1>1, <1>2
<1>7. QED BY <1>1, <1>2, <1>3, <1>4, <1>5, <1>6 DEF Ids, m

\* The parameters that are registered or still to register.
Count(order) == Len(aapParams) + Len(order[work])

\* The list holds the parameters from 0 on; what is left of the tree has those
\* that follow, in this order.
RegistryInv(forests, order) ==
  /\ work \in forests /\ built \in BOOLEAN /\ classic \in Nat
  /\ IF tree = <<>> THEN work = <<>>
     ELSE classic = 0 /\ tree \in Trees /\ Count(order) = Len(order[tree])
  /\ built => work = <<>>
  /\ aapParams \in Seq(Ids)
  /\ \A k \in 1..Len(aapParams) : aapParams[k] = Cast(k - 1)
  /\ \A k \in 1..Len(order[work]) : order[work][k] = Len(aapParams) + k - 1

LEMMA RegistryInvInit ==
  ASSUME NEW forests, NEW order, JuceOrder(forests, order), NumberedBy(order)
  PROVE  RegistryInit => RegistryInv(forests, order)
<1> SUFFICES ASSUME RegistryInit PROVE RegistryInv(forests, order) OBVIOUS
<1>1. /\ work = tree /\ aapParams = <<>> /\ built = FALSE
      /\ \/ tree \in Trees /\ classic = 0
         \/ tree = <<>> /\ classic \in Classic
  BY DEF RegistryInit
<1>2. /\ work \in forests /\ classic \in Nat /\ order[<<>>] = <<>>
      /\ order[work] \in Seq(Nat)
  <2>1. /\ Trees \subseteq forests /\ <<>> \in forests /\ order[<<>>] = <<>>
        /\ order \in [forests -> Seq(Nat)]
    BY DEF JuceOrder
  <2>2. 0 \in Nat /\ Classic \subseteq Nat BY RegistryAssumption
  <2>3. work \in forests /\ classic \in Nat BY <1>1, <2>1, <2>2
  <2>4. QED BY <2>1, <2>3
<1>3. aapParams \in Seq(Ids) /\ Len(aapParams) = 0 BY <1>1, EmptySeq
<1>4. Len(order[work]) \in Nat /\ DOMAIN order[work] = 1..Len(order[work])
  BY <1>2, LenProperties
<1>5. ASSUME NEW k \in 1..Len(order[work])
      PROVE  order[work][k] = Len(aapParams) + k - 1
  <2>1. CASE tree \in Trees
    <3>1. order[work][k] = k - 1 BY <1>1, <1>4, <2>1 DEF NumberedBy
    <3>2. QED BY <1>3, <1>4, <3>1
  <2>2. CASE tree = <<>>
    <3>1. Len(order[work]) = 0 BY <1>1, <1>2, <2>2, EmptySeq
    <3>2. QED BY <3>1
  <2>3. QED BY <1>1, <2>1, <2>2
<1>6. Count(order) = Len(order[tree])
  <2> DEFINE n == Len(order[work])
  <2>1. Count(order) = 0 + n /\ n \in Nat BY <1>3, <1>4 DEF Count
  <2>2. Len(order[tree]) = n BY <1>1
  <2> HIDE DEF n
  <2>3. QED BY <2>1, <2>2
<1>7. IF tree = <<>> THEN work = <<>>
      ELSE classic = 0 /\ tree \in Trees /\ Count(order) = Len(order[tree])
  BY <1>1, <1>6
<1>8. aapParams \in Seq(Ids) /\ \A k \in 1..Len(aapParams) : aapParams[k] = Cast(k - 1)
  BY <1>3
<1>9. built \in BOOLEAN /\ (built => work = <<>>) BY <1>1
<1>10. QED BY <1>2, <1>5, <1>7, <1>8, <1>9, Zenon DEF RegistryInv

\* One node of the walk.
LEMMA RegistryInvNode ==
  ASSUME NEW forests, NEW order, JuceOrder(forests, order),
         RegistryInv(forests, order), RegisterNode
  PROVE  RegistryInv(forests, order)'
<1> DEFINE node == Head(work)
           rest == Tail(work)
<1>1. /\ work \in forests /\ work # <<>> /\ built \in BOOLEAN /\ classic \in Nat
      /\ tree # <<>> /\ classic = 0 /\ tree \in Trees
      /\ UNCHANGED <<tree, classic, built>>
      /\ (built => work = <<>>) /\ aapParams \in Seq(Ids)
  BY DEF RegistryInv, RegisterNode
<1>2. Count(order) = Len(order[tree]) BY <1>1 DEF RegistryInv
<1>3. /\ \A k \in 1..Len(aapParams) : aapParams[k] = Cast(k - 1)
      /\ \A k \in 1..Len(order[work]) : order[work][k] = Len(aapParams) + k - 1
  BY DEF RegistryInv
<1>4. /\ rest \in forests /\ node \in Nodes(forests)
  BY <1>1, FirstNode
<1>5. /\ order[work] \in Seq(Nat) /\ order[rest] \in Seq(Nat)
      /\ node.nodes \in forests /\ order[node.nodes] \in Seq(Nat)
  BY <1>1, <1>4 DEF JuceOrder, Nodes
<1>6. ~built BY <1>1
<1> HIDE DEF node, rest
<1>7. CASE node.index = -1
  <2>1. work' = node.nodes \o rest /\ UNCHANGED <<aapParams, enumIndex, aapEnums>>
    BY <1>7 DEF RegisterNode, OpenGroup, node, rest
  <2>2. /\ node.nodes \o rest \in forests
        /\ order[work] = order[node.nodes] \o order[rest]
    BY <1>1, <1>7 DEF JuceOrder, node, rest
  <2>3. order[node.nodes \o rest] = order[node.nodes] \o order[rest]
    <3> DEFINE inner == node.nodes
    <3>1. inner \in forests /\ inner \o rest \in forests BY <1>5, <2>2
    <3> HIDE DEF inner
    <3>2. Joins(order, inner, rest) BY <1>4, <3>1, OrderOfBoth
    <3>3. QED BY <3>2 DEF inner, Joins
  <2>4. order[work'] = order[work] /\ work' \in forests BY <2>1, <2>2, <2>3
  <2>5. Count(order)' = Len(order[tree]) BY <1>2, <2>1, <2>4 DEF Count
  <2>6. \A k \in 1..Len(order[work']) : order[work'][k] = Len(aapParams') + k - 1
    BY <1>3, <2>1, <2>4
  <2>7. QED BY <1>1, <1>3, <1>6, <2>1, <2>4, <2>5, <2>6 DEF RegistryInv
<1>8. CASE node.index # -1
  <2> DEFINE i == node.index
  <2>1. work' = rest /\ RegisterParameter(i)
    BY <1>8 DEF RegisterNode, node, rest
  <2>2. order[work] = <<i>> \o order[rest] /\ i \in Nat
    BY <1>1, <1>4, <1>8 DEF JuceOrder, Nodes, node, rest
  <2>3. aapParams' = Append(aapParams, Cast(i)) BY <2>1 DEF RegisterParameter
  <2> HIDE DEF i
  <2>4. /\ Len(order[work]) = Len(order[rest]) + 1 /\ order[work][1] = i
        /\ \A k \in 1..Len(order[rest]) : order[work][k + 1] = order[rest][k]
        /\ Len(order[rest]) \in Nat
    <3> DEFINE s == order[rest]
    <3>1. s \in Seq(Nat) /\ <<i>> \in Seq(Nat) /\ Len(<<i>>) = 1 /\ <<i>>[1] = i
      BY <1>5, <2>2
    <3> HIDE DEF s
    <3>2. /\ Len(<<i>> \o s) = Len(s) + 1 /\ (<<i>> \o s)[1] = i
          /\ \A k \in 1..Len(s) : (<<i>> \o s)[k + 1] = s[k]
          /\ Len(s) \in Nat
      BY <3>1, ConcatProperties, LenProperties
    <3>3. QED BY <2>2, <3>2 DEF s
  <2>5. Len(aapParams) \in Nat /\ Cast(i) \in Ids
    BY <1>1, <2>2, CastOf, LenProperties
  <2>6. /\ aapParams' \in Seq(Ids) /\ Len(aapParams') = Len(aapParams) + 1
        /\ aapParams'[Len(aapParams) + 1] = Cast(i)
        /\ \A k \in 1..Len(aapParams) : aapParams'[k] = aapParams[k]
    BY <1>1, <2>3, <2>5, AppendProperties
  <2>7. i = Len(aapParams) BY <1>3, <2>4, <2>5
  <2>8. ASSUME NEW k \in 1..Len(aapParams')
        PROVE  aapParams'[k] = Cast(k - 1)
    <3>1. CASE k = Len(aapParams) + 1
      <4>1. k - 1 = i BY <2>5, <2>7, <3>1
      <4>2. QED BY <2>6, <3>1, <4>1
    <3>2. CASE k # Len(aapParams) + 1
      <4>1. k \in 1..Len(aapParams) BY <2>5, <2>6, <3>2
      <4>2. QED BY <1>3, <2>6, <4>1
    <3>3. QED BY <3>1, <3>2
  <2>9. ASSUME NEW k \in 1..Len(order[rest])
        PROVE  order[rest][k] = Len(aapParams') + k - 1
    <3>1. k + 1 \in 1..Len(order[work]) BY <2>4
    <3>2. order[work][k + 1] = Len(aapParams) + (k + 1) - 1 BY <1>3, <3>1
    <3>3. QED BY <2>4, <2>5, <2>6, <3>2
  <2>10. Count(order)' = Len(order[tree])
    <3>1. Count(order)' = (Len(aapParams) + 1) + Len(order[rest])
      BY <2>1, <2>6 DEF Count
    <3>2. Count(order) = Len(aapParams) + (Len(order[rest]) + 1)
      BY <2>4 DEF Count
    <3> DEFINE m == Len(aapParams)
               n == Len(order[rest])
    <3>3. m \in Nat /\ n \in Nat BY <2>4, <2>5
    <3> HIDE DEF m, n
    <3>4. (m + 1) + n = m + (n + 1) BY <3>3
    <3>5. Count(order)' = Count(order) BY <3>1, <3>2, <3>4 DEF m, n
    <3>6. QED BY <1>2, <3>5
  <2>11. QED BY <1>1, <1>4, <1>6, <2>1, <2>6, <2>8, <2>9, <2>10 DEF RegistryInv
<1>9. QED BY <1>7, <1>8

LEMMA FunctionIsSeq ==
  ASSUME NEW S, NEW n \in Nat, NEW f \in [1..n -> S]
  PROVE  f \in Seq(S) /\ Len(f) = n
<1>1. f \in Seq(S) BY SeqDef
<1>2. QED BY <1>1, LenProperties

\* The end of the walk; the list of a classic plugin.
LEMMA RegistryInvBuilt ==
  ASSUME NEW forests, NEW order, JuceOrder(forests, order),
         RegistryInv(forests, order), ListBuilt
  PROVE  RegistryInv(forests, order)'
<1> DEFINE list == [i \in 1..classic |-> Cast(i - 1)]
<1>1. /\ work = <<>> /\ work \in forests /\ classic \in Nat
      /\ (tree # <<>> => classic = 0 /\ tree \in Trees)
      /\ built' = TRUE /\ UNCHANGED <<tree, classic, work>>
      /\ aapParams \in Seq(Ids)
      /\ aapParams' = IF aapParams = <<>> THEN list ELSE aapParams
  BY DEF RegistryInv, ListBuilt
<1>2. tree # <<>> => Count(order) = Len(order[tree]) BY DEF RegistryInv
<1>3. /\ \A k \in 1..Len(aapParams) : aapParams[k] = Cast(k - 1)
      /\ \A k \in 1..Len(order[work]) : order[work][k] = Len(aapParams) + k - 1
  BY DEF RegistryInv
<1>4. /\ list \in Seq(Ids) /\ Len(list) = classic
      /\ \A k \in 1..Len(list) : list[k] = Cast(k - 1)
  <2>1. ASSUME NEW i \in 1..classic PROVE Cast(i - 1) \in Ids
    <3>1. i - 1 \in Nat BY <1>1
    <3>2. QED BY <3>1, CastOf
  <2>2. list \in [1..classic -> Ids] BY <2>1
  <2>3. \A k \in 1..classic : list[k] = Cast(k - 1) OBVIOUS
  <2> HIDE DEF list
  <2>4. list \in Seq(Ids) /\ Len(list) = classic BY <1>1, <2>2, FunctionIsSeq
  <2>5. QED BY <2>3, <2>4
<1> HIDE DEF list
<1>5. /\ aapParams' \in Seq(Ids)
      /\ \A k \in 1..Len(aapParams') : aapParams'[k] = Cast(k - 1)
  <2>1. CASE aapParams = <<>> BY <1>1, <1>4, <2>1
  <2>2. CASE aapParams # <<>> BY <1>1, <1>3, <2>2
  <2>3. QED BY <2>1, <2>2
<1>6. /\ order[work] = <<>> /\ Len(order[work]) = 0
  BY <1>1 DEF JuceOrder
<1>7. tree # <<>> => Len(aapParams') = Len(aapParams)
  <2>1. ASSUME tree # <<>>, aapParams = <<>> PROVE Len(aapParams') = Len(aapParams)
    BY <1>1, <1>4, <2>1
  <2>2. QED BY <1>1, <2>1
<1>8. tree # <<>> => Count(order)' = Len(order[tree])
  BY <1>1, <1>2, <1>7 DEF Count
<1>9. IF tree' = <<>> THEN work' = <<>>
      ELSE classic' = 0 /\ tree' \in Trees /\ Count(order)' = Len(order[tree'])
  BY <1>1, <1>8, Zenon
<1>10. \A k \in 1..Len(order[work']) : order[work'][k] = Len(aapParams') + k - 1
  BY <1>1, <1>6
<1>11. work' \in forests /\ classic' \in Nat BY <1>1
<1>12. built' \in BOOLEAN /\ (built' => work' = <<>>) BY <1>1
<1>13. QED BY <1>5, <1>9, <1>10, <1>11, <1>12, Zenon DEF RegistryInv

LEMMA RegistryInvStep ==
  ASSUME NEW forests, NEW order, JuceOrder(forests, order)
  PROVE  RegistryInv(forests, order) /\ [Next]_vars => RegistryInv(forests, order)'
<1> SUFFICES ASSUME RegistryInv(forests, order), [Next]_vars
             PROVE  RegistryInv(forests, order)'
  OBVIOUS
<1>1. RegisterNode \/ ListBuilt \/ UNCHANGED registryVars
  BY DEF Next, Construct, ProcessMidiInputs, vars
<1>2. CASE RegisterNode BY <1>2, RegistryInvNode
<1>3. CASE ListBuilt BY <1>3, RegistryInvBuilt
<1>4. CASE UNCHANGED registryVars
  BY <1>4 DEF RegistryInv, registryVars, Count
<1>5. QED BY <1>1, <1>2, <1>3, <1>4

\* The walk over the groups finds the parameters in JUCE's order: the list of
\* every plugin gives each parameter the ID by which JUCE knows it, if int16_t
\* holds it.
THEOREM NumberedInOrder ==
  ASSUME NEW forests, NEW order, JuceOrder(forests, order), NumberedBy(order)
  PROVE  Spec => []ParametersNumbered
<1>1. Init => RegistryInv(forests, order) BY RegistryInvInit DEF Init
<1>2. RegistryInv(forests, order) /\ [Next]_vars => RegistryInv(forests, order)'
  BY RegistryInvStep
<1>3. RegistryInv(forests, order) => ParametersNumbered
  <2> SUFFICES ASSUME RegistryInv(forests, order), NEW k \in DOMAIN aapParams,
                      k - 1 < IdLimit
               PROVE  aapParams[k] = k - 1
    BY DEF ParametersNumbered
  <2>1. aapParams \in Seq(Ids) BY DEF RegistryInv
  <2>2. DOMAIN aapParams = 1..Len(aapParams) /\ Len(aapParams) \in Nat
    BY <2>1, LenProperties
  <2>3. k - 1 \in Nat BY <2>2
  <2>4. aapParams[k] = Cast(k - 1) BY <2>2 DEF RegistryInv
  <2>5. QED BY <2>3, <2>4, CastOf
<1>4. QED BY <1>1, <1>2, <1>3, PTL DEF Spec

(***************************************************************************)
(* The enumerations.                                                       *)
(***************************************************************************)

\* The next leaf is the next parameter.
LEMMA LeafIsNext ==
  ASSUME NEW forests, NEW order, JuceOrder(forests, order),
         RegistryInv(forests, order), work # <<>>, Head(work).index # -1
  PROVE  /\ Head(work).index = Len(aapParams) /\ Len(aapParams) \in Nat
         /\ tree \in Trees /\ Len(aapParams) < Len(order[tree])
         /\ Len(order[tree]) \in Nat /\ DOMAIN order[tree] = 1..Len(order[tree])
<1> DEFINE i == Head(work).index
           s == order[Tail(work)]
<1>1. /\ work \in forests /\ tree \in Trees /\ aapParams \in Seq(Ids)
      /\ \A k \in 1..Len(order[work]) : order[work][k] = Len(aapParams) + k - 1
  BY DEF RegistryInv
<1>2. Tail(work) \in forests /\ Head(work) \in Nodes(forests)
  BY <1>1, FirstNode
<1>3. i \in Nat /\ s \in Seq(Nat) /\ order[tree] \in Seq(Nat)
  BY <1>1, <1>2 DEF JuceOrder, Nodes
<1>4. order[work] = <<i>> \o s BY <1>1 DEF JuceOrder
<1>5. Len(aapParams) + Len(order[work]) = Len(order[tree])
  BY <1>1 DEF RegistryInv, Count
<1> HIDE DEF i, s
<1>6. <<i>> \in Seq(Nat) /\ Len(<<i>>) = 1 /\ <<i>>[1] = i BY <1>3
<1>7. Len(<<i>> \o s) = 1 + Len(s) /\ (<<i>> \o s)[1] = i /\ Len(s) \in Nat
  BY <1>3, <1>6, ConcatProperties, LenProperties
<1>8. Len(aapParams) \in Nat /\ Len(order[tree]) \in Nat
      /\ DOMAIN order[tree] = 1..Len(order[tree])
  BY <1>1, <1>3, LenProperties
<1>9. order[work][1] = Len(aapParams) + 1 - 1 BY <1>1, <1>4, <1>7
<1>10. i = Len(aapParams) BY <1>4, <1>7, <1>8, <1>9
<1>11. Len(aapParams) < Len(order[tree])
  <2> DEFINE m == Len(aapParams)
             n == Len(s)
             t == Len(order[tree])
  <2>1. m \in Nat /\ n \in Nat /\ t \in Nat /\ m + (1 + n) = t
    BY <1>4, <1>5, <1>7, <1>8
  <2> HIDE DEF m, n, t
  <2>2. m < t BY <2>1
  <2>3. QED BY <2>2 DEF m, t
<1>12. QED BY <1>1, <1>8, <1>10, <1>11 DEF i

\* The enumerations of a parameter begin behind index `at' of a list.
EnumsAt(id, at, enums) ==
  /\ at + Len(Names[id]) <= Len(enums)
  /\ \A k \in 1..Len(Names[id]) : enums[at + k] = <<id, Names[id][k]>>

\* Each registered parameter with names has its own entry, to its own names.
Enumerated(id, index, enums) ==
  \E e \in index : e[1] = id /\ EnumsAt(id, e[2], enums)

EnumInv ==
  /\ aapEnums \in Seq(Nat \X STRING) /\ enumIndex \subseteq Ids \X Nat
  /\ \A e, f \in enumIndex : e[1] = f[1] => e = f
  /\ tree # <<>> => \A id \in 0..(Len(aapParams) - 1) :
       id < IdLimit /\ Names[id] # <<>> => Enumerated(id, enumIndex, aapEnums)

\* Names that are added behind others leave these where they are.
LEMMA EnumsStay ==
  ASSUME NEW T, NEW s \in Seq(T), NEW t \in Seq(T), NEW id \in DOMAIN Names,
         NEW at \in Nat, EnumsAt(id, at, s)
  PROVE  EnumsAt(id, at, s \o t)
<1>1. Names[id] \in Seq(STRING) BY RegistryAssumption
<1>2. Len(Names[id]) \in Nat BY <1>1, LenProperties
<1> DEFINE n == Len(Names[id])
<1>3. at + n <= Len(s) /\ \A k \in 1..n : s[at + k] = <<id, Names[id][k]>>
  BY DEF EnumsAt
<1> HIDE DEF n
<1>4. /\ Len(s) \in Nat /\ Len(t) \in Nat /\ Len(s \o t) = Len(s) + Len(t)
      /\ \A k \in 1..Len(s) : (s \o t)[k] = s[k]
  BY ConcatProperties, LenProperties
<1>5. n \in Nat BY <1>2 DEF n
<1>6. at + n <= Len(s \o t) BY <1>3, <1>4, <1>5
<1>7. ASSUME NEW k \in 1..n PROVE (s \o t)[at + k] = <<id, Names[id][k]>>
  <2>1. at + k \in 1..Len(s) BY <1>3, <1>4, <1>5
  <2>2. QED BY <1>3, <1>4, <2>1
<1>8. QED BY <1>6, <1>7 DEF EnumsAt, n

\* What registerParameter adds.
LEMMA EnumsAdded ==
  ASSUME NEW i \in Nat, i \in DOMAIN Names, NEW s \in Seq(Nat \X STRING)
  PROVE  LET t == [k \in 1..Len(Names[i]) |-> <<i, Names[i][k]>>]
         IN  t \in Seq(Nat \X STRING) /\ EnumsAt(i, Len(s), s \o t)
<1> DEFINE n == Len(Names[i])
           t == [k \in 1..n |-> <<i, Names[i][k]>>]
<1>1. Names[i] \in Seq(STRING) BY RegistryAssumption
<1>2. n \in Nat /\ \A k \in 1..n : Names[i][k] \in STRING
  BY <1>1, LenProperties, ElementOfSeq
<1>3. t \in [1..n -> Nat \X STRING] /\ \A k \in 1..n : t[k] = <<i, Names[i][k]>>
  BY <1>2
<1> HIDE DEF n, t
<1>4. t \in Seq(Nat \X STRING) /\ Len(t) = n BY <1>2, <1>3, FunctionIsSeq
<1>5. /\ Len(s) \in Nat /\ Len(s \o t) = Len(s) + n
      /\ \A k \in 1..n : (s \o t)[Len(s) + k] = t[k]
  <2>1. /\ Len(s) \in Nat /\ Len(s \o t) = Len(s) + n
        /\ \A j \in 1..Len(s) + n :
             (s \o t)[j] = IF j <= Len(s) THEN s[j] ELSE t[j - Len(s)]
    BY <1>4, ConcatProperties, LenProperties
  <2>2. ASSUME NEW k \in 1..n PROVE (s \o t)[Len(s) + k] = t[k]
    <3> DEFINE j == Len(s) + k
    <3>1. j \in 1..Len(s) + n /\ ~(j <= Len(s)) /\ j - Len(s) = k
      BY <1>2, <2>1
    <3> HIDE DEF j
    <3>2. (s \o t)[j] = t[k] BY <2>1, <3>1
    <3>3. QED BY <3>2 DEF j
  <2>3. QED BY <2>1, <2>2
<1>6. Len(s) + n <= Len(s \o t) BY <1>2, <1>5
<1>7. \A k \in 1..n : (s \o t)[Len(s) + k] = <<i, Names[i][k]>> BY <1>3, <1>5
<1>8. EnumsAt(i, Len(s), s \o t) BY <1>6, <1>7 DEF EnumsAt, n
<1>9. QED BY <1>4, <1>8 DEF t, n

\* The step of registerParameter: its entry takes the place of none that is
\* asked for, since its ID is cut to none of theirs.
LEMMA EnumInvLeaf ==
  ASSUME EnumInv, NEW i \in Nat, i = Len(aapParams), i < 2 * IdLimit,
         \A n \in 0..i : n \in DOMAIN Names,
         aapParams \in Seq(Ids), tree # <<>>, tree' = tree, RegisterParameter(i)
  PROVE  EnumInv'
<1> DEFINE t == [k \in 1..Len(Names[i]) |-> <<i, Names[i][k]>>]
           new == <<Cast(i), Len(aapEnums)>>
<1>1. /\ aapEnums \in Seq(Nat \X STRING) /\ enumIndex \subseteq Ids \X Nat
      /\ \A e, f \in enumIndex : e[1] = f[1] => e = f
  BY DEF EnumInv
<1>2. \A id \in 0..(i - 1) : id < IdLimit /\ Names[id] # <<>>
                             => Enumerated(id, enumIndex, aapEnums)
  BY DEF EnumInv
<1>3. /\ aapParams' = Append(aapParams, Cast(i)) /\ aapEnums' = aapEnums \o t
      /\ enumIndex' = IF Names[i] = <<>> THEN enumIndex
                      ELSE {e \in enumIndex : e[1] # Cast(i)} \cup {new}
  BY DEF RegisterParameter, SetEnumIndex
<1>4. i \in DOMAIN Names OBVIOUS
<1>5. t \in Seq(Nat \X STRING) /\ EnumsAt(i, Len(aapEnums), aapEnums \o t)
  BY <1>1, <1>4, EnumsAdded
<1> HIDE DEF t
<1>6. aapEnums' \in Seq(Nat \X STRING) BY <1>1, <1>3, <1>5, ConcatProperties
<1>7. /\ IdLimit \in Nat \ {0} /\ Cast(i) \in Ids
      /\ i < IdLimit => Cast(i) = i
      /\ IdLimit <= i => Cast(i) < 0
  BY CastOf, RegistryAssumption
<1>8. Len(aapEnums) \in Nat BY <1>1, LenProperties
<1>9. /\ new \in Ids \X Nat /\ new[1] = Cast(i) /\ new[2] = Len(aapEnums)
  BY <1>7, <1>8
<1> HIDE DEF new
<1>10. enumIndex' \subseteq Ids \X Nat BY <1>1, <1>3, <1>9
<1>11. \A e, f \in enumIndex' : e[1] = f[1] => e = f BY <1>1, <1>3, <1>9
<1>12. Len(aapParams') = i + 1 BY <1>7, AppendProperties, <1>3
<1>13. ASSUME NEW id \in 0..i, id < IdLimit, Names[id] # <<>>
       PROVE  Enumerated(id, enumIndex', aapEnums')
  <2>1. CASE id = i
    <3>1. new \in enumIndex' /\ new[1] = id
      BY <1>3, <1>7, <1>9, <1>13, <2>1
    <3>2. EnumsAt(id, new[2], aapEnums') BY <1>3, <1>5, <1>9, <2>1
    <3>3. QED BY <3>1, <3>2 DEF Enumerated
  <2>2. CASE id # i
    <3>1. id \in 0..(i - 1) /\ id \in DOMAIN Names /\ id \in Nat BY <2>2
    <3>2. PICK e \in enumIndex : e[1] = id /\ EnumsAt(id, e[2], aapEnums)
      BY <1>2, <1>13, <3>1 DEF Enumerated
    <3>3. e[2] \in Nat BY <1>1
    <3>4. EnumsAt(id, e[2], aapEnums') BY <1>1, <1>3, <1>5, <3>1, <3>2, <3>3, EnumsStay
    <3>5. Cast(i) # id
      <4>1. CASE i < IdLimit BY <1>7, <2>2, <4>1
      <4>2. CASE IdLimit <= i BY <1>7, <3>1, <4>2 DEF Ids
      <4>3. QED BY <1>7, <4>1, <4>2
    <3>6. e \in enumIndex' BY <1>3, <3>2, <3>5
    <3>7. QED BY <3>2, <3>4, <3>6 DEF Enumerated
  <2>3. QED BY <2>1, <2>2
<1>14. 0..(Len(aapParams') - 1) = 0..i BY <1>12
<1>15. QED BY <1>6, <1>10, <1>11, <1>13, <1>14 DEF EnumInv

LEMMA EnumInvStep ==
  ASSUME NEW forests, NEW order, JuceOrder(forests, order), NumberedBy(order),
         FitsInt16(order)
  PROVE  RegistryInv(forests, order) /\ EnumInv /\ [Next]_vars => EnumInv'
<1> SUFFICES ASSUME RegistryInv(forests, order), EnumInv, [Next]_vars
             PROVE  EnumInv'
  OBVIOUS
<1>1. RegisterNode \/ ListBuilt \/ UNCHANGED registryVars
  BY DEF Next, Construct, ProcessMidiInputs, vars
<1>2. CASE RegisterNode
  <2>1. /\ work # <<>> /\ UNCHANGED <<tree, classic, built>>
        /\ IF Head(work).index = -1
           THEN UNCHANGED <<aapParams, enumIndex, aapEnums>>
           ELSE RegisterParameter(Head(work).index)
    BY <1>2 DEF RegisterNode
  <2>2. CASE Head(work).index = -1 BY <2>1, <2>2 DEF EnumInv
  <2>3. CASE Head(work).index # -1
    <3> DEFINE i == Head(work).index
    <3>1. /\ i = Len(aapParams) /\ i \in Nat /\ tree \in Trees
          /\ i < Len(order[tree]) /\ Len(order[tree]) \in Nat
          /\ DOMAIN order[tree] = 1..Len(order[tree])
      BY <2>1, <2>3, LeafIsNext
    <3>2. RegisterParameter(i) BY <2>1, <2>3
    <3> HIDE DEF i
    <3>3. IdLimit \in Nat /\ Len(order[tree]) <= 2 * IdLimit
      BY <3>1, RegistryAssumption DEF FitsInt16
    <3>4. i < 2 * IdLimit BY <3>1, <3>3
    <3>5. ASSUME NEW n \in 0..i PROVE n \in DOMAIN Names
      <4>1. n + 1 \in DOMAIN order[tree] /\ (n + 1) - 1 = n BY <3>1
      <4>2. QED BY <3>1, <4>1 DEF NumberedBy
    <3>6. aapParams \in Seq(Ids) /\ tree # <<>>
      BY <2>1 DEF RegistryInv
    <3>7. QED BY <2>1, <3>1, <3>2, <3>4, <3>5, <3>6, EnumInvLeaf
  <2>4. QED BY <2>2, <2>3
<1>3. CASE ListBuilt
  <2>1. UNCHANGED <<tree, work, enumIndex, aapEnums>> BY <1>3 DEF ListBuilt
  <2>2. RegistryInv(forests, order)' BY <1>3, RegistryInvBuilt
  <2>3. tree # <<>> => Len(aapParams') = Len(aapParams)
    <3> SUFFICES ASSUME tree # <<>> PROVE Len(aapParams') = Len(aapParams) OBVIOUS
    <3>1. Len(aapParams) + Len(order[work]) = Len(order[tree])
      BY DEF RegistryInv, Count
    <3>2. Len(aapParams') + Len(order[work]) = Len(order[tree])
      BY <2>1, <2>2 DEF RegistryInv, Count
    <3>3. /\ aapParams \in Seq(Ids) /\ aapParams' \in Seq(Ids)
          /\ work \in forests /\ order \in [forests -> Seq(Nat)]
      BY <2>2 DEF RegistryInv, JuceOrder
    <3> DEFINE l == Len(aapParams)
               m == Len(aapParams')
               n == Len(order[work])
    <3>4. l \in Nat /\ m \in Nat /\ n \in Nat /\ l + n = m + n
      BY <3>1, <3>2, <3>3, LenProperties
    <3> HIDE DEF l, m, n
    <3>5. l = m BY <3>4
    <3>6. QED BY <3>5 DEF l, m
  <2>4. QED BY <2>1, <2>3 DEF EnumInv
<1>4. CASE UNCHANGED registryVars BY <1>4 DEF EnumInv, registryVars
<1>5. QED BY <1>1, <1>2, <1>3, <1>4

\* Each parameter object is a parameter of the plugin.
LEMMA ObjectsKnown ==
  ASSUME NEW forests, NEW order, JuceOrder(forests, order), NumberedBy(order),
         RegistryInv(forests, order), NEW id, HasObject(id)
  PROVE  id \in DOMAIN Names
<1>1. tree # <<>> /\ id \in 0..(Len(aapParams) - 1) BY DEF HasObject, Objects
<1>2. /\ tree \in Trees /\ work \in forests /\ aapParams \in Seq(Ids)
      /\ Len(aapParams) + Len(order[work]) = Len(order[tree])
  BY <1>1 DEF RegistryInv, Count
<1>3. order[work] \in Seq(Nat) /\ order[tree] \in Seq(Nat)
  BY <1>2 DEF JuceOrder
<1> DEFINE m == Len(aapParams)
           n == Len(order[work])
           t == Len(order[tree])
<1>4. /\ m \in Nat /\ n \in Nat /\ t \in Nat /\ m + n = t
      /\ DOMAIN order[tree] = 1..t /\ id \in 0..(m - 1)
  BY <1>1, <1>2, <1>3, LenProperties
<1> HIDE DEF m, n, t
<1>5. id + 1 \in 1..t /\ (id + 1) - 1 = id BY <1>4
<1>6. QED BY <1>2, <1>4, <1>5 DEF NumberedBy

\* Whatever parameters without names and groups lie between, the number of an
\* enumeration of a parameter leads to this enumeration.
THEOREM EnumerationsFound ==
  ASSUME NEW forests, NEW order, JuceOrder(forests, order), NumberedBy(order),
         FitsInt16(order)
  PROVE  Spec => []EnumerationsRight
<1>1. Init => RegistryInv(forests, order) /\ EnumInv
  <2> SUFFICES ASSUME Init PROVE RegistryInv(forests, order) /\ EnumInv OBVIOUS
  <2>1. RegistryInv(forests, order) BY RegistryInvInit DEF Init
  <2>2. aapParams = <<>> /\ enumIndex = {} /\ aapEnums = <<>>
    BY DEF Init, RegistryInit
  <2>3. 0..(Len(aapParams) - 1) = {} /\ aapEnums \in Seq(Nat \X STRING)
    BY <2>2, EmptySeq
  <2>4. QED BY <2>1, <2>2, <2>3 DEF EnumInv
<1>2. RegistryInv(forests, order) /\ EnumInv /\ [Next]_vars
        => (RegistryInv(forests, order) /\ EnumInv)'
  BY RegistryInvStep, EnumInvStep
<1>3. RegistryInv(forests, order) /\ EnumInv => EnumerationsRight
  <2> SUFFICES ASSUME RegistryInv(forests, order), EnumInv,
                      NEW id \in 0..(NumParameters - 1), id < IdLimit,
                      NEW k \in 0..(GetAAPEnumerationCount(id) - 1)
               PROVE  /\ EnumIndex(id) + k + 1 \in DOMAIN aapEnums
                      /\ GetAAPEnumeration(id, k) = <<id, Names[id][k + 1]>>
    BY DEF EnumerationsRight
  <2>1. HasObject(id) /\ GetAAPEnumerationCount(id) = Len(Names[id])
    BY DEF GetAAPEnumerationCount
  <2>2. tree # <<>> /\ id \in 0..(Len(aapParams) - 1)
    BY <2>1 DEF HasObject, Objects
  <2>3. k \in 0..(Len(Names[id]) - 1) BY <2>1
  <2>4. id \in DOMAIN Names /\ Names[id] \in Seq(STRING)
    BY <2>1, ObjectsKnown, RegistryAssumption
  <2>5. Len(Names[id]) \in Nat BY <2>4, LenProperties
  <2>6. Names[id] # <<>>
    <3>1. Len(Names[id]) # 0 BY <2>3, <2>5
    <3>2. QED BY <2>4, <3>1, EmptySeq
  <2>7. Enumerated(id, enumIndex, aapEnums) BY <2>2, <2>6 DEF EnumInv
  <2>8. PICK e \in enumIndex : e[1] = id /\ EnumsAt(id, e[2], aapEnums)
    BY <2>7 DEF Enumerated
  <2>9. /\ \A f \in enumIndex : f[1] = id => f = e
        /\ e[2] \in Nat /\ aapEnums \in Seq(Nat \X STRING)
    BY <2>8 DEF EnumInv
  <2>10. EnumIndex(id) = e[2] BY <2>8, <2>9 DEF EnumIndex
  <2>11. GetAAPEnumeration(id, k) = aapEnums[e[2] + k + 1]
    BY <2>10 DEF GetAAPEnumeration
  <2> DEFINE at == e[2]
             n == Len(Names[id])
             m == Len(aapEnums)
  <2>12. /\ at \in Nat /\ n \in Nat /\ m \in Nat /\ at + n <= m
         /\ k \in 0..(n - 1) /\ DOMAIN aapEnums = 1..m
         /\ \A j \in 1..n : aapEnums[at + j] = <<id, Names[id][j]>>
    BY <2>3, <2>5, <2>8, <2>9, LenProperties DEF EnumsAt
  <2> HIDE DEF at, n, m
  <2>13. k + 1 \in 1..n /\ at + (k + 1) = at + k + 1 /\ at + k + 1 \in 1..m
    BY <2>12
  <2>14. aapEnums[at + k + 1] = <<id, Names[id][k + 1]>> BY <2>12, <2>13
  <2>15. QED BY <2>10, <2>11, <2>12, <2>13, <2>14 DEF at
<1>4. QED BY <1>1, <1>2, <1>3, PTL DEF Spec

(***************************************************************************)
(* The UMPs of a block.                                                    *)
(***************************************************************************)

ItemType == [umps : Seq(Ump), sysex : Seq(Seq(Nat)), at : Int]

\* f[n] is what the first n items of a block send.
Sends(seq, f) ==
  /\ f \in [0..Len(seq) -> Seq(Ump)] /\ f[0] = <<>>
  /\ \A n \in 1..Len(seq) : f[n] = f[n - 1] \o seq[n].umps

\* The recursive function in Umps exists, and is such.
LEMMA SendSteps ==
  ASSUME NEW seq \in Seq(ItemType)
  PROVE  \E f : Sends(seq, f) /\ Umps(seq) = f[Len(seq)]
<1> DEFINE N == Len(seq)
           A == Seq(Ump)
           step == [n \in 1..N |-> [s \in A |-> s \o seq[n].umps]]
           Is(f) == f = [n \in 0..N |-> IF n = 0 THEN <<>>
                                        ELSE f[n - 1] \o seq[n].umps]
           F == CHOOSE f : Is(f)
<1>1. N \in Nat /\ <<>> \in A BY LenProperties, EmptySeq
<1>2. \A n \in 1..N : seq[n].umps \in A
  <2>1. \A n \in 1..N : seq[n] \in ItemType BY <1>1, ElementOfSeq
  <2>2. QED BY <2>1 DEF ItemType
<1>3. \A n \in 1..N, s \in A : s \o seq[n].umps \in A
  BY <1>2, ConcatProperties
<1>4. step \in [1..N -> [A -> A]] BY <1>3
<1>5. \A n \in 1..N, s \in A : step[n][s] = s \o seq[n].umps OBVIOUS
<1>6. Umps(seq) = F[N] BY DEF Umps
<1>7. \A n \in 0..N : n # 0 => n \in 1..N /\ n - 1 \in 0..N BY <1>1
<1> HIDE DEF N, A, step
<1>8. PICK g \in [0..N -> A] : IteratesTo(g, N, <<>>, step)
  BY <1>1, <1>4, BoundedRecursion
<1>9. Is(g)
  <2>1. ASSUME NEW n \in 0..N
        PROVE  g[n] = IF n = 0 THEN <<>> ELSE g[n - 1] \o seq[n].umps
    <3>1. g[n] = IF n = 0 THEN <<>> ELSE step[n][g[n - 1]]
      BY <1>8, Zenon DEF IteratesTo
    <3>2. n # 0 => g[n - 1] \in A BY <1>7
    <3>3. QED BY <1>5, <1>7, <3>1, <3>2
  <2>2. QED BY <2>1, Zenon
<1>10. Is(F) BY <1>9
<1> HIDE DEF F
<1>11. \A n \in 0..N : F[n] = IF n = 0 THEN <<>> ELSE F[n - 1] \o seq[n].umps
  BY <1>10
<1>12. F[0] = <<>> /\ \A n \in 1..N : F[n] = F[n - 1] \o seq[n].umps
  <2>1. 0 \in 0..N /\ \A n \in 1..N : n \in 0..N /\ n # 0 BY <1>1
  <2>2. QED BY <1>11, <2>1, Zenon
<1>13. \A n \in 1..N : F[n - 1] \in A => F[n] \in A BY <1>3, <1>12
<1>14. \A n \in 0..N : F[n] \in A BY <1>1, <1>12, <1>13, StaysIn
<1>15. F \in [0..N -> A] BY <1>10, <1>14
<1>16. QED BY <1>6, <1>12, <1>15 DEF Sends, N, A

LEMMA UmpsType ==
  ASSUME NEW seq \in Seq(ItemType) PROVE Umps(seq) \in Seq(Ump)
<1>1. PICK f : Sends(seq, f) /\ Umps(seq) = f[Len(seq)] BY SendSteps
<1>2. Len(seq) \in Nat BY LenProperties
<1>3. QED BY <1>1, <1>2 DEF Sends

(***************************************************************************)
(* What the decoder makes of them.                                         *)
(***************************************************************************)

Data  == Nat \cup Normalized
Bytes == {s \in Seq(Data) : Len(s) <= Capacity}

EventType   == [bytes : Bytes, sample : 0..(FrameCount - 1)]
DecoderType == [position : Nat, sysex : Bytes, events : Seq(EventType)]

\* No event is later than the decoder, and none is later than the next.
Timely(d) == \A k \in 1..Len(d.events) : d.events[k].sample <= SampleNumber(d.position)
Sorted(d) == \A k \in 2..Len(d.events) : d.events[k - 1].sample <= d.events[k].sample

DecoderStates == {d \in DecoderType : Timely(d) /\ Sorted(d)}

LEMMA DivMonotone ==
  ASSUME NEW a \in Nat, NEW b \in Nat, a <= b
  PROVE  /\ a \div 31250 \in Nat /\ a \div 31250 <= b \div 31250
OBVIOUS

\* A later position is no earlier sample, and every sample is in the block.
LEMMA SampleMonotone ==
  ASSUME NEW p \in Nat, NEW q \in Nat, p <= q
  PROVE  /\ SampleNumber(p) \in 0..(FrameCount - 1)
         /\ SampleNumber(p) <= SampleNumber(q)
<1> DEFINE m == (p * SampleRate) \div 31250
           n == (q * SampleRate) \div 31250
<1>1. SampleRate \in Nat /\ FrameCount \in Nat \ {0} BY MidiAssumption
<1>2. /\ p * SampleRate \in Nat /\ q * SampleRate \in Nat
      /\ p * SampleRate <= q * SampleRate
  <2>1. (q - p) * SampleRate \in Nat BY <1>1
  <2>2. q * SampleRate = p * SampleRate + (q - p) * SampleRate BY <1>1
  <2>3. p * SampleRate \in Nat BY <1>1
  <2>4. QED BY <2>1, <2>2, <2>3
<1>3. m \in Nat /\ n \in Nat /\ m <= n BY <1>2, DivMonotone
<1>4. /\ SampleNumber(p) = IF m >= FrameCount THEN FrameCount - 1 ELSE m
      /\ SampleNumber(q) = IF n >= FrameCount THEN FrameCount - 1 ELSE n
  BY DEF SampleNumber
<1> HIDE DEF m, n
<1>5. QED BY <1>1, <1>3, <1>4

LEMMA FieldTypes ==
  ASSUME NEW u \in Ump
  PROVE  /\ u.type \in Types
         /\ u.status \in Nat /\ u.channel \in Nat /\ u.b2 \in Nat /\ u.b3 \in Nat
         /\ u.hi \in Nat /\ u.lo \in Nat /\ u.bytes \in Seq(Data)
         /\ u.type = "parameter" => u.bytes \in Nat \X Normalized
<1>1. /\ u.type \in Types /\ u.status \in Byte /\ u.channel \in Nibble
      /\ u.b2 \in Byte /\ u.b3 \in Byte /\ u.hi \in Half /\ u.lo \in Half
      /\ u.bytes \in Seq(Data)
  BY DEF Ump, Data
<1>2. u.type = "parameter" => u.bytes \in Nat \X Normalized BY DEF Ump
<1>3. Byte \subseteq Nat /\ Nibble \subseteq Nat /\ Half \subseteq Nat
  BY DEF Byte, Nibble, Half
<1>4. QED BY <1>1, <1>2, <1>3

LEMMA MessageType ==
  ASSUME NEW status \in Nat, NEW b2 \in Nat, NEW b3 \in Nat
  PROVE  MidiMessage(status, b2, b3) \in Bytes
<1>1. Capacity \in Nat /\ Capacity > 2 BY MidiAssumption
<1>2. <<status, b2>> \in Seq(Data) /\ Len(<<status, b2>>) = 2 BY DEF Data
<1>3. <<status, b2, b3>> \in Seq(Data) /\ Len(<<status, b2, b3>>) = 3 BY DEF Data
<1>4. <<status, b2>> \in Bytes BY <1>1, <1>2 DEF Bytes
<1>5. <<status, b2, b3>> \in Bytes BY <1>1, <1>3 DEF Bytes
<1>6. QED BY <1>4, <1>5 DEF MidiMessage

LEMMA Midi2Type ==
  ASSUME NEW u \in Ump
  PROVE  Midi2Messages(u) \in Seq(Bytes)
<1> DEFINE Control(index, v) == MidiMessage(Cc + u.channel, index, v)
           Message(b2, b3)   == MidiMessage(u.status + u.channel, b2, b3)
<1>1. /\ u.status \in Nat /\ u.channel \in Nat /\ u.b2 \in Nat /\ u.b3 \in Nat
      /\ u.hi \in Nat /\ u.lo \in Nat
  BY FieldTypes
<1>2. /\ Msb7(u) \in Nat /\ Lsb7(u) \in Nat /\ u.lo \div 256 \in Nat
      /\ u.lo % 256 \in Nat /\ u.hi \div 256 \in Nat
  BY <1>1 DEF Msb7, Lsb7
<1>3. \A i, v \in Nat : Control(i, v) \in Bytes /\ Message(i, v) \in Bytes
  <2>1. Cc + u.channel \in Nat /\ u.status + u.channel \in Nat BY <1>1 DEF Cc
  <2>2. QED BY <2>1, MessageType
<1>4. \A a, b, c, d \in Bytes : /\ <<>> \in Seq(Bytes) /\ <<a>> \in Seq(Bytes)
                               /\ <<a, b>> \in Seq(Bytes)
                               /\ <<a, b, c, d>> \in Seq(Bytes)
  OBVIOUS
<1>5. \A msb, lsb \in Nat :
        <<Control(msb, u.b2), Control(lsb, u.b3),
          Control(6, Msb7(u)), Control(38, Lsb7(u))>> \in Seq(Bytes)
  BY <1>1, <1>2, <1>3, <1>4
<1>6. <<Message(u.b2, Msb7(u))>> \in Seq(Bytes)
  BY <1>1, <1>2, <1>3, <1>4
<1>7. <<Message(u.b2, IF u.hi > 0 /\ Msb7(u) = 0 THEN 1 ELSE Msb7(u))>> \in Seq(Bytes)
  BY <1>1, <1>2, <1>3, <1>4
<1>8. (IF u.b3 % 2 = 1 THEN <<Control(0, u.lo \div 256), Control(32, u.lo % 256)>>
       ELSE <<>>) \o <<Message(u.hi \div 256, 0)>> \in Seq(Bytes)
  <2>1. <<Control(0, u.lo \div 256), Control(32, u.lo % 256)>> \in Seq(Bytes)
    <3>1. Control(0, u.lo \div 256) \in Bytes BY <1>2, <1>3
    <3>2. Control(32, u.lo % 256) \in Bytes BY <1>2, <1>3
    <3> HIDE DEF Control
    <3>3. QED BY <3>1, <3>2, <1>4
  <2>2. <<Message(u.hi \div 256, 0)>> \in Seq(Bytes) BY <1>2, <1>3, <1>4
  <2>3. <<>> \in Seq(Bytes) BY EmptySeq
  <2> HIDE DEF Control, Message
  <2>4. QED BY <2>1, <2>2, <2>3, ConcatProperties
<1>9. <<Message(Msb7(u), 0)>> \in Seq(Bytes) BY <1>2, <1>3, <1>4
<1>10. <<Message(PitchBendBytes(u)[1], PitchBendBytes(u)[2])>> \in Seq(Bytes)
  <2>1. PitchBendBytes(u)[1] = Lsb7(u) /\ PitchBendBytes(u)[2] = Msb7(u)
    BY DEF PitchBendBytes
  <2>2. QED BY <1>2, <1>3, <1>4, <2>1
<1>11. <<>> \in Seq(Bytes) BY EmptySeq
<1>12. QED
  BY <1>5, <1>6, <1>7, <1>8, <1>9, <1>10, <1>11 DEF Midi2Messages

\* Events that are added come at the sample of the decoder.
Now(d, messages) ==
  [k \in 1..Len(messages) |->
     [bytes |-> messages[k], sample |-> SampleNumber(d.position)]]

LEMMA NowType ==
  ASSUME NEW d \in DecoderType, NEW messages \in Seq(Bytes)
  PROVE  /\ Now(d, messages) \in Seq(EventType)
         /\ Len(Now(d, messages)) = Len(messages) /\ Len(messages) \in Nat
         /\ \A k \in 1..Len(messages) : 
              /\ Now(d, messages)[k].bytes = messages[k]
              /\ Now(d, messages)[k].sample = SampleNumber(d.position)
<1> DEFINE m == Len(messages)
           s == SampleNumber(d.position)
           list == [k \in 1..m |-> [bytes |-> messages[k], sample |-> s]]
<1>1. d.position \in Nat BY DEF DecoderType
<1>2. s \in 0..(FrameCount - 1) BY <1>1, SampleMonotone
<1>3. m \in Nat /\ \A k \in 1..m : messages[k] \in Bytes
  BY LenProperties, ElementOfSeq
<1>4. Now(d, messages) = list BY DEF Now
<1> HIDE DEF m, s
<1>5. list \in [1..m -> EventType] BY <1>2, <1>3 DEF EventType
<1>6. \A k \in 1..m : list[k].bytes = messages[k] /\ list[k].sample = s
  OBVIOUS
<1> HIDE DEF list
<1>7. list \in Seq(EventType) /\ Len(list) = m BY <1>3, <1>5, FunctionIsSeq
<1>8. QED BY <1>3, <1>4, <1>6, <1>7 DEF m, s

LEMMA AddEventsFields ==
  ASSUME NEW d \in DecoderType, NEW messages \in Seq(Bytes)
  PROVE  /\ AddEvents(d, messages) \in DecoderType
         /\ AddEvents(d, messages).position = d.position
         /\ AddEvents(d, messages).sysex = d.sysex
         /\ AddEvents(d, messages).events = d.events \o Now(d, messages)
<1> DEFINE e == d.events \o Now(d, messages)
<1>1. AddEvents(d, messages) = [d EXCEPT !.events = e] BY DEF AddEvents, Now
<1>2. e \in Seq(EventType) BY NowType, ConcatProperties DEF DecoderType
<1> HIDE DEF e
<1>3. /\ [d EXCEPT !.events = e] \in DecoderType
      /\ [d EXCEPT !.events = e].position = d.position
      /\ [d EXCEPT !.events = e].sysex = d.sysex
      /\ [d EXCEPT !.events = e].events = e
  BY <1>2 DEF DecoderType
<1>4. QED BY <1>1, <1>3 DEF e

LEMMA AddEventsType ==
  ASSUME NEW d \in DecoderStates, NEW messages \in Seq(Bytes)
  PROVE  AddEvents(d, messages) \in DecoderStates
<1> DEFINE a == AddEvents(d, messages)
           s == SampleNumber(d.position)
           l == Len(d.events)
           m == Len(messages)
<1>1. d \in DecoderType /\ Timely(d) /\ Sorted(d) BY DEF DecoderStates
<1>2. /\ a \in DecoderType /\ a.position = d.position
      /\ a.events = d.events \o Now(d, messages)
  BY <1>1, AddEventsFields
<1>3. /\ Now(d, messages) \in Seq(EventType) /\ Len(Now(d, messages)) = m
      /\ m \in Nat /\ \A k \in 1..m : Now(d, messages)[k].sample = s
  BY <1>1, NowType
<1>4. d.events \in Seq(EventType) /\ l \in Nat
  BY <1>1, LenProperties DEF DecoderType
<1> HIDE DEF a, s
<1>5. /\ Len(a.events) = l + m
      /\ \A k \in 1..(l + m) : a.events[k] =
           IF k <= l THEN d.events[k] ELSE Now(d, messages)[k - l]
  <2> DEFINE old == d.events
             new == Now(d, messages)
  <2>1. /\ old \in Seq(EventType) /\ new \in Seq(EventType)
        /\ Len(old) = l /\ Len(new) = m /\ a.events = old \o new
    BY <1>2, <1>3, <1>4 DEF l
  <2> HIDE DEF old, new, l, m
  <2>2. /\ Len(old \o new) = l + m
        /\ \A k \in 1..(l + m) :
             (old \o new)[k] = IF k <= l THEN old[k] ELSE new[k - l]
    BY <2>1, ConcatProperties
  <2>3. QED BY <2>1, <2>2 DEF old, new
<1> HIDE DEF l, m
<1>6. \A k \in 1..l : a.events[k] = d.events[k] BY <1>3, <1>4, <1>5
<1>7. \A k \in (l + 1)..(l + m) : a.events[k].sample = s
  <2> SUFFICES ASSUME NEW k \in (l + 1)..(l + m) PROVE a.events[k].sample = s
    OBVIOUS
  <2>1. k \in 1..(l + m) /\ ~(k <= l) /\ k - l \in 1..m BY <1>3, <1>4
  <2>2. a.events[k] = Now(d, messages)[k - l] BY <1>5, <2>1
  <2>3. QED BY <1>3, <2>1, <2>2
<1>8. \A k \in 1..l : d.events[k].sample <= s BY <1>1 DEF Timely, l, s
<1>9. s \in Nat /\ SampleNumber(a.position) = s
  <2>1. d.position \in Nat BY <1>1 DEF DecoderType
  <2>2. s \in 0..(FrameCount - 1) BY <2>1, SampleMonotone DEF s
  <2>3. QED BY <1>2, <2>2 DEF s
<1>10. ASSUME NEW k \in 1..(l + m) PROVE a.events[k].sample <= s
  <2>1. CASE k <= l
    <3>1. k \in 1..l BY <1>4, <2>1
    <3>2. QED BY <1>6, <1>8, <3>1
  <2>2. CASE ~(k <= l)
    <3>1. k \in (l + 1)..(l + m) BY <1>3, <1>4, <2>2
    <3>2. a.events[k].sample = s BY <1>7, <3>1
    <3>3. QED BY <1>9, <3>2
  <2>3. QED BY <2>1, <2>2
<1>11. Timely(a) BY <1>5, <1>9, <1>10 DEF Timely
<1>12. ASSUME NEW k \in 2..(l + m)
       PROVE  a.events[k - 1].sample <= a.events[k].sample
  <2>1. k - 1 \in 1..(l + m) /\ k \in 1..(l + m) BY <1>3, <1>4
  <2>2. CASE k <= l
    <3>1. k \in 2..l /\ k \in 1..l /\ k - 1 \in 1..l BY <1>4, <2>2
    <3>2. d.events[k - 1].sample <= d.events[k].sample
      BY <1>1, <3>1 DEF Sorted, l
    <3>3. QED BY <1>6, <3>1, <3>2
  <2>3. CASE ~(k <= l)
    <3>1. k \in (l + 1)..(l + m) BY <1>3, <1>4, <2>3
    <3>2. a.events[k].sample = s BY <1>7, <3>1
    <3>3. QED BY <1>10, <2>1, <3>2
  <2>4. QED BY <2>2, <2>3
<1>13. Sorted(a) BY <1>5, <1>12 DEF Sorted
<1>14. QED BY <1>2, <1>11, <1>13 DEF DecoderStates, a

\* A sysex buffer that is emptied or filled changes nothing else.
LEMMA SysexSet ==
  ASSUME NEW d \in DecoderStates, NEW s \in Bytes
  PROVE  /\ [d EXCEPT !.sysex = s] \in DecoderStates
         /\ [d EXCEPT !.sysex = s].position = d.position
         /\ [d EXCEPT !.sysex = s].events = d.events
<1> DEFINE r == [d EXCEPT !.sysex = s]
<1>1. d \in DecoderType /\ Timely(d) /\ Sorted(d) BY DEF DecoderStates
<1>2. /\ r \in DecoderType /\ r.position = d.position /\ r.events = d.events
  BY <1>1 DEF DecoderType
<1> HIDE DEF r
<1>3. Timely(r) /\ Sorted(r) BY <1>1, <1>2 DEF Timely, Sorted
<1>4. QED BY <1>2, <1>3 DEF DecoderStates, r

LEMMA PositionMoved ==
  ASSUME NEW d \in DecoderStates, NEW p \in Nat, d.position <= p
  PROVE  /\ [d EXCEPT !.position = p] \in DecoderStates
         /\ [d EXCEPT !.position = p].events = d.events
         /\ [d EXCEPT !.position = p].position = p
<1> DEFINE r == [d EXCEPT !.position = p]
<1>1. d \in DecoderType /\ Timely(d) /\ Sorted(d) BY DEF DecoderStates
<1>2. /\ r \in DecoderType /\ r.position = p /\ r.events = d.events
  BY <1>1 DEF DecoderType
<1> HIDE DEF r
<1>3. SampleNumber(d.position) <= SampleNumber(p)
  BY <1>1, SampleMonotone DEF DecoderType
<1>4. /\ SampleNumber(d.position) \in Int /\ SampleNumber(p) \in Int
  <2>1. d.position \in Nat BY <1>1 DEF DecoderType
  <2>2. FrameCount \in Nat BY MidiAssumption
  <2>3. SampleNumber(d.position) \in 0..(FrameCount - 1) BY <2>1, SampleMonotone
  <2>4. SampleNumber(p) \in 0..(FrameCount - 1) BY SampleMonotone
  <2>5. QED BY <2>2, <2>3, <2>4
<1>5. ASSUME NEW k \in 1..Len(r.events)
      PROVE  r.events[k].sample <= SampleNumber(r.position)
  <2>1. d.events \in Seq(EventType) BY <1>1 DEF DecoderType
  <2>2. d.events[k] \in EventType BY <1>2, <2>1, ElementOfSeq
  <2>3. d.events[k].sample \in Int BY <2>2 DEF EventType
  <2>4. d.events[k].sample <= SampleNumber(d.position) BY <1>1, <1>2 DEF Timely
  <2>5. QED BY <1>2, <1>3, <1>4, <2>3, <2>4
<1>6. Timely(r) BY <1>5 DEF Timely
<1>7. Sorted(r) BY <1>1, <1>2 DEF Sorted
<1>8. QED BY <1>2, <1>6, <1>7 DEF DecoderStates, r

LEMMA SysexTypes ==
  ASSUME NEW d \in DecoderStates, NEW u \in Ump
  PROVE  /\ SysexAdd(SysexBegin(d, u), u.bytes) \in Bytes
         /\ <<>> \in Bytes
<1>1. Capacity \in Nat /\ Capacity > 2 BY MidiAssumption
<1>2. /\ <<>> \in Seq(Data) /\ Len(<<>>) = 0
      /\ <<240>> \in Seq(Data) /\ Len(<<240>>) = 1
  BY EmptySeq DEF Data
<1>3. <<>> \in Bytes /\ <<240>> \in Bytes BY <1>1, <1>2 DEF Bytes
<1>4. d.sysex \in Bytes BY DEF DecoderStates, DecoderType
<1> DEFINE b == SysexBegin(d, u)
           c == u.bytes
           room == Capacity - Len(b)
           n == IF Len(c) < room THEN Len(c) ELSE room
<1>5. b \in Bytes BY <1>3, <1>4 DEF SysexBegin
<1>6. c \in Seq(Data) BY FieldTypes
<1>7. b \in Seq(Data) /\ Len(b) <= Capacity /\ Len(b) \in Nat /\ Len(c) \in Nat
  BY <1>5, <1>6, LenProperties DEF Bytes
<1>8. SysexAdd(b, c) = b \o SubSeq(c, 1, n) BY DEF SysexAdd
<1> HIDE DEF b, c
<1>9. n \in 0..Len(c) /\ Len(b) + n <= Capacity /\ n \in Nat BY <1>1, <1>7
<1> HIDE DEF n
<1>10. SubSeq(c, 1, n) \in Seq(Data) /\ Len(SubSeq(c, 1, n)) = n
  <2>1. \A i \in 1..n : i \in 1..Len(c) BY <1>7, <1>9
  <2>2. \A i \in 1..n : c[i] \in Data BY <1>6, <2>1, ElementOfSeq
  <2>3. SubSeq(c, 1, n) = [i \in 1..n |-> c[i]] BY <1>6, <1>7, <1>9
  <2>4. SubSeq(c, 1, n) \in [1..n -> Data] BY <2>2, <2>3
  <2>5. QED BY <1>9, <2>4, FunctionIsSeq
<1>11. /\ b \o SubSeq(c, 1, n) \in Seq(Data)
       /\ Len(b \o SubSeq(c, 1, n)) = Len(b) + n
  BY <1>7, <1>10, ConcatProperties
<1>12. SysexAdd(b, c) \in Bytes BY <1>8, <1>9, <1>11 DEF Bytes
<1>13. QED BY <1>3, <1>12 DEF b, c

LEMMA DecodeSysexType ==
  ASSUME NEW d \in DecoderStates, NEW u \in Ump
  PROVE  /\ DecodeSysex7(d, u) \in DecoderStates
         /\ DecodeSysex7(d, u).position = d.position
<1> DEFINE sysex == SysexAdd(SysexBegin(d, u), u.bytes)
           whole == [d EXCEPT !.sysex = <<>>]
<1>1. sysex \in Bytes /\ <<>> \in Bytes BY SysexTypes
<1>2. /\ whole \in DecoderStates /\ whole.position = d.position
      /\ [d EXCEPT !.sysex = sysex] \in DecoderStates
      /\ [d EXCEPT !.sysex = sysex].position = d.position
  <2> HIDE DEF sysex
  <2>1. QED BY <1>1, SysexSet
<1>3. \/ DecodeSysex7(d, u) = whole
      \/ DecodeSysex7(d, u) = [d EXCEPT !.sysex = sysex]
      \/ /\ Len(sysex) < Capacity
         /\ DecodeSysex7(d, u) = AddEvents(whole, <<Append(sysex, 247)>>)
  BY DEF DecodeSysex7
<1> HIDE DEF sysex, whole
<1>4. ASSUME Len(sysex) < Capacity
      PROVE  /\ AddEvents(whole, <<Append(sysex, 247)>>) \in DecoderStates
             /\ AddEvents(whole, <<Append(sysex, 247)>>).position = d.position
  <2>1. sysex \in Seq(Data) /\ Len(sysex) \in Nat /\ 247 \in Data /\ Capacity \in Nat
    BY <1>1, LenProperties, MidiAssumption DEF Bytes, Data
  <2>2. Append(sysex, 247) \in Seq(Data) /\ Len(Append(sysex, 247)) = Len(sysex) + 1
    BY <2>1, AppendProperties
  <2>3. Append(sysex, 247) \in Bytes BY <1>4, <2>1, <2>2 DEF Bytes
  <2>4. <<Append(sysex, 247)>> \in Seq(Bytes) BY <2>3
  <2>5. whole \in DecoderType BY <1>2 DEF DecoderStates
  <2>6. QED BY <1>2, <2>4, <2>5, AddEventsType, AddEventsFields
<1>5. QED BY <1>2, <1>3, <1>4

\* A UMP keeps the decoder's type, and time does not go back.
LEMMA DecodeType ==
  ASSUME NEW d \in DecoderStates, NEW u \in Ump
  PROVE  /\ Decode(d, u) \in DecoderStates
         /\ Decode(d, u).position \in Nat /\ d.position <= Decode(d, u).position
<1>1. d \in DecoderType /\ d.position \in Nat BY DEF DecoderStates, DecoderType
<1>2. u.type \in Types BY FieldTypes
<1>3. CASE u.type = "utility"
  <2> DEFINE p == d.position + 256 * u.b2 + u.b3
  <2>1. u.b2 \in Nat /\ u.b3 \in Nat BY FieldTypes
  <2>2. p \in Nat /\ d.position <= p BY <1>1, <2>1, SMTT(30)
  <2>3. Decode(d, u) = IF u.status = JrStamp THEN [d EXCEPT !.position = p] ELSE d
    BY <1>3 DEF Decode
  <2> HIDE DEF p
  <2>4. QED BY <1>1, <2>2, <2>3, PositionMoved
<1>4. CASE u.type = "midi1"
  <2> DEFINE m == <<MidiMessage(u.status + u.channel, u.b2, u.b3)>>
  <2>1. u.status + u.channel \in Nat /\ u.b2 \in Nat /\ u.b3 \in Nat BY FieldTypes
  <2>2. m \in Seq(Bytes) BY <2>1, MessageType
  <2>3. Decode(d, u) = AddEvents(d, m) BY <1>4 DEF Decode
  <2> HIDE DEF m
  <2>4. QED BY <1>1, <2>2, <2>3, AddEventsType, AddEventsFields
<1>5. CASE u.type = "midi2"
  <2>1. Midi2Messages(u) \in Seq(Bytes) BY Midi2Type
  <2>2. Decode(d, u) = AddEvents(d, Midi2Messages(u)) BY <1>5 DEF Decode
  <2>3. QED BY <1>1, <2>1, <2>2, AddEventsType, AddEventsFields
<1>6. CASE u.type = "sysex7"
  <2>1. Decode(d, u) = DecodeSysex7(d, u) BY <1>6 DEF Decode
  <2>2. QED BY <1>1, <2>1, DecodeSysexType
<1>7. CASE u.type \in {"system", "parameter"}
  <2>1. Decode(d, u) = d BY <1>7 DEF Decode
  <2>2. QED BY <1>1, <2>1
<1>8. QED BY <1>2, <1>3, <1>4, <1>5, <1>6, <1>7 DEF Types

\* f[n] is the decoder after n UMPs.
Decodes(start, umps, f) ==
  /\ f \in [0..Len(umps) -> DecoderStates] /\ f[0] = start
  /\ \A n \in 1..Len(umps) : f[n] = Decode(f[n - 1], umps[n])

\* The recursive function in Decoded exists, and is such.
LEMMA DecodeSteps ==
  ASSUME NEW start \in DecoderStates, NEW umps \in Seq(Ump)
  PROVE  \E f : Decodes(start, umps, f) /\ Decoded(start, umps) = f[Len(umps)]
<1> DEFINE N == Len(umps)
           A == DecoderStates
           step == [n \in 1..N |-> [d \in A |-> Decode(d, umps[n])]]
           Is(f) == f = [n \in 0..N |-> IF n = 0 THEN start
                                        ELSE Decode(f[n - 1], umps[n])]
           F == CHOOSE f : Is(f)
<1>1. N \in Nat /\ \A n \in 1..N : umps[n] \in Ump
  BY LenProperties, ElementOfSeq
<1>2. \A n \in 1..N, d \in A : Decode(d, umps[n]) \in A BY <1>1, DecodeType
<1>3. step \in [1..N -> [A -> A]] BY <1>2
<1>4. \A n \in 1..N, d \in A : step[n][d] = Decode(d, umps[n]) OBVIOUS
<1>5. Decoded(start, umps) = F[N] BY DEF Decoded
<1>6. \A n \in 0..N : n # 0 => n \in 1..N /\ n - 1 \in 0..N BY <1>1
<1>7. start \in A OBVIOUS
<1> HIDE DEF N, A, step
<1>8. PICK g \in [0..N -> A] : IteratesTo(g, N, start, step)
  BY <1>1, <1>3, <1>7, BoundedRecursion
<1>9. Is(g)
  <2>1. ASSUME NEW n \in 0..N
        PROVE  g[n] = IF n = 0 THEN start ELSE Decode(g[n - 1], umps[n])
    <3>1. g[n] = IF n = 0 THEN start ELSE step[n][g[n - 1]]
      BY <1>8 DEF IteratesTo
    <3>2. n # 0 => g[n - 1] \in A BY <1>6
    <3>3. QED BY <1>4, <1>6, <3>1, <3>2
  <2>2. QED BY <2>1
<1>10. Is(F) BY <1>9
<1> HIDE DEF F
<1>11. \A n \in 0..N : F[n] = IF n = 0 THEN start ELSE Decode(F[n - 1], umps[n])
  BY <1>10
<1>12. F[0] = start /\ \A n \in 1..N : F[n] = Decode(F[n - 1], umps[n])
  <2>1. 0 \in 0..N /\ \A n \in 1..N : n \in 0..N /\ n # 0 BY <1>1
  <2>2. QED BY <1>11, <2>1, Zenon
<1>13. \A n \in 1..N : F[n - 1] \in A => F[n] \in A BY <1>2, <1>12
<1>14. \A n \in 0..N : F[n] \in A BY <1>1, <1>7, <1>12, <1>13, StaysIn
<1>15. F \in [0..N -> A] BY <1>10, <1>14
<1>16. QED BY <1>5, <1>12, <1>15 DEF Decodes, N, A

LEMMA DecodedType ==
  ASSUME NEW start \in DecoderStates, NEW umps \in Seq(Ump)
  PROVE  Decoded(start, umps) \in DecoderStates
<1>1. PICK f : Decodes(start, umps, f) /\ Decoded(start, umps) = f[Len(umps)]
  BY DecodeSteps
<1>2. Len(umps) \in Nat BY LenProperties
<1>3. QED BY <1>1, <1>2 DEF Decodes

LEMMA NoEventsType == NoEvents \in DecoderStates
<1>1. Capacity \in Nat BY MidiAssumption
<1>2. <<>> \in Bytes /\ <<>> \in Seq(EventType) /\ Len(<<>>) = 0
  BY <1>1, EmptySeq DEF Bytes
<1>3. /\ NoEvents \in DecoderType /\ NoEvents.events = <<>>
  BY <1>2 DEF NoEvents, DecoderType
<1>4. Timely(NoEvents) /\ Sorted(NoEvents) BY <1>2, <1>3 DEF Timely, Sorted
<1>5. QED BY <1>3, <1>4 DEF DecoderStates

LEMMA BlockType ==
  ASSUME NEW block \in Blocks
  PROVE  block \in Seq(ItemType) /\ Umps(block) \in Seq(Ump)
<1>1. block \in Seq(ItemType) BY BlockAssumption DEF ItemType
<1>2. QED BY <1>1, UmpsType

DecoderInv == decoder \in DecoderStates

LEMMA DecoderInvariant == Spec => []DecoderInv
<1>1. Init => DecoderInv BY NoEventsType DEF Init, DecoderInv
<1>2. DecoderInv /\ [Next]_vars => DecoderInv'
  <2> SUFFICES ASSUME decoder \in DecoderStates, [Next]_vars
               PROVE  decoder' \in DecoderStates
    BY DEF DecoderInv
  <2>1. ASSUME NEW block \in Blocks, ProcessMidiInputs(block)
        PROVE  decoder' \in DecoderStates
    <3>1. Umps(block) \in Seq(Ump) BY BlockType
    <3>2. Decoded(BlockStart, Umps(block)) \in DecoderStates
      BY <3>1, NoEventsType, DecodedType DEF BlockStart
    <3>3. QED BY <2>1, <3>2 DEF ProcessMidiInputs
  <2>2. CASE Construct \/ UNCHANGED vars
    BY <2>2 DEF Construct, vars, midiVars
  <2>3. QED BY <2>1, <2>2 DEF Next
<1>3. QED BY <1>1, <1>2, PTL DEF Spec

\* The events of a block are in the order they came in and inside of the block,
\* however large its timestamps are.
THEOREM EventsInBlock == Spec => []SamplesInBlock
<1>1. DecoderInv => SamplesInBlock
  <2> SUFFICES ASSUME decoder \in DecoderStates PROVE SamplesInBlock
    BY DEF DecoderInv
  <2>1. Events \in Seq(EventType) /\ Sorted(decoder)
    BY DEF Events, DecoderStates, DecoderType
  <2>2. ASSUME NEW k \in DOMAIN Events
        PROVE  Events[k].sample \in 0..(FrameCount - 1)
    <3>1. Events[k] \in EventType BY <2>1, LenProperties, ElementOfSeq
    <3>2. QED BY <3>1 DEF EventType
  <2>3. \A k \in 2..Len(Events) : Events[k - 1].sample <= Events[k].sample
    BY <2>1 DEF Sorted, Events
  <2>4. QED BY <2>2, <2>3 DEF SamplesInBlock
<1>2. QED BY <1>1, DecoderInvariant, PTL

(***************************************************************************)
(* The values.                                                             *)
(***************************************************************************)

\* A value that is read as it was set is the value that was sent.
LEMMA Transported ==
  ASSUME NEW forests, NEW order, JuceOrder(forests, order), NumberedBy(order),
         RegistryInv(forests, order), NEW id, NEW t \in Normalized
  PROVE  /\ TransportUint32ToJuceNormalized(id, t) \in Normalized
         /\ JuceNormalizedToTransportUint32(id, TransportUint32ToJuceNormalized(id, t)) = t
<1>1. CASE HasInfo(id)
  <2> DEFINE n == CHOOSE n \in Normalized : Plain(id, n) = t
  <2>1. \E m \in Normalized : Plain(id, m) = t
    <3>1. CASE HasObject(id)
      <4>1. id \in DOMAIN FromNormalized
        BY <3>1, ObjectsKnown, RegistryAssumption
      <4>2. FromNormalized[id] \in Bijection(Normalized, Normalized)
        BY <4>1, RegistryAssumption
      <4>3. \E m \in Normalized : FromNormalized[id][m] = t
        BY <4>2 DEF Bijection, Surjection
      <4>4. QED BY <3>1, <4>3 DEF Plain
    <3>2. CASE ~HasObject(id) BY <3>2 DEF Plain
    <3>3. QED BY <3>1, <3>2
  <2>2. n \in Normalized /\ Plain(id, n) = t BY <2>1
  <2>3. TransportUint32ToJuceNormalized(id, t) = n
    BY <1>1 DEF TransportUint32ToJuceNormalized
  <2> HIDE DEF n
  <2>4. QED BY <1>1, <2>2, <2>3 DEF JuceNormalizedToTransportUint32
<1>2. CASE ~HasInfo(id)
  BY <1>2 DEF JuceNormalizedToTransportUint32, TransportUint32ToJuceNormalized
<1>3. QED BY <1>1, <1>2

\* A UMP is a change of the parameter of this ID.
Sets(u, id) == u.type = "parameter" /\ u.bytes[1] = id

ValueLists(n) == {v \in Seq(Normalized) : Len(v) = n}

\* A change of a parameter sets its value, and no other.
LEMMA Changed ==
  ASSUME NEW forests, NEW order, JuceOrder(forests, order), NumberedBy(order),
         RegistryInv(forests, order), NEW u \in Ump,
         NEW n \in Nat, NEW v \in ValueLists(n)
  PROVE  /\ ApplyChange(v, u) \in ValueLists(n)
         /\ \A id \in 0..(n - 1) :
              IF Sets(u, id)
              THEN JuceNormalizedToTransportUint32(id, ApplyChange(v, u)[id + 1])
                     = u.bytes[2]
              ELSE ApplyChange(v, u)[id + 1] = v[id + 1]
<1>1. /\ v \in Seq(Normalized) /\ Len(v) = n /\ DOMAIN v = 1..n
      /\ v \in [1..n -> Normalized]
  <2>1. v \in Seq(Normalized) /\ Len(v) = n BY DEF ValueLists
  <2>2. QED BY <2>1, LenProperties
<1>2. CASE u.type = "parameter" /\ u.bytes[1] + 1 \in DOMAIN v
  <2> DEFINE i == u.bytes[1]
             t == u.bytes[2]
             x == TransportUint32ToJuceNormalized(i, t)
             w == [v EXCEPT ![i + 1] = x]
  <2>1. i \in Nat /\ t \in Normalized
    <3>1. u.bytes \in Nat \X Normalized BY <1>2, FieldTypes
    <3>2. QED BY <3>1
  <2>2. i + 1 \in 1..n BY <1>1, <1>2
  <2>3. ApplyChange(v, u) = w BY <1>2 DEF ApplyChange
  <2>4. x \in Normalized /\ JuceNormalizedToTransportUint32(i, x) = t
    BY <2>1, Transported
  <2>5. \A id : Sets(u, id) <=> i = id BY <1>2 DEF Sets
  <2> HIDE DEF i, t, x
  <2>6. w \in [1..n -> Normalized] BY <1>1, <2>2, <2>4
  <2>7. w[i + 1] = x /\ \A k \in 1..n : k # i + 1 => w[k] = v[k]
    BY <1>1, <2>2
  <2> HIDE DEF w
  <2>8. w \in ValueLists(n) BY <2>6, FunctionIsSeq DEF ValueLists
  <2>9. ASSUME NEW id \in 0..(n - 1)
        PROVE  IF Sets(u, id) THEN JuceNormalizedToTransportUint32(id, w[id + 1]) = t
               ELSE w[id + 1] = v[id + 1]
    <3>1. CASE id = i BY <2>4, <2>5, <2>7, <3>1
    <3>2. CASE id # i
      <4>1. id + 1 \in 1..n /\ id + 1 # i + 1 BY <2>1, <3>2
      <4>2. QED BY <2>5, <2>7, <3>2, <4>1
    <3>3. QED BY <3>1, <3>2
  <2>10. QED BY <2>3, <2>8, <2>9 DEF t
<1>3. CASE ~(u.type = "parameter" /\ u.bytes[1] + 1 \in DOMAIN v)
  <2>1. ApplyChange(v, u) = v BY <1>3 DEF ApplyChange
  <2>2. ASSUME NEW id \in 0..(n - 1) PROVE ~Sets(u, id)
    <3>1. id + 1 \in 1..n OBVIOUS
    <3>2. QED BY <1>1, <1>3, <3>1 DEF Sets
  <2>3. QED BY <2>1, <2>2
<1>4. QED BY <1>2, <1>3

\* f[n] are the values after n UMPs.
Applies(values, umps, f) ==
  /\ f \in [0..Len(umps) -> ValueLists(Len(values))] /\ f[0] = values
  /\ \A n \in 1..Len(umps) : f[n] = ApplyChange(f[n - 1], umps[n])

\* The recursive function in Applied exists, and is such.
LEMMA ApplySteps ==
  ASSUME NEW forests, NEW order, JuceOrder(forests, order), NumberedBy(order),
         RegistryInv(forests, order),
         NEW values \in Seq(Normalized), NEW umps \in Seq(Ump)
  PROVE  \E f : Applies(values, umps, f) /\ Applied(values, umps) = f[Len(umps)]
<1> DEFINE N == Len(umps)
           A == ValueLists(Len(values))
           step == [n \in 1..N |-> [v \in A |-> ApplyChange(v, umps[n])]]
           Is(f) == f = [n \in 0..N |-> IF n = 0 THEN values
                                        ELSE ApplyChange(f[n - 1], umps[n])]
           F == CHOOSE f : Is(f)
<1>1. N \in Nat /\ Len(values) \in Nat /\ \A n \in 1..N : umps[n] \in Ump
  BY LenProperties, ElementOfSeq
<1>2. \A n \in 1..N, v \in A : ApplyChange(v, umps[n]) \in A BY <1>1, Changed
<1>3. step \in [1..N -> [A -> A]] BY <1>2
<1>4. \A n \in 1..N, v \in A : step[n][v] = ApplyChange(v, umps[n]) OBVIOUS
<1>5. Applied(values, umps) = F[N] BY DEF Applied
<1>6. \A n \in 0..N : n # 0 => n \in 1..N /\ n - 1 \in 0..N BY <1>1
<1>7. values \in A BY DEF ValueLists
<1> HIDE DEF N, A, step
<1>8. PICK g \in [0..N -> A] : IteratesTo(g, N, values, step)
  BY <1>1, <1>3, <1>7, BoundedRecursion
<1>9. Is(g)
  <2>1. ASSUME NEW n \in 0..N
        PROVE  g[n] = IF n = 0 THEN values ELSE ApplyChange(g[n - 1], umps[n])
    <3>1. g[n] = IF n = 0 THEN values ELSE step[n][g[n - 1]]
      BY <1>8 DEF IteratesTo
    <3>2. n # 0 => g[n - 1] \in A BY <1>6
    <3>3. QED BY <1>4, <1>6, <3>1, <3>2
  <2>2. QED BY <2>1
<1>10. Is(F) BY <1>9
<1> HIDE DEF F
<1>11. \A n \in 0..N : F[n] = IF n = 0 THEN values
                              ELSE ApplyChange(F[n - 1], umps[n])
  BY <1>10
<1>12. F[0] = values /\ \A n \in 1..N : F[n] = ApplyChange(F[n - 1], umps[n])
  <2>1. 0 \in 0..N /\ \A n \in 1..N : n \in 0..N /\ n # 0 BY <1>1
  <2>2. QED BY <1>11, <2>1, Zenon
<1>13. \A n \in 1..N : F[n - 1] \in A => F[n] \in A BY <1>2, <1>12
<1>14. \A n \in 0..N : F[n] \in A BY <1>1, <1>7, <1>12, <1>13, StaysIn
<1>15. F \in [0..N -> A] BY <1>10, <1>14
<1>16. QED BY <1>5, <1>12, <1>15 DEF Applies, N, A

\* Of the changes among the first n UMPs, the last of each parameter is what its
\* value reads as.
Reads(v, umps, n) ==
  \A k \in 1..n, id \in 0..(Len(v) - 1) :
    Sets(umps[k], id) /\ (\A j \in (k + 1)..n : ~Sets(umps[j], id)) =>
      JuceNormalizedToTransportUint32(id, v[id + 1]) = umps[k].bytes[2]

LEMMA LastChangeReads ==
  ASSUME NEW forests, NEW order, JuceOrder(forests, order), NumberedBy(order),
         RegistryInv(forests, order),
         NEW values \in Seq(Normalized), NEW umps \in Seq(Ump)
  PROVE  /\ Applied(values, umps) \in ValueLists(Len(values))
         /\ Reads(Applied(values, umps), umps, Len(umps))
<1>1. PICK f : Applies(values, umps, f) /\ Applied(values, umps) = f[Len(umps)]
  BY ApplySteps
<1> DEFINE N == Len(umps)
           L == Len(values)
           T == {n \in Nat : n <= N => Reads(f[n], umps, n)}
<1>2. /\ N \in Nat /\ L \in Nat /\ \A n \in 0..N : f[n] \in ValueLists(L)
      /\ \A n \in 1..N : f[n] = ApplyChange(f[n - 1], umps[n]) /\ umps[n] \in Ump
  BY <1>1, LenProperties, ElementOfSeq DEF Applies
<1>3. \A n \in 0..N : Len(f[n]) = L BY <1>2 DEF ValueLists
<1> HIDE DEF N, L
<1>4. 0 \in T BY DEF Reads
<1>5. ASSUME NEW n \in Nat, n \in T PROVE n + 1 \in T
  <2>1. n + 1 \in Nat OBVIOUS
  <2> SUFFICES ASSUME n + 1 <= N PROVE Reads(f[n + 1], umps, n + 1) BY <2>1
  <2> DEFINE m == n + 1
  <2>2. m \in 1..N /\ m \in 0..N /\ n \in 0..N /\ m - 1 = n BY <1>2
  <2>3. Reads(f[n], umps, n) BY <1>5, <2>2
  <2> HIDE DEF m, T
  <2>4. /\ f[m] = ApplyChange(f[n], umps[m]) /\ umps[m] \in Ump
        /\ f[n] \in ValueLists(L) /\ Len(f[m]) = L /\ Len(f[n]) = L
    BY <1>2, <1>3, <2>2
  <2>5. \A id \in 0..(L - 1) :
          IF Sets(umps[m], id)
          THEN JuceNormalizedToTransportUint32(id, f[m][id + 1]) = umps[m].bytes[2]
          ELSE f[m][id + 1] = f[n][id + 1]
    BY <1>2, <2>4, Changed
  <2>6. ASSUME NEW k \in 1..m, NEW id \in 0..(L - 1), Sets(umps[k], id),
               \A j \in (k + 1)..m : ~Sets(umps[j], id)
        PROVE  JuceNormalizedToTransportUint32(id, f[m][id + 1]) = umps[k].bytes[2]
    <3>1. CASE k = m BY <2>5, <2>6, <3>1
    <3>2. CASE k # m
      <4>1. /\ k \in 1..n /\ m \in (k + 1)..m
            /\ \A j \in (k + 1)..n : j \in (k + 1)..m
        BY <3>2 DEF m
      <4>2. ~Sets(umps[m], id) /\ \A j \in (k + 1)..n : ~Sets(umps[j], id)
        BY <2>6, <4>1
      <4>3. f[m][id + 1] = f[n][id + 1] BY <2>5, <4>2
      <4>4. JuceNormalizedToTransportUint32(id, f[n][id + 1]) = umps[k].bytes[2]
        BY <2>3, <2>4, <2>6, <4>1, <4>2 DEF Reads
      <4>5. QED BY <4>3, <4>4
    <3>3. QED BY <3>1, <3>2
  <2>7. Reads(f[m], umps, m) BY <2>4, <2>6 DEF Reads
  <2>8. QED BY <2>7 DEF m
<1> HIDE DEF T
<1>6. Nat \subseteq T BY <1>4, <1>5, Induction
<1>7. Reads(f[N], umps, N) BY <1>2, <1>6 DEF T
<1>8. N \in 0..N BY <1>2
<1>9. QED BY <1>1, <1>2, <1>7, <1>8 DEF N, L

\* The values are typed, and those of the last block read as they were sent.
ValueInv ==
  /\ acceptsMidi \in BOOLEAN /\ value \in Seq(Normalized)
  /\ ~built => items = <<>>
  /\ ChangeRoundTrips

LEMMA RoundTripsRead ==
  ASSUME items \in Seq(ItemType), value \in Seq(Normalized)
  PROVE  ChangeRoundTrips <=> Reads(value, Umps(items), Len(Umps(items)))
<1>1. Umps(items) \in Seq(Ump) BY UmpsType
<1>2. DOMAIN Umps(items) = 1..Len(Umps(items)) BY <1>1, LenProperties
<1> DEFINE umps == Umps(items)
<1>3. ChangeRoundTrips <=>
        \A k \in 1..Len(umps), id \in 0..(Len(value) - 1) :
          Sets(umps[k], id) /\ (\A j \in (k + 1)..Len(umps) : ~Sets(umps[j], id)) =>
            JuceNormalizedToTransportUint32(id, value[id + 1]) = umps[k].bytes[2]
  BY <1>2 DEF ChangeRoundTrips, Sets
<1> HIDE DEF umps
<1>4. QED BY <1>3 DEF Reads, umps

LEMMA NothingReads ==
  ASSUME items = <<>>, value \in Seq(Normalized)
  PROVE  ChangeRoundTrips
<1>1. items \in Seq(ItemType) /\ Len(items) = 0 BY EmptySeq
<1>2. PICK f : Sends(items, f) /\ Umps(items) = f[Len(items)]
  BY <1>1, SendSteps
<1>3. Umps(items) = <<>> BY <1>1, <1>2 DEF Sends
<1>4. Reads(value, Umps(items), Len(Umps(items))) BY <1>3 DEF Reads
<1>5. QED BY <1>1, <1>4, RoundTripsRead

LEMMA ValueInvInit == Init => ValueInv
<1> SUFFICES ASSUME Init PROVE ValueInv OBVIOUS
<1>1. /\ acceptsMidi \in BOOLEAN /\ items = <<>> /\ value = <<>>
  BY MidiAssumption DEF Init
<1>2. value \in Seq(Normalized) BY <1>1, EmptySeq
<1>3. ChangeRoundTrips BY <1>1, <1>2, NothingReads
<1>4. QED BY <1>1, <1>2, <1>3 DEF ValueInv

LEMMA BlockApplied ==
  ASSUME NEW forests, NEW order, JuceOrder(forests, order), NumberedBy(order),
         RegistryInv(forests, order), ValueInv,
         NEW block \in Blocks, ProcessMidiInputs(block)
  PROVE  ValueInv'
<1> DEFINE v == Applied(value, Umps(block))
           umps == Umps(block)
<1>1. /\ built /\ items' = block /\ value' = v
      /\ UNCHANGED registryVars /\ acceptsMidi' = acceptsMidi
  BY DEF ProcessMidiInputs
<1>2. /\ acceptsMidi \in BOOLEAN /\ value \in Seq(Normalized) BY DEF ValueInv
<1>3. block \in Seq(ItemType) /\ umps \in Seq(Ump) BY BlockType
<1>4. v \in ValueLists(Len(value)) /\ Reads(v, umps, Len(umps))
  BY <1>2, <1>3, LastChangeReads
<1> HIDE DEF v, umps
<1>5. v \in Seq(Normalized) BY <1>4 DEF ValueLists
<1>6. DOMAIN umps = 1..Len(umps) BY <1>3, LenProperties
<1>7. \A k \in 1..Len(umps), id \in 0..(Len(v) - 1) :
        Sets(umps[k], id) /\ (\A j \in (k + 1)..Len(umps) : ~Sets(umps[j], id)) =>
          JuceNormalizedToTransportUint32(id, value[id + 1])' = umps[k].bytes[2]
  <2> SUFFICES ASSUME NEW k \in 1..Len(umps), NEW id \in 0..(Len(v) - 1),
                      Sets(umps[k], id),
                      \A j \in (k + 1)..Len(umps) : ~Sets(umps[j], id)
               PROVE  JuceNormalizedToTransportUint32(id, value[id + 1])'
                        = umps[k].bytes[2]
    OBVIOUS
  <2>1. JuceNormalizedToTransportUint32(id, v[id + 1]) = umps[k].bytes[2]
    BY <1>4 DEF Reads
  <2>2. QED
    BY <1>1, <2>1
    DEF JuceNormalizedToTransportUint32, HasInfo, Plain, HasObject, Objects,
        registryVars
<1>8. umps = Umps(items)' BY <1>1 DEF umps
<1>9. ChangeRoundTrips'
  BY <1>1, <1>6, <1>7, <1>8 DEF ChangeRoundTrips, Sets
<1>10. QED BY <1>1, <1>2, <1>5, <1>9 DEF ValueInv, registryVars

\* The list is there: its values are whatever setValue has left.
LEMMA ListApplied ==
  ASSUME ValueInv, ListBuilt,
         value' = [k \in 1..Len(aapParams') |-> CHOOSE n \in Normalized : TRUE],
         UNCHANGED <<acceptsMidi, items, decoder>>, Len(aapParams') \in Nat
  PROVE  ValueInv'
<1>1. items = <<>> /\ acceptsMidi \in BOOLEAN
  BY DEF ValueInv, ListBuilt
<1>2. (CHOOSE n \in Normalized : TRUE) \in Normalized
  BY RegistryAssumption
<1>3. value' \in Seq(Normalized) BY <1>2, FunctionIsSeq
<1>4. (items = <<>> /\ value \in Seq(Normalized))' BY <1>1, <1>3
<1>5. ChangeRoundTrips' BY <1>4, NothingReads, PTL
<1>6. QED BY <1>1, <1>4, <1>5 DEF ValueInv

LEMMA ValueInvStep ==
  ASSUME NEW forests, NEW order, JuceOrder(forests, order), NumberedBy(order)
  PROVE  RegistryInv(forests, order) /\ ValueInv /\ [Next]_vars => ValueInv'
<1> SUFFICES ASSUME RegistryInv(forests, order), ValueInv, [Next]_vars
             PROVE  ValueInv'
  OBVIOUS
<1>1. CASE RegisterNode /\ UNCHANGED midiVars
  <2>1. /\ items = <<>> /\ acceptsMidi \in BOOLEAN /\ value \in Seq(Normalized)
    BY <1>1 DEF RegistryInv, ValueInv, RegisterNode
  <2>2. (items = <<>> /\ value \in Seq(Normalized))' /\ acceptsMidi' = acceptsMidi
    BY <1>1, <2>1 DEF midiVars
  <2>3. ChangeRoundTrips' BY <2>2, NothingReads, PTL
  <2>4. QED BY <2>1, <2>2, <2>3 DEF ValueInv
<1>2. CASE /\ ListBuilt
           /\ value' = [k \in 1..Len(aapParams') |-> CHOOSE n \in Normalized : TRUE]
           /\ UNCHANGED <<acceptsMidi, items, decoder>>
  <2>1. RegistryInv(forests, order)' BY RegistryInvStep
  <2>2. aapParams' \in Seq(Ids) BY <2>1 DEF RegistryInv
  <2>3. Len(aapParams') \in Nat BY <2>2, LenProperties
  <2>4. QED BY <1>2, <2>3, ListApplied
<1>3. ASSUME NEW block \in Blocks, ProcessMidiInputs(block)
      PROVE  ValueInv'
  BY <1>3, BlockApplied
<1>4. CASE UNCHANGED vars
  <2>1. /\ UNCHANGED <<built, acceptsMidi, value, items>>
        /\ UNCHANGED <<tree, aapParams>>
    BY <1>4 DEF vars, registryVars, midiVars
  <2>2. ChangeRoundTrips BY DEF ValueInv
  <2>3. ChangeRoundTrips'
    BY <2>1, <2>2
    DEF ChangeRoundTrips, JuceNormalizedToTransportUint32, HasInfo, Plain,
        HasObject, Objects
  <2>4. QED BY <2>1, <2>3 DEF ValueInv
<1>5. QED BY <1>1, <1>2, <1>3, <1>4 DEF Next, Construct

\* A change of a parameter, read and reported back, is what the host has sent:
\* whatever the parameter's range makes of it in between, and however many
\* changes and other messages the block holds.
THEOREM ChangesRoundTrip ==
  ASSUME NEW forests, NEW order, JuceOrder(forests, order), NumberedBy(order)
  PROVE  Spec => []ChangeRoundTrips
<1>1. Init => RegistryInv(forests, order) /\ ValueInv
  BY RegistryInvInit, ValueInvInit DEF Init
<1>2. RegistryInv(forests, order) /\ ValueInv /\ [Next]_vars
        => (RegistryInv(forests, order) /\ ValueInv)'
  BY RegistryInvStep, ValueInvStep
<1>3. ValueInv => ChangeRoundTrips BY DEF ValueInv
<1>4. QED BY <1>1, <1>2, <1>3, PTL DEF Spec

\* What is kept has its type, and no sysex runs over its buffer.
THEOREM InputTyping ==
  ASSUME NEW forests, NEW order, JuceOrder(forests, order), NumberedBy(order)
  PROVE  Spec => []TypeOK
<1>1. Init => RegistryInv(forests, order) /\ ValueInv
  BY RegistryInvInit, ValueInvInit DEF Init
<1>2. RegistryInv(forests, order) /\ ValueInv /\ [Next]_vars
        => (RegistryInv(forests, order) /\ ValueInv)'
  BY RegistryInvStep, ValueInvStep
<1>3. RegistryInv(forests, order) /\ ValueInv /\ DecoderInv => TypeOK
  <2> SUFFICES ASSUME RegistryInv(forests, order), ValueInv, DecoderInv
               PROVE  TypeOK
    OBVIOUS
  <2>1. built \in BOOLEAN /\ aapParams \in Seq(Ids) BY DEF RegistryInv
  <2>2. acceptsMidi \in BOOLEAN /\ value \in Seq(Normalized) BY DEF ValueInv
  <2>3. \A k \in DOMAIN aapParams : aapParams[k] \in Ids
    BY <2>1, LenProperties, ElementOfSeq
  <2>4. \A k \in DOMAIN value : value[k] \in Normalized
    BY <2>2, LenProperties, ElementOfSeq
  <2>5. decoder \in DecoderType BY DEF DecoderInv, DecoderStates
  <2>6. /\ decoder.position \in Nat /\ Len(decoder.sysex) <= Capacity
        /\ Events \in Seq(EventType)
    BY <2>5 DEF DecoderType, Bytes, Events
  <2>7. ASSUME NEW k \in DOMAIN Events PROVE Len(Events[k].bytes) <= Capacity
    <3>1. Events[k] \in EventType BY <2>6, LenProperties, ElementOfSeq
    <3>2. QED BY <3>1 DEF EventType, Bytes
  <2>8. QED BY <2>1, <2>2, <2>3, <2>4, <2>6, <2>7 DEF TypeOK, Ids
<1>4. QED BY <1>1, <1>2, <1>3, DecoderInvariant, PTL DEF Spec


\* The decoder goes through two lists of UMPs as through one after the other.
LEMMA DecodedJoin ==
  ASSUME NEW start \in DecoderStates, NEW a \in Seq(Ump), NEW b \in Seq(Ump)
  PROVE  Decoded(start, a \o b) = Decoded(Decoded(start, a), b)
<1> DEFINE L == Len(a)
           M == Len(b)
           c == a \o b
           mid == Decoded(start, a)
<1>1. c \in Seq(Ump) BY ConcatProperties
<1>2. mid \in DecoderStates BY DecodedType
<1>3. /\ L \in Nat /\ M \in Nat /\ Len(c) = L + M
      /\ \A k \in 1..(L + M) : c[k] = IF k <= L THEN a[k] ELSE b[k - L]
  BY ConcatProperties, LenProperties
<1>4. PICK f : Decodes(start, c, f) /\ Decoded(start, c) = f[Len(c)]
  BY <1>1, DecodeSteps
<1>5. PICK g : Decodes(start, a, g) /\ mid = g[L] BY DecodeSteps
<1> HIDE DEF mid
<1>6. PICK h : Decodes(mid, b, h) /\ Decoded(mid, b) = h[M]
  BY <1>2, DecodeSteps
<1> DEFINE step == [n \in 1..(L + M) |-> [d \in DecoderStates |-> Decode(d, c[n])]]
<1>7. \A n \in 1..(L + M), d \in DecoderStates : step[n][d] = Decode(d, c[n])
  OBVIOUS
<1>8. /\ f[0] = start /\ \A n \in 1..(L + M) : f[n] = Decode(f[n - 1], c[n])
      /\ g[0] = start /\ \A n \in 1..L : g[n] = Decode(g[n - 1], a[n])
      /\ h[0] = mid /\ \A n \in 1..M : h[n] = Decode(h[n - 1], b[n])
  BY <1>3, <1>4, <1>5, <1>6 DEF Decodes
<1>9. /\ f \in [0..(L + M) -> DecoderStates] /\ g \in [0..L -> DecoderStates]
      /\ h \in [0..M -> DecoderStates]
  BY <1>3, <1>4, <1>5, <1>6 DEF Decodes
<1> HIDE DEF L, M, c, step
<1>10. /\ \A n \in 1..(L + M) : f[n - 1] \in DecoderStates
       /\ \A n \in 1..L : g[n - 1] \in DecoderStates
       /\ \A n \in 1..M : h[n - 1] \in DecoderStates
  BY <1>3, <1>9
<1>11. Follows(f, step, 0, L + M)
  <2>1. \A n \in 1..(L + M) : 0 + n = n BY <1>3
  <2>2. QED BY <1>7, <1>8, <1>10, <2>1 DEF Follows
<1>12. Follows(g, step, 0, L)
  <2>1. \A n \in 1..L : n \in 1..(L + M) /\ c[n] = a[n] /\ 0 + n = n BY <1>3
  <2>2. QED BY <1>7, <1>8, <1>10, <2>1 DEF Follows
<1>13. Follows(h, step, L, M)
  <2> SUFFICES ASSUME NEW n \in 1..M PROVE h[n] = step[L + n][h[n - 1]]
    BY DEF Follows
  <2> DEFINE o == L + n
  <2>1. o \in 1..(L + M) /\ ~(o <= L) /\ o - L = n BY <1>3
  <2> HIDE DEF o
  <2>2. c[o] = b[n] BY <1>3, <2>1
  <2>3. h[n] = step[o][h[n - 1]] BY <1>7, <1>8, <1>10, <2>1, <2>2
  <2>4. QED BY <2>3 DEF o
<1>14. f[L + M] = h[M]
  <2>1. g[0] = f[0] /\ h[0] = g[L] BY <1>5, <1>8
  <2>2. L \in Nat /\ M \in Nat BY <1>3
  <2>3. QED BY <1>11, <1>12, <1>13, <2>1, <2>2, WalksJoin
<1>15. QED BY <1>3, <1>4, <1>6, <1>14 DEF c, mid

LEMMA NothingDecoded == Decoded(NoEvents, <<>>) = NoEvents
<1>1. <<>> \in Seq(Ump) /\ Len(<<>>) = 0 BY EmptySeq
<1>2. PICK f : Decodes(NoEvents, <<>>, f) /\ Decoded(NoEvents, <<>>) = f[Len(<<>>)]
  BY <1>1, NoEventsType, DecodeSteps
<1>3. QED BY <1>1, <1>2 DEF Decodes

(***************************************************************************)
(* The events of a block in time.                                          *)
(***************************************************************************)

\* The host's ticks of a sample, and how many samples a tick may be.
Ticks(at) == (at * 31250) \div SampleRate
PerTick   == SampleRate \div 31250

\* What the host's ticks are on the wrapper's side.
LEMMA Rounded ==
  ASSUME NEW at \in 0..(FrameCount - 1), FrameCount <= 2 * SampleRate
  PROVE  /\ Ticks(at) \in Nat /\ Ticks(at) <= 62499
         /\ SampleNumber(Ticks(at)) \in (at - PerTick - 1)..at
         /\ Ticks(at) * SampleRate <= at * 31250
<1> DEFINE t == Ticks(at)
           x == t * SampleRate
           q == PerTick
           n == x \div 31250
<1>1. SampleRate \in Nat \ {0} /\ FrameCount \in Nat \ {0} BY MidiAssumption
<1>2. at \in Nat /\ at < FrameCount /\ at < 2 * SampleRate /\ at * 31250 \in Nat
  BY <1>1
<1>3. t \in Nat BY <1>1, <1>2 DEF Ticks
<1>4. x <= at * 31250 /\ at * 31250 < x + SampleRate
  BY <1>1, <1>2 DEF Ticks
<1>5. x \in Nat BY <1>1, <1>3
<1>6. t <= 62499
  <2> SUFFICES ASSUME t >= 62500 PROVE FALSE BY <1>3
  <2>1. x >= 62500 * SampleRate BY <1>1, <1>3
  <2>2. QED BY <1>1, <1>2, <1>4, <1>5, <2>1
<1>7. q \in Nat /\ SampleRate <= 31250 * q + 31249 BY <1>1 DEF PerTick
<1> HIDE DEF x, q
<1>8. n \in Nat /\ 31250 * n <= x /\ x < 31250 * n + 31250 BY <1>5
<1> HIDE DEF n
<1>9. n <= at BY <1>1, <1>2, <1>4, <1>5, <1>8
<1>10. n >= at - q - 1 BY <1>1, <1>2, <1>4, <1>5, <1>7, <1>8
<1>11. SampleNumber(t) = n
  <2>1. n < FrameCount BY <1>1, <1>2, <1>8, <1>9
  <2>2. QED BY <1>1, <1>8, <2>1 DEF SampleNumber, n, x
<1>14. t * SampleRate <= at * 31250 BY <1>4 DEF x
<1> HIDE DEF t
<1>12. n \in (at - q - 1)..at BY <1>1, <1>2, <1>7, <1>8, <1>9, <1>10
<1>13. SampleNumber(t) \in (at - q - 1)..at BY <1>11, <1>12
<1>15. QED BY <1>3, <1>6, <1>13, <1>14 DEF t, q

\* The events of `kept' come first in `events', and are the same.
Keeps(events, kept) ==
  /\ Len(kept) <= Len(events)
  /\ \A k \in 1..Len(kept) : events[k] = kept[k]

LEMMA AddEventsKeep ==
  ASSUME NEW d \in DecoderType, NEW messages \in Seq(Bytes)
  PROVE  Keeps(AddEvents(d, messages).events, d.events)
<1> DEFINE old == d.events
           new == Now(d, messages)
<1>1. /\ old \in Seq(EventType) /\ new \in Seq(EventType)
      /\ AddEvents(d, messages).events = old \o new
  BY AddEventsFields, NowType DEF DecoderType
<1> HIDE DEF old, new
<1>2. /\ Len(old) \in Nat /\ Len(new) \in Nat /\ Len(old \o new) = Len(old) + Len(new)
      /\ \A k \in 1..(Len(old) + Len(new)) :
           (old \o new)[k] = IF k <= Len(old) THEN old[k] ELSE new[k - Len(old)]
  BY <1>1, ConcatProperties, LenProperties
<1>3. Keeps(old \o new, old) BY <1>2 DEF Keeps
<1>4. QED BY <1>1, <1>3 DEF old

LEMMA SysexKeeps ==
  ASSUME NEW d \in DecoderStates, NEW u \in Ump
  PROVE  Keeps(DecodeSysex7(d, u).events, d.events)
<1> DEFINE sysex == SysexAdd(SysexBegin(d, u), u.bytes)
           whole == [d EXCEPT !.sysex = <<>>]
<1>1. sysex \in Bytes /\ <<>> \in Bytes BY SysexTypes
<1>2. /\ whole \in DecoderStates /\ whole.events = d.events
      /\ [d EXCEPT !.sysex = sysex].events = d.events
  <2> HIDE DEF sysex
  <2>1. QED BY <1>1, SysexSet
<1>3. \/ DecodeSysex7(d, u) = whole
      \/ DecodeSysex7(d, u) = [d EXCEPT !.sysex = sysex]
      \/ /\ Len(sysex) < Capacity
         /\ DecodeSysex7(d, u) = AddEvents(whole, <<Append(sysex, 247)>>)
  BY DEF DecodeSysex7
<1> HIDE DEF sysex, whole
<1>4. ASSUME Len(sysex) < Capacity
      PROVE  Keeps(AddEvents(whole, <<Append(sysex, 247)>>).events, d.events)
  <2>1. sysex \in Seq(Data) /\ Len(sysex) \in Nat /\ 247 \in Data /\ Capacity \in Nat
    BY <1>1, LenProperties, MidiAssumption DEF Bytes, Data
  <2>2. Append(sysex, 247) \in Seq(Data) /\ Len(Append(sysex, 247)) = Len(sysex) + 1
    BY <2>1, AppendProperties
  <2>3. Append(sysex, 247) \in Bytes BY <1>4, <2>1, <2>2 DEF Bytes
  <2>4. <<Append(sysex, 247)>> \in Seq(Bytes) BY <2>3
  <2>5. whole \in DecoderType BY <1>2 DEF DecoderStates
  <2>6. QED BY <1>2, <2>4, <2>5, AddEventsKeep
<1>5. Keeps(d.events, d.events)
  <2>1. Len(d.events) \in Nat BY LenProperties DEF DecoderStates, DecoderType
  <2>2. QED BY <2>1 DEF Keeps
<1>6. QED BY <1>2, <1>3, <1>4, <1>5

\* No UMP takes an event back.
LEMMA EventsKept ==
  ASSUME NEW d \in DecoderStates, NEW u \in Ump
  PROVE  Keeps(Decode(d, u).events, d.events)
<1>1. /\ d \in DecoderType /\ d.position \in Nat
      /\ Len(d.events) \in Nat
  BY LenProperties DEF DecoderStates, DecoderType
<1>2. u.type \in Types BY FieldTypes
<1>3. Keeps(d.events, d.events) BY <1>1 DEF Keeps
<1>4. CASE u.type = "utility"
  <2> DEFINE p == d.position + 256 * u.b2 + u.b3
  <2>1. u.b2 \in Nat /\ u.b3 \in Nat BY FieldTypes
  <2>2. p \in Nat /\ d.position <= p BY <1>1, <2>1, SMTT(30)
  <2>3. Decode(d, u) = IF u.status = JrStamp THEN [d EXCEPT !.position = p] ELSE d
    BY <1>4 DEF Decode
  <2> HIDE DEF p
  <2>4. QED BY <1>3, <2>2, <2>3, PositionMoved
<1>5. CASE u.type = "midi1"
  <2> DEFINE m == <<MidiMessage(u.status + u.channel, u.b2, u.b3)>>
  <2>1. u.status + u.channel \in Nat /\ u.b2 \in Nat /\ u.b3 \in Nat BY FieldTypes
  <2>2. m \in Seq(Bytes) BY <2>1, MessageType
  <2>3. Decode(d, u) = AddEvents(d, m) BY <1>5 DEF Decode
  <2> HIDE DEF m
  <2>4. QED BY <1>1, <2>2, <2>3, AddEventsKeep
<1>6. CASE u.type = "midi2"
  <2>1. Midi2Messages(u) \in Seq(Bytes) BY Midi2Type
  <2>2. Decode(d, u) = AddEvents(d, Midi2Messages(u)) BY <1>6 DEF Decode
  <2>3. QED BY <1>1, <2>1, <2>2, AddEventsKeep
<1>7. CASE u.type = "sysex7"
  <2>1. Decode(d, u) = DecodeSysex7(d, u) BY <1>7 DEF Decode
  <2>2. QED BY <2>1, SysexKeeps
<1>8. CASE u.type \in {"system", "parameter"}
  <2>1. Decode(d, u) = d BY <1>8 DEF Decode
  <2>2. QED BY <1>3, <2>1
<1>9. QED BY <1>2, <1>4, <1>5, <1>6, <1>7, <1>8 DEF Types

LEMMA TwoBytes ==
  ASSUME NEW n \in Nat PROVE 256 * (n \div 256) + (n % 256) = n
OBVIOUS

LEMMA KeepsOn ==
  ASSUME NEW a \in Seq(EventType), NEW b \in Seq(EventType), NEW c \in Seq(EventType),
         Keeps(b, a), Keeps(c, b)
  PROVE  Keeps(c, a)
<1>1. Len(a) \in Nat /\ Len(b) \in Nat /\ Len(c) \in Nat BY LenProperties
<1>2. QED BY <1>1 DEF Keeps

\* No list of UMPs takes an event back.
LEMMA DecodedKeeps ==
  ASSUME NEW d \in DecoderStates, NEW umps \in Seq(Ump)
  PROVE  Keeps(Decoded(d, umps).events, d.events)
<1> DEFINE N == Len(umps)
<1>1. PICK f : Decodes(d, umps, f) /\ Decoded(d, umps) = f[N] BY DecodeSteps
<1>2. N \in Nat /\ \A n \in 1..N : umps[n] \in Ump BY LenProperties, ElementOfSeq
<1>3. /\ f[0] = d /\ \A n \in 0..N : f[n] \in DecoderStates
      /\ \A n \in 1..N : f[n] = Decode(f[n - 1], umps[n])
  BY <1>1, SMTT(30) DEF Decodes
<1>4. \A n \in 0..N : f[n].events \in Seq(EventType)
  BY <1>3 DEF DecoderStates, DecoderType
<1> HIDE DEF N
<1> DEFINE T == {n \in Nat : n <= N => Keeps(f[n].events, d.events)}
<1>5. 0 \in T
  <2>1. Len(d.events) \in Nat BY LenProperties DEF DecoderStates, DecoderType
  <2>2. QED BY <1>3, <2>1 DEF Keeps
<1>6. ASSUME NEW n \in Nat, n \in T PROVE n + 1 \in T
  <2> DEFINE m == n + 1
  <2> SUFFICES ASSUME m <= N PROVE Keeps(f[m].events, d.events) OBVIOUS
  <2>1. m \in 1..N /\ m \in 0..N /\ m - 1 = n /\ n \in 0..N /\ 0 \in 0..N /\ n <= N
    BY <1>2
  <2>2. Keeps(f[n].events, d.events) BY <1>6, <2>1
  <2> HIDE DEF m, T
  <2>3. f[m] = Decode(f[n], umps[m]) /\ umps[m] \in Ump /\ f[n] \in DecoderStates
    BY <1>2, <1>3, <2>1
  <2>4. Keeps(f[m].events, f[n].events) BY <2>3, EventsKept
  <2>5. /\ f[m].events \in Seq(EventType) /\ f[n].events \in Seq(EventType)
        /\ d.events \in Seq(EventType)
    BY <1>3, <1>4, <2>1
  <2>6. QED BY <2>2, <2>4, <2>5, KeepsOn
<1> HIDE DEF T
<1>7. Nat \subseteq T BY <1>5, <1>6, Induction
<1>8. QED BY <1>1, <1>2, <1>7 DEF T

LEMMA StampDecoded ==
  ASSUME NEW d \in DecoderStates, NEW ticks \in Nat, JrTimestamp(ticks) \in Ump
  PROVE  /\ Decode(d, JrTimestamp(ticks)) \in DecoderStates
         /\ Decode(d, JrTimestamp(ticks)).position = d.position + ticks
         /\ Decode(d, JrTimestamp(ticks)).events = d.events
<1> DEFINE u == JrTimestamp(ticks)
           p == d.position + ticks
<1>1. /\ u.type = "utility" /\ u.status = JrStamp
      /\ u.b2 = ticks \div 256 /\ u.b3 = ticks % 256
  BY DEF JrTimestamp, NoUmp
<1>2. d.position \in Nat BY DEF DecoderStates, DecoderType
<1> HIDE DEF u
<1>3. Decode(d, u) = [d EXCEPT !.position = d.position + 256 * u.b2 + u.b3]
  BY <1>1 DEF Decode
<1>4. 256 * u.b2 + u.b3 = ticks /\ u.b2 \in Nat /\ u.b3 \in Nat
  BY <1>1, TwoBytes
<1>5. d.position + 256 * u.b2 + u.b3 = p /\ p \in Nat /\ d.position <= p
  BY <1>2, <1>4
<1> HIDE DEF p
<1>6. Decode(d, u) = [d EXCEPT !.position = p] BY <1>3, <1>5
<1>7. QED BY <1>5, <1>6, PositionMoved DEF u, p

\* One event more, where the decoder is.
OneMore(e, d) ==
  /\ Len(e.events) = Len(d.events) + 1 /\ Keeps(e.events, d.events)
  /\ e.events[Len(d.events) + 1].sample = SampleNumber(e.position)

LEMMA NoteDecoded ==
  ASSUME NEW d \in DecoderStates, NEW u \in Ump, u.type = "midi1"
  PROVE  OneMore(Decode(d, u), d) /\ Decode(d, u).position = d.position
<1> DEFINE m == MidiMessage(u.status + u.channel, u.b2, u.b3)
           l == <<m>>
           old == d.events
           new == Now(d, l)
           L == Len(old)
<1>1. u.status + u.channel \in Nat /\ u.b2 \in Nat /\ u.b3 \in Nat BY FieldTypes
<1>2. m \in Bytes BY <1>1, MessageType
<1>3. Decode(d, u) = AddEvents(d, l) BY DEF Decode
<1> HIDE DEF m
<1>4. l \in Seq(Bytes) /\ Len(l) = 1 BY <1>2
<1>5. d \in DecoderType BY DEF DecoderStates
<1> HIDE DEF l
<1>6. /\ AddEvents(d, l).events = old \o new /\ AddEvents(d, l).position = d.position
  BY <1>4, <1>5, AddEventsFields
<1>7. /\ new \in Seq(EventType) /\ Len(new) = 1
      /\ new[1].sample = SampleNumber(d.position)
  <2>1. 1 \in 1..Len(l) BY <1>4
  <2>2. QED BY <1>4, <1>5, <2>1, NowType
<1>8. old \in Seq(EventType) /\ L \in Nat BY <1>5, LenProperties DEF DecoderType
<1>9. Keeps(old \o new, old) BY <1>4, <1>5, <1>6, AddEventsKeep
<1> HIDE DEF old, new
<1>10. Len(old \o new) = L + 1 /\ (old \o new)[L + 1] = new[1]
  <2>1. /\ Len(old \o new) = L + 1
        /\ \A k \in 1..(L + 1) :
             (old \o new)[k] = IF k <= L THEN old[k] ELSE new[k - L]
    <3>1. /\ Len(old \o new) = Len(old) + Len(new)
          /\ \A k \in 1..(Len(old) + Len(new)) :
               (old \o new)[k] = IF k <= Len(old) THEN old[k] ELSE new[k - Len(old)]
      BY <1>7, <1>8, ConcatProperties
    <3>2. QED BY <1>7, <3>1
  <2>2. L + 1 \in 1..(L + 1) /\ ~(L + 1 <= L) /\ (L + 1) - L = 1 BY <1>8
  <2> DEFINE k == L + 1
  <2>3. k \in 1..k /\ ~(k <= L) /\ k - L = 1 BY <2>2
  <2> HIDE DEF k, L
  <2>4. Len(old \o new) = k /\ (old \o new)[k] = new[1] BY <2>1, <2>3 DEF k
  <2>5. QED BY <2>4 DEF k
<1>11. QED BY <1>3, <1>6, <1>7, <1>9, <1>10 DEF OneMore, old

\* The UMPs of such an item are a message, and a timestamp before it but at 0.
LEMMA PutUmps ==
  ASSUME NEW item \in ItemType, FrameCount <= 2 * SampleRate, PutAt(item)
  PROVE  /\ item.umps \in Seq(Ump) /\ Ticks(item.at) \in Nat
         /\ \/ /\ Len(item.umps) = 1 /\ item.umps[1].type = "midi1"
               /\ Ticks(item.at) = 0
            \/ /\ Len(item.umps) = 2 /\ item.umps[2].type = "midi1"
               /\ item.umps[1] = JrTimestamp(Ticks(item.at))
<1> DEFINE at == item.at
           umps == item.umps
           m == umps[Len(umps)]
           t == Ticks(at)
<1>1. /\ at \in 0..(FrameCount - 1) /\ m.type = "midi1"
      /\ umps = Append(Timestamps(at), m)
  BY DEF PutAt
<1>2. umps \in Seq(Ump) BY DEF ItemType
<1>3. t \in Nat /\ t <= 62499 BY <1>1, Rounded
<1> HIDE DEF at, umps, m
<1>4. CASE at = 0
  <2>1. Timestamps(at) = <<>> BY <1>4 DEF Timestamps
  <2>2. Len(umps) = 1 /\ umps[1] = m BY <1>1, <2>1
  <2>3. t = 0 BY <1>4, MidiAssumption DEF Ticks
  <2>4. QED BY <1>1, <1>2, <1>3, <2>2, <2>3 DEF umps, at
<1>5. CASE at # 0
  <2> DEFINE n == IF t = 0 THEN 1 ELSE 1 + ((t - 1) \div 62500)
             stamps == [k \in 1..n |-> JrTimestamp(t % 62500)]
  <2>1. Timestamps(at) = stamps BY <1>5 DEF Timestamps, Ticks
  <2> HIDE DEF t
  <2>2. n = 1 /\ t % 62500 = t BY <1>3
  <2> HIDE DEF n
  <2>3. stamps = <<JrTimestamp(t)>>
    <3>1. stamps = [k \in 1..1 |-> JrTimestamp(t)] BY <2>2
    <3> HIDE DEF stamps
    <3>2. QED BY <3>1
  <2> HIDE DEF stamps
  <2>4. Len(umps) = 2 /\ umps[1] = JrTimestamp(t) /\ umps[2] = m
    BY <1>1, <2>1, <2>3
  <2>5. QED BY <1>1, <1>2, <1>3, <2>4 DEF umps, at, t
<1>6. QED BY <1>4, <1>5

\* They move the decoder by their ticks, and give an event there.
LEMMA PutDecoded ==
  ASSUME NEW d \in DecoderStates, NEW item \in ItemType,
         FrameCount <= 2 * SampleRate, PutAt(item)
  PROVE  /\ OneMore(Decoded(d, item.umps), d)
         /\ Decoded(d, item.umps).position = d.position + Ticks(item.at)
<1> DEFINE umps == item.umps
           N == Len(umps)
           ticks == Ticks(item.at)
<1>1. /\ umps \in Seq(Ump) /\ ticks \in Nat
      /\ \/ N = 1 /\ umps[1].type = "midi1" /\ ticks = 0
         \/ N = 2 /\ umps[2].type = "midi1" /\ umps[1] = JrTimestamp(ticks)
  BY PutUmps
<1> HIDE DEF umps, ticks
<1>2. PICK f : Decodes(d, umps, f) /\ Decoded(d, umps) = f[N] BY <1>1, DecodeSteps
<1>3. \A n \in 1..N : umps[n] \in Ump BY <1>1, ElementOfSeq
<1>4. f[0] = d /\ \A n \in 1..N : f[n] = Decode(f[n - 1], umps[n])
  BY <1>2 DEF Decodes
<1>5. d.position \in Nat BY DEF DecoderStates, DecoderType
<1>6. CASE N = 1 /\ umps[1].type = "midi1" /\ ticks = 0
  <2>1. 1 \in 1..N /\ 1 - 1 = 0 BY <1>6
  <2>2. f[1] = Decode(d, umps[1]) /\ umps[1] \in Ump BY <1>3, <1>4, <2>1
  <2>3. OneMore(f[1], d) /\ f[1].position = d.position
    BY <1>6, <2>2, NoteDecoded
  <2>4. d.position = d.position + ticks BY <1>5, <1>6
  <2>5. QED BY <1>2, <1>6, <2>3, <2>4 DEF umps, ticks
<1>7. CASE N = 2 /\ umps[2].type = "midi1" /\ umps[1] = JrTimestamp(ticks)
  <2>1. 1 \in 1..N /\ 1 - 1 = 0 /\ 2 \in 1..N /\ 2 - 1 = 1 BY <1>7
  <2>2. /\ f[1] = Decode(d, umps[1]) /\ f[2] = Decode(f[1], umps[2])
        /\ umps[1] \in Ump /\ umps[2] \in Ump
    BY <1>3, <1>4, <2>1
  <2>3. /\ f[1] \in DecoderStates /\ f[1].position = d.position + ticks
        /\ f[1].events = d.events
    BY <1>1, <1>7, <2>2, StampDecoded
  <2>4. OneMore(f[2], f[1]) /\ f[2].position = f[1].position
    BY <1>7, <2>2, <2>3, NoteDecoded
  <2>5. OneMore(f[2], d) BY <2>3, <2>4, Zenon DEF OneMore
  <2>6. f[2].position = d.position + ticks BY <2>3, <2>4
  <2>7. QED BY <1>2, <1>7, <2>5, <2>6 DEF umps, ticks
<1>8. QED BY <1>1, <1>6, <1>7

\* How far these ticks move the decoder.
LEMMA Moved ==
  ASSUME NEW at \in 0..(FrameCount - 1), FrameCount <= 2 * SampleRate, NEW p \in Nat
  PROVE  LET there == SampleNumber(p + Ticks(at))
         IN  there \in (at - PerTick - 1)..(SampleNumber(p) + at)
<1> DEFINE t == Ticks(at)
           q == p + t
           x == p * SampleRate
           y == q * SampleRate
           z == t * SampleRate
           m == x \div 31250
           n == y \div 31250
<1>1. /\ SampleRate \in Nat \ {0} /\ FrameCount \in Nat \ {0} BY MidiAssumption
<1>2. /\ t \in Nat /\ z <= at * 31250
      /\ SampleNumber(t) \in (at - PerTick - 1)..at
  BY Rounded
<1> HIDE DEF t
<1>3. q \in Nat /\ t <= q BY <1>2
<1>4. x \in Nat /\ z \in Nat /\ y = x + z
  <2>1. x \in Nat /\ z \in Nat BY <1>1, <1>2
  <2>2. (p + t) * SampleRate = p * SampleRate + t * SampleRate BY <1>1, <1>2
  <2>3. QED BY <2>1, <2>2
<1>5. SampleNumber(t) <= SampleNumber(q) /\ SampleNumber(q) \in 0..(FrameCount - 1)
  BY <1>2, <1>3, SampleMonotone
<1>6. /\ SampleNumber(p) = IF m >= FrameCount THEN FrameCount - 1 ELSE m
      /\ SampleNumber(q) = IF n >= FrameCount THEN FrameCount - 1 ELSE n
  BY DEF SampleNumber
<1> HIDE DEF q, x, y, z
<1>7. m \in Nat /\ n \in Nat /\ x < 31250 * m + 31250 /\ 31250 * n <= y
  <2>1. y \in Nat BY <1>4
  <2>2. QED BY <1>4, <2>1
<1> HIDE DEF m, n
<1>8. at \in Nat BY <1>1
<1>9. n <= m + at BY <1>2, <1>4, <1>7, <1>8
<1>10. SampleNumber(q) <= SampleNumber(p) + at BY <1>1, <1>6, <1>7, <1>8, <1>9
<1>11. PerTick \in Nat BY <1>1 DEF PerTick
<1>12. SampleNumber(p) \in 0..(FrameCount - 1) BY SampleMonotone
<1>13. SampleNumber(q) \in (at - PerTick - 1)..(SampleNumber(p) + at)
  BY <1>1, <1>2, <1>5, <1>8, <1>10, <1>11, <1>12
<1>14. QED BY <1>13 DEF q, t

\* What EventsOnTime says of one of the items of a block.
Put(block, k) == \A j \in 1..k : block[j].at >= 0
OnTime(events, block, k) ==
  LET at     == block[k].at
      before == IF k = 1 THEN 0 ELSE events[k - 1].sample
  IN  /\ k <= Len(events)
      /\ events[k].sample \in (at - PerTick - 1)..(before + at)

LEMMA OnTimeKept ==
  ASSUME NEW old \in Seq(EventType), NEW new \in Seq(EventType), Keeps(new, old),
         NEW block, NEW k \in Nat \ {0}, OnTime(old, block, k)
  PROVE  OnTime(new, block, k)
<1>1. Len(old) \in Nat /\ Len(new) \in Nat BY LenProperties
<1>2. k <= Len(old) /\ Len(old) <= Len(new) BY DEF OnTime, Keeps
<1>3. k \in 1..Len(old) /\ (k # 1 => k - 1 \in 1..Len(old)) BY <1>1, <1>2
<1>4. new[k] = old[k] /\ (k # 1 => new[k - 1] = old[k - 1]) BY <1>3 DEF Keeps
<1>5. k <= Len(new) BY <1>1, <1>2
<1>6. (IF k = 1 THEN 0 ELSE new[k - 1].sample) = (IF k = 1 THEN 0 ELSE old[k - 1].sample)
  BY <1>4
<1>7. QED BY <1>4, <1>5, <1>6 DEF OnTime

\* As long as each item has been put somewhere, the decoder is where the last
\* event is; what comes after leaves the events in their place.
LEMMA BlockOnTime ==
  ASSUME NEW block \in Seq(ItemType), FrameCount <= 2 * SampleRate,
         \A k \in 1..Len(block) : block[k].at >= 0 => PutAt(block[k]),
         NEW k \in 1..Len(block), Put(block, k)
  PROVE  OnTime(Decoded(NoEvents, Umps(block)).events, block, k)
<1> DEFINE N == Len(block)
<1>1. PICK f : Sends(block, f) /\ Umps(block) = f[N] BY SendSteps
<1>2. N \in Nat /\ \A n \in 1..N : block[n] \in ItemType
  BY LenProperties, ElementOfSeq
<1>3. /\ \A n \in 0..N : f[n] \in Seq(Ump)
      /\ f[0] = <<>> /\ \A n \in 1..N : f[n] = f[n - 1] \o block[n].umps
  BY <1>1 DEF Sends
<1>4. \A n \in 1..N : block[n].umps \in Seq(Ump) BY <1>2 DEF ItemType
<1>5. \A n \in 1..N : block[n].at >= 0 => PutAt(block[n]) OBVIOUS
<1>6. k \in 1..N OBVIOUS
<1> HIDE DEF N
<1> DEFINE d(n) == Decoded(NoEvents, f[n])
           Where(n) == /\ Len(d(n).events) = n
                       /\ SampleNumber(d(n).position) =
                            IF n = 0 THEN 0 ELSE d(n).events[n].sample
           T == {n \in Nat : n <= N => /\ Put(block, n) => Where(n)
                                       /\ n >= k => OnTime(d(n).events, block, k)}
<1>7. ASSUME NEW n \in 0..N
      PROVE  /\ d(n) \in DecoderStates /\ d(n).events \in Seq(EventType)
             /\ d(n).position \in Nat
  <2>1. d(n) \in DecoderStates BY <1>3, NoEventsType, DecodedType
  <2>2. QED BY <2>1 DEF DecoderStates, DecoderType
<1>8. ASSUME NEW m \in 1..N
      PROVE  d(m) = Decoded(d(m - 1), block[m].umps) /\ m - 1 \in 0..N
  <2> DEFINE n == m - 1
  <2>1. n \in 0..N BY <1>2
  <2>2. f[m] = f[n] \o block[m].umps BY <1>3
  <2> HIDE DEF n
  <2>3. f[n] \in Seq(Ump) /\ block[m].umps \in Seq(Ump) BY <1>3, <1>4, <2>1
  <2>4. Decoded(NoEvents, f[n] \o block[m].umps) =
          Decoded(Decoded(NoEvents, f[n]), block[m].umps)
    BY <2>3, NoEventsType, DecodedJoin
  <2>5. QED BY <2>1, <2>2, <2>4 DEF n
<1>9. Where(0)
  <2>1. d(0) = NoEvents BY <1>3, NothingDecoded
  <2>2. Len(d(0).events) = 0 /\ d(0).position = 0
    BY <2>1, EmptySeq DEF NoEvents
  <2>3. SampleNumber(0) = 0
    <3>1. SampleRate \in Nat /\ FrameCount \in Nat \ {0} BY MidiAssumption
    <3>2. (0 * SampleRate) \div 31250 = 0 BY <3>1
    <3>3. QED BY <3>1, <3>2 DEF SampleNumber
  <2>4. QED BY <2>2, <2>3
<1>10. 0 \in T
  <2>1. ~(0 >= k) BY <1>2, <1>6
  <2>2. QED BY <1>9, <2>1
<1> HIDE DEF d
<1>11. ASSUME NEW n \in Nat, n \in T PROVE n + 1 \in T
  <2> DEFINE m == n + 1
             item == block[m]
  <2> SUFFICES ASSUME m <= N
               PROVE  /\ Put(block, m) => Where(m)
                      /\ m >= k => OnTime(d(m).events, block, k)
    OBVIOUS
  <2>1. m \in 1..N /\ m \in 0..N /\ m - 1 = n /\ n \in 0..N /\ n <= N /\ m # 0
    BY <1>2
  <2>2. /\ Put(block, n) => Where(n)
        /\ n >= k => OnTime(d(n).events, block, k)
    BY <1>11, <2>1
  <2>3. d(m) = Decoded(d(n), item.umps) BY <1>8, <2>1
  <2>4. /\ d(n) \in DecoderStates /\ d(n).events \in Seq(EventType)
        /\ d(m).events \in Seq(EventType) /\ d(n).position \in Nat
    BY <1>7, <2>1
  <2>5. item \in ItemType /\ item.umps \in Seq(Ump) BY <1>2, <1>4, <2>1
  <2>6. ASSUME Put(block, m)
        PROVE  Where(m) /\ OnTime(d(m).events, block, m)
    <3>1. Put(block, n) /\ item.at >= 0
      <4>1. \A j \in 1..n : j \in 1..m BY <2>1
      <4>2. m \in 1..m BY <2>1
      <4>3. QED BY <2>6, <4>1, <4>2 DEF Put
    <3>2. /\ Len(d(n).events) = n
          /\ SampleNumber(d(n).position) = IF n = 0 THEN 0 ELSE d(n).events[n].sample
      BY <2>2, <3>1
    <3>3. PutAt(item) BY <1>5, <2>1, <3>1
    <3>4. item.at \in 0..(FrameCount - 1) BY <3>3 DEF PutAt
    <3> HIDE DEF item
    <3>5. OneMore(d(m), d(n)) /\ d(m).position = d(n).position + Ticks(item.at)
      BY <2>3, <2>4, <2>5, <3>3, PutDecoded
    <3>6. /\ Len(d(m).events) = m /\ d(m).events[m].sample = SampleNumber(d(m).position)
          /\ \A j \in 1..n : d(m).events[j] = d(n).events[j]
      BY <3>2, <3>5 DEF OneMore, Keeps
    <3>7. d(m).events[m].sample \in
            (item.at - PerTick - 1)..(SampleNumber(d(n).position) + item.at)
      BY <2>4, <3>4, <3>5, <3>6, Moved
    <3> HIDE DEF m
    <3>8. SampleNumber(d(n).position) = IF m = 1 THEN 0 ELSE d(m).events[m - 1].sample
      <4>1. m = 1 <=> n = 0 BY <2>1
      <4>2. n # 0 => n \in 1..n BY <2>1
      <4>3. QED BY <2>1, <3>2, <3>6, <4>1, <4>2
    <3>9. m <= Len(d(m).events) BY <2>1, <3>6
    <3>10. QED BY <2>1, <3>6, <3>7, <3>8, <3>9 DEF OnTime, item
  <2>7. Keeps(d(m).events, d(n).events) BY <2>3, <2>4, <2>5, DecodedKeeps
  <2>8. ASSUME m >= k PROVE OnTime(d(m).events, block, k)
    <3>1. CASE m = k BY <2>6, <3>1
    <3>2. CASE m # k
      <4>1. n >= k /\ k \in Nat \ {0} BY <1>2, <1>6, <2>8, <3>2
      <4>2. QED BY <2>2, <2>4, <2>7, <4>1, OnTimeKept
    <3>3. QED BY <3>1, <3>2
  <2>9. QED BY <2>6, <2>8
<1> HIDE DEF T
<1>12. Nat \subseteq T BY <1>10, <1>11, Induction
<1>13. OnTime(d(N).events, block, k) BY <1>2, <1>6, <1>12 DEF T
<1>14. QED BY <1>1, <1>13 DEF d

\* Of the events that the host puts at samples, each reaches the plugin no
\* earlier, but for the rounding of ticks, and not later after the one before it
\* than its own timestamp says; the blocks before have no part in it.
THEOREM OnTimeInBlock ==
  ASSUME EventsPut
  PROVE  Spec => []EventsOnTime
<1>1. Init => EventsOnTime
  BY LenProperties, EmptySeq DEF Init, EventsOnTime
<1>2. EventsOnTime /\ [Next]_vars => EventsOnTime'
  <2> SUFFICES ASSUME EventsOnTime, [Next]_vars PROVE EventsOnTime'
    OBVIOUS
  <2>1. ASSUME NEW block \in Blocks, ProcessMidiInputs(block)
        PROVE  EventsOnTime'
    <3> SUFFICES ASSUME acceptsMidi', NEW k \in DOMAIN block, Put(block, k)
                 PROVE  OnTime(decoder'.events, block, k)
      BY <2>1 DEF ProcessMidiInputs, EventsOnTime, Events, PerTick, Put, OnTime
    <3>1. decoder' = Decoded(NoEvents, Umps(block))
      BY <2>1 DEF ProcessMidiInputs, BlockStart
    <3>2. block \in Seq(ItemType) /\ k \in 1..Len(block)
      BY BlockType, LenProperties
    <3>3. /\ FrameCount <= 2 * SampleRate
          /\ \A n \in 1..Len(block) : block[n].at >= 0 => PutAt(block[n])
      BY <3>2, LenProperties DEF EventsPut
    <3>4. QED BY <3>1, <3>2, <3>3, BlockOnTime
  <2>2. CASE UNCHANGED <<acceptsMidi, items, decoder>>
    BY <2>2 DEF EventsOnTime, Events
  <2>3. QED BY <2>1, <2>2 DEF Next, Construct, vars, midiVars
<1>3. QED BY <1>1, <1>2, PTL DEF Spec

(***************************************************************************)
(* Sysex.                                                                  *)
(***************************************************************************)

\* f[n] is the sysex among the first n events.
Picks(events, f) ==
  /\ f \in [0..Len(events) -> Seq(Bytes)] /\ f[0] = <<>>
  /\ \A n \in 1..Len(events) :
       f[n] = IF events[n].bytes[1] = 240 THEN Append(f[n - 1], events[n].bytes)
              ELSE f[n - 1]

\* The recursive function in SysexEvents exists, and is such.
LEMMA PickSteps ==
  ASSUME NEW events \in Seq(EventType)
  PROVE  \E f : Picks(events, f) /\ SysexEvents(events) = f[Len(events)]
<1> DEFINE N == Len(events)
           A == Seq(Bytes)
           Step(n, s) == IF events[n].bytes[1] = 240 THEN Append(s, events[n].bytes)
                         ELSE s
           step == [n \in 1..N |-> [s \in A |-> Step(n, s)]]
           Is(f) == f = [n \in 0..N |-> IF n = 0 THEN <<>> ELSE Step(n, f[n - 1])]
           F == CHOOSE f : Is(f)
<1>1. N \in Nat /\ <<>> \in A BY LenProperties, EmptySeq
<1>2. \A n \in 1..N : events[n].bytes \in Bytes
  <2>1. \A n \in 1..N : events[n] \in EventType BY <1>1, ElementOfSeq
  <2>2. QED BY <2>1 DEF EventType
<1>3. \A n \in 1..N, s \in A : Step(n, s) \in A BY <1>2, AppendProperties
<1>4. step \in [1..N -> [A -> A]] BY <1>3
<1>5. \A n \in 1..N, s \in A : step[n][s] = Step(n, s) OBVIOUS
<1>6. SysexEvents(events) = F[N] BY DEF SysexEvents
<1>7. \A n \in 0..N : n # 0 => n \in 1..N /\ n - 1 \in 0..N BY <1>1
<1> HIDE DEF N, A, step, Step
<1>8. PICK g \in [0..N -> A] : IteratesTo(g, N, <<>>, step)
  BY <1>1, <1>4, BoundedRecursion
<1>9. Is(g)
  <2>1. ASSUME NEW n \in 0..N
        PROVE  g[n] = IF n = 0 THEN <<>> ELSE Step(n, g[n - 1])
    <3>1. g[n] = IF n = 0 THEN <<>> ELSE step[n][g[n - 1]]
      BY <1>8, Zenon DEF IteratesTo
    <3>2. n # 0 => g[n - 1] \in A BY <1>7
    <3>3. QED BY <1>5, <1>7, <3>1, <3>2
  <2>2. QED BY <2>1, Zenon
<1>10. Is(F) BY <1>9
<1> HIDE DEF F
<1>11. \A n \in 0..N : F[n] = IF n = 0 THEN <<>> ELSE Step(n, F[n - 1])
  BY <1>10
<1>12. F[0] = <<>> /\ \A n \in 1..N : F[n] = Step(n, F[n - 1])
  <2>1. 0 \in 0..N /\ \A n \in 1..N : n \in 0..N /\ n # 0 BY <1>1
  <2>2. QED BY <1>11, <2>1, Zenon
<1>13. \A n \in 1..N : F[n - 1] \in A => F[n] \in A BY <1>3, <1>12
<1>14. \A n \in 0..N : F[n] \in A BY <1>1, <1>12, <1>13, StaysIn
<1>15. F \in [0..N -> A] BY <1>10, <1>14
<1>16. QED BY <1>6, <1>12, <1>15 DEF Picks, N, A, Step

\* What the first events are does not depend on those that follow.
LEMMA PicksAgree ==
  ASSUME NEW a \in Seq(EventType), NEW b \in Seq(EventType),
         NEW f, Picks(a \o b, f), NEW g, Picks(a, g)
  PROVE  \A n \in 0..Len(a) : f[n] = g[n]
<1> DEFINE L == Len(a)
           c == a \o b
           T == {n \in Nat : n <= L => f[n] = g[n]}
<1>1. /\ L \in Nat /\ Len(b) \in Nat /\ Len(c) = L + Len(b)
      /\ \A k \in 1..L : c[k] = a[k]
  BY ConcatProperties, LenProperties
<1>2. /\ f[0] = <<>>
      /\ \A n \in 1..Len(c) : f[n] = IF c[n].bytes[1] = 240
                                     THEN Append(f[n - 1], c[n].bytes) ELSE f[n - 1]
  BY DEF Picks
<1>3. /\ g[0] = <<>>
      /\ \A n \in 1..L : g[n] = IF a[n].bytes[1] = 240
                                THEN Append(g[n - 1], a[n].bytes) ELSE g[n - 1]
  BY DEF Picks
<1> HIDE DEF L, c
<1>4. 0 \in T BY <1>2, <1>3
<1>5. ASSUME NEW n \in Nat, n \in T PROVE n + 1 \in T
  <2> DEFINE m == n + 1
  <2> SUFFICES ASSUME m <= L PROVE f[m] = g[m] OBVIOUS
  <2>1. m \in 1..L /\ m \in 1..Len(c) /\ m - 1 = n /\ n <= L BY <1>1
  <2>2. f[n] = g[n] BY <1>5, <2>1
  <2> HIDE DEF m, T
  <2>3. c[m] = a[m] BY <1>1, <2>1
  <2>4. f[m] = IF a[m].bytes[1] = 240 THEN Append(f[n], a[m].bytes) ELSE f[n]
    BY <1>2, <2>1, <2>3
  <2>5. g[m] = IF a[m].bytes[1] = 240 THEN Append(g[n], a[m].bytes) ELSE g[n]
    BY <1>3, <2>1
  <2>6. QED BY <2>2, <2>4, <2>5
<1> HIDE DEF T
<1>6. Nat \subseteq T BY <1>4, <1>5, Induction
<1>7. QED BY <1>1, <1>6 DEF T, L

\* Events that are no sysex add none.
LEMMA NoSysexAdded ==
  ASSUME NEW a \in Seq(EventType), NEW b \in Seq(EventType),
         \A k \in 1..Len(b) : b[k].bytes[1] # 240
  PROVE  SysexEvents(a \o b) = SysexEvents(a)
<1> DEFINE L == Len(a)
           M == Len(b)
           c == a \o b
<1>1. c \in Seq(EventType) BY ConcatProperties
<1>2. PICK f : Picks(c, f) /\ SysexEvents(c) = f[Len(c)] BY <1>1, PickSteps
<1>3. PICK g : Picks(a, g) /\ SysexEvents(a) = g[Len(a)] BY PickSteps
<1>4. f[L] = SysexEvents(a)
  <2>1. \A n \in 0..L : f[n] = g[n] BY <1>2, <1>3, PicksAgree
  <2>2. L \in 0..L BY LenProperties
  <2>3. QED BY <1>3, <2>1, <2>2
<1>5. /\ L \in Nat /\ M \in Nat /\ Len(c) = L + M
      /\ \A k \in 1..(L + M) : c[k] = IF k <= L THEN a[k] ELSE b[k - L]
  BY ConcatProperties, LenProperties
<1>6. \A n \in 1..Len(c) : f[n] = IF c[n].bytes[1] = 240
                                  THEN Append(f[n - 1], c[n].bytes) ELSE f[n - 1]
  BY <1>2 DEF Picks
<1> HIDE DEF L, M, c
<1> DEFINE T == {n \in Nat : n <= M => f[L + n] = f[L]}
<1>7. 0 \in T BY <1>5
<1>8. ASSUME NEW n \in Nat, n \in T PROVE n + 1 \in T
  <2> DEFINE m == L + n
             o == m + 1
  <2> SUFFICES ASSUME n + 1 <= M PROVE f[o] = f[L]
    <3>1. n + 1 \in Nat /\ L + (n + 1) = o BY <1>5
    <3>2. QED BY <3>1
  <2>1. /\ o \in 1..(L + M) /\ o - 1 = m /\ ~(o <= L) /\ o - L = n + 1
        /\ n + 1 \in 1..M /\ n <= M
    BY <1>5
  <2>2. f[m] = f[L] BY <1>8, <2>1
  <2> HIDE DEF o, m, T
  <2>3. c[o] = b[n + 1] BY <1>5, <2>1
  <2>4. c[o].bytes[1] # 240 BY <2>1, <2>3 DEF M
  <2>5. f[o] = f[m] BY <1>5, <1>6, <2>1, <2>4
  <2>6. QED BY <2>2, <2>5
<1> HIDE DEF T
<1>9. Nat \subseteq T BY <1>7, <1>8, Induction
<1>10. f[L + M] = f[L]
  <2>1. M \in T BY <1>5, <1>9
  <2>2. QED BY <1>5, <2>1 DEF T
<1>11. QED BY <1>2, <1>4, <1>5, <1>10 DEF c

\* A sysex adds itself.
LEMMA SysexAdded ==
  ASSUME NEW a \in Seq(EventType), NEW e \in EventType, e.bytes[1] = 240
  PROVE  SysexEvents(a \o <<e>>) = Append(SysexEvents(a), e.bytes)
<1> DEFINE L == Len(a)
           b == <<e>>
           c == a \o b
           o == L + 1
<1>1. b \in Seq(EventType) /\ Len(b) = 1 /\ b[1] = e OBVIOUS
<1> HIDE DEF b
<1>2. c \in Seq(EventType) BY <1>1, ConcatProperties
<1>3. PICK f : Picks(c, f) /\ SysexEvents(c) = f[Len(c)] BY <1>2, PickSteps
<1>4. PICK g : Picks(a, g) /\ SysexEvents(a) = g[Len(a)] BY PickSteps
<1>5. f[L] = SysexEvents(a)
  <2>1. \A n \in 0..L : f[n] = g[n] BY <1>1, <1>3, <1>4, PicksAgree
  <2>2. L \in 0..L BY LenProperties
  <2>3. QED BY <1>4, <2>1, <2>2
<1>6. L \in Nat /\ Len(c) = o /\ c[o] = e
  <2> DEFINE M == Len(b)
  <2>1. /\ L \in Nat /\ M \in Nat /\ Len(c) = L + M
        /\ \A k \in 1..(L + M) : c[k] = IF k <= L THEN a[k] ELSE b[k - L]
    <3>1. b \in Seq(EventType) BY <1>1
    <3>2. QED BY <3>1, ConcatProperties, LenProperties
  <2>2. o \in 1..(L + 1) /\ ~(o <= L) /\ o - L = 1 BY <2>1
  <2>3. QED BY <1>1, <2>1, <2>2
<1>7. o \in 1..Len(c) /\ o - 1 = L BY <1>6
<1> HIDE DEF L, c, o
<1>8. f[o] = IF c[o].bytes[1] = 240 THEN Append(f[o - 1], c[o].bytes) ELSE f[o - 1]
  BY <1>3, <1>7 DEF Picks
<1>9. QED BY <1>3, <1>5, <1>6, <1>7, <1>8 DEF c, b

LEMMA Prepended ==
  ASSUME NEW S, NEW x \in S, NEW s \in Seq(S)
  PROVE  /\ <<x>> \o s \in Seq(S) /\ Len(<<x>> \o s) = Len(s) + 1
         /\ (<<x>> \o s)[1] = x
         /\ \A i \in 1..Len(s) : (<<x>> \o s)[i + 1] = s[i]
OBVIOUS

\* A payload between the bytes 240 and 247.
Framed(payload) == <<240>> \o payload \o <<247>>

LEMMA FramedIs ==
  ASSUME NEW payload \in Seq(Nat)
  PROVE  /\ Framed(payload) \in Seq(Data) /\ Len(payload) \in Nat
         /\ Len(Framed(payload)) = Len(payload) + 2
         /\ Framed(payload)[1] = 240
         /\ Framed(payload)[Len(payload) + 2] = 247
         /\ \A i \in 1..Len(payload) : Framed(payload)[i + 1] = payload[i]
<1> DEFINE a == <<240>> \o payload
           f == Append(a, 247)
           n == Len(payload)
<1>1. n \in Nat /\ payload \in Seq(Data) /\ 240 \in Data /\ 247 \in Data
  BY LenProperties DEF Data
<1>2. /\ a \in Seq(Data) /\ Len(a) = n + 1 /\ a[1] = 240
      /\ \A i \in 1..n : a[i + 1] = payload[i]
  BY <1>1, Prepended
<1>3. Framed(payload) = f BY <1>1, <1>2, AppendIsConcat DEF Framed
<1> HIDE DEF a, n
<1>4. /\ f \in Seq(Data) /\ Len(f) = n + 2 /\ f[n + 2] = 247
      /\ \A i \in 1..(n + 1) : f[i] = a[i]
  BY <1>1, <1>2, AppendProperties
<1> HIDE DEF f
<1>5. f[1] = 240 /\ \A i \in 1..n : f[i + 1] = payload[i]
  BY <1>1, <1>2, <1>4
<1>6. QED BY <1>1, <1>3, <1>4, <1>5 DEF n

LEMMA FittingType ==
  ASSUME NEW item \in ItemType
  PROVE  Fitting(item) \in Seq(Bytes)
<1> DEFINE p == item.sysex[1]
           f == Framed(p)
<1>1. <<>> \in Seq(Bytes) BY EmptySeq
<1>2. ASSUME item.sysex # <<>>, Len(p) + 2 <= Capacity
      PROVE  <<f>> \in Seq(Bytes)
  <2>1. item.sysex \in Seq(Seq(Nat)) BY DEF ItemType
  <2>2. 1 \in 1..Len(item.sysex) BY <1>2, <2>1, EmptySeq, LenProperties
  <2>3. p \in Seq(Nat) BY <2>1, <2>2, ElementOfSeq
  <2> HIDE DEF p
  <2>4. f \in Seq(Data) /\ Len(f) <= Capacity BY <1>2, <2>3, FramedIs
  <2> HIDE DEF f
  <2>5. f \in Bytes BY <2>4 DEF Bytes
  <2>6. QED BY <2>5
<1>3. Fitting(item) = IF item.sysex # <<>> /\ Len(p) + 2 <= Capacity
                      THEN <<f>> ELSE <<>>
  BY DEF Fitting, Framed
<1> HIDE DEF f, p
<1>4. QED BY <1>1, <1>2, <1>3

\* f[n] is the sysex that the host has sent whole with the first n items.
Offers(seq, f) ==
  /\ f \in [0..Len(seq) -> Seq(Bytes)] /\ f[0] = <<>>
  /\ \A n \in 1..Len(seq) : f[n] = f[n - 1] \o Fitting(seq[n])

\* The recursive function in SysexSent exists, and is such.
LEMMA OfferSteps ==
  ASSUME NEW seq \in Seq(ItemType)
  PROVE  \E f : Offers(seq, f) /\ SysexSent(seq) = f[Len(seq)]
<1> DEFINE N == Len(seq)
           A == Seq(Bytes)
           step == [n \in 1..N |-> [s \in A |-> s \o Fitting(seq[n])]]
           Is(f) == f = [n \in 0..N |-> IF n = 0 THEN <<>>
                                        ELSE f[n - 1] \o Fitting(seq[n])]
           F == CHOOSE f : Is(f)
<1>1. N \in Nat /\ <<>> \in A BY LenProperties, EmptySeq
<1>2. \A n \in 1..N : Fitting(seq[n]) \in A
  <2>1. \A n \in 1..N : seq[n] \in ItemType BY <1>1, ElementOfSeq
  <2>2. QED BY <2>1, FittingType
<1>3. \A n \in 1..N, s \in A : s \o Fitting(seq[n]) \in A
  BY <1>2, ConcatProperties
<1>4. step \in [1..N -> [A -> A]] BY <1>3
<1>5. \A n \in 1..N, s \in A : step[n][s] = s \o Fitting(seq[n]) OBVIOUS
<1>6. SysexSent(seq) = F[N] BY DEF SysexSent
<1>7. \A n \in 0..N : n # 0 => n \in 1..N /\ n - 1 \in 0..N BY <1>1
<1> HIDE DEF N, A, step
<1>8. PICK g \in [0..N -> A] : IteratesTo(g, N, <<>>, step)
  BY <1>1, <1>4, BoundedRecursion
<1>9. Is(g)
  <2>1. ASSUME NEW n \in 0..N
        PROVE  g[n] = IF n = 0 THEN <<>> ELSE g[n - 1] \o Fitting(seq[n])
    <3>1. g[n] = IF n = 0 THEN <<>> ELSE step[n][g[n - 1]]
      BY <1>8, Zenon DEF IteratesTo
    <3>2. n # 0 => g[n - 1] \in A BY <1>7
    <3>3. QED BY <1>5, <1>7, <3>1, <3>2
  <2>2. QED BY <2>1, Zenon
<1>10. Is(F) BY <1>9
<1> HIDE DEF F
<1>11. \A n \in 0..N : F[n] = IF n = 0 THEN <<>> ELSE F[n - 1] \o Fitting(seq[n])
  BY <1>10
<1>12. F[0] = <<>> /\ \A n \in 1..N : F[n] = F[n - 1] \o Fitting(seq[n])
  <2>1. 0 \in 0..N /\ \A n \in 1..N : n \in 0..N /\ n # 0 BY <1>1
  <2>2. QED BY <1>11, <2>1, Zenon
<1>13. \A n \in 1..N : F[n - 1] \in A => F[n] \in A BY <1>3, <1>12
<1>14. \A n \in 0..N : F[n] \in A BY <1>1, <1>12, <1>13, StaysIn
<1>15. F \in [0..N -> A] BY <1>10, <1>14
<1>16. QED BY <1>6, <1>12, <1>15 DEF Offers, N, A

\* How many bytes of a payload of n bytes are in its first k packets.
SentBytes(n, k) == IF k < NumPackets(n) THEN 6 * k ELSE n

LEMMA PacketCount ==
  ASSUME NEW n \in Nat
  PROVE  /\ NumPackets(n) \in Nat \ {0} /\ (NumPackets(n) = 1 <=> n <= 6)
         /\ 6 * (NumPackets(n) - 1) <= n /\ n <= 6 * NumPackets(n)
         /\ n > 6 => n - 6 * (NumPackets(n) - 1) = IF n % 6 = 0 THEN 6 ELSE n % 6
<1> DEFINE q == n \div 6
           r == n % 6
<1>1. q \in Nat /\ r \in Nat /\ r <= 5 /\ n = 6 * q + r OBVIOUS
<1>2. NumPackets(n) = IF n <= 6 THEN 1 ELSE IF r = 0 THEN q ELSE q + 1
  BY <1>1 DEF NumPackets
<1> HIDE DEF q
<1> HIDE DEF r
<1>3. CASE n <= 6 BY <1>2, <1>3
<1>4. CASE n > 6 /\ r = 0
  <2>1. NumPackets(n) = q /\ n = 6 * q BY <1>1, <1>2, <1>4
  <2>2. q > 1 BY <1>1, <1>4
  <2>3. QED BY <1>1, <1>4, <2>1, <2>2 DEF r
<1>5. CASE n > 6 /\ r # 0
  <2>1. NumPackets(n) = q + 1 BY <1>1, <1>2, <1>5
  <2>2. q >= 1 BY <1>1, <1>5
  <2>3. QED BY <1>1, <1>5, <2>1, <2>2 DEF r
<1>6. QED BY <1>3, <1>4, <1>5

\* What the packet of an index holds, and what its status says.
LEMMA PacketIs ==
  ASSUME NEW payload \in Seq(Nat), NEW k \in Nat, k < NumPackets(Len(payload))
  PROVE  LET u == PacketOf(payload, k)
             n == Len(payload)
             c == SentBytes(n, k)
             e == SentBytes(n, k + 1)
         IN  /\ c \in Nat /\ e \in Nat /\ c <= e /\ e <= n
             /\ u.type = "sysex7"
             /\ Len(u.bytes) = e - c /\ \A i \in 1..(e - c) : u.bytes[i] = payload[c + i]
             /\ u.status \in {Whole, Start} <=> k = 0
             /\ u.status \in {Whole, End} <=> k + 1 = NumPackets(n)
<1> DEFINE n == Len(payload)
           N == NumPackets(n)
           c == SentBytes(n, k)
           e == SentBytes(n, k + 1)
           last == k = N - 1
           size == IF n <= 6 THEN n ELSE IF last /\ n % 6 # 0 THEN n % 6 ELSE 6
           status == IF n <= 6 THEN Whole ELSE IF k = 0 THEN Start
                     ELSE IF last THEN End ELSE Continue
           bytes == [i \in 1..size |-> payload[6 * k + i]]
           u == PacketOf(payload, k)
<1>1. n \in Nat BY LenProperties
<1>2. /\ N \in Nat \ {0} /\ (N = 1 <=> n <= 6) /\ 6 * (N - 1) <= n /\ n <= 6 * N
      /\ n > 6 => n - 6 * (N - 1) = IF n % 6 = 0 THEN 6 ELSE n % 6
  BY <1>1, PacketCount
<1>3. u.type = "sysex7" /\ u.status = status /\ u.bytes = bytes
  BY DEF PacketOf, NoUmp
<1>4. c = 6 * k /\ e = IF k + 1 < N THEN 6 * (k + 1) ELSE n BY DEF SentBytes
<1> HIDE DEF n, c, e, u
<1> HIDE DEF N
<1>5. size \in Nat /\ e - c = size /\ e \in Nat /\ c \in Nat
  <2>1. CASE n <= 6
    <3>1. N = 1 /\ k = 0 BY <1>1, <1>2, <2>1 DEF N, n
    <3>2. QED BY <1>1, <1>4, <2>1, <3>1
  <2>2. CASE n > 6 /\ k + 1 < N
    <3>1. size = 6 BY <1>1, <1>2, <2>2
    <3>2. QED BY <1>1, <1>2, <1>4, <2>2, <3>1
  <2>3. CASE n > 6 /\ ~(k + 1 < N)
    <3>1. k = N - 1
      <4>1. k < N BY DEF N, n
      <4>2. QED BY <1>2, <2>3, <4>1
    <3>2. size = n - 6 * (N - 1) BY <1>1, <1>2, <2>3, <3>1
    <3>3. QED BY <1>1, <1>2, <1>4, <2>3, <3>1, <3>2
  <2>4. QED BY <1>1, <2>1, <2>2, <2>3
<1>6. e <= n
  <2>1. CASE k + 1 < N
    <3>1. 6 * (k + 1) <= 6 * (N - 1) BY <1>2, <2>1
    <3>2. QED BY <1>1, <1>2, <1>4, <2>1, <3>1
  <2>2. CASE ~(k + 1 < N) BY <1>1, <1>4, <2>2
  <2>3. QED BY <2>1, <2>2
<1>7. /\ status \in {Whole, Start} <=> k = 0
      /\ status \in {Whole, End} <=> k + 1 = N
  <2>1. k < N BY DEF N, n
  <2>2. N = 1 => k = 0 BY <1>2, <2>1
  <2>3. k = N - 1 <=> k + 1 = N BY <1>2
  <2>4. Whole = 0 /\ Start = 16 /\ Continue = 32 /\ End = 48
    BY DEF Whole, Start, Continue, End
  <2>5. QED BY <1>1, <1>2, <2>1, <2>2, <2>3, <2>4
<1> HIDE DEF size, status
<1>8. Len(bytes) = size /\ \A i \in 1..size : bytes[i] = payload[c + i]
  BY <1>4, <1>5
<1> HIDE DEF bytes
<1>9. c <= e BY <1>5
<1>10. QED BY <1>3, <1>5, <1>6, <1>7, <1>8, <1>9 DEF n, N, c, e, u

(***************************************************************************)
(* What a sysex packet, and any other UMP, does to the decoder.            *)
(***************************************************************************)

\* The buffer holds the first c bytes of the payload behind its 240, as far as
\* there is room.
Filled(s, payload, c) ==
  /\ s \in Bytes /\ Len(s) = IF 1 + c < Capacity THEN 1 + c ELSE Capacity
  /\ \A i \in 1..Len(s) : s[i] = Framed(payload)[i]

LEMMA FilledFirst ==
  ASSUME NEW payload \in Seq(Nat) PROVE Filled(<<240>>, payload, 0)
<1>1. Capacity \in Nat /\ Capacity > 2 BY MidiAssumption
<1>2. <<240>> \in Seq(Data) /\ Len(<<240>>) = 1 /\ <<240>>[1] = 240 BY DEF Data
<1>3. <<240>> \in Bytes BY <1>1, <1>2 DEF Bytes
<1>4. Framed(payload)[1] = 240 BY FramedIs
<1>5. QED BY <1>1, <1>2, <1>3, <1>4 DEF Filled

LEMMA FilledMore ==
  ASSUME NEW payload \in Seq(Nat), NEW c \in Nat, NEW e \in Nat, c <= e,
         e <= Len(payload), NEW s, Filled(s, payload, c),
         NEW bytes \in Seq(Data), Len(bytes) = e - c,
         \A i \in 1..(e - c) : bytes[i] = payload[c + i]
  PROVE  Filled(SysexAdd(s, bytes), payload, e)
<1> DEFINE l == Len(s)
           room == Capacity - l
           m == IF Len(bytes) < room THEN Len(bytes) ELSE room
           part == SubSeq(bytes, 1, m)
           t == s \o part
           framed == Framed(payload)
<1>1. Capacity \in Nat /\ Capacity > 2 BY MidiAssumption
<1>2. /\ s \in Seq(Data) /\ l \in Nat /\ l <= Capacity
      /\ l = IF 1 + c < Capacity THEN 1 + c ELSE Capacity
      /\ \A i \in 1..l : s[i] = framed[i]
  BY LenProperties DEF Filled, Bytes
<1>3. SysexAdd(s, bytes) = t BY DEF SysexAdd
<1>4. \A i \in 1..Len(payload) : framed[i + 1] = payload[i] BY FramedIs
<1>5. Len(payload) \in Nat BY LenProperties
<1> HIDE DEF framed
<1>6. m \in Nat /\ m <= Len(bytes) /\ m <= room /\ (m > 0 => l = 1 + c)
  <2> HIDE DEF l
  <2>1. QED BY <1>1, <1>2
<1>7. l + m = IF 1 + e < Capacity THEN 1 + e ELSE Capacity
  <2> HIDE DEF l
  <2>1. QED BY <1>1, <1>2
<1> HIDE DEF m
<1>8. /\ part \in Seq(Data) /\ Len(part) = m
      /\ \A i \in 1..m : part[i] = bytes[i]
  <2>1. \A i \in 1..m : i \in 1..Len(bytes) BY <1>6
  <2>2. \A i \in 1..m : bytes[i] \in Data BY <2>1, ElementOfSeq
  <2>3. part = [i \in 1..m |-> bytes[i]] BY <1>6
  <2>4. part \in [1..m -> Data] BY <2>2, <2>3
  <2>5. part \in Seq(Data) /\ Len(part) = m BY <1>6, <2>4, FunctionIsSeq
  <2>6. QED BY <2>3, <2>5
<1> HIDE DEF part
<1>9. /\ t \in Seq(Data) /\ Len(t) = l + m
      /\ \A i \in 1..(l + m) : t[i] = IF i <= l THEN s[i] ELSE part[i - l]
  BY <1>2, <1>8, ConcatProperties
<1> HIDE DEF l, t
<1>10. t \in Bytes BY <1>1, <1>2, <1>6, <1>9 DEF Bytes
<1>11. ASSUME NEW i \in 1..(l + m) PROVE t[i] = framed[i]
  <2>1. CASE i <= l BY <1>2, <1>9, <2>1
  <2>2. CASE ~(i <= l)
    <3> DEFINE j == i - l
    <3>1. /\ j \in 1..m /\ m > 0 /\ l = 1 + c /\ j \in 1..(e - c)
          /\ c + j \in 1..Len(payload) /\ c + j + 1 = i
      <4>1. j \in 1..m /\ m > 0 BY <1>2, <1>6, <2>2
      <4>2. l = 1 + c /\ m <= e - c BY <1>6, <4>1
      <4>3. j \in 1..(e - c) /\ c + j + 1 = i BY <1>6, <4>1, <4>2
      <4>4. c + j \in 1..Len(payload) BY <1>5, <4>3
      <4>5. QED BY <4>1, <4>2, <4>3, <4>4
    <3> DEFINE o == c + j
    <3>2. t[i] = part[j] BY <1>9, <2>2
    <3> HIDE DEF j
    <3>3. part[j] = bytes[j] /\ bytes[j] = payload[o] BY <1>8, <3>1
    <3> HIDE DEF o
    <3>4. payload[o] = framed[i] BY <1>4, <3>1 DEF o
    <3>5. QED BY <3>2, <3>3, <3>4
  <2>3. QED BY <2>1, <2>2
<1>12. Filled(t, payload, e) BY <1>7, <1>9, <1>10, <1>11 DEF Filled, framed
<1>13. QED BY <1>3, <1>12

\* With the whole payload there and room for one byte, 247 completes it.
LEMMA FilledWhole ==
  ASSUME NEW payload \in Seq(Nat), NEW s, Filled(s, payload, Len(payload))
  PROVE  /\ Len(s) < Capacity <=> Len(payload) + 2 <= Capacity
         /\ Len(s) < Capacity => /\ Append(s, 247) = Framed(payload)
                                 /\ Append(s, 247) \in Bytes
<1> DEFINE n == Len(payload)
           f == Framed(payload)
           t == Append(s, 247)
<1>1. Capacity \in Nat /\ Capacity > 2 BY MidiAssumption
<1>2. /\ s \in Seq(Data) /\ Len(s) = IF 1 + n < Capacity THEN 1 + n ELSE Capacity
      /\ \A i \in 1..Len(s) : s[i] = f[i]
  BY DEF Filled, Bytes
<1>3. f \in Seq(Data) /\ n \in Nat /\ Len(f) = n + 2 /\ f[n + 2] = 247
  BY FramedIs
<1> HIDE DEF n, f
<1>4. Len(s) < Capacity <=> n + 2 <= Capacity BY <1>1, <1>2, <1>3
<1>5. ASSUME Len(s) < Capacity PROVE t = f /\ t \in Bytes
  <2>1. Len(s) = n + 1 BY <1>1, <1>2, <1>3, <1>5
  <2>2. 247 \in Data BY DEF Data
  <2>3. /\ t \in Seq(Data) /\ Len(t) = n + 2 /\ t[n + 2] = 247
        /\ \A i \in 1..(n + 1) : t[i] = s[i]
    <3>1. /\ t \in Seq(Data) /\ Len(t) = Len(s) + 1 /\ t[Len(s) + 1] = 247
          /\ \A i \in 1..Len(s) : t[i] = s[i]
      BY <1>2, <2>2, AppendProperties
    <3>2. n + 1 + 1 = n + 2 BY <1>3
    <3> HIDE DEF t
    <3>3. QED BY <2>1, <3>1, <3>2
  <2> HIDE DEF t
  <2>4. ASSUME NEW i \in 1..(n + 2) PROVE t[i] = f[i]
    <3>1. CASE i = n + 2 BY <1>3, <2>3, <3>1
    <3>2. CASE i # n + 2
      <4>1. i \in 1..(n + 1) BY <1>3, <3>2
      <4>2. QED BY <1>2, <2>1, <2>3, <4>1
    <3>3. QED BY <3>1, <3>2
  <2>5. t = f BY <1>3, <2>3, <2>4, SeqEqual
  <2>6. t \in Bytes BY <1>1, <1>3, <1>4, <1>5, <2>3 DEF Bytes
  <2>7. QED BY <2>5, <2>6
<1>6. QED BY <1>4, <1>5 DEF n, f

\* Messages that are no sysex.
Quiet == {s \in Bytes : s[1] # 240}

LEMMA QuietMessage ==
  ASSUME NEW status \in Nat, status <= 239, NEW b2 \in Nat, NEW b3 \in Nat
  PROVE  MidiMessage(status, b2, b3) \in Quiet
<1>1. MidiMessage(status, b2, b3) \in Bytes BY MessageType
<1>2. MidiMessage(status, b2, b3)[1] = status BY DEF MidiMessage
<1>3. QED BY <1>1, <1>2 DEF Quiet

LEMMA QuietMidi2 ==
  ASSUME NEW u \in Ump
  PROVE  Midi2Messages(u) \in Seq(Quiet)
<1> DEFINE Control(index, v) == MidiMessage(Cc + u.channel, index, v)
           Message(b2, b3)   == MidiMessage(u.status + u.channel, b2, b3)
           Voice             == u.status <= PitchBend
<1>1. /\ u.status \in Nat /\ u.channel \in Nat /\ u.b2 \in Nat /\ u.b3 \in Nat
      /\ u.hi \in Nat /\ u.lo \in Nat
  BY FieldTypes
<1>2. /\ Msb7(u) \in Nat /\ Lsb7(u) \in Nat /\ u.lo \div 256 \in Nat
      /\ u.lo % 256 \in Nat /\ u.hi \div 256 \in Nat
  BY <1>1 DEF Msb7, Lsb7
<1>3. u.channel <= 15
  <2>1. u.channel \in Nibble BY DEF Ump
  <2>2. QED BY <2>1 DEF Nibble
<1>4. /\ \A i, v \in Nat : Control(i, v) \in Quiet
      /\ Voice => \A i, v \in Nat : Message(i, v) \in Quiet
  <2>1. /\ Cc + u.channel \in Nat /\ Cc + u.channel <= 239
        /\ u.status + u.channel \in Nat
        /\ Voice => u.status + u.channel <= 239
    BY <1>1, <1>3 DEF Cc, PitchBend
  <2>2. QED BY <2>1, QuietMessage
<1>5. \A a, b, c, d \in Quiet : /\ <<>> \in Seq(Quiet) /\ <<a>> \in Seq(Quiet)
                               /\ <<a, b>> \in Seq(Quiet)
                               /\ <<a, b, c, d>> \in Seq(Quiet)
  OBVIOUS
<1>6. \A msb, lsb \in Nat :
        <<Control(msb, u.b2), Control(lsb, u.b3),
          Control(6, Msb7(u)), Control(38, Lsb7(u))>> \in Seq(Quiet)
  BY <1>1, <1>2, <1>4, <1>5
<1>7. \A i, v \in Nat : Voice => <<Message(i, v)>> \in Seq(Quiet)
  <2> SUFFICES ASSUME NEW i \in Nat, NEW v \in Nat, Voice
               PROVE  <<Message(i, v)>> \in Seq(Quiet)
    OBVIOUS
  <2>1. Message(i, v) \in Quiet BY <1>4
  <2> HIDE DEF Message
  <2>2. QED BY <2>1, <1>5
<1>8. Voice =>
        /\ <<Message(u.b2, Msb7(u))>> \in Seq(Quiet)
        /\ <<Message(u.b2, IF u.hi > 0 /\ Msb7(u) = 0 THEN 1 ELSE Msb7(u))>>
             \in Seq(Quiet)
        /\ <<Message(Msb7(u), 0)>> \in Seq(Quiet)
  BY <1>1, <1>2, <1>7
<1>9. Voice => (IF u.b3 % 2 = 1
                THEN <<Control(0, u.lo \div 256), Control(32, u.lo % 256)>>
                ELSE <<>>) \o <<Message(u.hi \div 256, 0)>> \in Seq(Quiet)
  <2> SUFFICES ASSUME Voice
               PROVE  (IF u.b3 % 2 = 1
                       THEN <<Control(0, u.lo \div 256), Control(32, u.lo % 256)>>
                       ELSE <<>>) \o <<Message(u.hi \div 256, 0)>> \in Seq(Quiet)
    OBVIOUS
  <2>1. <<Control(0, u.lo \div 256), Control(32, u.lo % 256)>> \in Seq(Quiet)
    <3>1. Control(0, u.lo \div 256) \in Quiet BY <1>2, <1>4
    <3>2. Control(32, u.lo % 256) \in Quiet BY <1>2, <1>4
    <3> HIDE DEF Control
    <3>3. QED BY <3>1, <3>2, <1>5
  <2>2. <<Message(u.hi \div 256, 0)>> \in Seq(Quiet) BY <1>2, <1>7
  <2>3. <<>> \in Seq(Quiet) BY EmptySeq
  <2> HIDE DEF Control, Message
  <2>4. QED BY <2>1, <2>2, <2>3, ConcatProperties
<1>10. Voice => <<Message(PitchBendBytes(u)[1], PitchBendBytes(u)[2])>> \in Seq(Quiet)
  <2>1. PitchBendBytes(u)[1] = Lsb7(u) /\ PitchBendBytes(u)[2] = Msb7(u)
    BY DEF PitchBendBytes
  <2>2. QED BY <1>2, <1>7, <2>1
<1>11. <<>> \in Seq(Quiet) BY EmptySeq
<1>12. u.status \in Voices => Voice
  BY DEF Voices, NoteOff, NoteOn, Paf, Cc, Program, Caf, PitchBend
<1> HIDE DEF Voice
<1>13. QED
  BY <1>6, <1>8, <1>9, <1>10, <1>11, <1>12 DEF Midi2Messages, Voices

\* Such messages leave the sysex as it was, in the buffer and among the events.
SameSysex(after, d) ==
  after.sysex = d.sysex /\ SysexEvents(after.events) = SysexEvents(d.events)

LEMMA QuietAdded ==
  ASSUME NEW d \in DecoderStates, NEW messages \in Seq(Quiet)
  PROVE  SameSysex(AddEvents(d, messages), d)
<1> DEFINE new == Now(d, messages)
           m == Len(messages)
<1>1. d \in DecoderType /\ d.events \in Seq(EventType)
  BY DEF DecoderStates, DecoderType
<1>2. messages \in Seq(Bytes) /\ \A k \in 1..m : messages[k] \in Quiet
  <2>1. Quiet \subseteq Bytes BY DEF Quiet
  <2>2. QED BY <2>1, ElementOfSeq
<1>3. /\ AddEvents(d, messages).sysex = d.sysex
      /\ AddEvents(d, messages).events = d.events \o new
      /\ new \in Seq(EventType) /\ Len(new) = m
      /\ \A k \in 1..m : new[k].bytes = messages[k]
  BY <1>1, <1>2, AddEventsFields, NowType
<1> HIDE DEF new
<1>4. \A k \in 1..Len(new) : new[k].bytes[1] # 240 BY <1>2, <1>3 DEF Quiet
<1>5. SysexEvents(d.events \o new) = SysexEvents(d.events)
  BY <1>1, <1>3, <1>4, NoSysexAdded
<1>6. QED BY <1>3, <1>5 DEF SameSysex

LEMMA OthersDecoded ==
  ASSUME NEW d \in DecoderStates, NEW u \in Ump, u.type # "sysex7",
         u.type = "midi1" => u.status \in Voices
  PROVE  SameSysex(Decode(d, u), d)
<1>1. u.type \in Types /\ SameSysex(d, d) BY FieldTypes DEF SameSysex
<1>2. CASE u.type = "utility"
  <2> DEFINE p == d.position + 256 * u.b2 + u.b3
  <2>1. d \in DecoderType BY DEF DecoderStates
  <2>2. Decode(d, u) = IF u.status = JrStamp THEN [d EXCEPT !.position = p] ELSE d
    BY <1>2 DEF Decode
  <2> HIDE DEF p
  <2>3. /\ [d EXCEPT !.position = p].sysex = d.sysex
        /\ [d EXCEPT !.position = p].events = d.events
    BY <2>1 DEF DecoderType
  <2>4. QED BY <2>2, <2>3 DEF SameSysex
<1>3. CASE u.type = "midi1"
  <2> DEFINE m == MidiMessage(u.status + u.channel, u.b2, u.b3)
  <2>1. u.status \in Nat /\ u.channel \in Nat /\ u.b2 \in Nat /\ u.b3 \in Nat
    BY FieldTypes
  <2>2. u.channel \in Nibble BY DEF Ump
  <2>3. u.status + u.channel \in Nat /\ u.status + u.channel <= 239
    <3>1. u.status <= 224
      BY <1>3 DEF Voices, NoteOff, NoteOn, Paf, Cc, Program, Caf, PitchBend
    <3>2. QED BY <2>1, <2>2, <3>1 DEF Nibble
  <2>4. m \in Quiet BY <2>1, <2>3, QuietMessage
  <2>5. Decode(d, u) = AddEvents(d, <<m>>) BY <1>3 DEF Decode
  <2> HIDE DEF m
  <2>6. <<m>> \in Seq(Quiet) BY <2>4
  <2>7. QED BY <2>5, <2>6, QuietAdded
<1>4. CASE u.type = "midi2"
  <2>1. Decode(d, u) = AddEvents(d, Midi2Messages(u)) BY <1>4 DEF Decode
  <2>2. QED BY <2>1, QuietMidi2, QuietAdded
<1>5. CASE u.type \in {"system", "parameter"}
  <2>1. Decode(d, u) = d BY <1>5 DEF Decode
  <2>2. QED BY <1>1, <2>1
<1>6. QED BY <1>1, <1>2, <1>3, <1>4, <1>5 DEF Types

\* What a payload that was sent whole adds to the sysex of the events.
Arriving(payload) == IF Len(payload) + 2 <= Capacity THEN <<Framed(payload)>> ELSE <<>>

\* The packets before the k-th were decoded last, or none was.
Within(d, payload, k) == k # 0 => Filled(d.sysex, payload, SentBytes(Len(payload), k))

LEMMA SysexEventsType ==
  ASSUME NEW events \in Seq(EventType) PROVE SysexEvents(events) \in Seq(Bytes)
<1>1. PICK f : Picks(events, f) /\ SysexEvents(events) = f[Len(events)]
  BY PickSteps
<1>2. Len(events) \in Nat BY LenProperties
<1>3. QED BY <1>1, <1>2 DEF Picks

\* A packet goes into the buffer; the last one makes the event, if there is room.
LEMMA PacketStored ==
  ASSUME NEW payload \in Seq(Nat), NEW k \in Nat, k < NumPackets(Len(payload)),
         NEW d \in DecoderStates, Within(d, payload, k),
         NEW u \in Ump, u = PacketOf(payload, k)
  PROVE  IF k + 1 = NumPackets(Len(payload))
         THEN /\ Len(payload) + 2 <= Capacity =>
                   /\ Framed(payload) \in Bytes
                   /\ Decode(d, u) = AddEvents([d EXCEPT !.sysex = <<>>], <<Framed(payload)>>)
              /\ ~(Len(payload) + 2 <= Capacity) =>
                   Decode(d, u) = [d EXCEPT !.sysex = <<>>]
         ELSE Within(Decode(d, u), payload, k + 1) /\ Decode(d, u).events = d.events
<1> DEFINE n == Len(payload)
           N == NumPackets(n)
           c == SentBytes(n, k)
           e == SentBytes(n, k + 1)
           begin == SysexBegin(d, u)
           sysex == SysexAdd(begin, u.bytes)
           whole == [d EXCEPT !.sysex = <<>>]
           stored == [d EXCEPT !.sysex = sysex]
<1>1. /\ c \in Nat /\ e \in Nat /\ c <= e /\ e <= n
      /\ u.type = "sysex7"
      /\ Len(u.bytes) = e - c /\ \A i \in 1..(e - c) : u.bytes[i] = payload[c + i]
      /\ u.status \in {Whole, Start} <=> k = 0
      /\ u.status \in {Whole, End} <=> k + 1 = N
  BY PacketIs
<1>2. Filled(begin, payload, c)
  <2>1. CASE k = 0
    <3>1. begin = <<240>> BY <1>1, <2>1 DEF SysexBegin
    <3>2. n \in Nat BY LenProperties
    <3>3. c = 0 BY <2>1 DEF SentBytes
    <3>4. QED BY <3>1, <3>3, FilledFirst
  <2>2. CASE k # 0
    <3>1. begin = d.sysex BY <1>1, <2>2 DEF SysexBegin
    <3>2. QED BY <2>2, <3>1 DEF Within
  <2>3. QED BY <2>1, <2>2
<1>3. u.bytes \in Seq(Data) BY FieldTypes
<1> HIDE DEF begin, c
<1>4. Filled(sysex, payload, e) BY <1>1, <1>2, <1>3, FilledMore
<1>5. sysex \in Bytes BY SysexTypes DEF begin
<1>6. Decode(d, u) =
        IF k + 1 = N
        THEN IF Len(sysex) < Capacity
             THEN AddEvents(whole, <<Append(sysex, 247)>>) ELSE whole
        ELSE stored
  BY <1>1 DEF Decode, DecodeSysex7, begin
<1> HIDE DEF sysex, whole
<1>7. CASE k + 1 # N
  <2>1. d \in DecoderType BY DEF DecoderStates
  <2>2. stored.sysex = sysex BY <2>1 DEF DecoderType
  <2>3. stored.events = d.events BY <1>5, SysexSet
  <2> HIDE DEF stored
  <2>4. QED BY <1>4, <1>6, <1>7, <2>2, <2>3 DEF Within
<1>8. CASE k + 1 = N
  <2>1. e = n BY <1>8 DEF SentBytes
  <2>2. /\ Len(sysex) < Capacity <=> n + 2 <= Capacity
        /\ Len(sysex) < Capacity => /\ Append(sysex, 247) = Framed(payload)
                                    /\ Append(sysex, 247) \in Bytes
    BY <1>4, <2>1, FilledWhole
  <2>3. QED BY <1>6, <1>8, <2>2 DEF whole
<1>9. QED BY <1>7, <1>8

LEMMA PacketDecoded ==
  ASSUME NEW payload \in Seq(Nat), NEW k \in Nat, k < NumPackets(Len(payload)),
         NEW d \in DecoderStates, Within(d, payload, k),
         NEW u \in Ump, u = PacketOf(payload, k)
  PROVE  IF k + 1 = NumPackets(Len(payload))
         THEN SysexEvents(Decode(d, u).events) =
                SysexEvents(d.events) \o Arriving(payload)
         ELSE /\ Within(Decode(d, u), payload, k + 1)
              /\ SysexEvents(Decode(d, u).events) = SysexEvents(d.events)
<1> DEFINE fits == Len(payload) + 2 <= Capacity
           whole == [d EXCEPT !.sysex = <<>>]
           before == SysexEvents(d.events)
           message == Framed(payload)
           l == <<message>>
<1>1. <<>> \in Bytes BY SysexTypes
<1>2. whole \in DecoderStates /\ whole.events = d.events BY <1>1, SysexSet
<1>3. IF k + 1 = NumPackets(Len(payload))
      THEN /\ fits => message \in Bytes /\ Decode(d, u) = AddEvents(whole, l)
           /\ ~fits => Decode(d, u) = whole
      ELSE Within(Decode(d, u), payload, k + 1) /\ Decode(d, u).events = d.events
  BY PacketStored
<1>4. d.events \in Seq(EventType) BY DEF DecoderStates, DecoderType
<1>5. before \in Seq(Bytes) BY <1>4, SysexEventsType
<1>6. message[1] = 240 BY FramedIs
<1> HIDE DEF whole
<1>7. ASSUME message \in Bytes
      PROVE  SysexEvents(AddEvents(whole, l).events) = before \o l
  <2> DEFINE event == [bytes |-> message, sample |-> SampleNumber(whole.position)]
  <2> HIDE DEF message
  <2>1. l \in Seq(Bytes) /\ Len(l) = 1 /\ l[1] = message BY <1>7
  <2>2. whole \in DecoderType BY <1>2 DEF DecoderStates
  <2>3. AddEvents(whole, l).events = d.events \o Now(whole, l)
    BY <1>2, <2>1, <2>2, AddEventsFields
  <2>4. whole.position \in Nat BY <2>2 DEF DecoderType
  <2>5. SampleNumber(whole.position) \in 0..(FrameCount - 1)
    BY <2>4, SampleMonotone
  <2>6. event \in EventType /\ event.bytes = message
    BY <1>7, <2>5 DEF EventType
  <2>7. Now(whole, l) = <<event>>
    <3>1. Now(whole, l) = [i \in 1..1 |-> event] BY <2>1 DEF Now
    <3> HIDE DEF event
    <3>2. QED BY <3>1
  <2> HIDE DEF event
  <2>8. SysexEvents(d.events \o <<event>>) = Append(before, message)
    BY <1>4, <1>6, <2>6, SysexAdded
  <2>9. Append(before, message) = before \o l BY <1>5, <1>7, AppendIsConcat
  <2>10. QED BY <2>3, <2>7, <2>8, <2>9
<1>8. Arriving(payload) = IF fits THEN l ELSE <<>> BY DEF Arriving
<1>9. before \o <<>> = before BY <1>5, ConcatEmptySeq
<1> HIDE DEF message, fits, l
<1>10. QED BY <1>2, <1>3, <1>7, <1>8, <1>9

\* An item adds the sysex that it carries whole, if there is room for it.
LEMMA ItemDecoded ==
  ASSUME NEW item \in ItemType, NEW d \in DecoderStates,
         NEW payload \in Seq(Nat), Carries(item, payload)
  PROVE  SysexEvents(Decoded(d, item.umps).events) =
           SysexEvents(d.events) \o Fitting(item)
<1> DEFINE umps == item.umps
           M == Len(umps)
           N == NumPackets(Len(payload))
           before == SysexEvents(d.events)
<1>1. umps \in Seq(Ump) BY DEF ItemType
<1>2. M \in Nat /\ \A n \in 1..M : umps[n] \in Ump
  BY <1>1, LenProperties, ElementOfSeq
<1>3. N \in Nat \ {0}
  <2>1. Len(payload) \in Nat BY LenProperties
  <2>2. QED BY <2>1, PacketCount
<1>4. PICK sent \in [0..M -> 0..N] :
        /\ sent[0] = 0
        /\ \A k \in 1..M :
             IF umps[k].type = "sysex7"
             THEN umps[k] = PacketOf(payload, sent[k - 1]) /\ sent[k] = sent[k - 1] + 1
             ELSE /\ umps[k].type = "midi1" => umps[k].status \in Voices
                  /\ sent[k] = sent[k - 1]
        /\ item.sysex = IF sent[M] = N THEN <<payload>> ELSE <<>>
  BY DEF Carries
<1>5. PICK f : Decodes(d, umps, f) /\ Decoded(d, umps) = f[M]
  BY <1>1, DecodeSteps
<1>6. /\ f[0] = d /\ \A n \in 0..M : f[n] \in DecoderStates
      /\ \A n \in 1..M : f[n] = Decode(f[n - 1], umps[n])
  BY <1>5 DEF Decodes
<1>7. before \in Seq(Bytes)
  BY SysexEventsType DEF DecoderStates, DecoderType
<1> HIDE DEF umps, M, N
<1> DEFINE Good(n) == IF sent[n] = N
                      THEN SysexEvents(f[n].events) = before \o Arriving(payload)
                      ELSE /\ Within(f[n], payload, sent[n])
                           /\ SysexEvents(f[n].events) = before
           T == {n \in Nat : n <= M => Good(n)}
<1>8. 0 \in T
  <2>1. sent[0] # N BY <1>3, <1>4
  <2>2. QED BY <1>4, <1>6, <2>1 DEF Within
<1>9. ASSUME NEW n \in Nat, n \in T PROVE n + 1 \in T
  <2> DEFINE m == n + 1
             q == sent[n]
             u == umps[m]
  <2> SUFFICES ASSUME m <= M PROVE Good(m) OBVIOUS
  <2>1. m \in 1..M /\ m - 1 = n /\ n \in 0..M /\ n <= M BY <1>2
  <2>2. Good(n) BY <1>9, <2>1
  <2>3. /\ f[m] = Decode(f[n], u) /\ f[n] \in DecoderStates /\ u \in Ump
    <3> HIDE DEF m
    <3>1. QED BY <1>2, <1>6, <2>1
  <2>4. q \in 0..N /\ sent[m] \in 0..N BY <1>4, <2>1
  <2>5. IF u.type = "sysex7"
        THEN u = PacketOf(payload, q) /\ sent[m] = q + 1
        ELSE (u.type = "midi1" => u.status \in Voices) /\ sent[m] = q
    <3> HIDE DEF m
    <3>1. QED BY <1>4, <2>1
  <2> HIDE DEF m, u, T
  <2>6. CASE u.type = "sysex7"
    <3>1. u = PacketOf(payload, q) /\ sent[m] = q + 1 BY <2>5, <2>6
    <3>2. q \in Nat /\ q < N BY <1>3, <2>4, <3>1
    <3>3. q # N BY <1>3, <3>2
    <3>4. Within(f[n], payload, q) /\ SysexEvents(f[n].events) = before
      BY <2>2, <3>3
    <3> HIDE DEF q
    <3>5. IF q + 1 = N
          THEN SysexEvents(Decode(f[n], u).events) =
                 SysexEvents(f[n].events) \o Arriving(payload)
          ELSE /\ Within(Decode(f[n], u), payload, q + 1)
               /\ SysexEvents(Decode(f[n], u).events) = SysexEvents(f[n].events)
      BY <2>3, <3>1, <3>2, <3>4, PacketDecoded DEF N
    <3>6. QED BY <2>3, <3>1, <3>4, <3>5
  <2>7. CASE u.type # "sysex7"
    <3>1. (u.type = "midi1" => u.status \in Voices) /\ sent[m] = q
      BY <2>5, <2>7
    <3>2. SameSysex(f[m], f[n]) BY <2>3, <2>7, <3>1, OthersDecoded
    <3>3. QED BY <2>2, <3>1, <3>2 DEF SameSysex, Within
  <2>8. QED BY <2>6, <2>7
<1> HIDE DEF T
<1>10. Nat \subseteq T BY <1>8, <1>9, Induction
<1>11. Good(M) BY <1>2, <1>10 DEF T
<1>12. CASE sent[M] = N
  <2>1. item.sysex = <<payload>> BY <1>4, <1>12
  <2>2. item.sysex # <<>> /\ item.sysex[1] = payload BY <2>1
  <2>3. Fitting(item) = Arriving(payload) BY <2>2 DEF Fitting, Arriving, Framed
  <2>4. QED BY <1>5, <1>11, <1>12, <2>3 DEF umps
<1>13. CASE sent[M] # N
  <2>1. Fitting(item) = <<>> BY <1>4, <1>13 DEF Fitting
  <2>2. before \o <<>> = before BY <1>7, ConcatEmptySeq
  <2>3. QED BY <1>5, <1>11, <1>13, <2>1, <2>2 DEF umps
<1>14. QED BY <1>12, <1>13

LEMMA NothingSent ==
  /\ Decoded(NoEvents, <<>>).events = <<>> /\ SysexEvents(<<>>) = <<>>
<1>1. <<>> \in Seq(EventType) /\ Len(<<>>) = 0 BY EmptySeq
<1>2. PICK g : Picks(<<>>, g) /\ SysexEvents(<<>>) = g[Len(<<>>)]
  BY <1>1, PickSteps
<1>3. SysexEvents(<<>>) = <<>> BY <1>1, <1>2 DEF Picks
<1>4. QED BY <1>3, NothingDecoded DEF NoEvents

\* A block gives the sysex that its items carry whole.
LEMMA BlockDecoded ==
  ASSUME NEW payloads \in SUBSET Seq(Nat), NEW block \in Seq(ItemType),
         \A k \in 1..Len(block) : \E payload \in payloads : Carries(block[k], payload)
  PROVE  SysexEvents(Decoded(NoEvents, Umps(block)).events) = SysexSent(block)
<1> DEFINE N == Len(block)
           got(s) == SysexEvents(Decoded(NoEvents, s).events)
<1>1. PICK f : Sends(block, f) /\ Umps(block) = f[N] BY SendSteps
<1>2. PICK g : Offers(block, g) /\ SysexSent(block) = g[N] BY OfferSteps
<1>3. N \in Nat /\ \A n \in 1..N : block[n] \in ItemType
  BY LenProperties, ElementOfSeq
<1>4. /\ \A n \in 0..N : f[n] \in Seq(Ump)
      /\ f[0] = <<>> /\ \A n \in 1..N : f[n] = f[n - 1] \o block[n].umps
  BY <1>1 DEF Sends
<1>5. g[0] = <<>> /\ \A n \in 1..N : g[n] = g[n - 1] \o Fitting(block[n])
  BY <1>2 DEF Offers
<1>6. \A k \in 1..N : \E payload \in Seq(Nat) : Carries(block[k], payload)
  OBVIOUS
<1> HIDE DEF N
<1> DEFINE T == {n \in Nat : n <= N => got(f[n]) = g[n]}
<1>7. 0 \in T BY <1>4, <1>5, NothingSent
<1>8. ASSUME NEW n \in Nat, n \in T PROVE n + 1 \in T
  <2> DEFINE m == n + 1
             item == block[m]
             d == Decoded(NoEvents, f[n])
  <2> SUFFICES ASSUME m <= N PROVE got(f[m]) = g[m] OBVIOUS
  <2>1. m \in 1..N /\ m - 1 = n /\ n \in 0..N /\ n <= N BY <1>3
  <2>2. got(f[n]) = g[n] BY <1>8, <2>1
  <2> HIDE DEF m, T
  <2>3. /\ item \in ItemType /\ f[m] = f[n] \o item.umps /\ f[n] \in Seq(Ump)
        /\ g[m] = g[n] \o Fitting(item)
    BY <1>3, <1>4, <1>5, <2>1
  <2>4. PICK payload \in Seq(Nat) : Carries(item, payload) BY <1>6, <2>1
  <2> HIDE DEF item
  <2>5. item.umps \in Seq(Ump) BY <2>3 DEF ItemType
  <2>6. d \in DecoderStates BY <2>3, NoEventsType, DecodedType
  <2>7. Decoded(NoEvents, f[m]) = Decoded(d, item.umps)
    BY <2>3, <2>5, NoEventsType, DecodedJoin
  <2> HIDE DEF d
  <2>8. SysexEvents(Decoded(d, item.umps).events) =
          SysexEvents(d.events) \o Fitting(item)
    BY <2>3, <2>4, <2>6, ItemDecoded
  <2>9. QED BY <2>2, <2>3, <2>7, <2>8 DEF d
<1> HIDE DEF T
<1>9. Nat \subseteq T BY <1>7, <1>8, Induction
<1>10. got(f[N]) = g[N] BY <1>3, <1>9 DEF T
<1>11. QED BY <1>1, <1>2, <1>10

\* Each sysex of a block that has room in sysex_buffer reaches the plugin whole
\* and once, in order, whatever lies between its packets, and however many before
\* it were broken off or too long.
THEOREM SysexArrives ==
  ASSUME NEW payloads \in SUBSET Seq(Nat), SysexCarried(payloads)
  PROVE  Spec => []SysexIntact
<1>1. Init => SysexIntact
  <2> SUFFICES ASSUME Init PROVE SysexEvents(Events) = SysexSent(items)
    BY DEF SysexIntact
  <2>1. Events = <<>> /\ items = <<>> BY DEF Init, Events, NoEvents
  <2>2. items \in Seq(ItemType) /\ Len(items) = 0 BY <2>1, EmptySeq
  <2>3. PICK g : Offers(items, g) /\ SysexSent(items) = g[Len(items)]
    BY <2>2, OfferSteps
  <2>4. SysexSent(items) = <<>> BY <2>2, <2>3 DEF Offers
  <2>5. QED BY <2>1, <2>4, NothingSent
<1>2. SysexIntact /\ [Next]_vars => SysexIntact'
  <2> SUFFICES ASSUME SysexIntact, [Next]_vars PROVE SysexIntact'
    OBVIOUS
  <2>1. ASSUME NEW block \in Blocks, ProcessMidiInputs(block)
        PROVE  SysexIntact'
    <3> SUFFICES ASSUME acceptsMidi'
                 PROVE  SysexEvents(decoder'.events) = SysexSent(block)
      BY <2>1 DEF ProcessMidiInputs, SysexIntact, Events
    <3>1. decoder' = Decoded(NoEvents, Umps(block))
      BY <2>1 DEF ProcessMidiInputs, BlockStart
    <3>2. block \in Seq(ItemType) BY BlockType
    <3>3. \A k \in 1..Len(block) :
            \E payload \in payloads : Carries(block[k], payload)
      BY DEF SysexCarried
    <3>4. QED BY <3>1, <3>2, <3>3, BlockDecoded
  <2>2. CASE UNCHANGED <<acceptsMidi, items, decoder>>
    BY <2>2 DEF SysexIntact, Events
  <2>3. QED BY <2>1, <2>2 DEF Next, Construct, vars, midiVars
<1>3. QED BY <1>1, <1>2, PTL DEF Spec

(***************************************************************************)
(* The conversion of cmidi2.h.                                             *)
(***************************************************************************)

\* f[n] is the bytes of the first n events.
Gathers(events, f) ==
  /\ f \in [0..Len(events) -> Seq(Data)] /\ f[0] = <<>>
  /\ \A n \in 1..Len(events) : f[n] = f[n - 1] \o events[n].bytes

\* The recursive function in EventBytes exists, and is such.
LEMMA GatherSteps ==
  ASSUME NEW events \in Seq(EventType)
  PROVE  \E f : Gathers(events, f) /\ EventBytes(events) = f[Len(events)]
<1> DEFINE N == Len(events)
           A == Seq(Data)
           step == [n \in 1..N |-> [s \in A |-> s \o events[n].bytes]]
           Is(f) == f = [n \in 0..N |-> IF n = 0 THEN <<>>
                                        ELSE f[n - 1] \o events[n].bytes]
           F == CHOOSE f : Is(f)
<1>1. N \in Nat /\ <<>> \in A BY LenProperties, EmptySeq
<1>2. \A n \in 1..N : events[n].bytes \in A
  <2>1. \A n \in 1..N : events[n] \in EventType BY <1>1, ElementOfSeq
  <2>2. QED BY <2>1 DEF EventType, Bytes
<1>3. \A n \in 1..N, s \in A : s \o events[n].bytes \in A
  BY <1>2, ConcatProperties
<1>4. step \in [1..N -> [A -> A]] BY <1>3
<1>5. \A n \in 1..N, s \in A : step[n][s] = s \o events[n].bytes OBVIOUS
<1>6. EventBytes(events) = F[N] BY DEF EventBytes
<1>7. \A n \in 0..N : n # 0 => n \in 1..N /\ n - 1 \in 0..N BY <1>1
<1> HIDE DEF N, A, step
<1>8. PICK g \in [0..N -> A] : IteratesTo(g, N, <<>>, step)
  BY <1>1, <1>4, BoundedRecursion
<1>9. Is(g)
  <2>1. ASSUME NEW n \in 0..N
        PROVE  g[n] = IF n = 0 THEN <<>> ELSE g[n - 1] \o events[n].bytes
    <3>1. g[n] = IF n = 0 THEN <<>> ELSE step[n][g[n - 1]]
      BY <1>8, Zenon DEF IteratesTo
    <3>2. n # 0 => g[n - 1] \in A BY <1>7
    <3>3. QED BY <1>5, <1>7, <3>1, <3>2
  <2>2. QED BY <2>1, Zenon
<1>10. Is(F) BY <1>9
<1> HIDE DEF F
<1>11. \A n \in 0..N : F[n] = IF n = 0 THEN <<>> ELSE F[n - 1] \o events[n].bytes
  BY <1>10
<1>12. F[0] = <<>> /\ \A n \in 1..N : F[n] = F[n - 1] \o events[n].bytes
  <2>1. 0 \in 0..N /\ \A n \in 1..N : n \in 0..N /\ n # 0 BY <1>1
  <2>2. QED BY <1>11, <2>1, Zenon
<1>13. \A n \in 1..N : F[n - 1] \in A => F[n] \in A BY <1>3, <1>12
<1>14. \A n \in 0..N : F[n] \in A BY <1>1, <1>12, <1>13, StaysIn
<1>15. F \in [0..N -> A] BY <1>10, <1>14
<1>16. QED BY <1>6, <1>12, <1>15 DEF Gathers, N, A

LEMMA EventBytesType ==
  ASSUME NEW events \in Seq(EventType) PROVE EventBytes(events) \in Seq(Data)
<1>1. PICK f : Gathers(events, f) /\ EventBytes(events) = f[Len(events)]
  BY GatherSteps
<1>2. Len(events) \in Nat BY LenProperties
<1>3. QED BY <1>1, <1>2 DEF Gathers

\* One more event adds its bytes.
LEMMA EventBytesAdded ==
  ASSUME NEW a \in Seq(EventType), NEW e \in EventType
  PROVE  EventBytes(Append(a, e)) = EventBytes(a) \o e.bytes
<1> DEFINE L == Len(a)
           c == Append(a, e)
           o == L + 1
           step == [n \in 1..o |-> [s \in Seq(Data) |-> s \o c[n].bytes]]
<1>1. /\ c \in Seq(EventType) /\ L \in Nat /\ Len(c) = o /\ c[o] = e
      /\ \A n \in 1..L : c[n] = a[n]
  BY AppendProperties, LenProperties
<1>2. PICK f : Gathers(c, f) /\ EventBytes(c) = f[Len(c)] BY <1>1, GatherSteps
<1>3. PICK g : Gathers(a, g) /\ EventBytes(a) = g[L] BY GatherSteps
<1>4. /\ f[0] = <<>> /\ \A n \in 0..o : f[n] \in Seq(Data)
      /\ \A n \in 1..o : f[n] = f[n - 1] \o c[n].bytes
  BY <1>1, <1>2 DEF Gathers
<1>5. /\ g[0] = <<>> /\ \A n \in 1..L : g[n] = g[n - 1] \o a[n].bytes
  BY <1>3 DEF Gathers
<1> HIDE DEF L, c
<1> DEFINE T == {n \in Nat : n <= L => f[n] = g[n]}
<1>6. 0 \in T BY <1>4, <1>5
<1>7. ASSUME NEW n \in Nat, n \in T PROVE n + 1 \in T
  <2> DEFINE m == n + 1
  <2> SUFFICES ASSUME m <= L PROVE f[m] = g[m] OBVIOUS
  <2>1. m \in 1..L /\ m \in 1..o /\ m - 1 = n /\ n <= L BY <1>1
  <2>2. f[n] = g[n] BY <1>7, <2>1
  <2> HIDE DEF m, o, T
  <2>3. c[m] = a[m] BY <1>1, <2>1
  <2>4. f[m] = f[n] \o a[m].bytes BY <1>4, <2>1, <2>3
  <2>5. g[m] = g[n] \o a[m].bytes BY <1>5, <2>1
  <2>6. QED BY <2>2, <2>4, <2>5
<1> HIDE DEF T
<1>8. Nat \subseteq T BY <1>6, <1>7, Induction
<1>9. f[L] = g[L] BY <1>1, <1>8 DEF T
<1>10. o \in 1..o /\ o - 1 = L BY <1>1
<1> HIDE DEF o
<1>11. f[o] = f[L] \o e.bytes BY <1>1, <1>4, <1>10
<1>12. QED BY <1>1, <1>2, <1>3, <1>9, <1>11 DEF c

LEMMA AppendedToJoin ==
  ASSUME NEW S, NEW a \in Seq(S), NEW b \in Seq(S), NEW e \in S
  PROVE  a \o Append(b, e) = Append(a \o b, e)
OBVIOUS

\* One more message adds its bytes.
LEMMA MessageAdded ==
  ASSUME NEW d \in DecoderStates, NEW messages \in Seq(Bytes), NEW m \in Bytes
  PROVE  EventBytes(AddEvents(d, Append(messages, m)).events) =
           EventBytes(AddEvents(d, messages).events) \o m
<1> DEFINE all == Append(messages, m)
           L == Len(messages)
           o == L + 1
           s == SampleNumber(d.position)
           e == [bytes |-> m, sample |-> s]
           old == Now(d, messages)
           new == Now(d, all)
<1>1. /\ all \in Seq(Bytes) /\ L \in Nat /\ Len(all) = o /\ all[o] = m
      /\ \A n \in 1..L : all[n] = messages[n]
  BY AppendProperties, LenProperties
<1>2. d \in DecoderType /\ d.events \in Seq(EventType)
  BY DEF DecoderStates, DecoderType
<1>3. /\ AddEvents(d, all).events = d.events \o new
      /\ AddEvents(d, messages).events = d.events \o old
  BY <1>1, <1>2, AddEventsFields
<1>4. /\ new \in Seq(EventType) /\ Len(new) = o
      /\ \A k \in 1..o : new[k].bytes = all[k] /\ new[k].sample = s
  BY <1>1, <1>2, NowType
<1>5. /\ old \in Seq(EventType) /\ Len(old) = L
      /\ \A k \in 1..L : old[k].bytes = messages[k] /\ old[k].sample = s
  BY <1>1, <1>2, NowType
<1>6. e \in EventType /\ e.bytes = m
  <2>1. d.position \in Nat BY <1>2 DEF DecoderType
  <2>2. s \in 0..(FrameCount - 1) BY <2>1, SampleMonotone
  <2> HIDE DEF s
  <2>3. QED BY <2>2 DEF EventType
<1>7. new = Append(old, e)
  <2> DEFINE t == Append(old, e)
  <2>1. /\ t \in Seq(EventType) /\ Len(t) = o /\ t[o] = e
        /\ \A k \in 1..L : t[k] = old[k]
    <3> HIDE DEF e, old
    <3>1. QED BY <1>5, <1>6, AppendProperties
  <2>2. ASSUME NEW k \in 1..o PROVE new[k] = t[k]
    <3>1. t[k].bytes = all[k] /\ t[k].sample = s
      <4>1. e.bytes = m /\ e.sample = s OBVIOUS
      <4> HIDE DEF e, t, old, s, all
      <4>2. CASE k = o BY <1>1, <2>1, <4>1, <4>2
      <4>3. CASE k # o
        <5>1. k \in 1..L BY <1>1, <4>3
        <5>2. QED BY <1>1, <1>5, <2>1, <5>1
      <4>4. QED BY <4>2, <4>3
    <3>2. new[k] \in EventType /\ t[k] \in EventType
      BY <1>4, <2>1, ElementOfSeq
    <3> HIDE DEF new, t, s, all
    <3>3. new[k].bytes = t[k].bytes /\ new[k].sample = t[k].sample
      BY <1>4, <3>1
    <3>4. QED BY <3>2, <3>3 DEF EventType
  <2> HIDE DEF new, t
  <2>3. QED BY <1>4, <2>1, <2>2, SeqEqual DEF t
<1> HIDE DEF e, old, new, all
<1> DEFINE was == d.events
<1>8. was \in Seq(EventType) /\ old \in Seq(EventType) BY <1>2, <1>5
<1> HIDE DEF was
<1>9. was \o Append(old, e) = Append(was \o old, e) BY <1>6, <1>8, AppendedToJoin
<1>10. was \o old \in Seq(EventType) BY <1>8, ConcatProperties
<1>11. EventBytes(Append(was \o old, e)) = EventBytes(was \o old) \o e.bytes
  BY <1>6, <1>10, EventBytesAdded
<1>12. QED BY <1>3, <1>6, <1>7, <1>9, <1>11 DEF all, was

LEMMA ListJoined ==
  ASSUME NEW S, NEW s \in Seq(S),
         NEW a \in S, NEW b \in S, NEW c \in S, NEW e \in S
  PROVE  /\ s \o <<a>> = Append(s, a)
         /\ s \o <<a, b>> = Append(Append(s, a), b)
         /\ s \o <<a, b, c>> = Append(Append(Append(s, a), b), c)
         /\ s \o <<a, b, c, e>> = Append(Append(Append(Append(s, a), b), c), e)
<1>1. s \o <<a>> = Append(s, a) OBVIOUS
<1>2. s \o <<a, b>> = Append(Append(s, a), b) OBVIOUS
<1>3. s \o <<a, b, c>> = Append(Append(Append(s, a), b), c) OBVIOUS
<1>4. s \o <<a, b, c, e>> = Append(Append(Append(Append(s, a), b), c), e) OBVIOUS
<1>5. QED BY <1>1, <1>2, <1>3, <1>4

\* A list of up to four is built by appending.
LEMMA ListAppended ==
  ASSUME NEW S, NEW a \in S, NEW b \in S, NEW c \in S, NEW e \in S
  PROVE  /\ <<>> \in Seq(S) /\ <<a>> \in Seq(S) /\ <<a, b>> \in Seq(S)
         /\ <<a, b, c>> \in Seq(S) /\ Append(<<>>, a) = <<a>>
         /\ Append(<<a>>, b) = <<a, b>> /\ Append(<<a, b>>, c) = <<a, b, c>>
         /\ Append(<<a, b, c>>, e) = <<a, b, c, e>>
<1>1. <<>> \in Seq(S) /\ <<a>> \in Seq(S) /\ <<a, b>> \in Seq(S) OBVIOUS
<1>2. <<a, b, c>> \in Seq(S) /\ <<a, b, c, e>> \in Seq(S) OBVIOUS
<1> DEFINE s == <<>>
           l1 == <<a>>
           l2 == <<a, b>>
           l3 == <<a, b, c>>
           l4 == <<a, b, c, e>>
<1>3. s \in Seq(S) OBVIOUS
<1>4. s \o l1 = l1 /\ s \o l2 = l2 /\ s \o l3 = l3 /\ s \o l4 = l4
  <2>1. l1 \in Seq(S) /\ l2 \in Seq(S) /\ l3 \in Seq(S) /\ l4 \in Seq(S)
    BY <1>1, <1>2
  <2> HIDE DEF l1, l2, l3, l4
  <2>2. QED BY <2>1, ConcatEmptySeq
<1> HIDE DEF s
<1>5. /\ s \o l1 = Append(s, a)
      /\ s \o l2 = Append(Append(s, a), b)
      /\ s \o l3 = Append(Append(Append(s, a), b), c)
      /\ s \o l4 = Append(Append(Append(Append(s, a), b), c), e)
  BY <1>3, ListJoined
<1> HIDE DEF l1, l2, l3, l4
<1>6. Append(s, a) = l1 /\ Append(l1, b) = l2 /\ Append(l2, c) = l3 /\ Append(l3, e) = l4
  BY <1>4, <1>5
<1>7. QED BY <1>1, <1>2, <1>6 DEF s, l1, l2, l3, l4

LEMMA NothingAdded ==
  ASSUME NEW d \in DecoderStates
  PROVE  EventBytes(AddEvents(d, <<>>).events) = EventBytes(d.events)
<1> DEFINE was == d.events
           new == Now(d, <<>>)
<1>1. d \in DecoderType /\ was \in Seq(EventType) /\ <<>> \in Seq(Bytes)
  BY EmptySeq DEF DecoderStates, DecoderType
<1>2. AddEvents(d, <<>>).events = was \o new /\ new \in Seq(EventType) /\ Len(new) = 0
  BY <1>1, AddEventsFields, NowType
<1> HIDE DEF was, new
<1>3. new = <<>> BY <1>2, EmptySeq
<1>4. was \o new = was BY <1>1, <1>3, ConcatEmptySeq
<1>5. QED BY <1>2, <1>4 DEF was

\* One list of bytes after the other.
Then(a, b) == a \o b

LEMMA ThenIs ==
  /\ \A a, b \in Seq(Data) : Then(a, b) \in Seq(Data)
  /\ \A a, b, c \in Seq(Data) : Then(Then(a, b), c) = Then(a, Then(b, c))
BY ConcatProperties, ConcatAssociative DEF Then

\* Four of them may be grouped in two ways.
LEMMA ThenInTurn ==
  ASSUME NEW a \in Seq(Data), NEW b \in Seq(Data), NEW c \in Seq(Data), NEW e \in Seq(Data)
  PROVE  Then(Then(Then(a, b), c), e) = Then(a, Then(Then(b, c), e))
<1>1. Then(b, c) \in Seq(Data) BY ThenIs
<1>2. Then(Then(a, b), c) = Then(a, Then(b, c)) BY ThenIs
<1>3. Then(Then(a, Then(b, c)), e) = Then(a, Then(Then(b, c), e)) BY <1>1, ThenIs
<1>4. QED BY <1>2, <1>3

\* The lists of messages that one UMP can make, and their bytes.
Holds(list, bytes, a, b, c, e) ==
  \/ list = <<>> /\ bytes = <<>>
  \/ list = <<a>> /\ bytes = a
  \/ list = <<a, b>> \o <<c>> /\ bytes = (a \o b) \o c
  \/ list = <<a, b, c, e>> /\ bytes = ((a \o b) \o c) \o e

LEMMA MessagesAdded ==
  ASSUME NEW d \in DecoderStates,
         NEW a \in Bytes, NEW b \in Bytes, NEW c \in Bytes, NEW e \in Bytes,
         NEW list, NEW bytes, Holds(list, bytes, a, b, c, e)
  PROVE  EventBytes(AddEvents(d, list).events) = EventBytes(d.events) \o bytes
<1> DEFINE old == EventBytes(d.events)
           given(messages) == EventBytes(AddEvents(d, messages).events)
           s  == <<>>
           l1 == <<a>>
           l2 == <<a, b>>
           l3 == <<a, b, c>>
           l4 == <<a, b, c, e>>
           abc == (a \o b) \o c
           all == abc \o e
           A   == Seq(Data)
           joined == l2 \o <<c>>
<1>1. /\ s \in Seq(Bytes) /\ l1 \in Seq(Bytes) /\ l2 \in Seq(Bytes)
      /\ l3 \in Seq(Bytes) /\ Append(s, a) = l1
      /\ Append(l1, b) = l2 /\ Append(l2, c) = l3
      /\ Append(l3, e) = l4
  BY ListAppended
<1>2. l3 = joined BY <1>1, AppendIsConcat
<1>3. given(s) = old BY NothingAdded
<1>4. \A l \in Seq(Bytes), m \in Bytes : given(Append(l, m)) = given(l) \o m
  BY MessageAdded
<1>5. old \in A /\ old \o s = old
  <2>1. old \in A BY EventBytesType DEF DecoderStates, DecoderType
  <2> HIDE DEF old
  <2>2. QED BY <2>1, ConcatEmptySeq
<1>6. a \in A /\ b \in A /\ c \in A /\ e \in A BY DEF Bytes
<1> HIDE DEF given, old, s, l1, l2, l3, l4
<1>7. /\ given(l1) = old \o a /\ given(l2) = given(l1) \o b
      /\ given(l3) = given(l2) \o c /\ given(l4) = given(l3) \o e
  BY <1>1, <1>3, <1>4
<1>8. /\ Then(Then(Then(old, a), b), c) = Then(old, Then(Then(a, b), c))
      /\ Then(Then(old, Then(Then(a, b), c)), e) = Then(old, Then(Then(Then(a, b), c), e))
  <2>1. old \in Seq(Data) /\ a \in Seq(Data) /\ b \in Seq(Data) /\ c \in Seq(Data)
        /\ e \in Seq(Data)
    BY <1>5, <1>6 DEF A
  <2>2. Then(a, b) \in Seq(Data) BY <2>1, ThenIs
  <2>3. Then(Then(a, b), c) \in Seq(Data) BY <2>1, <2>2, ThenIs
  <2>4. Then(Then(old, a), b) = Then(old, Then(a, b)) BY <2>1, ThenIs
  <2>5. Then(Then(old, Then(a, b)), c) = Then(old, Then(Then(a, b), c))
    BY <2>1, <2>2, ThenIs
  <2>6. Then(Then(old, Then(Then(a, b), c)), e) = Then(old, Then(Then(Then(a, b), c), e))
    BY <2>1, <2>3, ThenIs
  <2>7. QED BY <2>4, <2>5, <2>6
<1>9. given(l3) = old \o abc /\ given(l4) = old \o all
  <2>1. ((old \o a) \o b) \o c = old \o abc BY <1>8 DEF Then
  <2>2. (old \o abc) \o e = old \o all BY <1>8 DEF Then
  <2> HIDE DEF abc, all
  <2>3. QED BY <1>7, <2>1, <2>2
<1> HIDE DEF abc, all
<1>10. \/ list = s /\ bytes = s
       \/ list = l1 /\ bytes = a
       \/ list = l3 /\ bytes = abc
       \/ list = l4 /\ bytes = all
  <2>1. \/ list = s /\ bytes = s
        \/ list = l1 /\ bytes = a
        \/ list = joined /\ bytes = abc
        \/ list = l4 /\ bytes = all
    BY Zenon DEF Holds, s, l1, l2, l4, joined, abc, all
  <2> HIDE DEF joined
  <2>2. QED BY <1>2, <2>1
<1>11. given(list) = old \o bytes BY <1>3, <1>5, <1>7, <1>9, <1>10
<1>12. QED BY <1>11 DEF given, old

LEMMA OneMessageAdded ==
  ASSUME NEW d \in DecoderStates, NEW m \in Bytes
  PROVE  EventBytes(AddEvents(d, <<m>>).events) = EventBytes(d.events) \o m
<1> DEFINE list == <<m>>
<1>1. Holds(list, m, m, m, m, m) BY DEF Holds
<1> HIDE DEF list
<1>2. EventBytes(AddEvents(d, list).events) = EventBytes(d.events) \o m
  BY <1>1, MessagesAdded
<1>3. QED BY <1>2 DEF list

\* The messages that Decode makes have the size that cmidi2.h gives them.
LEMMA MessageIs ==
  ASSUME NEW status \in Voices, NEW channel \in Nibble, NEW b2, NEW b3
  PROVE  /\ MidiMessage(Cc + channel, b2, b3) = <<Cc + channel, b2, b3>>
         /\ MidiMessage(status + channel, b2, b3) =
              IF status \in {Program, Caf} THEN <<status + channel, b2>>
              ELSE <<status + channel, b2, b3>>
<1>1. channel \in Nat /\ channel <= 15 BY DEF Nibble
<1>2. \A k \in 8..14 : (16 * k + channel) \div 16 = k BY <1>1
<1>3. /\ Cc = 16 * 11
      /\ \E k \in 8..14 : /\ status = 16 * k
                          /\ status \in {Program, Caf} <=> k \in {12, 13}
  BY DEF Voices, NoteOff, NoteOn, Paf, Cc, Program, Caf, PitchBend
<1>4. (Cc + channel) \div 16 = 11
  <2>1. 11 \in 8..14 OBVIOUS
  <2>2. QED BY <1>2, <1>3, <2>1
<1>5. (status + channel) \div 16 \in {12, 13} <=> status \in {Program, Caf}
  BY <1>2, <1>3
<1>6. QED BY <1>4, <1>5 DEF MidiMessage

\* The first bytes of a message.
LEMMA FirstBytes ==
  ASSUME NEW a, NEW b, NEW c
  PROVE  /\ SubSeq(<<a, b, c>>, 1, 1) = <<a>>
         /\ SubSeq(<<a, b, c>>, 1, 2) = <<a, b>>
         /\ SubSeq(<<a, b, c>>, 1, 3) = <<a, b, c>>
<1> DEFINE t == <<a, b, c>>
<1>1. SubSeq(t, 1, 1) = [i \in 1..1 |-> t[i]] OBVIOUS
<1>2. SubSeq(t, 1, 2) = [i \in 1..2 |-> t[i]] OBVIOUS
<1>3. SubSeq(t, 1, 3) = [i \in 1..3 |-> t[i]] OBVIOUS
<1>4. t[1] = a /\ t[2] = b /\ t[3] = c OBVIOUS
<1> HIDE DEF t
<1>5. /\ [i \in 1..1 |-> t[i]] = <<a>> /\ [i \in 1..2 |-> t[i]] = <<a, b>>
      /\ [i \in 1..3 |-> t[i]] = <<a, b, c>>
  BY <1>4
<1>6. QED BY <1>1, <1>2, <1>3, <1>5 DEF t

\* The values that the messages of a UMP are made from.
LEMMA Parts ==
  ASSUME NEW u \in Ump
  PROVE  /\ u.channel \in Nibble /\ u.status + u.channel \in Nat
         /\ Cc + u.channel \in Nat
         /\ Msb7(u) \in Nat /\ Lsb7(u) \in Nat /\ Msb7(u) = u.hi \div 512
         /\ u.hi \div 256 \in Nat /\ u.lo \div 256 \in Nat /\ u.lo % 256 \in Nat
         /\ (u.hi \div 4) % 128 = Lsb7(u) /\ (u.hi \div 4) \div 128 = Msb7(u)
<1>1. /\ u.status \in Nat /\ u.channel \in Nat /\ u.hi \in Nat /\ u.lo \in Nat
  BY FieldTypes
<1>2. u.channel \in Nibble BY DEF Ump
<1> DEFINE h == u.hi
<1>3. h \in Nat BY <1>1
<1> HIDE DEF h
<1>4. h \div 512 \in Nat /\ (h \div 4) % 128 \in Nat /\ (h \div 4) \div 128 = h \div 512
  BY <1>3
<1>5. QED BY <1>1, <1>2, <1>4 DEF Msb7, Lsb7, Cc, h

LEMMA Midi2ConvertedType ==
  ASSUME NEW u \in Ump
  PROVE  Midi2ToMidi1(u) \in Seq(Data)
<1> DEFINE first == u.status + u.channel
           control(index, v) == <<Cc + u.channel, index, v>>
           bend == u.hi \div 4
<1>1. /\ u.status \in Nat /\ u.channel \in Nat /\ u.b2 \in Nat /\ u.b3 \in Nat
      /\ u.hi \in Nat /\ u.lo \in Nat
  BY FieldTypes
<1>2. /\ first \in Nat /\ Cc + u.channel \in Nat
      /\ Msb7(u) \in Nat /\ Lsb7(u) \in Nat /\ u.hi \div 512 \in Nat
      /\ u.hi \div 256 \in Nat /\ u.lo \div 256 \in Nat /\ u.lo % 256 \in Nat
      /\ bend % 128 \in Nat /\ bend \div 128 \in Nat
  BY Parts
<1>3. \A a, b, c \in Nat : /\ <<>> \in Seq(Data) /\ <<a>> \in Seq(Data)
                           /\ <<a, b>> \in Seq(Data) /\ <<a, b, c>> \in Seq(Data)
  BY DEF Data
<1>4. \A i, v \in Nat : control(i, v) \in Seq(Data) BY <1>2, <1>3
<1> HIDE DEF control
<1>5. \A msb, lsb \in Nat :
        control(msb, u.b2) \o control(lsb, u.b3) \o control(6, Msb7(u))
          \o control(38, Lsb7(u)) \in Seq(Data)
  BY <1>1, <1>2, <1>4, ConcatProperties
<1>6. (IF u.b3 % 2 = 1 THEN control(0, u.lo \div 256) \o control(32, u.lo % 256)
       ELSE <<>>) \o <<first, u.hi \div 256>> \in Seq(Data)
  <2>1. <<first, u.hi \div 256>> \in Seq(Data) BY <1>2, <1>3
  <2>2. control(0, u.lo \div 256) \o control(32, u.lo % 256) \in Seq(Data)
    <3> DEFINE msb == u.lo \div 256
               lsb == u.lo % 256
    <3>1. msb \in Nat /\ lsb \in Nat BY <1>2
    <3> HIDE DEF msb, lsb
    <3>2. control(0, msb) \in Seq(Data) /\ control(32, lsb) \in Seq(Data) BY <1>4, <3>1
    <3>3. control(0, msb) \o control(32, lsb) \in Seq(Data) BY <3>2, ConcatProperties
    <3>4. QED BY <3>3 DEF msb, lsb
  <2>3. QED BY <1>3, <2>1, <2>2, EmptySeq, ConcatProperties
<1> HIDE DEF first, bend
<1>7. /\ <<first, u.b2, u.hi \div 512>> \in Seq(Data)
      /\ <<first, u.hi \div 512>> \in Seq(Data)
      /\ <<first, bend % 128, bend \div 128>> \in Seq(Data)
      /\ <<>> \in Seq(Data)
  <2> DEFINE msb == u.hi \div 512
             low == bend % 128
             high == bend \div 128
  <2>1. msb \in Nat /\ low \in Nat /\ high \in Nat BY <1>2
  <2> HIDE DEF msb, low, high
  <2>2. /\ <<first, u.b2, msb>> \in Seq(Data) /\ <<first, msb>> \in Seq(Data)
        /\ <<first, low, high>> \in Seq(Data) /\ <<>> \in Seq(Data)
    BY <1>1, <1>2, <1>3, <2>1
  <2>3. QED BY <2>2 DEF msb, low, high
<1>8. QED BY <1>5, <1>6, <1>7 DEF Midi2ToMidi1, control, first, bend

LEMMA SingleType ==
  ASSUME NEW u \in Ump
  PROVE  SingleUmpToMidi1(u) \in Seq(Data)
<1> DEFINE first == u.status + u.channel
<1>1. u.status \in Nat /\ u.b2 \in Nat /\ u.b3 \in Nat BY FieldTypes
<1>2. first \in Nat BY Parts
<1>3. \A a, b, c \in Nat : <<a>> \in Seq(Data) /\ <<a, b>> \in Seq(Data)
                           /\ <<a, b, c>> \in Seq(Data)
  BY DEF Data
<1>4. SystemMessageSize(u.status) \in {1, 2, 3} BY DEF SystemMessageSize
<1>5. \A a, b, c \in Nat, k \in {1, 2, 3} : SubSeq(<<a, b, c>>, 1, k) \in Seq(Data)
  BY <1>3, FirstBytes
<1> HIDE DEF first
<1>6. /\ SubSeq(<<u.status, u.b2, u.b3>>, 1, SystemMessageSize(u.status)) \in Seq(Data)
      /\ SubSeq(<<first, u.b2, u.b3>>, 1, IF u.status \in {Program, Caf} THEN 2 ELSE 3)
           \in Seq(Data)
  BY <1>1, <1>2, <1>4, <1>5
<1>7. QED BY <1>6, Midi2ConvertedType, EmptySeq DEF SingleUmpToMidi1, first

LEMMA AudibleType ==
  ASSUME NEW u \in Ump
  PROVE  Audible(u) \in Ump /\ Audible(u).type = u.type
<1> DEFINE v == [u EXCEPT !.hi = 512]
<1>1. 512 \in Half BY DEF Half
<1>2. v \in Ump /\ v.type = u.type
  <2>1. /\ u \in [type : Types, status : Byte, channel : Nibble, b2 : Byte, b3 : Byte,
                  hi : Half, lo : Half, bytes : Seq(Nat \cup Normalized)]
        /\ u.type = "parameter" => u.bytes \in Nat \X Normalized
    BY DEF Ump
  <2>2. /\ v \in [type : Types, status : Byte, channel : Nibble, b2 : Byte, b3 : Byte,
                  hi : Half, lo : Half, bytes : Seq(Nat \cup Normalized)]
        /\ v.type = u.type /\ v.bytes = u.bytes
    BY <1>1, <2>1
  <2> HIDE DEF v
  <2>3. QED BY <2>1, <2>2 DEF Ump
<1> HIDE DEF v
<1>3. Audible(u) = v \/ Audible(u) = u BY DEF Audible, v
<1>4. QED BY <1>2, <1>3

\* A UMP adds to the events the bytes that cmidi2.h converts it to.
LEMMA Midi2Agrees ==
  ASSUME NEW d \in DecoderStates, NEW u \in Ump, u.type = "midi2"
  PROVE  EventBytes(AddEvents(d, Midi2Messages(u)).events) =
           EventBytes(d.events) \o SingleUmpToMidi1(Audible(u))
<1> DEFINE old == EventBytes(d.events)
           given(messages) == EventBytes(AddEvents(d, messages).events)
           first == u.status + u.channel
           Control(index, v) == MidiMessage(Cc + u.channel, index, v)
           Message(b2, b3)   == MidiMessage(u.status + u.channel, b2, b3)
           control(index, v) == <<Cc + u.channel, index, v>>
<1>1. /\ u.status \in Nat /\ u.channel \in Nibble /\ u.b2 \in Nat /\ u.b3 \in Nat
      /\ u.hi \in Nat /\ u.lo \in Nat /\ first \in Nat /\ Cc + u.channel \in Nat
  BY FieldTypes, Parts
<1>2. /\ Msb7(u) \in Nat /\ Lsb7(u) \in Nat /\ Msb7(u) = u.hi \div 512
      /\ u.hi \div 256 \in Nat /\ u.lo \div 256 \in Nat /\ u.lo % 256 \in Nat
      /\ (u.hi \div 4) % 128 = Lsb7(u) /\ (u.hi \div 4) \div 128 = Msb7(u)
  BY Parts
<1>3. old \in Seq(Data) BY EventBytesType DEF DecoderStates, DecoderType
<1>4. \A i, v \in Nat : /\ Control(i, v) = control(i, v) /\ Control(i, v) \in Bytes
                        /\ Message(i, v) \in Bytes
                        /\ control(i, v) \in Seq(Data)
  <2>1. Cc \in Voices BY DEF Voices
  <2>2. \A i, v \in Nat : Control(i, v) = control(i, v) BY <1>1, <2>1, MessageIs
  <2>3. \A i, v \in Nat : Control(i, v) \in Bytes /\ Message(i, v) \in Bytes
    BY <1>1, MessageType
  <2>4. Bytes \subseteq Seq(Data) BY DEF Bytes
  <2> HIDE DEF control, Control, Message
  <2>5. QED BY <2>2, <2>3, <2>4
<1>5. u.status \in Voices =>
        \A i, v \in Nat : Message(i, v) = IF u.status \in {Program, Caf}
                                          THEN <<first, i>> ELSE <<first, i, v>>
  BY <1>1, MessageIs
<1>6. \A a, b, c, e \in Bytes : \A list, bytes :
        Holds(list, bytes, a, b, c, e) => given(list) = old \o bytes
  BY MessagesAdded
<1> DEFINE S == Midi2ToMidi1(Audible(u))
           M == Midi2Messages(u)
           Same == Audible(u) = u
<1> SUFFICES given(M) = old \o S
  <2>1. Audible(u).type = "midi2" BY AudibleType
  <2>2. SingleUmpToMidi1(Audible(u)) = S BY <2>1 DEF SingleUmpToMidi1
  <2>3. QED BY <2>2
<1> HIDE DEF given, old, first, control, Control, Message
<1>7. ASSUME NEW msb \in Nat, NEW lsb \in Nat
      PROVE  given(<<Control(msb, u.b2), Control(lsb, u.b3),
                     Control(6, Msb7(u)), Control(38, Lsb7(u))>>) =
               old \o (control(msb, u.b2) \o control(lsb, u.b3)
                         \o control(6, Msb7(u)) \o control(38, Lsb7(u)))
  <2> DEFINE a == Control(msb, u.b2)
             b == Control(lsb, u.b3)
             c == Control(6, Msb7(u))
             e == Control(38, Lsb7(u))
  <2>1. a \in Bytes /\ b \in Bytes /\ c \in Bytes /\ e \in Bytes
    BY <1>1, <1>2, <1>4
  <2>2. /\ a = control(msb, u.b2) /\ b = control(lsb, u.b3)
        /\ c = control(6, Msb7(u)) /\ e = control(38, Lsb7(u))
    BY <1>1, <1>2, <1>4
  <2> HIDE DEF a, b, c, e
  <2> DEFINE list == <<a, b, c, e>>
             bytes == ((a \o b) \o c) \o e
  <2>3. Holds(list, bytes, a, b, c, e) BY DEF Holds
  <2> HIDE DEF list, bytes
  <2>4. given(list) = old \o bytes BY <1>6, <2>1, <2>3
  <2>5. QED BY <2>2, <2>4 DEF a, b, c, e, list, bytes
<1>8. ASSUME NEW i \in Nat, NEW v \in Nat, u.status \in Voices
      PROVE  given(<<Message(i, v)>>) =
               old \o (IF u.status \in {Program, Caf} THEN <<first, i>>
                       ELSE <<first, i, v>>)
  <2> DEFINE m == Message(i, v)
             list == <<m>>
  <2>1. m \in Bytes BY <1>4
  <2>2. m = IF u.status \in {Program, Caf} THEN <<first, i>> ELSE <<first, i, v>>
    BY <1>5, <1>8
  <2> HIDE DEF m
  <2>3. Holds(list, m, m, m, m, m) BY DEF Holds
  <2> HIDE DEF list
  <2>4. given(list) = old \o m BY <1>6, <2>1, <2>3
  <2>5. QED BY <2>2, <2>4 DEF list, m
<1>9. u.status # NoteOn => Same BY DEF Audible
<1>10. CASE u.status = Rpn
  <2>1. u.status \notin {Nrpn, NoteOff, NoteOn, Paf, Cc, Program, Caf, PitchBend}
    BY <1>10 DEF Voices, Rpn, Nrpn, NoteOff, NoteOn, Paf, Cc, Program, Caf, PitchBend
  <2>2. M = <<Control(101, u.b2), Control(100, u.b3),
              Control(6, Msb7(u)), Control(38, Lsb7(u))>>
    BY <1>10, <2>1 DEF Midi2Messages, Control
  <2>3. S = control(101, u.b2) \o control(100, u.b3)
              \o control(6, Msb7(u)) \o control(38, Lsb7(u))
    BY <1>9, <1>10, <2>1 DEF Midi2ToMidi1, control
  <2> HIDE DEF S, M
  <2>4. QED BY <1>7, <2>2, <2>3
<1>11. CASE u.status = Nrpn
  <2>1. u.status \notin {Rpn, NoteOff, NoteOn, Paf, Cc, Program, Caf, PitchBend}
    BY <1>11 DEF Voices, Rpn, Nrpn, NoteOff, NoteOn, Paf, Cc, Program, Caf, PitchBend
  <2>2. M = <<Control(99, u.b2), Control(98, u.b3),
              Control(6, Msb7(u)), Control(38, Lsb7(u))>>
    BY <1>11, <2>1 DEF Midi2Messages, Control
  <2>3. S = control(99, u.b2) \o control(98, u.b3)
              \o control(6, Msb7(u)) \o control(38, Lsb7(u))
    BY <1>9, <1>11, <2>1 DEF Midi2ToMidi1, control
  <2> HIDE DEF S, M
  <2>4. QED BY <1>7, <2>2, <2>3
<1>12. CASE u.status \in {NoteOff, Paf, Cc}
  <2>1. /\ u.status \in Voices
        /\ u.status \notin {Rpn, Nrpn, NoteOn, Program, Caf, PitchBend}
    BY <1>12 DEF Voices, Rpn, Nrpn, NoteOff, NoteOn, Paf, Cc, Program, Caf, PitchBend
  <2>2. M = <<Message(u.b2, Msb7(u))>>
    BY <1>12, <2>1 DEF Midi2Messages, Message
  <2>3. S = <<first, u.b2, Msb7(u)>>
    BY <1>2, <1>9, <1>12, <2>1 DEF Midi2ToMidi1, first
  <2> HIDE DEF S, M
  <2>4. QED BY <1>1, <1>2, <1>8, <2>1, <2>2, <2>3
<1>13. CASE u.status = NoteOn
  <2> DEFINE v == IF u.hi > 0 /\ Msb7(u) = 0 THEN 1 ELSE Msb7(u)
             w == Audible(u)
  <2>1. u.status \in Voices /\ u.status \notin {Rpn, Nrpn, NoteOff, Paf, Cc, Program, Caf, PitchBend}
    BY <1>13 DEF Voices, Rpn, Nrpn, NoteOff, NoteOn, Paf, Cc, Program, Caf, PitchBend
  <2>2. M = <<Message(u.b2, v)>> BY <1>13, <2>1 DEF Midi2Messages, Message
  <2>3. /\ w.type = "midi2" /\ w.status = NoteOn /\ w.channel = u.channel
        /\ w.b2 = u.b2 /\ w.hi = IF u.hi \in 1..511 THEN 512 ELSE u.hi
    BY <1>13 DEF Audible, Ump
  <2>4. w.hi \div 512 = v
    <3> DEFINE h == u.hi
    <3>1. h \in Nat /\ Msb7(u) = h \div 512 BY <1>1, <1>2
    <3>2. 512 \div 512 = 1 OBVIOUS
    <3> HIDE DEF h
    <3>3. h \in 1..511 <=> (h > 0 /\ h \div 512 = 0) BY <3>1
    <3> HIDE DEF w
    <3>4. w.hi = IF h \in 1..511 THEN 512 ELSE h BY <2>3 DEF h
    <3>5. QED BY <3>1, <3>2, <3>3, <3>4 DEF h
  <2> HIDE DEF w
  <2>5. S = <<first, u.b2, w.hi \div 512>>
    <3>1. w.status = u.status /\ w.status \in {NoteOff, NoteOn, Paf, Cc}
      BY <1>13, <2>3
    <3>2. w.status \notin {Rpn, Nrpn, Program, Caf, PitchBend} BY <2>1, <3>1
    <3>3. Midi2ToMidi1(w) = <<w.status + w.channel, w.b2, w.hi \div 512>>
      BY <2>3, <3>1, <3>2 DEF Midi2ToMidi1
    <3>4. QED BY <2>3, <3>1, <3>3 DEF first, w
  <2>6. v \in Nat BY <1>2
  <2> HIDE DEF S, M, v
  <2>7. given(<<Message(u.b2, v)>>) = old \o <<first, u.b2, v>>
    BY <1>1, <1>8, <2>1, <2>6
  <2>8. QED BY <2>2, <2>4, <2>5, <2>7
<1>14. CASE u.status = Program
  <2> DEFINE a == Control(0, u.lo \div 256)
             b == Control(32, u.lo % 256)
             c == Message(u.hi \div 256, 0)
  <2>1. /\ u.status \in Voices
        /\ u.status \notin {Rpn, Nrpn, NoteOff, NoteOn, Paf, Cc, Caf, PitchBend}
    BY <1>14 DEF Voices, Rpn, Nrpn, NoteOff, NoteOn, Paf, Cc, Program, Caf, PitchBend
  <2>2. M = (IF u.b3 % 2 = 1 THEN <<a, b>> ELSE <<>>) \o <<c>>
    BY <1>14, <2>1 DEF Midi2Messages, Control, Message
  <2>3. S = (IF u.b3 % 2 = 1
             THEN control(0, u.lo \div 256) \o control(32, u.lo % 256) ELSE <<>>)
            \o <<first, u.hi \div 256>>
    <3>1. S = Midi2ToMidi1(u) BY <1>9, <1>14, <2>1
    <3>2. /\ u.status # Rpn /\ u.status # Nrpn /\ u.status # Caf /\ u.status # PitchBend
          /\ u.status \notin {NoteOff, NoteOn, Paf, Cc}
      BY <2>1
    <3>3. QED BY <1>14, <3>1, <3>2 DEF Midi2ToMidi1, control, first
  <2>4. /\ a = control(0, u.lo \div 256) /\ b = control(32, u.lo % 256)
        /\ c = <<first, u.hi \div 256>>
        /\ a \in Bytes /\ b \in Bytes /\ c \in Bytes
    <3>1. a = control(0, u.lo \div 256) /\ a \in Bytes BY <1>2, <1>4
    <3>2. b = control(32, u.lo % 256) /\ b \in Bytes
      <4> DEFINE v == u.lo % 256
      <4>1. v \in Nat BY <1>2
      <4> HIDE DEF v
      <4>2. QED BY <1>4, <4>1 DEF v
    <3>3. c \in Bytes BY <1>2, <1>4
    <3>4. c = <<first, u.hi \div 256>> BY <1>2, <1>5, <1>14, <2>1
    <3> HIDE DEF a, b, c
    <3>5. QED BY <3>1, <3>2, <3>3, <3>4
  <2>5. a \in Seq(Data) /\ b \in Seq(Data) /\ c \in Seq(Data) BY <2>4 DEF Bytes
  <2> HIDE DEF S, M, a, b, c
  <2>6. CASE u.b3 % 2 = 1
    <3>1. M = <<a, b>> \o <<c>> BY <2>2, <2>6
    <3>2. S = (a \o b) \o c BY <2>3, <2>4, <2>6
    <3>3. Holds(M, S, a, b, c, c) BY <3>1, <3>2 DEF Holds
    <3>4. QED BY <1>6, <2>4, <3>3
  <2>7. CASE u.b3 % 2 # 1
    <3>1. <<>> \o <<c>> = <<c>> OBVIOUS
    <3>2. M = <<c>> BY <2>2, <2>7, <3>1
    <3>3. S = <<>> \o c BY <2>3, <2>4, <2>7
    <3>4. S = c BY <2>5, <3>3, ConcatEmptySeq
    <3>5. Holds(M, S, c, c, c, c) BY <3>2, <3>4 DEF Holds
    <3>6. QED BY <1>6, <2>4, <3>5
  <2>8. QED BY <2>6, <2>7
<1>15. CASE u.status = Caf
  <2>1. /\ u.status \in Voices
        /\ u.status \notin {Rpn, Nrpn, NoteOff, NoteOn, Paf, Cc, Program, PitchBend}
    BY <1>15 DEF Voices, Rpn, Nrpn, NoteOff, NoteOn, Paf, Cc, Program, Caf, PitchBend
  <2>2. M = <<Message(Msb7(u), 0)>>
    BY <1>15, <2>1 DEF Midi2Messages, Message
  <2>3. S = <<first, Msb7(u)>>
    BY <1>2, <1>9, <1>15, <2>1 DEF Midi2ToMidi1, first
  <2> HIDE DEF S, M
  <2>4. QED BY <1>2, <1>8, <1>15, <2>1, <2>2, <2>3
<1>16. CASE u.status = PitchBend
  <2>1. /\ u.status \in Voices
        /\ u.status \notin {Rpn, Nrpn, NoteOff, NoteOn, Paf, Cc, Program, Caf}
    BY <1>16 DEF Voices, Rpn, Nrpn, NoteOff, NoteOn, Paf, Cc, Program, Caf, PitchBend
  <2>2. M = <<Message(Lsb7(u), Msb7(u))>>
    BY <1>16, <2>1 DEF Midi2Messages, Message, PitchBendBytes
  <2>3. S = <<first, (u.hi \div 4) % 128, (u.hi \div 4) \div 128>>
    BY <1>9, <1>16, <2>1 DEF Midi2ToMidi1, first
  <2>4. S = <<first, Lsb7(u), Msb7(u)>> BY <1>2, <2>3
  <2> HIDE DEF S, M
  <2>5. QED BY <1>2, <1>8, <2>1, <2>2, <2>4
<1>17. CASE u.status \notin Voices \cup {Rpn, Nrpn}
  <2>1. M = <<>> BY <1>17 DEF Midi2Messages, Voices
  <2>2. u.status # NoteOn BY <1>17 DEF Voices
  <2>3. S = <<>> BY <1>9, <1>17, <2>2 DEF Midi2ToMidi1, Voices
  <2> HIDE DEF S, M
  <2> DEFINE m == Control(0, 0)
  <2>4. m \in Bytes BY <1>4
  <2>5. Holds(M, S, m, m, m, m) BY <2>1, <2>3 DEF Holds
  <2> HIDE DEF m
  <2>6. QED BY <1>6, <2>4, <2>5
<1>18. QED
  BY <1>10, <1>11, <1>12, <1>13, <1>14, <1>15, <1>16, <1>17 DEF Voices

\* What is no sysex and no system message gives the same bytes in both.
LEMMA OthersAgree ==
  ASSUME NEW d \in DecoderStates, NEW u \in Ump, u.type \notin {"sysex7", "system"},
         u.type = "midi1" => u.status \in Voices
  PROVE  EventBytes(Decode(d, u).events) =
           EventBytes(d.events) \o SingleUmpToMidi1(Audible(u))
<1> DEFINE old == EventBytes(d.events)
<1>1. u.type \in Types BY FieldTypes
<1>2. old \in Seq(Data) BY EventBytesType DEF DecoderStates, DecoderType
<1> HIDE DEF old
<1>3. old \o <<>> = old BY <1>2, ConcatEmptySeq
<1>4. u.type # "midi2" => Audible(u) = u BY DEF Audible
<1>5. CASE u.type = "utility"
  <2> DEFINE p == d.position + 256 * u.b2 + u.b3
  <2>1. d \in DecoderType BY DEF DecoderStates
  <2>2. Decode(d, u) = IF u.status = JrStamp THEN [d EXCEPT !.position = p] ELSE d
    BY <1>5 DEF Decode
  <2> HIDE DEF p
  <2>3. [d EXCEPT !.position = p].events = d.events BY <2>1 DEF DecoderType
  <2>4. Decode(d, u).events = d.events BY <2>2, <2>3
  <2>5. SingleUmpToMidi1(Audible(u)) = <<>>
    BY <1>4, <1>5 DEF SingleUmpToMidi1
  <2>6. QED BY <1>3, <2>4, <2>5 DEF old
<1>6. CASE u.type = "midi1"
  <2> DEFINE m == MidiMessage(u.status + u.channel, u.b2, u.b3)
             first == u.status + u.channel
  <2>1. u.status \in Nat /\ u.channel \in Nat /\ u.b2 \in Nat /\ u.b3 \in Nat
    BY FieldTypes
  <2>2. u.channel \in Nibble /\ u.status \in Voices BY <1>6 DEF Ump
  <2>3. m \in Bytes BY <2>1, MessageType
  <2>4. m = IF u.status \in {Program, Caf} THEN <<first, u.b2>>
            ELSE <<first, u.b2, u.b3>>
    BY <2>2, MessageIs
  <2>5. SingleUmpToMidi1(Audible(u)) =
          SubSeq(<<first, u.b2, u.b3>>, 1,
                 IF u.status \in {Program, Caf} THEN 2 ELSE 3)
    BY <1>4, <1>6 DEF SingleUmpToMidi1
  <2>6. SingleUmpToMidi1(Audible(u)) = m BY <2>4, <2>5, FirstBytes
  <2>7. Decode(d, u) = AddEvents(d, <<m>>) BY <1>6 DEF Decode
  <2> HIDE DEF m
  <2>8. EventBytes(AddEvents(d, <<m>>).events) = EventBytes(d.events) \o m
    BY <2>3, OneMessageAdded
  <2>9. QED BY <2>6, <2>7, <2>8
<1>7. CASE u.type = "midi2"
  <2>1. Decode(d, u) = AddEvents(d, Midi2Messages(u)) BY <1>7 DEF Decode
  <2>2. QED BY <1>7, <2>1, Midi2Agrees
<1>8. CASE u.type = "parameter"
  <2>1. Decode(d, u) = d BY <1>8 DEF Decode
  <2>2. SingleUmpToMidi1(Audible(u)) = <<>>
    BY <1>4, <1>8 DEF SingleUmpToMidi1
  <2>3. QED BY <1>3, <2>1, <2>2 DEF old
<1>9. QED BY <1>1, <1>5, <1>6, <1>7, <1>8 DEF Types

\* The converter's result, and the sysex that it has begun.
ConverterStates == [midi1 : Seq(Data), sysex : Seq(Data), overrun : BOOLEAN]

LEMMA ConvertType ==
  ASSUME NEW c \in ConverterStates, NEW u \in Ump
  PROVE  ConvertUmp(c, u) \in ConverterStates
<1> DEFINE single == SingleUmpToMidi1(u)
           more  == c.midi1 \o single
           sysex == c.sysex \o u.bytes
           whole == c.midi1 \o <<240>> \o sysex \o <<247>>
<1>1. c.midi1 \in Seq(Data) /\ c.sysex \in Seq(Data) /\ u.bytes \in Seq(Data)
  BY FieldTypes DEF ConverterStates
<1>2. single \in Seq(Data) BY SingleType
<1>3. <<240>> \in Seq(Data) /\ <<247>> \in Seq(Data) /\ <<>> \in Seq(Data)
  BY DEF Data
<1> HIDE DEF single
<1>4. more \in Seq(Data) /\ sysex \in Seq(Data) BY <1>1, <1>2, ConcatProperties
<1> HIDE DEF more, sysex
<1>5. whole \in Seq(Data)
  <2> DEFINE a == <<240>>
             b == <<247>>
  <2>1. a \in Seq(Data) /\ b \in Seq(Data) BY <1>3
  <2> HIDE DEF a, b
  <2>2. c.midi1 \o a \o sysex \o b \in Seq(Data) BY <1>1, <1>4, <2>1, ConcatProperties
  <2>3. QED BY <2>2 DEF a, b
<1> HIDE DEF whole
<1>6. /\ [c EXCEPT !.midi1 = more] \in ConverterStates
      /\ [c EXCEPT !.sysex = sysex] \in ConverterStates
      /\ [c EXCEPT !.midi1 = whole, !.sysex = <<>>] \in ConverterStates
      /\ [c EXCEPT !.overrun = TRUE] \in ConverterStates
  BY <1>3, <1>4, <1>5 DEF ConverterStates
<1>7. ConvertSysex7(c, u) \in ConverterStates
  BY <1>6 DEF ConvertSysex7, sysex, whole
<1>8. QED BY <1>6, <1>7 DEF ConvertUmp, more, single

\* The loop of cmidi2_convert_ump_to_midi1, from any result so far.
Converted(start, umps) ==
  LET After[n \in 0..Len(umps)] == IF n = 0 THEN start
                                   ELSE ConvertUmp(After[n - 1], umps[n])
  IN  After[Len(umps)]

\* f[n] is the result after n UMPs.
Converts(start, umps, f) ==
  /\ f \in [0..Len(umps) -> ConverterStates] /\ f[0] = start
  /\ \A n \in 1..Len(umps) : f[n] = ConvertUmp(f[n - 1], umps[n])

\* The recursive function in Converted exists, and is such.
LEMMA ConvertSteps ==
  ASSUME NEW start \in ConverterStates, NEW umps \in Seq(Ump)
  PROVE  \E f : Converts(start, umps, f) /\ Converted(start, umps) = f[Len(umps)]
<1> DEFINE N == Len(umps)
           A == ConverterStates
           step == [n \in 1..N |-> [c \in A |-> ConvertUmp(c, umps[n])]]
           Is(f) == f = [n \in 0..N |-> IF n = 0 THEN start
                                        ELSE ConvertUmp(f[n - 1], umps[n])]
           F == CHOOSE f : Is(f)
<1>1. N \in Nat /\ \A n \in 1..N : umps[n] \in Ump
  BY LenProperties, ElementOfSeq
<1>2. \A n \in 1..N, c \in A : ConvertUmp(c, umps[n]) \in A BY <1>1, ConvertType
<1>3. step \in [1..N -> [A -> A]] BY <1>2
<1>4. \A n \in 1..N, c \in A : step[n][c] = ConvertUmp(c, umps[n]) OBVIOUS
<1>5. Converted(start, umps) = F[N] BY DEF Converted
<1>6. \A n \in 0..N : n # 0 => n \in 1..N /\ n - 1 \in 0..N BY <1>1
<1>7. start \in A OBVIOUS
<1> HIDE DEF N, A, step
<1>8. PICK g \in [0..N -> A] : IteratesTo(g, N, start, step)
  BY <1>1, <1>3, <1>7, BoundedRecursion
<1>9. Is(g)
  <2>1. ASSUME NEW n \in 0..N
        PROVE  g[n] = IF n = 0 THEN start ELSE ConvertUmp(g[n - 1], umps[n])
    <3>1. g[n] = IF n = 0 THEN start ELSE step[n][g[n - 1]]
      BY <1>8 DEF IteratesTo
    <3>2. n # 0 => g[n - 1] \in A BY <1>6
    <3>3. QED BY <1>4, <1>6, <3>1, <3>2
  <2>2. QED BY <2>1
<1>10. Is(F) BY <1>9
<1> HIDE DEF F
<1>11. \A n \in 0..N : F[n] = IF n = 0 THEN start ELSE ConvertUmp(F[n - 1], umps[n])
  BY <1>10
<1>12. F[0] = start /\ \A n \in 1..N : F[n] = ConvertUmp(F[n - 1], umps[n])
  <2>1. 0 \in 0..N /\ \A n \in 1..N : n \in 0..N /\ n # 0 BY <1>1
  <2>2. QED BY <1>11, <2>1, Zenon
<1>13. \A n \in 1..N : F[n - 1] \in A => F[n] \in A BY <1>2, <1>12
<1>14. \A n \in 0..N : F[n] \in A BY <1>1, <1>7, <1>12, <1>13, StaysIn
<1>15. F \in [0..N -> A] BY <1>10, <1>14
<1>16. QED BY <1>5, <1>12, <1>15 DEF Converts, N, A

LEMMA ConvertedType ==
  ASSUME NEW start \in ConverterStates, NEW umps \in Seq(Ump)
  PROVE  Converted(start, umps) \in ConverterStates
<1>1. PICK f : Converts(start, umps, f) /\ Converted(start, umps) = f[Len(umps)]
  BY ConvertSteps
<1>2. Len(umps) \in 0..Len(umps) BY LenProperties
<1>3. QED BY <1>1, <1>2 DEF Converts

\* It goes through two lists of UMPs as through one after the other.
LEMMA ConvertedJoin ==
  ASSUME NEW start \in ConverterStates, NEW a \in Seq(Ump), NEW b \in Seq(Ump)
  PROVE  Converted(start, a \o b) = Converted(Converted(start, a), b)
<1> DEFINE L == Len(a)
           M == Len(b)
           c == a \o b
           mid == Converted(start, a)
<1>1. c \in Seq(Ump) BY ConcatProperties
<1>2. mid \in ConverterStates BY ConvertedType
<1>3. /\ L \in Nat /\ M \in Nat /\ Len(c) = L + M
      /\ \A k \in 1..(L + M) : c[k] = IF k <= L THEN a[k] ELSE b[k - L]
  BY ConcatProperties, LenProperties
<1>4. PICK f : Converts(start, c, f) /\ Converted(start, c) = f[Len(c)]
  BY <1>1, ConvertSteps
<1>5. PICK g : Converts(start, a, g) /\ mid = g[L] BY ConvertSteps
<1> HIDE DEF mid
<1>6. PICK h : Converts(mid, b, h) /\ Converted(mid, b) = h[M]
  BY <1>2, ConvertSteps
<1> DEFINE step == [n \in 1..(L + M) |-> [s \in ConverterStates |-> ConvertUmp(s, c[n])]]
<1>7. \A n \in 1..(L + M), s \in ConverterStates : step[n][s] = ConvertUmp(s, c[n])
  OBVIOUS
<1>8. /\ f[0] = start /\ \A n \in 1..(L + M) : f[n] = ConvertUmp(f[n - 1], c[n])
      /\ g[0] = start /\ \A n \in 1..L : g[n] = ConvertUmp(g[n - 1], a[n])
      /\ h[0] = mid /\ \A n \in 1..M : h[n] = ConvertUmp(h[n - 1], b[n])
  BY <1>3, <1>4, <1>5, <1>6 DEF Converts
<1>9. /\ f \in [0..(L + M) -> ConverterStates] /\ g \in [0..L -> ConverterStates]
      /\ h \in [0..M -> ConverterStates]
  BY <1>3, <1>4, <1>5, <1>6 DEF Converts
<1> HIDE DEF L, M, c, step
<1>10. /\ \A n \in 1..(L + M) : f[n - 1] \in ConverterStates
       /\ \A n \in 1..L : g[n - 1] \in ConverterStates
       /\ \A n \in 1..M : h[n - 1] \in ConverterStates
  BY <1>3, <1>9
<1>11. Follows(f, step, 0, L + M)
  <2>1. \A n \in 1..(L + M) : 0 + n = n BY <1>3
  <2>2. QED BY <1>7, <1>8, <1>10, <2>1 DEF Follows
<1>12. Follows(g, step, 0, L)
  <2>1. \A n \in 1..L : n \in 1..(L + M) /\ c[n] = a[n] /\ 0 + n = n BY <1>3
  <2>2. QED BY <1>7, <1>8, <1>10, <2>1 DEF Follows
<1>13. Follows(h, step, L, M)
  <2> SUFFICES ASSUME NEW n \in 1..M PROVE h[n] = step[L + n][h[n - 1]]
    BY DEF Follows
  <2> DEFINE o == L + n
  <2>1. o \in 1..(L + M) /\ ~(o <= L) /\ o - L = n BY <1>3
  <2> HIDE DEF o
  <2>2. c[o] = b[n] BY <1>3, <2>1
  <2>3. h[n] = step[o][h[n - 1]] BY <1>7, <1>8, <1>10, <2>1, <2>2
  <2>4. QED BY <2>3 DEF o
<1>14. f[L + M] = h[M]
  <2>1. g[0] = f[0] /\ h[0] = g[L] BY <1>5, <1>8
  <2>2. L \in Nat /\ M \in Nat BY <1>3
  <2>3. QED BY <1>11, <1>12, <1>13, <2>1, <2>2, WalksJoin
<1>15. QED BY <1>3, <1>4, <1>6, <1>14 DEF c, mid

\* The UMPs with faint notes as MIDI 1.0 can tell them.
Heard(umps) == [k \in DOMAIN umps |-> Audible(umps[k])]

LEMMA HeardIs ==
  ASSUME NEW umps \in Seq(Ump)
  PROVE  /\ Heard(umps) \in Seq(Ump) /\ Len(Heard(umps)) = Len(umps)
         /\ \A k \in 1..Len(umps) : Heard(umps)[k] = Audible(umps[k])
<1> DEFINE N == Len(umps)
           h == [k \in 1..N |-> Audible(umps[k])]
<1>1. N \in Nat /\ \A n \in 1..N : umps[n] \in Ump
  BY LenProperties, ElementOfSeq
<1>2. Heard(umps) = h BY LenProperties DEF Heard
<1> HIDE DEF N
<1>3. h \in [1..N -> Ump] BY <1>1, AudibleType
<1>4. \A k \in 1..N : h[k] = Audible(umps[k]) OBVIOUS
<1> HIDE DEF h
<1>5. h \in Seq(Ump) /\ Len(h) = N BY <1>1, <1>3, FunctionIsSeq
<1>6. QED BY <1>2, <1>4, <1>5 DEF N

LEMMA HeardJoin ==
  ASSUME NEW a \in Seq(Ump), NEW b \in Seq(Ump)
  PROVE  Heard(a \o b) = Heard(a) \o Heard(b)
<1> DEFINE L == Len(a)
           M == Len(b)
           c == a \o b
           ha == Heard(a)
           hb == Heard(b)
           hc == Heard(c)
           hab == ha \o hb
<1>1. /\ c \in Seq(Ump) /\ L \in Nat /\ M \in Nat /\ Len(c) = L + M
      /\ \A k \in 1..(L + M) : c[k] = IF k <= L THEN a[k] ELSE b[k - L]
  BY ConcatProperties, LenProperties
<1> HIDE DEF c
<1>2. /\ ha \in Seq(Ump) /\ Len(ha) = L /\ \A k \in 1..L : ha[k] = Audible(a[k])
      /\ hb \in Seq(Ump) /\ Len(hb) = M /\ \A k \in 1..M : hb[k] = Audible(b[k])
  BY HeardIs
<1>3. hc \in Seq(Ump) /\ Len(hc) = L + M /\ \A k \in 1..(L + M) : hc[k] = Audible(c[k])
  BY <1>1, HeardIs
<1> HIDE DEF L, M, ha, hb, hc
<1>4. /\ hab \in Seq(Ump) /\ Len(hab) = L + M
      /\ \A k \in 1..(L + M) : hab[k] = IF k <= L THEN ha[k] ELSE hb[k - L]
  BY <1>2, ConcatProperties
<1> HIDE DEF hab
<1>5. ASSUME NEW k \in 1..(L + M) PROVE hc[k] = hab[k]
  <2>1. CASE k <= L
    <3>1. k \in 1..L BY <1>1, <2>1
    <3>2. QED BY <1>1, <1>2, <1>3, <1>4, <2>1, <3>1
  <2>2. CASE ~(k <= L)
    <3> DEFINE i == k - L
    <3>1. i \in 1..M BY <1>1, <2>2
    <3>2. c[k] = b[i] /\ hab[k] = hb[i] BY <1>1, <1>4, <2>2
    <3> HIDE DEF i
    <3>3. QED BY <1>2, <1>3, <3>1, <3>2
  <2>3. QED BY <2>1, <2>2
<1>6. hc = hab BY <1>3, <1>4, <1>5, SeqEqual
<1>7. QED BY <1>6 DEF hc, hab, ha, hb, c

\* The converter has begun a sysex with the first c bytes of the payload.
Held(s, payload, c) ==
  s \in Seq(Data) /\ Len(s) = c /\ \A i \in 1..c : s[i] = payload[i]

LEMMA HeldMore ==
  ASSUME NEW payload \in Seq(Nat), NEW c \in Nat, NEW e \in Nat, c <= e,
         NEW s, Held(s, payload, c),
         NEW bytes \in Seq(Data), Len(bytes) = e - c,
         \A i \in 1..(e - c) : bytes[i] = payload[c + i]
  PROVE  Held(s \o bytes, payload, e)
<1> DEFINE t == s \o bytes
<1>1. s \in Seq(Data) /\ Len(s) = c /\ \A i \in 1..c : s[i] = payload[i]
  BY DEF Held
<1>2. /\ t \in Seq(Data) /\ Len(t) = c + (e - c)
      /\ \A i \in 1..(c + (e - c)) : t[i] = IF i <= c THEN s[i] ELSE bytes[i - c]
  BY <1>1, ConcatProperties
<1>3. c + (e - c) = e OBVIOUS
<1> HIDE DEF t
<1>4. ASSUME NEW i \in 1..e PROVE t[i] = payload[i]
  <2>1. t[i] = IF i <= c THEN s[i] ELSE bytes[i - c] BY <1>2, <1>3
  <2>2. CASE i <= c BY <1>1, <2>1, <2>2
  <2>3. CASE ~(i <= c)
    <3> DEFINE j == i - c
    <3>1. j \in 1..(e - c) /\ c + j = i BY <2>3
    <3> HIDE DEF j
    <3>2. bytes[j] = payload[c + j] BY <3>1
    <3>3. QED BY <2>1, <2>3, <3>1, <3>2 DEF j
  <2>4. QED BY <2>2, <2>3
<1>5. QED BY <1>2, <1>3, <1>4 DEF Held, t

LEMMA HeldWhole ==
  ASSUME NEW payload \in Seq(Nat), NEW s, Held(s, payload, Len(payload))
  PROVE  s = payload
<1>1. s \in Seq(Data) /\ payload \in Seq(Data) BY DEF Held, Data
<1>2. Len(s) = Len(payload) /\ \A i \in 1..Len(payload) : s[i] = payload[i]
  BY DEF Held
<1>3. QED BY <1>1, <1>2, SeqEqual

\* A sysex packet is added; the last one makes the message.
LEMMA PacketConverted ==
  ASSUME NEW payload \in Seq(Nat), Len(payload) <= ConverterRoom,
         NEW k \in Nat, k < NumPackets(Len(payload)),
         NEW c \in ConverterStates, Held(c.sysex, payload, SentBytes(Len(payload), k)),
         ~c.overrun, NEW u \in Ump, u = PacketOf(payload, k)
  PROVE  /\ ~ConvertUmp(c, u).overrun
         /\ IF k + 1 = NumPackets(Len(payload))
            THEN /\ ConvertUmp(c, u).midi1 = c.midi1 \o Framed(payload)
                 /\ ConvertUmp(c, u).sysex = <<>>
            ELSE /\ ConvertUmp(c, u).midi1 = c.midi1
                 /\ Held(ConvertUmp(c, u).sysex, payload, SentBytes(Len(payload), k + 1))
<1> DEFINE n == Len(payload)
           N == NumPackets(n)
           b == SentBytes(n, k)
           e == SentBytes(n, k + 1)
           sysex == c.sysex \o u.bytes
           was == c.midi1
<1>1. /\ b \in Nat /\ e \in Nat /\ b <= e /\ e <= n
      /\ u.type = "sysex7"
      /\ Len(u.bytes) = e - b /\ \A i \in 1..(e - b) : u.bytes[i] = payload[b + i]
      /\ u.status \in {Whole, End} <=> k + 1 = N
  BY PacketIs
<1>2. u.bytes \in Seq(Data) BY FieldTypes
<1> HIDE DEF b
<1>3. Held(sysex, payload, e) BY <1>1, <1>2, HeldMore DEF b
<1>4. ConvertUmp(c, u) =
        IF k + 1 = N THEN [c EXCEPT !.midi1 = was \o <<240>> \o sysex \o <<247>>,
                                    !.sysex = <<>>]
        ELSE [c EXCEPT !.sysex = sysex]
  <2>1. Len(sysex) = e BY <1>3 DEF Held
  <2>2. n \in Nat BY LenProperties
  <2>3. ~(Len(sysex) > ConverterRoom) BY <1>1, <2>1, <2>2, MidiAssumption
  <2>4. ConvertUmp(c, u) = ConvertSysex7(c, u) BY <1>1 DEF ConvertUmp
  <2>5. QED BY <1>1, <2>3, <2>4 DEF ConvertSysex7
<1>5. was \in Seq(Data) BY DEF ConverterStates
<1> HIDE DEF sysex
<1>6. CASE k + 1 # N
  <2>1. /\ [c EXCEPT !.sysex = sysex].sysex = sysex
        /\ [c EXCEPT !.sysex = sysex].midi1 = was
        /\ ~[c EXCEPT !.sysex = sysex].overrun
    BY DEF ConverterStates
  <2>2. QED BY <1>3, <1>4, <1>6, <2>1
<1>7. CASE k + 1 = N
  <2>1. e = n BY <1>7 DEF SentBytes
  <2>2. sysex = payload BY <1>3, <2>1, HeldWhole
  <2> DEFINE sent == was \o <<240>> \o payload \o <<247>>
  <2>3. /\ ConvertUmp(c, u).midi1 = sent /\ ConvertUmp(c, u).sysex = <<>>
        /\ ~ConvertUmp(c, u).overrun
    <3>1. ConvertUmp(c, u) = [c EXCEPT !.midi1 = sent, !.sysex = <<>>]
      BY <1>4, <1>7, <2>2
    <3> HIDE DEF sent
    <3>2. QED BY <3>1 DEF ConverterStates
  <2> HIDE DEF was
  <2>4. was \o <<240>> \o payload \o <<247>> = was \o Framed(payload)
    <3> DEFINE first == <<240>>
               last  == <<247>>
    <3>1. first \in Seq(Data) /\ last \in Seq(Data) /\ payload \in Seq(Data) BY DEF Data
    <3> HIDE DEF first, last
    <3>2. Then(Then(Then(was, first), payload), last) =
            Then(was, Then(Then(first, payload), last))
      BY <1>5, <3>1, ThenInTurn
    <3>3. QED BY <3>2 DEF Then, first, last, Framed
  <2>5. QED BY <1>7, <2>3, <2>4 DEF was
<1>8. QED BY <1>6, <1>7

\* The events so far have the bytes that were converted so far, inside of the
\* converter's buffer.
SameBytes(d, c) == ~c.overrun /\ EventBytes(d.events) = c.midi1

LEMMA PacketAgrees ==
  ASSUME NEW payload \in Seq(Nat), Len(payload) + 2 <= Capacity,
         Len(payload) <= ConverterRoom,
         NEW k \in Nat, k < NumPackets(Len(payload)),
         NEW d \in DecoderStates, Within(d, payload, k),
         NEW c \in ConverterStates, Held(c.sysex, payload, SentBytes(Len(payload), k)),
         SameBytes(d, c), NEW u \in Ump, u = PacketOf(payload, k)
  PROVE  /\ SameBytes(Decode(d, u), ConvertUmp(c, u))
         /\ IF k + 1 = NumPackets(Len(payload)) THEN ConvertUmp(c, u).sysex = <<>>
            ELSE /\ Within(Decode(d, u), payload, k + 1)
                 /\ Held(ConvertUmp(c, u).sysex, payload, SentBytes(Len(payload), k + 1))
<1> DEFINE message == Framed(payload)
           l == <<message>>
           whole == [d EXCEPT !.sysex = <<>>]
           last == k + 1 = NumPackets(Len(payload))
<1>1. IF last THEN message \in Bytes /\ Decode(d, u) = AddEvents(whole, l)
      ELSE Within(Decode(d, u), payload, k + 1) /\ Decode(d, u).events = d.events
  BY PacketStored
<1>2. /\ ~ConvertUmp(c, u).overrun
      /\ IF last
         THEN /\ ConvertUmp(c, u).midi1 = c.midi1 \o message
              /\ ConvertUmp(c, u).sysex = <<>>
         ELSE /\ ConvertUmp(c, u).midi1 = c.midi1
              /\ Held(ConvertUmp(c, u).sysex, payload, SentBytes(Len(payload), k + 1))
  BY PacketConverted DEF SameBytes
<1>3. whole \in DecoderStates /\ whole.events = d.events BY SysexTypes, SysexSet
<1> HIDE DEF message, whole, last
<1>4. ASSUME last PROVE EventBytes(Decode(d, u).events) = EventBytes(d.events) \o message
  <2>1. message \in Bytes /\ Decode(d, u) = AddEvents(whole, l) BY <1>1, <1>4
  <2>2. EventBytes(AddEvents(whole, l).events) = EventBytes(whole.events) \o message
    BY <1>3, <2>1, OneMessageAdded
  <2>3. QED BY <1>3, <2>1, <2>2
<1>5. QED BY <1>1, <1>2, <1>4 DEF SameBytes, last

LEMMA OtherConverted ==
  ASSUME NEW c \in ConverterStates, ~c.overrun, NEW u \in Ump, u.type # "sysex7"
  PROVE  /\ ConvertUmp(c, u).midi1 = c.midi1 \o SingleUmpToMidi1(u)
         /\ ConvertUmp(c, u).sysex = c.sysex /\ ~ConvertUmp(c, u).overrun
<1> DEFINE more == c.midi1 \o SingleUmpToMidi1(u)
<1>1. ConvertUmp(c, u) = [c EXCEPT !.midi1 = more] BY DEF ConvertUmp
<1> HIDE DEF more
<1>2. /\ [c EXCEPT !.midi1 = more].midi1 = more /\ [c EXCEPT !.midi1 = more].sysex = c.sysex
      /\ ~[c EXCEPT !.midi1 = more].overrun
  BY DEF ConverterStates
<1>3. QED BY <1>1, <1>2 DEF more

LEMMA OtherAgrees ==
  ASSUME NEW d \in DecoderStates, NEW c \in ConverterStates, SameBytes(d, c),
         NEW u \in Ump, u.type \notin {"sysex7", "system"},
         u.type = "midi1" => u.status \in Voices
  PROVE  /\ SameBytes(Decode(d, u), ConvertUmp(c, Audible(u)))
         /\ ConvertUmp(c, Audible(u)).sysex = c.sysex
<1> DEFINE v == Audible(u)
<1>1. v \in Ump /\ v.type # "sysex7" BY AudibleType
<1>2. EventBytes(Decode(d, u).events) = EventBytes(d.events) \o SingleUmpToMidi1(v)
  BY OthersAgree
<1> HIDE DEF v
<1>3. /\ ConvertUmp(c, v).midi1 = c.midi1 \o SingleUmpToMidi1(v)
      /\ ConvertUmp(c, v).sysex = c.sysex /\ ~ConvertUmp(c, v).overrun
  BY <1>1, OtherConverted DEF SameBytes
<1>4. QED BY <1>2, <1>3 DEF SameBytes, v

\* An item gives the same bytes in both, and leaves no sysex in the converter.
LEMMA ItemAgrees ==
  ASSUME NEW item \in ItemType, Convertible(item),
         NEW d \in DecoderStates, NEW c \in ConverterStates, SameBytes(d, c),
         c.sysex = <<>>,
         NEW payload \in Seq(Nat), Carries(item, payload)
  PROVE  LET d2 == Decoded(d, item.umps)
             c2 == Converted(c, Heard(item.umps))
         IN  SameBytes(d2, c2) /\ c2.sysex = <<>>
<1> DEFINE umps == item.umps
           heard == Heard(umps)
           n == Len(payload)
           M == Len(umps)
           N == NumPackets(n)
           fits == n + 2 <= Capacity /\ n <= ConverterRoom
<1>1. umps \in Seq(Ump) BY DEF ItemType
<1>2. M \in Nat /\ \A k \in 1..M : umps[k] \in Ump
  BY <1>1, LenProperties, ElementOfSeq
<1>3. N \in Nat \ {0} /\ n \in Nat
  <2>1. n \in Nat BY LenProperties
  <2>2. QED BY <2>1, PacketCount
<1>4. PICK sent \in [0..M -> 0..N] :
        /\ sent[0] = 0
        /\ \A k \in 1..M :
             IF umps[k].type = "sysex7"
             THEN umps[k] = PacketOf(payload, sent[k - 1]) /\ sent[k] = sent[k - 1] + 1
             ELSE /\ umps[k].type = "midi1" => umps[k].status \in Voices
                  /\ sent[k] = sent[k - 1]
        /\ item.sysex = IF sent[M] = N THEN <<payload>> ELSE <<>>
  BY DEF Carries
<1>5. PICK f : Decodes(d, umps, f) /\ Decoded(d, umps) = f[M]
  BY <1>1, DecodeSteps
<1>6. /\ f[0] = d /\ \A k \in 0..M : f[k] \in DecoderStates
      /\ \A k \in 1..M : f[k] = Decode(f[k - 1], umps[k])
  BY <1>5 DEF Decodes
<1>7. heard \in Seq(Ump) /\ Len(heard) = M /\ \A k \in 1..M : heard[k] = Audible(umps[k])
  BY <1>1, HeardIs
<1>8. PICK g : Converts(c, heard, g) /\ Converted(c, heard) = g[M]
  BY <1>7, ConvertSteps
<1>9. /\ g[0] = c /\ \A k \in 0..M : g[k] \in ConverterStates
      /\ \A k \in 1..M : g[k] = ConvertUmp(g[k - 1], Audible(umps[k]))
  BY <1>7, <1>8 DEF Converts
<1>10. \A k \in 1..M : umps[k].type # "system"
  <2>1. DOMAIN umps = 1..M BY <1>1, LenProperties
  <2>2. QED BY <2>1 DEF Convertible
<1>11. (\E k \in 1..M : umps[k].type = "sysex7") => sent[M] = N /\ fits
  <2>1. DOMAIN umps = 1..M BY <1>1, LenProperties
  <2> SUFFICES ASSUME \E k \in 1..M : umps[k].type = "sysex7"
               PROVE  sent[M] = N /\ fits
    OBVIOUS
  <2>2. item.sysex # <<>> BY <2>1 DEF Convertible
  <2>3. sent[M] = N /\ item.sysex = <<payload>> BY <1>4, <2>2
  <2>4. 1 \in DOMAIN item.sysex /\ item.sysex[1] = payload BY <2>3
  <2>5. QED BY <2>3, <2>4 DEF Convertible
<1> HIDE DEF umps, heard, M, N, n
<1> DEFINE Good(k) ==
             /\ SameBytes(f[k], g[k])
             /\ IF sent[k] = N THEN g[k].sysex = <<>>
                ELSE /\ Within(f[k], payload, sent[k])
                     /\ Held(g[k].sysex, payload, SentBytes(n, sent[k]))
           T == {k \in Nat : k <= M => Good(k)}
<1>12. 0 \in T
  <2>1. sent[0] = 0 /\ sent[0] # N BY <1>3, <1>4
  <2>2. SentBytes(n, 0) = 0
    <3>1. 0 < N BY <1>3
    <3>2. QED BY <3>1 DEF SentBytes, N, n
  <2>3. Held(<<>>, payload, 0) BY EmptySeq DEF Held
  <2>4. QED BY <1>6, <1>9, <2>1, <2>2, <2>3 DEF Within
<1>13. ASSUME NEW k \in Nat, k \in T PROVE k + 1 \in T
  <2> DEFINE m == k + 1
             q == sent[k]
             u == umps[m]
  <2> SUFFICES ASSUME m <= M PROVE Good(m) OBVIOUS
  <2>1. m \in 1..M /\ m - 1 = k /\ k \in 0..M /\ k <= M BY <1>2
  <2>2. Good(k) BY <1>13, <2>1
  <2>3. /\ f[m] = Decode(f[k], u) /\ f[k] \in DecoderStates /\ u \in Ump
        /\ g[m] = ConvertUmp(g[k], Audible(u)) /\ g[k] \in ConverterStates
        /\ u.type # "system"
    <3> HIDE DEF m
    <3>1. QED BY <1>2, <1>6, <1>9, <1>10, <2>1
  <2>4. q \in 0..N /\ sent[m] \in 0..N BY <1>4, <2>1
  <2>5. IF u.type = "sysex7"
        THEN u = PacketOf(payload, q) /\ sent[m] = q + 1
        ELSE (u.type = "midi1" => u.status \in Voices) /\ sent[m] = q
    <3> HIDE DEF m
    <3>1. QED BY <1>4, <2>1
  <2>6. u.type = "sysex7" => fits
    <3> HIDE DEF m, fits
    <3>1. QED BY <1>11, <2>1
  <2> HIDE DEF m, u, T
  <2>7. CASE u.type = "sysex7"
    <3>1. u = PacketOf(payload, q) /\ sent[m] = q + 1 BY <2>5, <2>7
    <3>2. q \in Nat /\ q < N BY <1>3, <2>4, <3>1
    <3>3. q # N BY <1>3, <3>2
    <3>4. /\ SameBytes(f[k], g[k]) /\ Within(f[k], payload, q)
          /\ Held(g[k].sysex, payload, SentBytes(n, q))
      BY <2>2, <3>3
    <3>5. Audible(u) = u BY <2>7 DEF Audible
    <3> HIDE DEF q
    <3>6. /\ SameBytes(Decode(f[k], u), ConvertUmp(g[k], u))
          /\ IF q + 1 = N THEN ConvertUmp(g[k], u).sysex = <<>>
             ELSE /\ Within(Decode(f[k], u), payload, q + 1)
                  /\ Held(ConvertUmp(g[k], u).sysex, payload, SentBytes(n, q + 1))
      BY <2>3, <2>6, <2>7, <3>1, <3>2, <3>4, PacketAgrees DEF N, n
    <3>7. QED BY <2>3, <3>1, <3>5, <3>6
  <2>8. CASE u.type # "sysex7"
    <3>1. (u.type = "midi1" => u.status \in Voices) /\ sent[m] = q
      BY <2>5, <2>8
    <3>2. SameBytes(f[k], g[k]) BY <2>2
    <3>3. SameBytes(f[m], g[m]) /\ g[m].sysex = g[k].sysex
      BY <2>3, <2>8, <3>1, <3>2, OtherAgrees
    <3>4. SameSysex(f[m], f[k]) BY <2>3, <2>8, <3>1, OthersDecoded
    <3>5. QED BY <2>2, <3>1, <3>3, <3>4 DEF SameSysex, Within
  <2>9. QED BY <2>7, <2>8
<1> HIDE DEF T
<1>14. Nat \subseteq T BY <1>12, <1>13, Induction
<1>15. Good(M) BY <1>2, <1>14 DEF T
<1>16. g[M].sysex = <<>>
  <2>1. CASE \E k \in 1..M : umps[k].type = "sysex7" BY <1>11, <1>15, <2>1
  <2>2. CASE ~\E k \in 1..M : umps[k].type = "sysex7"
    <3> DEFINE Empty == {k \in Nat : k <= M => g[k].sysex = <<>>}
    <3>1. 0 \in Empty BY <1>9
    <3>2. ASSUME NEW k \in Nat, k \in Empty PROVE k + 1 \in Empty
      <4> DEFINE m == k + 1
      <4> SUFFICES ASSUME m <= M PROVE g[m].sysex = <<>> OBVIOUS
      <4>1. m \in 1..M /\ m - 1 = k /\ k \in 0..M /\ k <= M BY <1>2
      <4>2. g[k].sysex = <<>> BY <3>2, <4>1
      <4> HIDE DEF m, Empty
      <4>3. /\ g[m] = ConvertUmp(g[k], Audible(umps[m])) /\ g[k] \in ConverterStates
            /\ umps[m] \in Ump /\ umps[m].type # "sysex7"
        BY <1>2, <1>9, <2>2, <4>1
      <4>4. Audible(umps[m]) \in Ump /\ Audible(umps[m]).type # "sysex7"
        BY <4>3, AudibleType
      <4>5. ~g[k].overrun BY <1>14, <4>1 DEF T, SameBytes
      <4>6. QED BY <4>2, <4>3, <4>4, <4>5, OtherConverted
    <3> HIDE DEF Empty
    <3>3. Nat \subseteq Empty BY <3>1, <3>2, Induction
    <3>4. QED BY <1>2, <3>3 DEF Empty
  <2>3. QED BY <2>1, <2>2
<1>17. QED BY <1>5, <1>8, <1>15, <1>16 DEF umps, heard

LEMMA NothingGiven ==
  /\ Decoded(NoEvents, <<>>) = NoEvents /\ EventBytes(<<>>) = <<>>
  /\ NothingConverted \in ConverterStates /\ Heard(<<>>) = <<>>
  /\ Converted(NothingConverted, <<>>) = NothingConverted
<1>1. <<>> \in Seq(Ump) /\ <<>> \in Seq(EventType) /\ <<>> \in Seq(Data) /\ Len(<<>>) = 0
  BY EmptySeq
<1>2. PICK f : Decodes(NoEvents, <<>>, f) /\ Decoded(NoEvents, <<>>) = f[Len(<<>>)]
  BY <1>1, NoEventsType, DecodeSteps
<1>3. Decoded(NoEvents, <<>>) = NoEvents BY <1>1, <1>2 DEF Decodes
<1>4. PICK g : Gathers(<<>>, g) /\ EventBytes(<<>>) = g[Len(<<>>)]
  BY <1>1, GatherSteps
<1>5. EventBytes(<<>>) = <<>> BY <1>1, <1>4 DEF Gathers
<1>6. NothingConverted \in ConverterStates
  BY <1>1 DEF NothingConverted, ConverterStates
<1>7. PICK h : /\ Converts(NothingConverted, <<>>, h)
               /\ Converted(NothingConverted, <<>>) = h[Len(<<>>)]
  BY <1>1, <1>6, ConvertSteps
<1>8. Converted(NothingConverted, <<>>) = NothingConverted
  BY <1>1, <1>7 DEF Converts
<1>9. Heard(<<>>) = <<>>
  <2>1. Heard(<<>>) \in Seq(Ump) /\ Len(Heard(<<>>)) = 0 BY <1>1, HeardIs
  <2>2. QED BY <2>1, EmptySeq
<1>10. QED BY <1>3, <1>5, <1>6, <1>8, <1>9

\* A block gives the same bytes in both.
LEMMA BlockAgrees ==
  ASSUME NEW payloads \in SUBSET Seq(Nat), NEW block \in Seq(ItemType),
         \A k \in 1..Len(block) : \E payload \in payloads : Carries(block[k], payload),
         \A k \in DOMAIN block : Convertible(block[k])
  PROVE  SameBytes(Decoded(NoEvents, Umps(block)), ConvertUmpsToMidi1(Heard(Umps(block))))
<1> DEFINE N == Len(block)
           decoded(s) == Decoded(NoEvents, s)
           converted(s) == Converted(NothingConverted, Heard(s))
           Agree(s) == SameBytes(decoded(s), converted(s)) /\ converted(s).sysex = <<>>
<1>1. PICK f : Sends(block, f) /\ Umps(block) = f[N] BY SendSteps
<1>2. /\ N \in Nat /\ \A n \in 1..N : block[n] \in ItemType
      /\ \A n \in 1..N : Convertible(block[n])
      /\ \A n \in 1..N : \E payload \in Seq(Nat) : Carries(block[n], payload)
  BY LenProperties, ElementOfSeq
<1>3. /\ \A n \in 0..N : f[n] \in Seq(Ump)
      /\ f[0] = <<>> /\ \A n \in 1..N : f[n] = f[n - 1] \o block[n].umps
  BY <1>1 DEF Sends
<1> HIDE DEF N
<1> DEFINE T == {n \in Nat : n <= N => Agree(f[n])}
<1>4. 0 \in T
  <2>1. Agree(<<>>)
    BY NothingGiven DEF SameBytes, NothingConverted, NoEvents
  <2>2. QED BY <1>3, <2>1
<1>5. ASSUME NEW n \in Nat, n \in T PROVE n + 1 \in T
  <2> DEFINE m == n + 1
             item == block[m]
             s == f[n]
             d == decoded(s)
             c == converted(s)
             heard == Heard(item.umps)
  <2> SUFFICES ASSUME m <= N PROVE Agree(f[m]) OBVIOUS
  <2>1. m \in 1..N /\ m - 1 = n /\ n \in 0..N /\ n <= N BY <1>2
  <2>2. Agree(s) BY <1>5, <2>1
  <2> HIDE DEF m, T
  <2>3. /\ item \in ItemType /\ f[m] = s \o item.umps /\ s \in Seq(Ump)
        /\ Convertible(item)
    BY <1>2, <1>3, <2>1
  <2>4. PICK payload \in Seq(Nat) : Carries(item, payload) BY <1>2, <2>1
  <2> HIDE DEF item, s
  <2>5. item.umps \in Seq(Ump) BY <2>3 DEF ItemType
  <2>6. Heard(s) \in Seq(Ump) /\ heard \in Seq(Ump) BY <2>3, <2>5, HeardIs
  <2>7. d \in DecoderStates /\ c \in ConverterStates
    BY <2>3, <2>6, NoEventsType, DecodedType, NothingGiven, ConvertedType
  <2>8. decoded(f[m]) = Decoded(d, item.umps)
    BY <2>3, <2>5, NoEventsType, DecodedJoin
  <2>9. converted(f[m]) = Converted(c, heard)
    <3>1. Heard(f[m]) = Heard(s) \o heard BY <2>3, <2>5, HeardJoin
    <3>2. Converted(NothingConverted, Heard(s) \o heard) =
            Converted(Converted(NothingConverted, Heard(s)), heard)
      BY <2>6, NothingGiven, ConvertedJoin
    <3>3. QED BY <3>1, <3>2
  <2> HIDE DEF d, c
  <2>10. SameBytes(Decoded(d, item.umps), Converted(c, heard)) /\ Converted(c, heard).sysex = <<>>
    BY <2>2, <2>3, <2>4, <2>7, ItemAgrees DEF d, c
  <2> HIDE DEF heard
  <2>11. QED BY <2>8, <2>9, <2>10
<1> HIDE DEF T
<1>6. Nat \subseteq T BY <1>4, <1>5, Induction
<1>7. Agree(f[N]) BY <1>2, <1>6 DEF T
<1>8. ConvertUmpsToMidi1(Heard(Umps(block))) = converted(Umps(block))
  BY DEF ConvertUmpsToMidi1, Converted
<1>9. QED BY <1>1, <1>7, <1>8

\* processMidiInputs and cmidi2_convert_ump_to_midi1 give the same bytes for every
\* block of what hosts send, but for faint notes, system messages and sysex that
\* was broken off or is too long for one of their buffers; and until then the
\* library stays inside of its buffer.
THEOREM DecodersGiveTheSame ==
  ASSUME NEW payloads \in SUBSET Seq(Nat), SysexCarried(payloads)
  PROVE  Spec => []DecodersAgree
<1>1. Init => DecodersAgree
  <2> SUFFICES ASSUME Init
               PROVE  SameBytes(decoder, ConvertUmpsToMidi1(Heard(Umps(items))))
    BY DEF DecodersAgree, Heard, SameBytes, Events
  <2>1. decoder = NoEvents /\ items = <<>> BY DEF Init
  <2>2. items \in Seq(ItemType) /\ Len(items) = 0 BY <2>1, EmptySeq
  <2>3. PICK f : Sends(items, f) /\ Umps(items) = f[Len(items)] BY <2>2, SendSteps
  <2>4. Umps(items) = <<>> BY <2>2, <2>3 DEF Sends
  <2>5. ConvertUmpsToMidi1(Heard(<<>>)) = Converted(NothingConverted, Heard(<<>>))
    BY DEF ConvertUmpsToMidi1, Converted
  <2>6. ConvertUmpsToMidi1(Heard(<<>>)) = NothingConverted BY <2>5, NothingGiven
  <2>7. decoder.events = <<>> BY <2>1 DEF NoEvents
  <2>8. QED BY <2>4, <2>6, <2>7, NothingGiven DEF SameBytes, NothingConverted
<1>2. DecodersAgree /\ [Next]_vars => DecodersAgree'
  <2> SUFFICES ASSUME DecodersAgree, [Next]_vars PROVE DecodersAgree'
    OBVIOUS
  <2>1. ASSUME NEW block \in Blocks, ProcessMidiInputs(block)
        PROVE  DecodersAgree'
    <3> SUFFICES ASSUME acceptsMidi', \A k \in DOMAIN block : Convertible(block[k])
                 PROVE  SameBytes(decoder', ConvertUmpsToMidi1(Heard(Umps(block))))
      BY <2>1 DEF ProcessMidiInputs, DecodersAgree, Events, Heard, SameBytes
    <3>1. decoder' = Decoded(NoEvents, Umps(block))
      BY <2>1 DEF ProcessMidiInputs, BlockStart
    <3>2. block \in Seq(ItemType) BY BlockType
    <3>3. \A k \in 1..Len(block) :
            \E payload \in payloads : Carries(block[k], payload)
      BY DEF SysexCarried
    <3>4. QED BY <3>1, <3>2, <3>3, BlockAgrees
  <2>2. CASE UNCHANGED <<acceptsMidi, items, decoder>>
    BY <2>2 DEF DecodersAgree, Events
  <2>3. QED BY <2>1, <2>2 DEF Next, Construct, vars, midiVars
<1>3. QED BY <1>1, <1>2, PTL DEF Spec
=============================================================================
