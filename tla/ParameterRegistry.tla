------------------------- MODULE ParameterRegistry -------------------------
(***************************************************************************)
(* The list of parameters and the list of their enumerations, which the    *)
(* wrapper builds from the plugin's tree of parameters when it is made,    *)
(* and what the parameters extension and the MIDI input find by them.      *)
(*                                                                         *)
(* The plugin is a tree, whose leaves JUCE has numbered in order; or it is *)
(* "classic", with a number of parameters and no parameter objects.        *)
(***************************************************************************)
EXTENDS Integers, Sequences, SequencesExt, Functions

CONSTANTS
  Trees,          \* the plugins' trees: sequences of nodes
  Classic,        \* numbers of parameters of classic plugins
  Names,          \* Names[i]: getAllValueStrings of parameter i
  FromNormalized, \* FromNormalized[i]: convertFrom0to1 of parameter i's range
  Normalized,     \* normalized values
  IdLimit         \* stable_id is a signed integer of this many values, halved

ASSUME RegistryAssumption ==
  /\ IdLimit \in Nat \ {0} /\ Classic \subseteq Nat /\ Normalized # {}
  /\ DOMAIN Names = DOMAIN FromNormalized
  /\ \A i \in DOMAIN Names : Names[i] \in Seq(STRING)
  /\ \A i \in DOMAIN FromNormalized :
       FromNormalized[i] \in Bijection(Normalized, Normalized)

\* A node is a parameter, by its index, or a group of nodes.
Leaf(i)       == [index |-> i, nodes |-> <<>>]
Group(nodes)  == [index |-> -1, nodes |-> nodes]

\* getParameters(true): the parameters of a sequence of nodes from left to right,
\* those of a group in the place of the group.  `forests' are a plugin's tree and
\* the sequences that are left of it when nodes are taken off or groups opened.
JuceOrder(forests, order) ==
  /\ Trees \subseteq forests /\ forests \subseteq Seq([index : Nat \cup {-1}, nodes : forests])
  /\ order \in [forests -> Seq(Nat)]
  /\ <<>> \in forests /\ order[<<>>] = <<>>
  /\ \A w \in forests : w # <<>> =>
       /\ Tail(w) \in forests
       /\ IF Head(w).index = -1
          THEN /\ Head(w).nodes \o Tail(w) \in forests
               /\ order[w] = order[Head(w).nodes] \o order[Tail(w)]
          ELSE order[w] = <<Head(w).index>> \o order[Tail(w)]

\* setParameterTree numbers the parameters in this order.
NumberedBy(order) ==
  \A t \in Trees : \A k \in DOMAIN order[t] :
    order[t][k] = k - 1 /\ k - 1 \in DOMAIN Names

\* int16_t tells all parameters of a plugin apart, by values below zero too.
FitsInt16(order) == \A t \in Trees : Len(order[t]) <= 2 * IdLimit

VARIABLES
  tree,           \* getParameterTree()
  classic,        \* getNumParameters() of a plugin without a tree
  work,           \* nodes still to register
  aapParams,      \* stable_id of each aap_parameter_info_t
  enumIndex,      \* aapParamIdToEnumIndex: pairs of an ID and an index
  aapEnums,       \* the aap_parameter_enum_t: a parameter and its value string
  built           \* buildParameterList has returned

registryVars == <<tree, classic, work, aapParams, enumIndex, aapEnums, built>>

RegistryInit ==
  /\ \/ tree \in Trees /\ classic = 0
     \/ tree = <<>> /\ classic \in Classic
  /\ work = tree
  /\ aapParams = <<>> /\ enumIndex = {} /\ aapEnums = <<>>
  /\ built = FALSE

-----------------------------------------------------------------------------
(* registerParameter, registerParameters and buildParameterList.           *)

\* static_cast<int16_t>
Cast(i) == ((i + IdLimit) % (2 * IdLimit)) - IdLimit

\* HashMap::set and HashMap::operator[], which gives 0 for a missing key.
SetEnumIndex(id, at) == {e \in enumIndex : e[1] # id} \cup {<<id, at>>}
EnumIndex(id) == IF \E e \in enumIndex : e[1] = id
                 THEN (CHOOSE e \in enumIndex : e[1] = id)[2] ELSE 0

\* Variant: the index is taken after the names were added.
RegisterParameterLate(i) ==
  /\ aapParams' = Append(aapParams, Cast(i))
  /\ aapEnums' = aapEnums \o [k \in 1..Len(Names[i]) |-> <<i, Names[i][k]>>]
  /\ enumIndex' = IF Names[i] = <<>> THEN enumIndex
                  ELSE SetEnumIndex(Cast(i), Len(aapEnums'))

RegisterParameter(i) ==
  /\ aapParams' = Append(aapParams, Cast(i))
  /\ aapEnums' = aapEnums \o [k \in 1..Len(Names[i]) |-> <<i, Names[i][k]>>]
  /\ enumIndex' = IF Names[i] = <<>> THEN enumIndex
                  ELSE SetEnumIndex(Cast(i), Len(aapEnums))

\* Variant: groups are put off until the parameters beside them are done.
OpenGroupLater(node) == Tail(work) \o node.nodes

\* The nodes of a group come before what follows it.
OpenGroup(node) == node.nodes \o Tail(work)

\* registerParameters, one node.
RegisterNode ==
  /\ work # <<>>
  /\ IF Head(work).index = -1
     THEN /\ work' = OpenGroup(Head(work))
          /\ UNCHANGED <<aapParams, enumIndex, aapEnums>>
     ELSE /\ work' = Tail(work)
          /\ RegisterParameter(Head(work).index)
  /\ UNCHANGED <<tree, classic, built>>

\* buildParameterList ends; parameters without objects have only names.
ListBuilt ==
  /\ work = <<>> /\ ~built
  /\ aapParams' = IF aapParams = <<>> THEN [i \in 1..classic |-> Cast(i - 1)]
                  ELSE aapParams
  /\ built' = TRUE
  /\ UNCHANGED <<tree, classic, work, enumIndex, aapEnums>>

-----------------------------------------------------------------------------
(* What is found by an ID.                                                 *)

\* JUCE's parameters, by index: getParameters(true).
Objects == IF tree = <<>> THEN {} ELSE 0..(Len(aapParams) - 1)
NumParameters == IF tree = <<>> THEN classic ELSE Len(aapParams)

\* findAAPParameterInfoById and findJUCEParameter
HasInfo(id)   == \E k \in 1..Len(aapParams) : aapParams[k] = id
HasObject(id) == id \in Objects

GetAAPEnumerationCount(id) == IF HasObject(id) THEN Len(Names[id]) ELSE 0
GetAAPEnumeration(id, k) == aapEnums[EnumIndex(id) + k + 1]

\* A parameter's plain value: a classic plugin's is its normalized value.
Plain(i, n) == IF HasObject(i) THEN FromNormalized[i][n] ELSE n

\* Variant: the range of the parameter is left out.
TransportUint32ToJuceNormalizedLinear(id, transport) == transport

\* juceNormalizedToTransportUint32 and transportUint32ToJuceNormalized: between
\* them lies the plain value, but for a parameter whose ID was cut.
JuceNormalizedToTransportUint32(id, n) == IF HasInfo(id) THEN Plain(id, n) ELSE n
TransportUint32ToJuceNormalized(id, transport) ==
  IF HasInfo(id) THEN CHOOSE n \in Normalized : Plain(id, n) = transport
  ELSE transport
=============================================================================
