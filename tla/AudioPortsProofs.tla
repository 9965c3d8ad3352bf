------------------------- MODULE AudioPortsProofs -------------------------
(***************************************************************************)
(* For any number of audio, MIDI and other ports in any order, the plugin  *)
(* hears its own inputs and the host gets its own outputs.                 *)
(***************************************************************************)
EXTENDS AudioPorts, FiniteSetTheorems, TLAPS

-----------------------------------------------------------------------------
(* Facts about the numbering of the ports of one kind.                     *)

\* A number never exceeds the number of ports before it.
LEMMA RankType ==
  ASSUME NEW kind, NEW p \in 0..NumPorts
  PROVE  /\ IsFiniteSet({q \in Of(kind) : q < p})
         /\ Rank(p, kind) \in Nat
         /\ Rank(p, kind) <= p
  <1> USE PortsAssumption
  <1>1. IsFiniteSet(0..p-1) /\ Cardinality(0..p-1) = p
    BY FS_Interval
  <1>2. {q \in Of(kind) : q < p} \subseteq 0..p-1
    BY DEF Of, Ports
  <1>3. /\ IsFiniteSet({q \in Of(kind) : q < p})
        /\ Cardinality({q \in Of(kind) : q < p}) <= p
    BY <1>1, <1>2, FS_Subset
  <1>4. Cardinality({q \in Of(kind) : q < p}) \in Nat
    BY <1>3, FS_CardinalityType
  <1> QED BY <1>3, <1>4 DEF Rank

\* The first port has number 0.
LEMMA RankZero == \A kind : Rank(0, kind) = 0
  <1> SUFFICES ASSUME NEW kind PROVE Rank(0, kind) = 0 OBVIOUS
  <1>1. 0 \in 0..NumPorts BY PortsAssumption
  <1>2. Rank(0, kind) \in Nat /\ Rank(0, kind) <= 0 BY <1>1, RankType
  <1> QED BY <1>2

\* A port counts for those behind it when it is of their kind.
LEMMA RankStep ==
  ASSUME NEW kind, NEW p \in Ports
  PROVE  Rank(p + 1, kind) = IF ports[p] = kind THEN Rank(p, kind) + 1
                                                ELSE Rank(p, kind)
  <1> USE PortsAssumption
  <1> DEFINE before == {q \in Of(kind) : q < p}
  <1>1. p \in 0..NumPorts BY DEF Ports
  <1>2. IsFiniteSet(before) BY <1>1, RankType
  <1>3. CASE ports[p] = kind
    <2>1. {q \in Of(kind) : q < p + 1} = before \cup {p}
      BY <1>3 DEF Of, Ports
    <2>2. p \notin before BY DEF Ports
    <2>3. Cardinality(before \cup {p}) = Cardinality(before) + 1
      BY <1>2, <2>2, FS_AddElement
    <2> QED BY <1>3, <2>1, <2>3 DEF Rank
  <1>4. CASE ports[p] # kind
    <2>1. {q \in Of(kind) : q < p + 1} = before
      BY <1>4 DEF Of, Ports
    <2> QED BY <1>4, <2>1 DEF Rank
  <1> QED BY <1>3, <1>4

\* Of two ports of a kind the later one has the greater number.
LEMMA RankMonotone ==
  ASSUME NEW kind, NEW p \in Of(kind), NEW q \in 0..NumPorts, p < q
  PROVE  Rank(p, kind) < Rank(q, kind)
  <1> USE PortsAssumption
  <1>1. /\ p \in Ports /\ ports[p] = kind
        /\ p \in 0..NumPorts /\ p + 1 \in 0..NumPorts
    BY DEF Of, Ports
  <1>2. Rank(p + 1, kind) = Rank(p, kind) + 1
    BY <1>1, RankStep
  <1>3. {r \in Of(kind) : r < p + 1} \subseteq {r \in Of(kind) : r < q}
    BY DEF Of, Ports
  <1>4. IsFiniteSet({r \in Of(kind) : r < q}) BY RankType
  <1>5. Rank(p + 1, kind) <= Rank(q, kind)
    BY <1>3, <1>4, FS_Subset DEF Rank
  <1>6. /\ Rank(p, kind) \in Nat /\ Rank(q, kind) \in Nat
    BY <1>1, RankType DEF Ports
  <1> QED BY <1>2, <1>5, <1>6

\* A number says which port of a kind it is.
LEMMA RankInjective ==
  ASSUME NEW kind, NEW p \in Of(kind), NEW q \in Of(kind),
         Rank(p, kind) = Rank(q, kind)
  PROVE  p = q
  <1> USE PortsAssumption
  <1>1. p \in 0..NumPorts /\ q \in 0..NumPorts /\ p \in Int /\ q \in Int
    BY DEF Of, Ports
  <1>2. Rank(p, kind) \in Nat /\ Rank(q, kind) \in Nat
    BY <1>1, RankType
  <1>3. ~(p < q) BY <1>1, <1>2, RankMonotone
  <1>4. ~(q < p) BY <1>1, <1>2, RankMonotone
  <1> QED BY <1>1, <1>3, <1>4

\* The number of a port is a channel of the plugin.
LEMMA RankBound ==
  ASSUME NEW kind, NEW p \in Of(kind)
  PROVE  /\ Rank(p, kind) \in Channels
         /\ Rank(p, kind) < Rank(NumPorts, kind)
  <1> USE PortsAssumption
  <1>1. p \in Ports /\ p \in 0..NumPorts /\ NumPorts \in 0..NumPorts
    BY DEF Of, Ports
  <1>2. Rank(p, kind) < Rank(NumPorts, kind) BY <1>1, RankMonotone DEF Ports
  <1>3. Rank(p, kind) \in Nat /\ Rank(p, kind) <= p BY <1>1, RankType
  <1> QED BY <1>1, <1>2, <1>3 DEF Ports, Channels

-----------------------------------------------------------------------------
(* The inductive invariant.                                                *)

\* The maps number the audio ports that prepare() has seen, and outPort is the
\* inverse of mapOut.
Mapped ==
  phase # "new" =>
    /\ inIdx = Rank(i, "audioIn") /\ outIdx = Rank(i, "audioOut")
    /\ DOMAIN mapIn = {p \in Of("audioIn") : p < i}
    /\ \A p \in DOMAIN mapIn : mapIn[p] = Rank(p, "audioIn")
    /\ \A c \in 0..inIdx-1 : \E p \in DOMAIN mapIn : mapIn[p] = c
    /\ DOMAIN mapOut = {p \in Of("audioOut") : p < i}
    /\ \A p \in DOMAIN mapOut : mapOut[p] = Rank(p, "audioOut")
    /\ DOMAIN outPort = 0..outIdx-1
    /\ \A c \in DOMAIN outPort : /\ outPort[c] \in DOMAIN mapOut
                                 /\ mapOut[outPort[c]] = c

MappingDone == phase \notin {"new", "mapping"} => i = NumPorts

IsPort(p, kind, c) == p \in Of(kind) /\ Rank(p, kind) = c

\* After the first pass the channels are the outputs; after the second one the
\* inputs have replaced as many of them as there are.
Pointed ==
  /\ phase = "inputs" =>
       \A c \in Channels :
         c < NumOuts => IsPort(channels[c], "audioOut", c)
  /\ phase \in {"dsp", "copy"} =>
       \A c \in Channels :
         /\ c < NumIns => IsPort(channels[c], "audioIn", c)
         /\ NumIns <= c /\ c < NumOuts => IsPort(channels[c], "audioOut", c)

\* Until the plugin runs, the inputs hold what the host copied to them.
InputsFilled ==
  phase \in {"outputs", "inputs", "dsp"} =>
    \A p \in Of("audioIn") :
      Rank(p, "audioIn") < HostChannels
        => mem[p] = <<"in", Rank(p, "audioIn"), block>>

\* Then the channels hold its outputs, and after the copy the ports do.
OutputsFilled ==
  /\ phase = "copy" =>
       \A c \in Channels : c < NumOuts => mem[channels[c]] = <<"out", c, block>>
  /\ phase = "hostOut" =>
       \A p \in Of("audioOut") : mem[p] = <<"out", Rank(p, "audioOut"), block>>

IInv == /\ TypeOK /\ Mapped /\ MappingDone /\ Pointed
        /\ InputsFilled /\ OutputsFilled
        /\ InputsHeard /\ OutputsReturned

-----------------------------------------------------------------------------
\* Nothing about the numbering changes while the list of ports stays.
LEMMA SamePorts ==
  ASSUME ports' = ports
  PROVE  /\ \A kind : Of(kind)' = Of(kind)
         /\ \A p, kind : Rank(p, kind)' = Rank(p, kind)
         /\ NumIns' = NumIns /\ NumOuts' = NumOuts
         /\ HostChannels' = HostChannels
  BY DEF Of, Rank, NumIns, NumOuts, HostChannels, Larger, Smaller

\* The numbers of channels are numbers.
LEMMA CountTypes ==
  /\ NumIns \in Nat /\ NumIns <= NumPorts
  /\ NumOuts \in Nat /\ NumOuts <= NumPorts
  /\ HostChannels \in Nat
  <1>1. NumPorts \in 0..NumPorts BY PortsAssumption
  <1>2. /\ NumIns \in Nat /\ NumIns <= NumPorts
        /\ NumOuts \in Nat /\ NumOuts <= NumPorts
    BY <1>1, RankType DEF NumIns, NumOuts
  <1> QED BY <1>2 DEF HostChannels, Larger, Smaller

\* Before prepare() there is nothing to be said about maps and sound.
LEMMA InitInvariant == Init => IInv
  <1> SUFFICES ASSUME Init PROVE IInv OBVIOUS
  <1> USE PortsAssumption DEF Init
  <1>1. TypeOK
    BY DEF TypeOK, PartialMap, Phases, Ports, Channels, NoPort, Sound
  <1>2. Mapped /\ MappingDone BY DEF Mapped, MappingDone
  <1>3. Pointed /\ InputsFilled /\ OutputsFilled
    BY DEF Pointed, InputsFilled, OutputsFilled
  <1>4. InputsHeard /\ OutputsReturned BY DEF InputsHeard, OutputsReturned
  <1> QED BY <1>1, <1>2, <1>3, <1>4 DEF IInv

\* prepare() starts with empty maps.
LEMMA PrepareStep == ASSUME IInv, Prepare PROVE IInv'
  <1> USE PortsAssumption DEF IInv, Prepare, audioVars
  <1>1. TypeOK'
    BY DEF TypeOK, PartialMap, Phases, Ports, Channels, NoPort
  <1>2. Mapped'
    <2>1. \A kind : Rank(0, kind)' = 0 BY RankZero, SamePorts
    <2>2. \A kind : {p \in Of(kind)' : p < 0} = {} BY DEF Of, Ports
    <2> QED BY <2>1, <2>2 DEF Mapped
  <1>3. MappingDone' /\ Pointed' /\ InputsFilled' /\ OutputsFilled'
    BY DEF MappingDone, Pointed, InputsFilled, OutputsFilled
  <1>4. InputsHeard' /\ OutputsReturned'
    BY DEF InputsHeard, OutputsReturned
  <1> QED BY <1>1, <1>2, <1>3, <1>4

\* One more port is numbered.
LEMMA MapPortStep == ASSUME IInv, MapPort PROVE IInv'
  <1> USE PortsAssumption
  <1>1. /\ phase = "mapping" /\ phase' = "mapping"
        /\ i \in Ports /\ i' = i + 1 /\ i' \in 0..NumPorts
        /\ ports' = ports /\ UNCHANGED channels /\ UNCHANGED audioVars
    BY DEF IInv, TypeOK, MapPort, Ports
  <1>2. /\ MappingDone' /\ Pointed' /\ InputsFilled' /\ OutputsFilled'
        /\ InputsHeard' /\ OutputsReturned'
    BY <1>1 DEF MappingDone, Pointed, InputsFilled, OutputsFilled,
                InputsHeard, OutputsReturned
  <1> DEFINE seen(kind) == {p \in Of(kind) : p < i}
             seenNext(kind) == {p \in Of(kind) : p < i + 1}
  <1>3. /\ inIdx = Rank(i, "audioIn") /\ outIdx = Rank(i, "audioOut")
        /\ DOMAIN mapIn = seen("audioIn")
        /\ \A p \in DOMAIN mapIn : mapIn[p] = Rank(p, "audioIn")
        /\ \A c \in 0..inIdx-1 : \E p \in DOMAIN mapIn : mapIn[p] = c
        /\ DOMAIN mapOut = seen("audioOut")
        /\ \A p \in DOMAIN mapOut : mapOut[p] = Rank(p, "audioOut")
        /\ DOMAIN outPort = 0..outIdx-1
        /\ \A c \in DOMAIN outPort : /\ outPort[c] \in DOMAIN mapOut
                                     /\ mapOut[outPort[c]] = c
    BY <1>1 DEF IInv, Mapped
  <1>4. \A kind : seenNext(kind) = IF ports[i] = kind THEN seen(kind) \cup {i}
                                                      ELSE seen(kind)
    BY <1>1 DEF Of, Ports
  <1>5. \A kind : Rank(i', kind) = IF ports[i] = kind THEN Rank(i, kind) + 1
                                                      ELSE Rank(i, kind)
    BY <1>1, RankStep
  <1>6. /\ inIdx \in Nat /\ outIdx \in Nat
        /\ ports[i] = "audioIn" => inIdx \in Channels
        /\ ports[i] = "audioOut" => outIdx \in Channels
    <2>1. i \in 0..NumPorts BY <1>1 DEF Ports
    <2>2. ports[i] = "audioIn" => i \in Of("audioIn") BY <1>1 DEF Of
    <2>3. ports[i] = "audioOut" => i \in Of("audioOut") BY <1>1 DEF Of
    <2> QED BY <1>3, <2>1, <2>2, <2>3, RankType, RankBound
  <1> DEFINE InsDone ==
               /\ inIdx' = Rank(i', "audioIn")
               /\ DOMAIN mapIn' = seenNext("audioIn")
               /\ \A p \in DOMAIN mapIn' : mapIn'[p] = Rank(p, "audioIn")
               /\ \A c \in 0..inIdx'-1 : \E p \in DOMAIN mapIn' : mapIn'[p] = c
             OutsDone ==
               /\ outIdx' = Rank(i', "audioOut")
               /\ DOMAIN mapOut' = seenNext("audioOut")
               /\ \A p \in DOMAIN mapOut' : mapOut'[p] = Rank(p, "audioOut")
               /\ DOMAIN outPort' = 0..outIdx'-1
               /\ \A c \in DOMAIN outPort' : /\ outPort'[c] \in DOMAIN mapOut'
                                             /\ mapOut'[outPort'[c]] = c
  <1>7. CASE MapAudioIn
    <2> USE <1>7 DEF MapAudioIn
    <2>1. ports[i] = "audioIn" /\ ports[i] # "audioOut" OBVIOUS
    <2>2. InsDone
      <3>1. inIdx' = Rank(i', "audioIn") BY <1>3, <1>5, <2>1
      <3>2. DOMAIN mapIn' = seenNext("audioIn")
        BY <1>3, <1>4, <2>1 DEF Assign
      <3>3. \A p \in DOMAIN mapIn' : mapIn'[p] = Rank(p, "audioIn")
        BY <1>3 DEF Assign
      <3>4. i \notin DOMAIN mapIn BY <1>1, <1>3 DEF Ports
      <3>5. ASSUME NEW c \in 0..inIdx'-1
            PROVE  \E p \in DOMAIN mapIn' : mapIn'[p] = c
        <4>1. CASE c = inIdx BY <4>1 DEF Assign
        <4>2. CASE c # inIdx
          <5>1. c \in 0..inIdx-1 BY <1>6, <4>2
          <5>2. PICK p \in DOMAIN mapIn : mapIn[p] = c BY <1>3, <5>1
          <5>3. p \in DOMAIN mapIn' /\ mapIn'[p] = c
            BY <3>4, <5>2 DEF Assign
          <5> QED BY <5>3
        <4> QED BY <4>1, <4>2
      <3> QED BY <3>1, <3>2, <3>3, <3>5
    <2>3. OutsDone BY <1>3, <1>4, <1>5, <2>1
    <2>4. TypeOK'
      BY <1>1, <1>6, <2>1
      DEF IInv, TypeOK, PartialMap, Assign, Phases, audioVars, Channels
    <2> HIDE DEF seenNext
    <2>5. Mapped'
      BY <1>1, <2>2, <2>3, SamePorts DEF Mapped, seenNext
    <2> QED BY <1>2, <2>4, <2>5 DEF IInv
  <1>8. CASE MapAudioOut
    <2> USE <1>8 DEF MapAudioOut
    <2>1. ports[i] = "audioOut" /\ ports[i] # "audioIn" OBVIOUS
    <2>2. OutsDone
      <3>1. outIdx' = Rank(i', "audioOut") BY <1>3, <1>5, <2>1
      <3>2. DOMAIN mapOut' = seenNext("audioOut")
        BY <1>3, <1>4, <2>1 DEF Assign
      <3>3. \A p \in DOMAIN mapOut' : mapOut'[p] = Rank(p, "audioOut")
        BY <1>3 DEF Assign
      <3>4. i \notin DOMAIN mapOut BY <1>1, <1>3 DEF Ports
      <3>5. DOMAIN outPort' = 0..outIdx'-1 BY <1>3, <1>6 DEF Assign
      <3>6. ASSUME NEW c \in DOMAIN outPort'
            PROVE  outPort'[c] \in DOMAIN mapOut' /\ mapOut'[outPort'[c]] = c
        <4>1. CASE c = outIdx BY <4>1 DEF Assign
        <4>2. CASE c # outIdx
          <5>1. c \in DOMAIN outPort /\ outPort'[c] = outPort[c]
            BY <4>2 DEF Assign
          <5>2. outPort[c] \in DOMAIN mapOut /\ mapOut[outPort[c]] = c
            BY <1>3, <5>1
          <5> QED BY <3>4, <5>1, <5>2 DEF Assign
        <4> QED BY <4>1, <4>2
      <3> QED BY <3>1, <3>2, <3>3, <3>5, <3>6
    <2>3. InsDone BY <1>3, <1>4, <1>5, <2>1
    <2>4. TypeOK'
      BY <1>1, <1>6, <2>1
      DEF IInv, TypeOK, PartialMap, Assign, Phases, audioVars, Channels
    <2>5. Mapped' BY <1>1, <2>2, <2>3, SamePorts DEF Mapped
    <2> QED BY <1>2, <2>4, <2>5 DEF IInv
  <1>9. CASE MapMidi \/ MapOther
    <2> USE <1>9 DEF MapMidi, MapOther
    <2>1. ports[i] # "audioIn" /\ ports[i] # "audioOut" OBVIOUS
    <2>2. UNCHANGED <<inIdx, outIdx, mapIn, mapOut, outPort>> OBVIOUS
    <2>3. InsDone /\ OutsDone BY <1>3, <1>4, <1>5, <2>1, <2>2
    <2>4. midiIn' \in Ports \cup {NoPort} /\ midiOut' \in Ports \cup {NoPort}
      BY <1>1 DEF IInv, TypeOK
    <2>5. TypeOK'
      BY <1>1, <2>2, <2>4 DEF IInv, TypeOK, PartialMap, Phases, audioVars
    <2>6. Mapped' BY <1>1, <2>3, SamePorts DEF Mapped
    <2> QED BY <1>2, <2>5, <2>6 DEF IInv
  <1> QED BY <1>7, <1>8, <1>9 DEF MapPort

\* Steps that leave the list and its numbering alone keep the maps' invariant.
LEMMA MapsKept ==
  ASSUME IInv, UNCHANGED <<ports, mapVars>>,
         phase \notin {"new", "mapping"}, phase' \notin {"new", "mapping"}
  PROVE  Mapped' /\ MappingDone'
  <1>1. /\ i' = i /\ inIdx' = inIdx /\ outIdx' = outIdx /\ mapIn' = mapIn
        /\ mapOut' = mapOut /\ outPort' = outPort /\ ports' = ports
    BY DEF mapVars
  <1>2. phase # "new" /\ Mapped /\ i = NumPorts BY DEF IInv, MappingDone
  <1>3. Mapped' BY <1>1, <1>2, SamePorts DEF Mapped
  <1>4. MappingDone' BY <1>1, <1>2 DEF MappingDone
  <1> QED BY <1>3, <1>4

\* All ports are numbered when prepare() returns.
LEMMA PrepareReturnStep == ASSUME IInv, PrepareReturn PROVE IInv'
  <1> USE DEF IInv, PrepareReturn, mapVars, audioVars
  <1>1. TypeOK' BY DEF TypeOK, Phases
  <1>2. Mapped' /\ MappingDone' BY SamePorts DEF Mapped, MappingDone
  <1>3. Pointed' /\ InputsFilled' /\ OutputsFilled'
    BY DEF Pointed, InputsFilled, OutputsFilled
  <1>4. InputsHeard' /\ OutputsReturned'
    BY DEF InputsHeard, OutputsReturned
  <1> QED BY <1>1, <1>2, <1>3, <1>4

\* The host fills the inputs.
LEMMA HostCopyInStep == ASSUME IInv, HostCopyIn PROVE IInv'
  <1> USE PortsAssumption DEF HostCopyIn
  <1>1. /\ phase' = "outputs" /\ UNCHANGED <<ports, mapVars, channels, heard>>
        /\ phase \notin {"new", "mapping"} /\ block' \in 0..MaxBlocks
    BY DEF IInv, TypeOK
  <1>2. Mapped' /\ MappingDone' BY <1>1, MapsKept
  <1>3. \A c \in Channels : hostAudio'[c] = <<"in", c, block'>>
    OBVIOUS
  <1>4. \A c \in Channels : <<"in", c, block'>> \in Sound
    BY <1>1 DEF Sound
  <1>5. \A p \in Of("audioIn") : Rank(p, "audioIn") \in Channels
    BY RankBound
  <1>6. mem' \in [Ports -> Sound]
    <2> SUFFICES ASSUME NEW p \in Ports PROVE mem'[p] \in Sound OBVIOUS
    <2>1. CASE ports[p] = "audioIn" /\ Rank(p, "audioIn") < HostChannels
      <3>1. p \in Of("audioIn") BY <2>1 DEF Of
      <3> QED BY <1>3, <1>4, <1>5, <2>1, <3>1
    <2>2. CASE ~(ports[p] = "audioIn" /\ Rank(p, "audioIn") < HostChannels)
      BY <2>2 DEF IInv, TypeOK
    <2> QED BY <2>1, <2>2
  <1>7. TypeOK'
    <2>1. hostAudio' \in [Channels -> Sound] BY <1>4
    <2> QED BY <1>1, <1>6, <2>1 DEF IInv, TypeOK, Phases, mapVars
  <1>8. InputsFilled'
    <2> SUFFICES ASSUME NEW p \in Of("audioIn"),
                        Rank(p, "audioIn") < HostChannels
                 PROVE  mem'[p] = <<"in", Rank(p, "audioIn"), block'>>
      BY <1>1, SamePorts DEF InputsFilled
    <2> QED BY <1>3, <1>5 DEF Of
  <1>9. Pointed' /\ OutputsFilled' /\ InputsHeard' /\ OutputsReturned'
    BY <1>1 DEF Pointed, OutputsFilled, InputsHeard, OutputsReturned
  <1> QED BY <1>2, <1>7, <1>8, <1>9 DEF IInv

\* What one pass over a complete numbering of a kind makes of a channel.
LEMMA PointAt ==
  ASSUME NEW map, NEW kind, NEW c \in Channels,
         DOMAIN map = Of(kind),
         \A p \in Of(kind) : map[p] = Rank(p, kind)
  PROVE  /\ (\E p \in Of(kind) : Rank(p, kind) = c)
              => IsPort(Point(map)[c], kind, c)
         /\ ~(\E p \in Of(kind) : Rank(p, kind) = c)
              => Point(map)[c] = channels[c]
  <1> DEFINE mine == {p \in DOMAIN map : map[p] = c}
  <1>1. ASSUME NEW p \in Of(kind), Rank(p, kind) = c
        PROVE  IsPort(Point(map)[c], kind, c)
    <2>1. mine = {p} BY <1>1, RankInjective
    <2>2. (CHOOSE x \in mine : \A q \in mine : q <= x) = p
      <3>1. p \in Int BY DEF Of, Ports
      <3>2. \A x \in mine : x = p BY <2>1
      <3>3. \A q \in mine : q <= p BY <3>1, <3>2
      <3> QED BY <2>1, <3>2, <3>3
    <2>3. Point(map)[c] = p BY <2>1, <2>2 DEF Point
    <2> QED BY <1>1, <2>3 DEF IsPort
  <1>2. ASSUME ~(\E p \in Of(kind) : Rank(p, kind) = c)
        PROVE  Point(map)[c] = channels[c]
    <2>1. mine = {} BY <1>2
    <2> QED BY <2>1 DEF Point
  <1> QED BY <1>1, <1>2

\* Once prepare() has returned, the maps number all audio ports, and there is
\* an audio port for each channel.
LEMMA AllMapped ==
  ASSUME IInv, phase \notin {"new", "mapping"}
  PROVE  /\ DOMAIN mapIn = Of("audioIn")
         /\ \A p \in Of("audioIn") : mapIn[p] = Rank(p, "audioIn")
         /\ \A c \in Channels : c < NumIns
              <=> \E p \in Of("audioIn") : Rank(p, "audioIn") = c
         /\ DOMAIN mapOut = Of("audioOut")
         /\ \A p \in Of("audioOut") : mapOut[p] = Rank(p, "audioOut")
         /\ DOMAIN outPort = 0..NumOuts-1
         /\ \A c \in 0..NumOuts-1 : IsPort(outPort[c], "audioOut", c)
         /\ \A c \in Channels : c < NumOuts
              <=> \E p \in Of("audioOut") : Rank(p, "audioOut") = c
  <1> USE PortsAssumption
  <1>1. Mapped /\ i = NumPorts BY DEF IInv, MappingDone
  <1>2. \A kind : {p \in Of(kind) : p < NumPorts} = Of(kind)
    BY DEF Of, Ports
  <1>3. inIdx = NumIns /\ outIdx = NumOuts
    BY <1>1 DEF Mapped, NumIns, NumOuts
  <1>4. DOMAIN mapIn = Of("audioIn") /\ DOMAIN mapOut = Of("audioOut")
    BY <1>1, <1>2 DEF Mapped
  <1>5. /\ \A p \in Of("audioIn") : mapIn[p] = Rank(p, "audioIn")
        /\ \A p \in Of("audioOut") : mapOut[p] = Rank(p, "audioOut")
    BY <1>1, <1>4 DEF Mapped
  <1>6. DOMAIN outPort = 0..NumOuts-1 BY <1>1, <1>3 DEF Mapped
  <1>7. \A c \in 0..NumOuts-1 : IsPort(outPort[c], "audioOut", c)
    BY <1>1, <1>4, <1>5, <1>6 DEF Mapped, IsPort
  <1>8. /\ \A p \in Of("audioIn") : Rank(p, "audioIn") < NumIns
        /\ \A p \in Of("audioOut") : Rank(p, "audioOut") < NumOuts
    BY RankBound DEF NumIns, NumOuts
  <1>9. \A c \in 0..NumIns-1 : \E p \in Of("audioIn") : Rank(p, "audioIn") = c
    BY <1>1, <1>3, <1>4, <1>5 DEF Mapped
  <1>10. \A c \in Channels : c < NumIns
           <=> \E p \in Of("audioIn") : Rank(p, "audioIn") = c
    BY <1>8, <1>9, CountTypes DEF Channels
  <1>11. \A c \in Channels : c < NumOuts
           <=> \E p \in Of("audioOut") : Rank(p, "audioOut") = c
    BY <1>7, <1>8, CountTypes DEF Channels, IsPort
  <1> QED BY <1>4, <1>5, <1>6, <1>7, <1>10, <1>11

\* The first pass.
LEMMA PointOutputsStep == ASSUME IInv, PointOutputs PROVE IInv'
  <1> USE DEF PointOutputs
  <1>1. /\ phase = "outputs" /\ phase' = "inputs"
        /\ UNCHANGED <<ports, mapVars, audioVars>>
    OBVIOUS
  <1>2. Mapped' /\ MappingDone' BY <1>1, MapsKept
  <1>3. ASSUME NEW c \in Channels
        PROVE  /\ c < NumOuts => IsPort(channels'[c], "audioOut", c)
               /\ ~(c < NumOuts) => channels'[c] = channels[c]
    <2>1. /\ DOMAIN mapOut = Of("audioOut")
          /\ \A p \in Of("audioOut") : mapOut[p] = Rank(p, "audioOut")
          /\ c < NumOuts <=> \E p \in Of("audioOut") : Rank(p, "audioOut") = c
      BY <1>1, AllMapped
    <2>2. /\ c < NumOuts => IsPort(Point(mapOut)[c], "audioOut", c)
          /\ ~(c < NumOuts) => Point(mapOut)[c] = channels[c]
      BY <2>1, PointAt
    <2> QED BY <2>2
  <1>4. channels' \in [Channels -> Ports \cup {NoPort}]
    <2>1. \A c \in Channels : channels'[c] \in Ports \cup {NoPort}
      BY <1>3 DEF IInv, TypeOK, IsPort, Of
    <2> QED BY <2>1 DEF Point
  <1>5. TypeOK'
    BY <1>1, <1>4 DEF IInv, TypeOK, Phases, mapVars, audioVars
  <1>6. Pointed'
    BY <1>1, <1>3, SamePorts DEF Pointed, IsPort
  <1>7. InputsFilled' /\ OutputsFilled' /\ InputsHeard' /\ OutputsReturned'
    BY <1>1, SamePorts
    DEF IInv, InputsFilled, OutputsFilled, InputsHeard, OutputsReturned,
        audioVars
  <1> QED BY <1>2, <1>5, <1>6, <1>7 DEF IInv

\* The second pass.
LEMMA PointInputsStep == ASSUME IInv, PointInputs PROVE IInv'
  <1> USE DEF PointInputs
  <1>1. /\ phase = "inputs" /\ phase' = "dsp"
        /\ UNCHANGED <<ports, mapVars, audioVars>>
    OBVIOUS
  <1>2. Mapped' /\ MappingDone' BY <1>1, MapsKept
  <1>3. ASSUME NEW c \in Channels
        PROVE  /\ c < NumIns => IsPort(channels'[c], "audioIn", c)
               /\ ~(c < NumIns) => channels'[c] = channels[c]
    <2>1. /\ DOMAIN mapIn = Of("audioIn")
          /\ \A p \in Of("audioIn") : mapIn[p] = Rank(p, "audioIn")
          /\ c < NumIns <=> \E p \in Of("audioIn") : Rank(p, "audioIn") = c
      BY <1>1, AllMapped
    <2>2. /\ c < NumIns => IsPort(Point(mapIn)[c], "audioIn", c)
          /\ ~(c < NumIns) => Point(mapIn)[c] = channels[c]
      BY <2>1, PointAt
    <2> QED BY <2>2
  <1>4. channels' \in [Channels -> Ports \cup {NoPort}]
    <2>1. \A c \in Channels : channels'[c] \in Ports \cup {NoPort}
      BY <1>3 DEF IInv, TypeOK, IsPort, Of
    <2> QED BY <2>1 DEF Point
  <1>5. TypeOK'
    BY <1>1, <1>4 DEF IInv, TypeOK, Phases, mapVars, audioVars
  <1>6. \A c \in Channels :
          /\ c < NumIns => IsPort(channels'[c], "audioIn", c)
          /\ NumIns <= c /\ c < NumOuts => IsPort(channels'[c], "audioOut", c)
    BY <1>1, <1>3, CountTypes DEF IInv, Pointed, Channels
  <1>7. Pointed'
    BY <1>1, <1>6, SamePorts DEF Pointed, IsPort
  <1>8. InputsFilled' /\ OutputsFilled' /\ InputsHeard' /\ OutputsReturned'
    BY <1>1, SamePorts
    DEF IInv, InputsFilled, OutputsFilled, InputsHeard, OutputsReturned,
        audioVars
  <1> QED BY <1>2, <1>5, <1>7, <1>8 DEF IInv

\* The channels that the plugin uses are ports, and different ones.
LEMMA ChannelPorts ==
  ASSUME IInv, phase \in {"dsp", "copy"},
         NEW c \in Channels, c < NumIns \/ c < NumOuts
  PROVE  /\ channels[c] \in Ports
         /\ \A d \in Channels : (d < NumIns \/ d < NumOuts)
                                  /\ channels[d] = channels[c] => d = c
  <1>1. \A d \in Channels : d < NumIns \/ d < NumOuts =>
          \/ d < NumIns /\ IsPort(channels[d], "audioIn", d)
          \/ ~(d < NumIns) /\ IsPort(channels[d], "audioOut", d)
    BY CountTypes DEF IInv, Pointed, Channels
  <1>2. channels[c] \in Ports BY <1>1 DEF IsPort, Of
  <1>3. ASSUME NEW d \in Channels, d < NumIns \/ d < NumOuts,
               channels[d] = channels[c]
        PROVE  d = c
    <2>1. PICK kind : IsPort(channels[c], kind, c) BY <1>1
    <2>2. PICK other : IsPort(channels[d], other, d) BY <1>1, <1>3
    <2>3. kind = other BY <1>3, <2>1, <2>2 DEF IsPort, Of
    <2> QED BY <1>3, <2>1, <2>2, <2>3 DEF IsPort
  <1> QED BY <1>2, <1>3

\* The plugin reads its inputs and writes its outputs.
LEMMA ProcessBlockStep == ASSUME IInv, ProcessBlock PROVE IInv'
  <1> USE DEF ProcessBlock
  <1>1. /\ phase = "dsp" /\ phase' = "copy"
        /\ UNCHANGED <<ports, mapVars, channels, hostAudio, block>>
        /\ block \in 0..MaxBlocks /\ mem \in [Ports -> Sound]
    BY DEF IInv, TypeOK
  <1>2. Mapped' /\ MappingDone' BY <1>1, MapsKept
  <1>3. Pointed' BY <1>1, SamePorts DEF IInv, Pointed, IsPort
  <1> DEFINE writes(c, p) == c < NumOuts /\ channels[c] = p
  <1>4. ASSUME NEW c \in Channels, c < NumOuts
        PROVE  mem'[channels[c]] = <<"out", c, block>>
    <2>1. /\ channels[c] \in Ports
          /\ \A d \in Channels : writes(d, channels[c]) => d = c
      BY <1>1, <1>4, ChannelPorts
    <2>2. (CHOOSE d \in Channels : writes(d, channels[c])) = c
      BY <1>4, <2>1
    <2> QED BY <1>4, <2>1, <2>2
  <1>5. ASSUME NEW c \in Channels, c < NumIns
        PROVE  heard'[c] = mem[channels[c]] /\ heard'[c] \in Sound
    BY <1>1, <1>5, ChannelPorts
  <1>6. TypeOK'
    <2>1. \A c \in Channels : heard'[c] \in Sound
      <3>1. Silence \in Sound BY DEF Sound
      <3> QED BY <1>5, <3>1
    <2>2. ASSUME NEW p \in Ports PROVE mem'[p] \in Sound
      <3>1. CASE \E c \in Channels : writes(c, p)
        <4>1. (CHOOSE c \in Channels : writes(c, p)) \in Channels BY <3>1
        <4> DEFINE first == CHOOSE c \in Channels : writes(c, p)
        <4>2. mem'[p] = <<"out", first, block>> BY <3>1
        <4> HIDE DEF first
        <4> QED BY <1>1, <4>1, <4>2 DEF Sound, first
      <3>2. CASE ~\E c \in Channels : writes(c, p) BY <1>1, <3>2
      <3> QED BY <3>1, <3>2
    <2>3. mem' \in [Ports -> Sound] /\ heard' \in [Channels -> Sound]
      BY <2>1, <2>2
    <2> QED BY <1>1, <2>3 DEF IInv, TypeOK, Phases, mapVars
  <1>7. InputsHeard'
    <2> SUFFICES ASSUME NEW c \in 0..Smaller(NumIns, HostChannels) - 1
                 PROVE  heard'[c] = <<"in", c, block>>
      BY <1>1, SamePorts DEF InputsHeard, Smaller
    <2>1. c \in Channels /\ c < NumIns /\ c < HostChannels
      BY CountTypes, PortsAssumption DEF Smaller, Channels
    <2>2. IsPort(channels[c], "audioIn", c) BY <1>1, <2>1 DEF IInv, Pointed
    <2>3. mem[channels[c]] = <<"in", c, block>>
      BY <1>1, <2>1, <2>2 DEF IInv, InputsFilled, IsPort
    <2> QED BY <1>5, <2>1, <2>3
  <1>8. InputsFilled' /\ OutputsFilled' /\ OutputsReturned'
    BY <1>1, <1>4, SamePorts DEF InputsFilled, OutputsFilled, OutputsReturned
  <1> QED BY <1>2, <1>3, <1>6, <1>7, <1>8 DEF IInv

\* Outputs on the memory of inputs are copied to their own ports.
LEMMA CopyOutputsStep == ASSUME IInv, CopyOutputs PROVE IInv'
  <1> USE DEF CopyOutputs
  <1> DEFINE copied == 0..Smaller(NumIns, NumOuts) - 1
             goesTo(c, p) == outPort[c] = p
  <1>1. /\ phase = "copy" /\ phase' = "hostOut"
        /\ UNCHANGED <<ports, mapVars, channels, hostAudio, block, heard>>
        /\ mem \in [Ports -> Sound]
        /\ mem' = [p \in Ports |->
                     IF \E c \in copied : goesTo(c, p)
                     THEN mem[channels[CHOOSE c \in copied : goesTo(c, p)]]
                     ELSE mem[p]]
    BY DEF IInv, TypeOK
  <1>2. Mapped' /\ MappingDone' BY <1>1, MapsKept
  <1>3. \A c \in copied : c \in Channels /\ c < NumIns /\ c < NumOuts
    BY CountTypes, PortsAssumption DEF Smaller, Channels
  <1>4. \A c \in Channels : c < NumIns /\ c < NumOuts <=> c \in copied
    BY CountTypes DEF Smaller, Channels
  <1> HIDE DEF copied
  <1>5. TypeOK'
    <2>1. ASSUME NEW p \in Ports PROVE mem'[p] \in Sound
      <3>1. CASE \E c \in copied : goesTo(c, p)
        <4> DEFINE from == CHOOSE c \in copied : goesTo(c, p)
        <4>1. from \in copied BY <3>1
        <4>2. mem'[p] = mem[channels[from]] BY <1>1, <3>1
        <4> HIDE DEF from
        <4>3. channels[from] \in Ports
          BY <1>1, <1>3, <4>1, ChannelPorts
        <4> QED BY <1>1, <4>2, <4>3
      <3>2. CASE ~\E c \in copied : goesTo(c, p) BY <1>1, <3>2
      <3> QED BY <3>1, <3>2
    <2>2. mem' \in [Ports -> Sound] BY <1>1, <2>1
    <2> QED BY <1>1, <2>2 DEF IInv, TypeOK, Phases, mapVars
  <1>6. ASSUME NEW p \in Of("audioOut")
        PROVE  mem'[p] = <<"out", Rank(p, "audioOut"), block>>
    <2> DEFINE c == Rank(p, "audioOut")
    <2>1. p \in Ports /\ c \in Channels /\ c < NumOuts
      BY RankBound DEF Of, NumOuts
    <2>2. /\ \A d \in 0..NumOuts-1 : IsPort(outPort[d], "audioOut", d)
          /\ c \in 0..NumOuts-1
      BY <1>1, <2>1, AllMapped, CountTypes DEF Channels
    <2>3. outPort[c] = p BY <2>2, RankInjective DEF IsPort
    <2>4. ASSUME NEW d \in copied, goesTo(d, p) PROVE d = c
      <3>1. d \in 0..NumOuts-1
        BY <1>3, CountTypes DEF Channels
      <3> QED BY <2>2, <2>4, <3>1 DEF IsPort
    <2>5. mem[channels[c]] = <<"out", c, block>>
      BY <1>1, <2>1 DEF IInv, OutputsFilled
    <2> HIDE DEF c
    <2>6. CASE c < NumIns
      <3>1. c \in copied BY <1>4, <2>1, <2>6
      <3>2. (CHOOSE d \in copied : goesTo(d, p)) = c BY <2>3, <2>4, <3>1
      <3>3. mem'[p] = mem[channels[c]] BY <1>1, <2>1, <2>3, <3>1, <3>2
      <3> QED BY <2>5, <3>3 DEF c
    <2>7. CASE ~(c < NumIns)
      <3>1. ~\E d \in copied : goesTo(d, p) BY <1>3, <2>4, <2>7
      <3>2. NumIns <= c BY <2>1, <2>7, CountTypes DEF Channels
      <3>3. IsPort(channels[c], "audioOut", c)
        BY <1>1, <2>1, <3>2 DEF IInv, Pointed
      <3>4. channels[c] = p
        BY <3>3, RankInjective DEF IsPort, c
      <3> QED BY <1>1, <2>1, <2>5, <3>1, <3>4 DEF c
    <2> QED BY <2>6, <2>7
  <1>7. OutputsFilled'
    <2>1. /\ ports' = ports /\ block' = block BY <1>1
    <2>2. /\ Of("audioOut")' = Of("audioOut")
          /\ \A p : Rank(p, "audioOut")' = Rank(p, "audioOut")
      BY <2>1, SamePorts
    <2> HIDE DEF CopyOutputs
    <2> QED BY <1>1, <1>6, <2>1, <2>2 DEF OutputsFilled
  <1>8. Pointed' /\ InputsFilled' /\ OutputsReturned'
    BY <1>1 DEF Pointed, InputsFilled, OutputsReturned
  <1>9. InputsHeard'
    BY <1>1, SamePorts DEF IInv, InputsHeard, Smaller
  <1> QED BY <1>2, <1>5, <1>7, <1>8, <1>9 DEF IInv

\* The host takes the outputs.
LEMMA HostCopyOutStep == ASSUME IInv, HostCopyOut PROVE IInv'
  <1> USE DEF HostCopyOut
  <1> DEFINE is(p, c) == Rank(p, "audioOut") = c
  <1>1. /\ phase = "hostOut" /\ phase' = "returned"
        /\ UNCHANGED <<ports, mapVars, channels, mem, block, heard>>
        /\ mem \in [Ports -> Sound] /\ hostAudio \in [Channels -> Sound]
    BY DEF IInv, TypeOK
  <1>2. Mapped' /\ MappingDone' BY <1>1, MapsKept
  <1>3. \A p \in Of("audioOut") : p \in Ports BY DEF Of
  <1>4. TypeOK'
    <2>1. ASSUME NEW c \in Channels PROVE hostAudio'[c] \in Sound
      <3>1. CASE c < HostChannels /\ \E p \in Of("audioOut") : is(p, c)
        <4>1. (CHOOSE p \in Of("audioOut") : is(p, c)) \in Ports
          BY <1>3, <3>1
        <4> QED BY <1>1, <3>1, <4>1
      <3>2. CASE ~(c < HostChannels /\ \E p \in Of("audioOut") : is(p, c))
        BY <1>1, <3>2
      <3> QED BY <3>1, <3>2
    <2>2. hostAudio' \in [Channels -> Sound] BY <2>1
    <2> QED BY <1>1, <2>2 DEF IInv, TypeOK, Phases, mapVars
  <1>5. OutputsReturned'
    <2> SUFFICES ASSUME NEW c \in 0..Smaller(NumOuts, HostChannels) - 1
                 PROVE  hostAudio'[c] = <<"out", c, block>>
      BY <1>1, SamePorts DEF OutputsReturned, Smaller
    <2>1. c \in Channels /\ c < NumOuts /\ c < HostChannels
      BY CountTypes, PortsAssumption DEF Smaller, Channels
    <2>2. \E p \in Of("audioOut") : is(p, c)
      BY <1>1, <2>1, AllMapped
    <2> DEFINE port == CHOOSE p \in Of("audioOut") : is(p, c)
    <2>3. port \in Of("audioOut") /\ Rank(port, "audioOut") = c BY <2>2
    <2>4. hostAudio'[c] = mem[port] BY <2>1, <2>2
    <2> HIDE DEF port
    <2> QED BY <1>1, <2>3, <2>4 DEF IInv, OutputsFilled
  <1>6. InputsHeard'
    BY <1>1, SamePorts DEF IInv, InputsHeard, Smaller
  <1>7. Pointed' /\ InputsFilled' /\ OutputsFilled'
    BY <1>1 DEF Pointed, InputsFilled, OutputsFilled
  <1> QED BY <1>2, <1>4, <1>5, <1>6, <1>7 DEF IInv

-----------------------------------------------------------------------------
\* A step that changes nothing.
LEMMA StutterStep == ASSUME IInv, UNCHANGED vars PROVE IInv'
  <1>1. /\ ports' = ports /\ phase' = phase /\ i' = i /\ inIdx' = inIdx
        /\ outIdx' = outIdx /\ mapIn' = mapIn /\ mapOut' = mapOut
        /\ outPort' = outPort /\ midiIn' = midiIn /\ midiOut' = midiOut
        /\ channels' = channels /\ mem' = mem /\ hostAudio' = hostAudio
        /\ block' = block /\ heard' = heard
    BY DEF vars, mapVars, audioVars
  <1>2. TypeOK' BY <1>1 DEF IInv, TypeOK
  <1>3. Mapped' BY <1>1, SamePorts DEF IInv, Mapped
  <1>4. MappingDone' /\ Pointed'
    BY <1>1, SamePorts DEF IInv, MappingDone, Pointed, IsPort
  <1>5. InputsFilled' /\ OutputsFilled'
    BY <1>1, SamePorts DEF IInv, InputsFilled, OutputsFilled
  <1>6. InputsHeard' /\ OutputsReturned'
    BY <1>1, SamePorts DEF IInv, InputsHeard, OutputsReturned, Smaller
  <1> QED BY <1>2, <1>3, <1>4, <1>5, <1>6 DEF IInv

\* Every reachable state satisfies the inductive invariant.
THEOREM PortsInvariance == Spec => []IInv
  <1>1. IInv /\ [Next]_vars => IInv'
    BY PrepareStep, MapPortStep, PrepareReturnStep, HostCopyInStep,
       PointOutputsStep, PointInputsStep, ProcessBlockStep, CopyOutputsStep,
       HostCopyOutStep, StutterStep
    DEF Next
  <1> QED BY <1>1, InitInvariant, PTL DEF Spec

\* The maps of prepare() and the pointers of process() stay in their ranges.
THEOREM PortsTyping == Spec => []TypeOK
  <1>1. IInv => TypeOK BY DEF IInv
  <1> QED BY <1>1, PortsInvariance, PTL

\* The two passes of resetJuceChannels leave no channel without memory and no
\* memory with two channels, for any list of ports.
THEOREM NoAliasing == Spec => []ChannelsApart
  <1>1. IInv => ChannelsApart
    <2> SUFFICES ASSUME IInv, phase = "dsp",
                        NEW c \in 0..Larger(NumIns, NumOuts) - 1
                 PROVE  /\ channels[c] # NoPort
                        /\ \A d \in 0..Larger(NumIns, NumOuts) - 1 :
                             channels[c] = channels[d] => c = d
      BY DEF ChannelsApart
    <2>1. \A d \in 0..Larger(NumIns, NumOuts) - 1 :
            d \in Channels /\ (d < NumIns \/ d < NumOuts)
      BY CountTypes, PortsAssumption DEF Larger, Channels
    <2>2. channels[c] \in Ports BY <2>1, ChannelPorts
    <2>3. channels[c] # NoPort BY <2>2, PortsAssumption DEF Ports, NoPort
    <2> QED BY <2>1, <2>3, ChannelPorts
  <1> QED BY <1>1, PortsInvariance, PTL

\* The plugin hears the host's channels on its inputs, for any list of ports.
THEOREM PluginHearsHost == Spec => []InputsHeard
  <1>1. IInv => InputsHeard BY DEF IInv
  <1> QED BY <1>1, PortsInvariance, PTL

\* The host gets the plugin's outputs, for any list of ports.
THEOREM HostHearsPlugin == Spec => []OutputsReturned
  <1>1. IInv => OutputsReturned BY DEF IInv
  <1> QED BY <1>1, PortsInvariance, PTL
=============================================================================
