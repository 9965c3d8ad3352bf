---------------------------- MODULE AudioPorts ----------------------------
(***************************************************************************)
(* How audio gets from a host's buffer into a JUCE plugin and back.        *)
(*                                                                         *)
(* An AAP has one list of ports, of all kinds and in any order, each with  *)
(* memory of its own.  prepare() walks over the list and numbers the audio *)
(* ports; process() makes of the ports' memory the channels of one JUCE    *)
(* buffer, which the plugin changes in place: the channel of an input is   *)
(* the channel of the output of the same number too.  The host             *)
(* (juceaap_audio_plugin_format.cpp) copies its channels to the input      *)
(* ports and the output ports to its channels.                             *)
(***************************************************************************)
EXTENDS Integers, FiniteSets

CONSTANTS
  NumPorts,      \* ports of the plugin
  Kinds,         \* kinds of ports that occur
  MaxBlocks      \* bound: blocks over the whole run

AllKinds == {"audioIn", "audioOut", "midiIn", "midiOut", "other"}

ASSUME PortsAssumption == /\ NumPorts \in Nat
                          /\ Kinds \subseteq AllKinds
                          /\ MaxBlocks \in Nat

Ports    == 0..NumPorts-1
NoPort   == -1
Channels == 0..NumPorts-1      \* every channel belongs to some port
Silence  == <<"silence", 0, 0>>

VARIABLES
  ports,         \* the kind of each port
  phase,         \* where the host and the wrapper are
  i,             \* the port that prepare() looks at
  inIdx,         \* jucePortInIdx
  outIdx,        \* jucePortOutIdx
  mapIn,         \* aap_to_juce_portmap_in: audio input port -> channel
  mapOut,        \* aap_to_juce_portmap_out: audio output port -> channel
  outPort,       \* portmap_juce_to_aap_out: channel -> audio output port
  midiIn,        \* aap_midi2_in_port
  midiOut,       \* aap_midi2_out_port
  channels,      \* juce_channels: the port whose memory a channel is
  mem,           \* what the memory of each port holds
  hostAudio,     \* what the host's buffer holds
  block,         \* the number of the block
  heard          \* history: what the plugin found on its inputs in this block

mapVars   == <<i, inIdx, outIdx, mapIn, mapOut, outPort, midiIn, midiOut>>
audioVars == <<mem, hostAudio, block, heard>>
vars == <<ports, phase, mapVars, channels, audioVars>>

Of(kind) == {p \in Ports : ports[p] = kind}

\* The number of ports of that kind before port p.
Rank(p, kind) == Cardinality({q \in Of(kind) : q < p})

\* The plugin's main buses have a channel for each audio port.
NumIns   == Rank(NumPorts, "audioIn")
NumOuts  == Rank(NumPorts, "audioOut")
Smaller(m, n) == IF m < n THEN m ELSE n
Larger(m, n)  == IF m > n THEN m ELSE n

\* createJuceBuses: no bus is wider than stereo, and a JUCE buffer has a
\* channel for each channel of the wider bus.
HostChannels == Larger(Smaller(NumIns, 2), Smaller(NumOuts, 2))

Init ==
  /\ ports \in [Ports -> Kinds]
  /\ phase = "new"
  /\ i = 0 /\ inIdx = 0 /\ outIdx = 0
  /\ mapIn = <<>> /\ mapOut = <<>> /\ outPort = <<>>
  /\ midiIn = NoPort /\ midiOut = NoPort
  /\ channels = [c \in Channels |-> NoPort]
  /\ mem = [p \in Ports |-> Silence]
  /\ hostAudio = [c \in Channels |-> Silence]
  /\ block = 0
  /\ heard = [c \in Channels |-> Silence]

-----------------------------------------------------------------------------
(* prepare().                                                              *)

\* Variant: the numbering goes on where the last prepare() stopped.
PrepareKeepsNumbers ==
  /\ phase \in {"new", "ready", "returned"}
  /\ i' = 0
  /\ mapIn' = <<>> /\ mapOut' = <<>> /\ outPort' = <<>>
  /\ channels' = [c \in Channels |-> NoPort]
  /\ phase' = "mapping"
  /\ UNCHANGED <<ports, inIdx, outIdx, midiIn, midiOut, audioVars>>

\* allocateBuffer, and an empty map to start with.
Prepare ==
  /\ phase \in {"new", "ready", "returned"}
  /\ i' = 0 /\ inIdx' = 0 /\ outIdx' = 0
  /\ mapIn' = <<>> /\ mapOut' = <<>> /\ outPort' = <<>>
  /\ channels' = [c \in Channels |-> NoPort]
  /\ phase' = "mapping"
  /\ UNCHANGED <<ports, midiIn, midiOut, audioVars>>

\* map[key] = to
Assign(map, key, to) ==
  [x \in DOMAIN map \cup {key} |-> IF x = key THEN to ELSE map[x]]

MapAudioIn ==
  /\ ports[i] = "audioIn"
  /\ mapIn' = Assign(mapIn, i, inIdx)
  /\ inIdx' = inIdx + 1
  /\ UNCHANGED <<outIdx, mapOut, outPort, midiIn, midiOut>>

\* Variant: the index of the outputs does not advance.
MapAudioOutOnce ==
  /\ ports[i] = "audioOut"
  /\ outPort' = Assign(outPort, outIdx, i)
  /\ mapOut' = Assign(mapOut, i, outIdx)
  /\ UNCHANGED <<inIdx, outIdx, mapIn, midiIn, midiOut>>

MapAudioOut ==
  /\ ports[i] = "audioOut"
  /\ outPort' = Assign(outPort, outIdx, i)
  /\ mapOut' = Assign(mapOut, i, outIdx)
  /\ outIdx' = outIdx + 1
  /\ UNCHANGED <<inIdx, mapIn, midiIn, midiOut>>

MapMidi ==
  /\ ports[i] \in {"midiIn", "midiOut"}
  /\ midiIn'  = IF ports[i] = "midiIn" THEN i ELSE midiIn
  /\ midiOut' = IF ports[i] = "midiOut" THEN i ELSE midiOut
  /\ UNCHANGED <<inIdx, outIdx, mapIn, mapOut, outPort>>

MapOther ==
  /\ ports[i] = "other"
  /\ UNCHANGED <<inIdx, outIdx, mapIn, mapOut, outPort, midiIn, midiOut>>

\* One turn of the loop over the ports.
MapPort ==
  /\ phase = "mapping" /\ i < NumPorts
  /\ i' = i + 1
  /\ MapAudioIn \/ MapAudioOut \/ MapMidi \/ MapOther
  /\ UNCHANGED <<ports, phase, channels, audioVars>>

PrepareReturn ==
  /\ phase = "mapping" /\ i = NumPorts
  /\ phase' = "ready"
  /\ UNCHANGED <<ports, mapVars, channels, audioVars>>

-----------------------------------------------------------------------------
(* The host's processBlock, up to native->process.                         *)

\* A new block is in the buffer; preProcessBuffers copies it to the ports.
HostCopyIn ==
  /\ phase \in {"ready", "returned"} /\ block < MaxBlocks
  /\ block' = block + 1
  /\ hostAudio' = [c \in Channels |-> <<"in", c, block'>>]
  /\ mem' = [p \in Ports |->
               LET c == Rank(p, "audioIn")
               IN  IF ports[p] = "audioIn" /\ c < HostChannels
                   THEN hostAudio'[c] ELSE mem[p]]
  /\ phase' = "outputs"
  /\ UNCHANGED <<ports, mapVars, channels, heard>>

-----------------------------------------------------------------------------
(* process(): resetJuceChannels, processBlock, the copy to the outputs.    *)

\* One pass over the ports: each port that `map` numbers is the memory of its
\* channel, and the last of several ports with one number is.
Point(map) ==
  [c \in Channels |->
     LET mine == {p \in DOMAIN map : map[p] = c}
     IN  IF mine = {} THEN channels[c]
         ELSE CHOOSE p \in mine : \A q \in mine : q <= p]

PointOutputs ==
  /\ phase = "outputs"
  /\ channels' = Point(mapOut)
  /\ phase' = "inputs"
  /\ UNCHANGED <<ports, mapVars, audioVars>>

\* Variant: one pass over all ports, so that the later port of the list wins.
PointLastPort ==
  /\ phase = "inputs"
  /\ channels' = [c \in Channels |->
                    Larger(channels[c], Point(mapIn)[c])]
  /\ phase' = "dsp"
  /\ UNCHANGED <<ports, mapVars, audioVars>>

\* "Assign JUCE out channel buffer ONLY IF it is not assigned for inputs."
PointInputs ==
  /\ phase = "inputs"
  /\ channels' = Point(mapIn)
  /\ phase' = "dsp"
  /\ UNCHANGED <<ports, mapVars, audioVars>>

\* The plugin's processBlock: outputs replace inputs in the same buffer.
ProcessBlock ==
  /\ phase = "dsp"
  /\ heard' = [c \in Channels |->
                 IF c < NumIns THEN mem[channels[c]] ELSE Silence]
  /\ mem' = [p \in Ports |->
               IF \E c \in Channels : c < NumOuts /\ channels[c] = p
               THEN <<"out", CHOOSE c \in Channels :
                               c < NumOuts /\ channels[c] = p, block>>
               ELSE mem[p]]
  /\ phase' = "copy"
  /\ UNCHANGED <<ports, mapVars, channels, hostAudio, block>>

\* Variant: there is a copy only when there are as many inputs as outputs.
CopyOutputsIfEven ==
  /\ phase = "copy"
  /\ mem' = [p \in Ports |->
               IF NumIns = NumOuts /\ p \in DOMAIN mapOut
               THEN mem[channels[mapOut[p]]] ELSE mem[p]]
  /\ phase' = "hostOut"
  /\ UNCHANGED <<ports, mapVars, channels, hostAudio, block, heard>>

\* The outputs that were written on an input's memory go to their own ports.
CopyOutputs ==
  /\ phase = "copy"
  /\ LET copied == 0..Smaller(NumIns, NumOuts) - 1
     IN  mem' = [p \in Ports |->
                   IF \E c \in copied : outPort[c] = p
                   THEN mem[channels[CHOOSE c \in copied : outPort[c] = p]]
                   ELSE mem[p]]
  /\ phase' = "hostOut"
  /\ UNCHANGED <<ports, mapVars, channels, hostAudio, block, heard>>

-----------------------------------------------------------------------------
\* postProcessBuffers, and processBlock returns to the host.
HostCopyOut ==
  /\ phase = "hostOut"
  /\ hostAudio' = [c \in Channels |->
       IF c < HostChannels /\ \E p \in Of("audioOut") : Rank(p, "audioOut") = c
       THEN mem[CHOOSE p \in Of("audioOut") : Rank(p, "audioOut") = c]
       ELSE hostAudio[c]]
  /\ phase' = "returned"
  /\ UNCHANGED <<ports, mapVars, channels, mem, block, heard>>

Next == \/ Prepare \/ MapPort \/ PrepareReturn
        \/ HostCopyIn \/ PointOutputs \/ PointInputs
        \/ ProcessBlock \/ CopyOutputs \/ HostCopyOut

Spec == Init /\ [][Next]_vars

-----------------------------------------------------------------------------
(* Properties.                                                             *)

Phases == {"new", "mapping", "ready", "outputs", "inputs", "dsp", "copy",
           "hostOut", "returned"}
Sound  == {Silence} \cup {"in", "out"} \X Channels \X (0..MaxBlocks)

PartialMap(f, S, T) == DOMAIN f \subseteq S /\ \A x \in DOMAIN f : f[x] \in T

TypeOK ==
  /\ ports \in [Ports -> Kinds] /\ phase \in Phases
  /\ i \in 0..NumPorts /\ inIdx \in 0..NumPorts /\ outIdx \in 0..NumPorts
  /\ PartialMap(mapIn, Ports, Channels)
  /\ PartialMap(mapOut, Ports, Channels)
  /\ PartialMap(outPort, Channels, Ports)
  /\ midiIn \in Ports \cup {NoPort} /\ midiOut \in Ports \cup {NoPort}
  /\ channels \in [Channels -> Ports \cup {NoPort}]
  /\ mem \in [Ports -> Sound]
  /\ hostAudio \in [Channels -> Sound]
  /\ block \in 0..MaxBlocks
  /\ heard \in [Channels -> Sound]

\* When the plugin runs, every channel of its buffer is the memory of a port,
\* and no two channels share one, wherever the audio ports are in the list and
\* however often the host prepared the plugin.
ChannelsApart ==
  phase = "dsp" =>
    \A c \in 0..Larger(NumIns, NumOuts) - 1 :
      /\ channels[c] # NoPort
      /\ \A d \in 0..Larger(NumIns, NumOuts) - 1 :
           channels[c] = channels[d] => c = d

\* On each of its inputs the plugin finds this block's audio of the same
\* channel of the host, as far as the host has channels: not an output's old
\* contents and not another channel, for any order of the ports.
InputsHeard ==
  phase \in {"copy", "hostOut", "returned"} =>
    \A c \in 0..Smaller(NumIns, HostChannels) - 1 :
      heard[c] = <<"in", c, block>>

\* When a block returns, each of the host's channels that has an output port
\* holds what the plugin put on its output of that number in this block, though
\* the plugin wrote some of them on the memory of input ports.
OutputsReturned ==
  phase = "returned" =>
    \A c \in 0..Smaller(NumOuts, HostChannels) - 1 :
      hostAudio[c] = <<"out", c, block>>
=============================================================================
