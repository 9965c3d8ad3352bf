----------------------------- MODULE MidiInput -----------------------------
(***************************************************************************)
(* The wrapper's MIDI input: processMidiInputs, which applies the          *)
(* parameter changes of a block and turns the rest of its Universal MIDI   *)
(* Packets (UMPs) into JUCE's MIDI 1.0 events.  The parameters are those   *)
(* of ParameterRegistry.                                                   *)
(*                                                                         *)
(* Beside it stand the parts of cmidi2.h that do the same or the reverse:  *)
(* its own conversion of UMPs to MIDI 1.0, and its packets of sysex.       *)
(*                                                                         *)
(* A UMP is a record of the fields that the getters of cmidi2.h read.  Of  *)
(* the second word, `hi' and `lo' are its halves of 16 bits.               *)
(***************************************************************************)
EXTENDS ParameterRegistry

CONSTANTS
  AcceptsMidi,      \* what the plugin's acceptsMidi() may be
  Capacity,         \* sizeof(sysex_buffer)
  ConverterRoom,    \* sizeof(sysex7_buffer) in cmidi2_convert_ump_to_midi1
  SampleRate,       \* sample_rate
  FrameCount,       \* frames of a block
  Blocks            \* what hosts send in a block: sequences of items

\* An item is a record of its UMPs; of the payload of the sysex in them, if it is
\* complete, without the bytes 240 and 247 around it; and of the sample of the
\* event, if the host has written a timestamp, or else -1.
ASSUME MidiAssumption ==
  /\ AcceptsMidi \subseteq BOOLEAN
  /\ Capacity \in Nat /\ Capacity > 2 /\ ConverterRoom \in Nat
  /\ SampleRate \in Nat \ {0} /\ FrameCount \in Nat \ {0}

VARIABLES
  acceptsMidi,      \* the plugin accepts MIDI
  value,            \* the normalized value of each parameter
  items,            \* history: the last block
  decoder           \* positionInJRTimestamp, sysex_buffer up to sysex_offset,
                    \* and juce_midi_messages

midiVars == <<acceptsMidi, value, items, decoder>>
vars == <<registryVars, midiVars>>

NoEvents == [position |-> 0, sysex |-> <<>>, events |-> <<>>]

Init ==
  /\ RegistryInit
  /\ acceptsMidi \in AcceptsMidi
  /\ value = <<>> /\ items = <<>> /\ decoder = NoEvents

-----------------------------------------------------------------------------
(* UMPs, and what the host writes.                                         *)

\* What the fields can hold; a parameter change has an ID and a value.
Types  == {"utility", "system", "midi1", "midi2", "sysex7", "parameter"}
Nibble == 0..15
Byte   == 0..255
Half   == 0..65535

Ump ==
  {u \in [type : Types, status : Byte, channel : Nibble, b2 : Byte, b3 : Byte,
          hi : Half, lo : Half, bytes : Seq(Nat \cup Normalized)] :
     u.type = "parameter" => u.bytes \in Nat \X Normalized}

ASSUME BlockAssumption ==
  Blocks \subseteq Seq([umps : Seq(Ump), sysex : Seq(Seq(Nat)), at : Int])

NoUmp == [type |-> "system", status |-> 0, channel |-> 0, b2 |-> 0, b3 |-> 0,
          hi |-> 0, lo |-> 0, bytes |-> <<>>]

NoteOff == 128    NoteOn == 144    Paf == 160    Cc == 176
Program == 192    Caf == 208       PitchBend == 224
Voices  == {NoteOff, NoteOn, Paf, Cc, Program, Caf, PitchBend}
Rpn == 32         Nrpn == 48       JrStamp == 32

Whole == 0        Start == 16      Continue == 32     End == 48

JrTimestamp(ticks) == [NoUmp EXCEPT !.type = "utility", !.status = JrStamp,
                                    !.b2 = ticks \div 256, !.b3 = ticks % 256]

\* cmidi2_ump_midi1_message, as preProcessBuffers calls it: getChannel() counts
\* from 1.
Midi1Message(status, channel, b2, b3) ==
  [NoUmp EXCEPT !.type = "midi1", !.status = status, !.channel = (channel + 1) % 16,
                !.b2 = b2, !.b3 = b3]

\* Variant: the position is written as it is.
TimestampInSamples(pos) == <<JrTimestamp(pos % 62500)>>

\* The timestamps before an event at sample `pos': its ticks, in messages of
\* less than two seconds each.
Timestamps(pos) ==
  LET ticks == (pos * 31250) \div SampleRate
      n     == IF ticks = 0 THEN 1 ELSE 1 + ((ticks - 1) \div 62500)
  IN  IF pos = 0 THEN <<>> ELSE [k \in 1..n |-> JrTimestamp(ticks % 62500)]

\* cmidi2_ump_sysex7_get_num_packets
NumPackets(n) == IF n <= 6 THEN 1 ELSE n \div 6 + (IF n % 6 = 0 THEN 0 ELSE 1)

\* cmidi2_ump_sysex7_get_packet_of, the packet of that index, from 0.
PacketOf(payload, index) ==
  LET n == Len(payload)
      last == index = NumPackets(n) - 1
      size == IF n <= 6 THEN n ELSE IF last /\ n % 6 # 0 THEN n % 6 ELSE 6
  IN  [NoUmp EXCEPT
         !.type = "sysex7", !.channel = size,
         !.status = IF n <= 6 THEN Whole ELSE IF index = 0 THEN Start
                    ELSE IF last THEN End ELSE Continue,
         !.bytes = [i \in 1..size |-> payload[6 * index + i]]]

\* cmidi2_ump_sysex7_process
SysexPackets(payload) ==
  [k \in 1..NumPackets(Len(payload)) |-> PacketOf(payload, k - 1)]

-----------------------------------------------------------------------------
(* processMidiInputs.                                                      *)

\* JUCE's MidiMessage is as long as its status byte says.
MidiMessage(status, b2, b3) ==
  IF status \div 16 \in {12, 13} THEN <<status, b2>> ELSE <<status, b2, b3>>

\* A 32-bit value shifted right by 25, and by 18 with a mask.
Msb7(u) == u.hi \div 512
Lsb7(u) == (u.hi \div 4) % 128

\* Variant: the low byte of the second word comes first.
PitchBendBytesSwapped(u) == <<Msb7(u), Lsb7(u)>>
PitchBendBytes(u) == <<Lsb7(u), Msb7(u)>>

\* The MIDI 1.0 messages of a MIDI 2.0 channel message.
Midi2Messages(u) ==
  LET Control(index, v) == MidiMessage(Cc + u.channel, index, v)
      Message(b2, b3)   == MidiMessage(u.status + u.channel, b2, b3)
      Data(msb, lsb)    == <<Control(msb, u.b2), Control(lsb, u.b3),
                             Control(6, Msb7(u)), Control(38, Lsb7(u))>>
  IN  CASE u.status = Rpn  -> Data(101, 100)
        [] u.status = Nrpn -> Data(99, 98)
        [] u.status = NoteOff -> <<Message(u.b2, Msb7(u))>>
        [] u.status = NoteOn  ->
             <<Message(u.b2, IF u.hi > 0 /\ Msb7(u) = 0 THEN 1 ELSE Msb7(u))>>
        [] u.status \in {Paf, Cc} -> <<Message(u.b2, Msb7(u))>>
        [] u.status = Program ->
             (IF u.b3 % 2 = 1 THEN <<Control(0, u.lo \div 256), Control(32, u.lo % 256)>>
              ELSE <<>>) \o <<Message(u.hi \div 256, 0)>>
        [] u.status = Caf -> <<Message(Msb7(u), 0)>>
        [] u.status = PitchBend ->
             <<Message(PitchBendBytes(u)[1], PitchBendBytes(u)[2])>>
        [] OTHER -> <<>>

\* Variant: a position behind the block stays there.
SampleNumberUnlimited(position) == (position * SampleRate) \div 31250

\* The sample of an event; behind the block, the last one.
SampleNumber(position) ==
  LET n == (position * SampleRate) \div 31250
  IN  IF n >= FrameCount THEN FrameCount - 1 ELSE n

AddEvents(d, messages) ==
  [d EXCEPT !.events = @ \o [k \in 1..Len(messages) |->
     [bytes |-> messages[k], sample |-> SampleNumber(d.position)]]]

\* Variant: a first packet does not start anew.
SysexBeginUnlessBegun(d, u) ==
  IF u.status \in {Whole, Start} /\ d.sysex = <<>> THEN <<240>> ELSE d.sysex
SysexBegin(d, u) == IF u.status \in {Whole, Start} THEN <<240>> ELSE d.sysex

\* Variant: all bytes are stored.
SysexAddAll(sysex, bytes) == sysex \o bytes

\* Bytes are stored while there is room.
SysexAdd(sysex, bytes) ==
  LET room == Capacity - Len(sysex)
  IN  sysex \o SubSeq(bytes, 1, IF Len(bytes) < room THEN Len(bytes) ELSE room)

\* A sysex packet; the last one makes the event, if it still fits.
DecodeSysex7(d, u) ==
  LET sysex == SysexAdd(SysexBegin(d, u), u.bytes)
      whole == [d EXCEPT !.sysex = <<>>]
  IN  IF u.status \in {Whole, End}
      THEN IF Len(sysex) < Capacity THEN AddEvents(whole, <<Append(sysex, 247)>>)
           ELSE whole
      ELSE [d EXCEPT !.sysex = sysex]

\* The second loop of processMidiInputs, for one UMP.
Decode(d, u) ==
  CASE u.type = "utility" ->
         IF u.status = JrStamp THEN [d EXCEPT !.position = @ + 256 * u.b2 + u.b3] ELSE d
    [] u.type = "midi1"  -> AddEvents(d, <<MidiMessage(u.status + u.channel, u.b2, u.b3)>>)
    [] u.type = "midi2"  -> AddEvents(d, Midi2Messages(u))
    [] u.type = "sysex7" -> DecodeSysex7(d, u)
    [] OTHER -> d

\* Its first loop: a parameter change has the ID and the value as its bytes.
\* JUCE's setParameter knows no parameter behind the last.
ApplyChange(values, u) ==
  IF u.type = "parameter" /\ u.bytes[1] + 1 \in DOMAIN values
  THEN [values EXCEPT ![u.bytes[1] + 1] =
          TransportUint32ToJuceNormalized(u.bytes[1], u.bytes[2])]
  ELSE values

\* Variant: the decoder goes on from the last block's position.
FromLastPosition == [NoEvents EXCEPT !.position = decoder.position]
BlockStart == NoEvents

\* The UMPs of a block, and what the two loops make of them.
Umps(seq) ==
  LET Sent[n \in 0..Len(seq)] == IF n = 0 THEN <<>> ELSE Sent[n - 1] \o seq[n].umps
  IN  Sent[Len(seq)]

Applied(values, umps) ==
  LET After[n \in 0..Len(umps)] == IF n = 0 THEN values
                                   ELSE ApplyChange(After[n - 1], umps[n])
  IN  After[Len(umps)]

Decoded(start, umps) ==
  LET After[n \in 0..Len(umps)] == IF n = 0 THEN start ELSE Decode(After[n - 1], umps[n])
  IN  After[Len(umps)]

ProcessMidiInputs(seq) ==
  /\ built
  /\ items' = seq
  /\ value' = Applied(value, Umps(seq))
  /\ decoder' = IF acceptsMidi THEN Decoded(BlockStart, Umps(seq)) ELSE decoder
  /\ UNCHANGED <<registryVars, acceptsMidi>>

-----------------------------------------------------------------------------
(* The conversion of cmidi2.h, which looks at UMPs one at a time and keeps *)
(* no time: delta times are skipped.  The caller's dst has room for it all. *)

SystemMessageSize(status) ==
  CASE status = 242 -> 3 [] status \in {241, 243} -> 2 [] OTHER -> 1

\* cmidi2_convert_single_ump_to_timed_midi1, for the channel messages of MIDI 2.0
Midi2ToMidi1(u) ==
  LET first   == u.status + u.channel
      control(index, v) == <<Cc + u.channel, index, v>>
      data(msb, lsb) == control(msb, u.b2) \o control(lsb, u.b3)
                          \o control(6, Msb7(u)) \o control(38, Lsb7(u))
      bend    == u.hi \div 4
  IN  CASE u.status = Rpn  -> data(101, 100)
        [] u.status = Nrpn -> data(99, 98)
        [] u.status \in {NoteOff, NoteOn, Paf, Cc} -> <<first, u.b2, u.hi \div 512>>
        [] u.status = Program ->
             (IF u.b3 % 2 = 1
              THEN control(0, u.lo \div 256) \o control(32, u.lo % 256) ELSE <<>>)
             \o <<first, u.hi \div 256>>
        [] u.status = Caf -> <<first, u.hi \div 512>>
        [] u.status = PitchBend -> <<first, bend % 128, bend \div 128>>
        [] OTHER -> <<>>

\* and for all messages
SingleUmpToMidi1(u) ==
  CASE u.type = "system" -> SubSeq(<<u.status, u.b2, u.b3>>, 1, SystemMessageSize(u.status))
    [] u.type = "midi1"  -> SubSeq(<<u.status + u.channel, u.b2, u.b3>>, 1,
                                   IF u.status \in {Program, Caf} THEN 2 ELSE 3)
    [] u.type = "midi2"  -> Midi2ToMidi1(u)
    [] OTHER -> <<>>

\* What is converted, sysex7_buffer up to its index, and whether it was overrun.
NothingConverted == [midi1 |-> <<>>, sysex |-> <<>>, overrun |-> FALSE]

\* Variant: the buffer begins with 240, as the wrapper's does.
ConvertSysex7Framed(c, u) ==
  LET sysex == (IF c.sysex = <<>> THEN <<240>> ELSE c.sysex) \o u.bytes
  IN  IF Len(sysex) > ConverterRoom THEN [c EXCEPT !.overrun = TRUE]
      ELSE IF u.status \in {Whole, End}
      THEN [c EXCEPT !.midi1 = Append(@ \o sysex, 247), !.sysex = <<>>]
      ELSE [c EXCEPT !.sysex = sysex]

\* The bytes of a packet go into a local buffer, with no look at its size; the
\* last packet sends what is there.
ConvertSysex7(c, u) ==
  LET sysex == c.sysex \o u.bytes
  IN  IF Len(sysex) > ConverterRoom THEN [c EXCEPT !.overrun = TRUE]
      ELSE IF u.status \in {Whole, End}
      THEN [c EXCEPT !.midi1 = @ \o <<240>> \o sysex \o <<247>>, !.sysex = <<>>]
      ELSE [c EXCEPT !.sysex = sysex]

\* The loop of cmidi2_convert_ump_to_midi1, for one UMP.  After an overrun
\* nothing can be said, and nothing more is modelled.
ConvertUmp(c, u) ==
  IF c.overrun THEN c
  ELSE IF u.type = "sysex7" THEN ConvertSysex7(c, u)
  ELSE [c EXCEPT !.midi1 = @ \o SingleUmpToMidi1(u)]

ConvertUmpsToMidi1(umps) ==
  LET After[n \in 0..Len(umps)] == IF n = 0 THEN NothingConverted
                                   ELSE ConvertUmp(After[n - 1], umps[n])
  IN  After[Len(umps)]

-----------------------------------------------------------------------------
(* The wrapper: its constructor, then blocks.                              *)

Construct ==
  \/ RegisterNode /\ UNCHANGED midiVars
  \/ /\ ListBuilt
     /\ value' = [k \in 1..Len(aapParams') |-> CHOOSE n \in Normalized : TRUE]
     /\ UNCHANGED <<acceptsMidi, items, decoder>>

Next ==
  \/ Construct
  \/ \E block \in Blocks : ProcessMidiInputs(block)

Spec == Init /\ [][Next]_vars

-----------------------------------------------------------------------------
(* Properties.                                                             *)

Events == decoder.events

\* What is kept of a parameter, a block or a sysex has the type the code gives
\* it; the bytes of a sysex never run over sysex_buffer.
TypeOK ==
  /\ built \in BOOLEAN /\ acceptsMidi \in BOOLEAN
  /\ \A k \in DOMAIN aapParams : aapParams[k] \in -IdLimit..(IdLimit - 1)
  /\ \A k \in DOMAIN value : value[k] \in Normalized
  /\ decoder.position \in Nat /\ Len(decoder.sysex) <= Capacity
  /\ \A k \in DOMAIN Events : Len(Events[k].bytes) <= Capacity

\* The host asks for the enumerations of a parameter by its ID and a number: it
\* gets those of this parameter, in their order, whatever parameters without
\* names and groups lie between.  (An ID that int16_t cuts is out of reach.)
EnumerationsRight ==
  built => \A id \in 0..(NumParameters - 1) :
    id < IdLimit => \A k \in 0..(GetAAPEnumerationCount(id) - 1) :
      /\ EnumIndex(id) + k + 1 \in DOMAIN aapEnums
      /\ GetAAPEnumeration(id, k) = <<id, Names[id][k + 1]>>

\* The host side numbers its parameters by their place in this list, JUCE by
\* getParameterIndex, and the messages between them carry only the number: the
\* walk over the tree of groups must find the parameters in JUCE's order.
ParametersNumbered ==
  built => \A k \in DOMAIN aapParams : k - 1 < IdLimit => aapParams[k] = k - 1

\* What a change of a parameter sets is, when it is read and reported back by
\* flushParameterChanges, the value that the host has sent; of several changes in
\* a block the last one counts.
ChangeRoundTrips ==
  LET umps == Umps(items)
      Changes(k, id) == umps[k].type = "parameter" /\ umps[k].bytes[1] = id
  IN  \A k \in DOMAIN umps, id \in 0..(Len(value) - 1) :
        Changes(k, id) /\ (\A j \in (k + 1)..Len(umps) : ~Changes(j, id)) =>
          JuceNormalizedToTransportUint32(id, value[id + 1]) = umps[k].bytes[2]

\* What is no system message, no sysex broken off, and none too long for either
\* buffer: the wrapper's has 240 and 247 in it, the library's has not.
Convertible(item) ==
  /\ \A k \in DOMAIN item.umps : item.umps[k].type # "system"
  /\ (\E k \in DOMAIN item.umps : item.umps[k].type = "sysex7") => item.sysex # <<>>
  /\ \A k \in DOMAIN item.sysex :
       Len(item.sysex[k]) + 2 <= Capacity /\ Len(item.sysex[k]) <= ConverterRoom

\* A faint note of MIDI 2.0 as one that MIDI 1.0 can tell from a note off.
Audible(u) == IF u.type = "midi2" /\ u.status = NoteOn /\ u.hi \in 1..511
              THEN [u EXCEPT !.hi = 512] ELSE u

\* The bytes of events, one event after the other.
EventBytes(events) ==
  LET Sent[n \in 0..Len(events)] == IF n = 0 THEN <<>> ELSE Sent[n - 1] \o events[n].bytes
  IN  Sent[Len(events)]

\* The comment in processMidiInputs says that cmidi2_convert_ump_to_midi1 could
\* be used for what it does by hand: both give the same bytes, but for velocities
\* that MIDI 1.0 would take for a note off, and the library stays inside of its
\* buffer, as long as each sysex fits into the smaller one of the two buffers.
DecodersAgree ==
  acceptsMidi /\ (\A k \in DOMAIN items : Convertible(items[k])) =>
    LET converted == ConvertUmpsToMidi1(
                       [k \in DOMAIN Umps(items) |-> Audible(Umps(items)[k])])
    IN  ~converted.overrun /\ EventBytes(Events) = converted.midi1

\* The sysex among events.
SysexEvents(events) ==
  LET Got[n \in 0..Len(events)] ==
        IF n = 0 THEN <<>>
        ELSE IF events[n].bytes[1] = 240 THEN Append(Got[n - 1], events[n].bytes)
        ELSE Got[n - 1]
  IN  Got[Len(events)]

\* The sysex that the host has sent whole, and that have room in sysex_buffer.
Fitting(item) ==
  IF item.sysex # <<>> /\ Len(item.sysex[1]) + 2 <= Capacity
  THEN <<<<240>> \o item.sysex[1] \o <<247>>>> ELSE <<>>

SysexSent(seq) ==
  LET Sent[n \in 0..Len(seq)] == IF n = 0 THEN <<>> ELSE Sent[n - 1] \o Fitting(seq[n])
  IN  Sent[Len(seq)]

\* The packets of a payload go out in their order, perhaps not all of them, and
\* other UMPs between them; sent[k] of them are among the first k UMPs.
Carries(item, payload) ==
  \E sent \in [0..Len(item.umps) -> 0..NumPackets(Len(payload))] :
    /\ sent[0] = 0
    /\ \A k \in 1..Len(item.umps) :
         LET u == item.umps[k]
         IN  IF u.type = "sysex7"
             THEN u = PacketOf(payload, sent[k - 1]) /\ sent[k] = sent[k - 1] + 1
             ELSE (u.type = "midi1" => u.status \in Voices) /\ sent[k] = sent[k - 1]
    /\ item.sysex = IF sent[Len(item.umps)] = NumPackets(Len(payload)) THEN <<payload>>
                    ELSE <<>>

SysexCarried(payloads) ==
  \A block \in Blocks : \A k \in 1..Len(block) :
    \E payload \in payloads : Carries(block[k], payload)

\* Each sysex of the block that has room in sysex_buffer reaches the plugin whole
\* and once, in order, whatever lies between its packets and after a sysex that
\* was broken off or that was too long.
SysexIntact == acceptsMidi => SysexEvents(Events) = SysexSent(items)

\* The events of a block are in the order they came in and inside of the block,
\* however large the timestamps are.
SamplesInBlock ==
  /\ \A k \in DOMAIN Events : Events[k].sample \in 0..(FrameCount - 1)
  /\ \A k \in 2..Len(Events) : Events[k - 1].sample <= Events[k].sample

\* The item is an event of preProcessBuffers at its sample: the timestamps and
\* one message.
PutAt(item) ==
  /\ item.at \in 0..(FrameCount - 1) /\ item.umps # <<>>
  /\ LET message == item.umps[Len(item.umps)]
     IN  message.type = "midi1" /\ item.umps = Append(Timestamps(item.at), message)

\* Events with a sample are put there, in blocks of at most two seconds.
EventsPut ==
  /\ FrameCount <= 2 * SampleRate
  /\ \A block \in Blocks : \A k \in DOMAIN block : block[k].at >= 0 => PutAt(block[k])

\* Of the events that the host has put at samples, at the front of a block, each
\* reaches the plugin at its sample or as early as the rounding of its ticks makes
\* it, or later: each timestamp counts from the block's begin in the host, and from
\* the event before it in the wrapper, and that is all it may be late by.  The time
\* of the blocks before has no part in it.
EventsOnTime ==
  acceptsMidi => \A k \in DOMAIN items :
    (\A j \in 1..k : items[j].at >= 0) =>
      LET at     == items[k].at
          before == IF k = 1 THEN 0 ELSE Events[k - 1].sample
      IN  /\ k <= Len(Events)
          /\ Events[k].sample \in (at - (SampleRate \div 31250) - 1)..(before + at)
=============================================================================
