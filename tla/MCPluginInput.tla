--------------------------- MODULE MCPluginInput ---------------------------
(* Values of the constants of MidiInput for TLC.                           *)
EXTENDS MidiInput, FiniteSets

MCTrees ==
  {<<Leaf(0), Leaf(1)>>,
   <<Group(<<Leaf(0), Group(<<Leaf(1)>>), Leaf(2)>>), Leaf(3)>>,
   <<Group(<<>>), Leaf(0), Group(<<Leaf(1), Leaf(2)>>), Group(<<Leaf(3), Leaf(4)>>)>>}

\* Parameters 1 and 2 have names; parameter 4 is behind IdLimit.
MCNames == [i \in 0..4 |-> CASE i = 1 -> <<"off", "on">> [] i = 2 -> <<"lo", "mid", "hi">>
                             [] OTHER -> <<>>]

\* The range of parameter 1 is turned around, that of parameter 2 is another.
MCNormalized     == 0..2
MCFromNormalized == [i \in 0..4 |-> CASE i = 1 -> (0 :> 2 @@ 1 :> 1 @@ 2 :> 0)
                                      [] i = 2 -> (0 :> 1 @@ 1 :> 0 @@ 2 :> 2)
                                      [] OTHER -> (0 :> 0 @@ 1 :> 1 @@ 2 :> 2)]

\* The order of the parameters of these trees.
RECURSIVE InOrder(_), Rests(_)
InOrder(w) ==
  IF w = <<>> THEN <<>>
  ELSE (IF Head(w).index = -1 THEN InOrder(Head(w).nodes) ELSE <<Head(w).index>>)
       \o InOrder(Tail(w))
Rests(w) ==
  {w} \cup (IF w = <<>> THEN {} ELSE Rests(Tail(w))) \cup
  (IF w = <<>> THEN {} ELSE IF Head(w).index # -1 THEN {}
   ELSE Rests(Head(w).nodes) \cup Rests(Head(w).nodes \o Tail(w)))

MCForests == UNION {Rests(t) : t \in Trees}
MCOrder   == [w \in MCForests |-> InOrder(w)]

ASSUME TreesAssumption ==
  JuceOrder(MCForests, MCOrder) /\ NumberedBy(MCOrder) /\ FitsInt16(MCOrder)

-----------------------------------------------------------------------------
(* Items.                                                                  *)

Item(umps)         == [umps |-> umps, sysex |-> <<>>, at |-> -1]
Midi2(status, b2, b3, hi, lo) ==
  [NoUmp EXCEPT !.type = "midi2", !.status = status, !.channel = 3,
                !.b2 = b2, !.b3 = b3, !.hi = hi, !.lo = lo]
Utility(status)    == [NoUmp EXCEPT !.type = "utility", !.status = status, !.b2 = 1]
Change(id, value32) == Item(<<[NoUmp EXCEPT !.type = "parameter",
                                            !.bytes = <<id, value32>>]>>)
NoteAt(pos)        == [umps |-> Timestamps(pos) \o <<Midi1Message(NoteOn, 0, 60, 100)>>,
                       sysex |-> <<>>, at |-> pos]
Payload(n)         == [i \in 1..n |-> i]
Sysex(n)           == [umps |-> SysexPackets(Payload(n)), sysex |-> <<Payload(n)>>, at |-> -1]
BrokenPayload      == [i \in 1..13 |-> 100 + i]
BrokenSysex(n)     == Item(SubSeq(SysexPackets(BrokenPayload), 1, n))
SysexWithClock     ==
  [Sysex(8) EXCEPT !.umps = <<@[1], [NoUmp EXCEPT !.status = 248], JrTimestamp(20), @[2]>>]

\* One of each kind of channel message, with values at the edges.
Messages ==
  {Midi1Message(Cc, 15, 7, 127), Midi1Message(Program, 1, 5, 9),
   [NoUmp EXCEPT !.status = 248], [NoUmp EXCEPT !.status = 242, !.b2 = 3, !.b3 = 4],
   Midi2(Rpn, 0, 2, 65535, 65535), Midi2(Nrpn, 5, 6, 517, 0),
   Midi2(NoteOff, 60, 0, 511, 0), Midi2(NoteOn, 60, 0, 0, 0),
   Midi2(NoteOn, 60, 0, 1, 0), Midi2(NoteOn, 60, 3, 65535, 7),
   Midi2(Paf, 60, 0, 40000, 0), Midi2(Cc, 7, 0, 65535, 65535),
   Midi2(Program, 0, 0, 1280, 770), Midi2(Program, 0, 1, 1280, 770),
   Midi2(Caf, 0, 0, 32768, 0), Midi2(PitchBend, 0, 0, 32772, 0),
   Midi2(PitchBend, 0, 0, 65535, 65535), Midi2(0, 60, 1, 7, 7),
   Utility(16), JrTimestamp(20)}

\* What depends on what comes before it.
Core == {NoteAt(0), NoteAt(1), NoteAt(40), NoteAt(63),
         Item(<<JrTimestamp(13000)>>), Sysex(0), Sysex(1), Sysex(7), Sysex(8), Sysex(13),
         SysexWithClock, BrokenSysex(1), BrokenSysex(2)}

Changes == {Change(0, 1), Change(1, 0), Change(1, 2), Change(4, 1), Change(9, 1)}

MCBlocks ==
  {<<>>} \cup {<<Item(<<u>>)>> : u \in Messages}
  \cup {<<a, Item(<<u>>)>> : a \in {NoteAt(40), BrokenSysex(1)}, u \in Messages}
  \cup {<<a>> : a \in Core} \cup (Core \X Core)
  \cup (Changes \X (Changes \cup {NoteAt(1)}))
  \cup {<<BrokenSysex(2), a, b>> : a, b \in {NoteAt(1), Sysex(7), Sysex(13)}}

ASSUME EventsAssumption == EventsPut
ASSUME SysexAssumption  ==
  SysexCarried({Payload(n) : n \in {0, 1, 7, 8, 13}} \cup {BrokenPayload})
=============================================================================
