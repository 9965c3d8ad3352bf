--------------------------- MODULE HostMidiPort ---------------------------
(***************************************************************************)
(* The MIDI input port of a hosted plugin (juceaap_audio_plugin_format).   *)
(* It is a block of memory with a length in front.  The host's user        *)
(* interface and automation append parameter changes to it whenever they   *)
(* like (parameterValueChanged); the audio thread appends the MIDI events  *)
(* of a block (preProcessBuffers), has the plugin read the port, and       *)
(* empties it (postProcessBuffers).  There is no lock.                     *)
(*                                                                         *)
(* The memory is an array of 32 bit words.  A word says which message it   *)
(* is a part of and which part of it; the plugin's reading of the words    *)
(* (CMIDI2_UMP_SEQUENCE_FOREACH) depends on nothing else.                  *)
(***************************************************************************)
EXTENDS Integers, Sequences

CONSTANTS
  Setters,       \* threads that set parameters
  Kinds,         \* kinds of MIDI events in a block: "note", "sysex"
  MaxEvents,     \* bound: MIDI events in one block
  MaxChanges,    \* bound: parameter changes over the whole run
  MaxBlocks      \* bound: blocks with MIDI events over the whole run

ASSUME SizesAssumption == /\ Kinds \subseteq {"note", "sysex"}
                          /\ MaxEvents \in Nat
                          /\ MaxChanges \in Nat
                          /\ MaxBlocks \in Nat

\* <<kind, which, part>>: the part-th word of message number `which`.
Noop           == <<"noop", 0, 1>>             \* zeroed memory reads as this
Timestamp(e)   == <<"time", e, 1>>             \* JR timestamp of event e
Note(e)        == <<"note", e, 1>>
Sysex(e, part) == <<"sysex", e, part>>         \* a 64 bit packet
Param(c, part) == <<"param", c, part>>         \* a 128 bit sysex8 packet

Word  == {"noop", "time", "note", "sysex", "param"} \X Nat \X (1..4)
Event == [kind : Kinds, timed : BOOLEAN]

VARIABLES
  inPort,        \* aap_midi_in_port >= 0
  mem,           \* the words of the port that were ever written
  length,        \* mbh->length, in bytes
  pcS,           \* where each setter is
  dst,           \* the word a setter writes to
  change,        \* the number of its change
  todo,          \* what it has yet to store
  pcA,           \* where the audio thread is
  index,         \* dstIntIndex
  midi,          \* the events of this block not appended yet
  pos,           \* the word that the plugin reads next
  changes,       \* changes accepted so far: they are numbered from 1
  blocks,        \* blocks with events so far: they number the events
  heardParams,   \* history: changes the plugin has read, in order
  mark,          \* history: how many of them before this block
  accepted,      \* history: changes accepted since the port was emptied
  played,        \* history: the notes and sysexes of this block
  heardNotes,    \* history: the notes that the plugin has read in this block
  clean          \* history: since the port was emptied, no two setters were
                 \* active at the same time, nor one during a block

setterVars == <<pcS, dst, change, todo, changes>>
blockVars  == <<index, midi, pos, blocks>>
heardVars  == <<heardParams, mark, played, heardNotes>>
vars == <<inPort, mem, length, setterVars, pcA, blockVars, heardVars, accepted,
          clean>>

AllIdle == \A s \in Setters : pcS[s] = "idle"

Store(m, at, words) ==
  [i \in DOMAIN m \cup at..at + Len(words) - 1 |->
     IF i \in at..at + Len(words) - 1 THEN words[i - at + 1] ELSE m[i]]

ParamWords(c) == [part \in 1..4 |-> Param(c, part)]

Init ==
  /\ inPort = FALSE
  /\ mem = <<>>
  /\ length = 0
  /\ pcS = [s \in Setters |-> "idle"]
  /\ dst = [s \in Setters |-> 0]
  /\ change = [s \in Setters |-> 0]
  /\ todo = [s \in Setters |-> {}]
  /\ pcA = "idle"
  /\ index = 0 /\ midi = <<>> /\ pos = 0
  /\ changes = 0 /\ blocks = 0
  /\ heardParams = <<>> /\ mark = 0
  /\ played = <<>> /\ heardNotes = <<>>
  /\ accepted = <<>> /\ clean = TRUE

-----------------------------------------------------------------------------
(* prepareToPlay finds the port.                                           *)

PrepareToPlay ==
  /\ ~inPort
  /\ inPort' = TRUE
  /\ UNCHANGED <<mem, length, setterVars, pcA, blockVars, heardVars, accepted,
                 clean>>

-----------------------------------------------------------------------------
(* parameterValueChanged, on a setter's thread.  Before prepareToPlay it   *)
(* returns false and does nothing.                                         *)

ParameterValueChanged(s) ==
  /\ inPort /\ pcS[s] = "idle" /\ changes < MaxChanges
  /\ changes' = changes + 1
  /\ change' = [change EXCEPT ![s] = changes']
  /\ dst' = [dst EXCEPT ![s] = length \div 4]
  /\ todo' = [todo EXCEPT ![s] = {"length", "words"}]
  /\ pcS' = [pcS EXCEPT ![s] = "storing"]
  /\ accepted' = Append(accepted, changes')
  /\ clean' = (clean /\ AllIdle /\ pcA = "idle")
  /\ UNCHANGED <<inPort, mem, length, pcA, blockVars, heardVars>>

\* mbh->length += 16 and the four words: plain stores of an unsynchronised
\* thread, seen by others in either order.  The length that is added to was
\* read together with dst, or is read again.
StoreLength(s) ==
  /\ "length" \in todo[s]
  /\ length' \in {4 * dst[s] + 16, length + 16}
  /\ todo' = [todo EXCEPT ![s] = @ \ {"length"}]
  /\ UNCHANGED <<inPort, mem, pcS, dst, change, changes, pcA, blockVars,
                 heardVars, accepted, clean>>

StoreWords(s) ==
  /\ "words" \in todo[s]
  /\ mem' = Store(mem, dst[s], ParamWords(change[s]))
  /\ todo' = [todo EXCEPT ![s] = @ \ {"words"}]
  /\ UNCHANGED <<inPort, length, pcS, dst, change, changes, pcA, blockVars,
                 heardVars, accepted, clean>>

ParameterReturn(s) ==
  /\ pcS[s] = "storing" /\ todo[s] = {}
  /\ pcS' = [pcS EXCEPT ![s] = "idle"]
  /\ UNCHANGED <<inPort, mem, length, dst, change, todo, changes, pcA,
                 blockVars, heardVars, accepted, clean>>

-----------------------------------------------------------------------------
(* preProcessBuffers.                                                      *)

\* Variant: a block starts at the beginning of the port.
PreProcessFromStart ==
  /\ inPort /\ pcA = "idle"
  /\ \/ midi' = <<>> /\ blocks' = blocks
     \/ /\ blocks < MaxBlocks
        /\ blocks' = blocks + 1
        /\ \E n \in 1..MaxEvents : midi' \in [1..n -> Event]
  /\ index' = 0
  /\ pcA' = "append"
  /\ mark' = Len(heardParams) /\ played' = <<>> /\ heardNotes' = <<>>
  /\ clean' = (clean /\ AllIdle)
  /\ UNCHANGED <<inPort, mem, length, setterVars, pos, heardParams, accepted>>

\* dstIntIndex starts as the number of BYTES on the port.
PreProcess ==
  /\ inPort /\ pcA = "idle"
  /\ \/ midi' = <<>> /\ blocks' = blocks
     \/ /\ blocks < MaxBlocks
        /\ blocks' = blocks + 1
        /\ \E n \in 1..MaxEvents : midi' \in [1..n -> Event]
  /\ index' = length
  /\ pcA' = "append"
  /\ mark' = Len(heardParams) /\ played' = <<>> /\ heardNotes' = <<>>
  /\ clean' = (clean /\ AllIdle)
  /\ UNCHANGED <<inPort, mem, length, setterVars, pos, heardParams, accepted>>

\* Events are numbered from the end, so that a block repeats no number.
Number == blocks * (MaxEvents + 1) + Len(midi)

\* A timestamp when the event is not at the start of the block, then a word.
AppendNote ==
  /\ pcA = "append" /\ midi # <<>> /\ Head(midi).kind = "note"
  /\ LET words == IF Head(midi).timed
                  THEN <<Timestamp(Number), Note(Number)>>
                  ELSE <<Note(Number)>>
     IN  /\ mem' = Store(mem, index, words)
         /\ index' = index + Len(words)
  /\ played' = Append(played, Note(Number))
  /\ midi' = Tail(midi)
  /\ UNCHANGED <<inPort, length, setterVars, pcA, pos, blocks, heardParams,
                 mark, heardNotes, accepted, clean>>

\* handleSysex7 takes the byte length for a word index too, and the size of a
\* pointer, which is the header's size in words: all packets land on the words
\* where the block's first event went, and dstIntIndex does not move.
AppendSysex ==
  /\ pcA = "append" /\ midi # <<>> /\ Head(midi).kind = "sysex"
  /\ LET stamped == IF Head(midi).timed
                    THEN Store(mem, index, <<Timestamp(Number)>>)
                    ELSE mem
     IN  mem' = Store(stamped, length, <<Sysex(Number, 1), Sysex(Number, 2)>>)
  /\ index' = IF Head(midi).timed THEN index + 1 ELSE index
  /\ played' = Append(played, Sysex(Number, 1))
  /\ midi' = Tail(midi)
  /\ UNCHANGED <<inPort, length, setterVars, pcA, pos, blocks, heardParams,
                 mark, heardNotes, accepted, clean>>

\* Variant: the length is left in words.
SetLengthInWords ==
  /\ pcA = "append" /\ midi = <<>>
  /\ length' = index
  /\ pos' = 0
  /\ pcA' = "plugin"
  /\ UNCHANGED <<inPort, mem, setterVars, index, midi, blocks, heardVars,
                 accepted, clean>>

SetLength ==
  /\ pcA = "append" /\ midi = <<>>
  /\ length' = 4 * index
  /\ pos' = 0
  /\ pcA' = "plugin"
  /\ UNCHANGED <<inPort, mem, setterVars, index, midi, blocks, heardVars,
                 accepted, clean>>

-----------------------------------------------------------------------------
(* native->process: the plugin goes through the port.                      *)

SizeOf(word) == CASE word[1] = "param" -> 4
                  [] word[1] = "sysex" -> 2
                  [] OTHER -> 1

At(i) == IF i \in DOMAIN mem THEN mem[i] ELSE Noop

\* A word that starts a message says how long the message is.  One from the
\* middle of a message says anything.
ReadMessage ==
  /\ pcA = "plugin" /\ 4 * pos < length
  /\ LET word == At(pos)
     IN  /\ pos' \in IF word[3] = 1 THEN {pos + SizeOf(word)}
                                    ELSE {pos + 1, pos + 2, pos + 4}
         /\ heardParams' =
              IF /\ word[1] = "param"
                 /\ \A part \in 1..4 : At(pos + part - 1) = Param(word[2], part)
              THEN Append(heardParams, word[2]) ELSE heardParams
         /\ heardNotes' = IF word[1] = "note" THEN Append(heardNotes, word)
                                              ELSE heardNotes
  /\ UNCHANGED <<inPort, mem, length, setterVars, pcA, index, midi, blocks,
                 mark, played, accepted, clean>>

PluginDone ==
  /\ pcA = "plugin" /\ 4 * pos >= length
  /\ pcA' = "post"
  /\ UNCHANGED <<inPort, mem, length, setterVars, blockVars, heardVars,
                 accepted, clean>>

\* Variant: the port is not emptied.
PostProcessKeepsLength ==
  /\ pcA = "post"
  /\ pcA' = "idle"
  /\ accepted' = <<>> /\ clean' = AllIdle
  /\ UNCHANGED <<inPort, mem, length, setterVars, blockVars, heardVars>>

\* postProcessBuffers: clean up room for the next parameter changes.
PostProcess ==
  /\ pcA = "post"
  /\ length' = 0
  /\ pcA' = "idle"
  /\ accepted' = <<>> /\ clean' = AllIdle
  /\ UNCHANGED <<inPort, mem, setterVars, blockVars, heardVars>>

-----------------------------------------------------------------------------
SetterStep(s) == \/ ParameterValueChanged(s) \/ StoreLength(s)
                 \/ StoreWords(s) \/ ParameterReturn(s)

AudioStep == \/ PreProcess \/ AppendNote \/ AppendSysex \/ SetLength
             \/ ReadMessage \/ PluginDone \/ PostProcess

Next == PrepareToPlay \/ (\E s \in Setters : SetterStep(s)) \/ AudioStep

Spec == Init /\ [][Next]_vars

-----------------------------------------------------------------------------
(* Properties.                                                             *)

TypeOK ==
  /\ inPort \in BOOLEAN
  /\ DOMAIN mem \subseteq Nat /\ \A i \in DOMAIN mem : mem[i] \in Word
  /\ length \in Nat /\ length % 4 = 0
  /\ pcS \in [Setters -> {"idle", "storing"}]
  /\ dst \in [Setters -> Nat]
  /\ change \in [Setters -> 0..MaxChanges]
  /\ todo \in [Setters -> SUBSET {"length", "words"}]
  /\ pcA \in {"idle", "append", "plugin", "post"}
  /\ index \in Nat
  /\ midi \in Seq(Event) /\ Len(midi) <= MaxEvents
  /\ pos \in Nat
  /\ changes \in 0..MaxChanges /\ blocks \in 0..MaxBlocks
  /\ heardParams \in Seq(Nat) /\ mark \in 0..Len(heardParams)
  /\ accepted \in Seq(1..changes)
  /\ played \in Seq(Word) /\ heardNotes \in Seq(Word)
  /\ clean \in BOOLEAN

\* When no setter gets in the way, the plugin reads the changes that were
\* accepted since the last block, each of them, in order, before anything that
\* the port's stale words may add.
CleanChangesFirst ==
  (pcA = "post" /\ clean)
    => \E n \in mark..Len(heardParams) :
         SubSeq(heardParams, mark + 1, n) = accepted

IsNote(word) == word[1] = "note"

\* When no setter gets in the way and none has set anything, the plugin reads
\* the notes of a block without sysex, once each and in order: of the words
\* that earlier blocks left on the port it reads none.
CleanBlockNotes ==
  (/\ pcA = "post" /\ clean /\ accepted = <<>>
   /\ \A i \in DOMAIN played : IsNote(played[i])) => heardNotes = played

\* "clean up room for the next JUCE parameter changes cycle": a change belongs
\* to one cycle, the plugin does not get it again in a later one.
ChangeHeardOnce ==
  \A i, j \in 1..Len(heardParams) : heardParams[i] = heardParams[j] => i = j

\* "parameters are sent over MIDI2 port as UMP": a change that was accepted is
\* on the port, or on its way there, until the plugin has read it.
NoChangeLost ==
  \A c \in 1..changes :
    \/ \E i \in 1..Len(heardParams) : heardParams[i] = c
    \/ \E s \in Setters : pcS[s] = "storing" /\ change[s] = c
    \/ \E i \in DOMAIN mem : mem[i] = Param(c, 1) /\ 4 * i < length

\* "Convert MidiBuffer into MIDI 2.0 UMP stream on the AAP port": the plugin
\* reads the notes of a block whatever other events are in it.
NotesArrive ==
  (pcA = "post" /\ clean /\ accepted = <<>>)
    => heardNotes = SelectSeq(played, IsNote)
=============================================================================
