------------------------ MODULE HostMidiPortProofs ------------------------
(***************************************************************************)
(* Theorems about HostMidiPort, for any setters, any MIDI and any number   *)
(* of parameter changes and blocks.                                        *)
(***************************************************************************)
EXTENDS HostMidiPort, SequenceTheorems, TLAPS

-----------------------------------------------------------------------------
(* Lemmas about sequences and numbers.                                     *)

\* A function on 1..n is a sequence of its values.
LEMMA FunctionIsSeq ==
  ASSUME NEW T, NEW n \in Nat, NEW s \in [1..n -> T]
  PROVE  s \in Seq(T) /\ Len(s) = n
<1> DEFINE t == [i \in 1..n |-> s[i]]
<1>1. t \in Seq(T) /\ Len(t) = n
  OBVIOUS
<1>2. s = t
  OBVIOUS
<1>3. QED
  BY <1>1, <1>2

\* A sequence is a sequence over any set that has its elements.
LEMMA SeqOver ==
  ASSUME NEW S, NEW T, NEW s \in Seq(S), \A i \in 1..Len(s) : s[i] \in T
  PROVE  s \in Seq(T)
<1>1. Len(s) \in Nat /\ s \in [1..Len(s) -> S]
  BY LenProperties
<1>2. s \in [1..Len(s) -> T]
  BY <1>1
<1>3. QED
  BY <1>1, <1>2, FunctionIsSeq

\* One element more, and those before as they were.
LEMMA Longer ==
  ASSUME NEW S, NEW s \in Seq(S), NEW x \in S, NEW t, t = Append(s, x)
  PROVE  /\ t \in Seq(S) /\ Len(t) = Len(s) + 1
         /\ \A i \in 1..Len(s) : t[i] = s[i]
         /\ t[Len(s) + 1] = x
BY AppendProperties

\* 16 more bytes are whole words.
LEMMA WholeWords ==
  /\ \A n \in Nat : 4 * n \in Nat /\ (4 * n) % 4 = 0
  /\ \A n \in Nat : 4 * n + 16 \in Nat /\ (4 * n + 16) % 4 = 0
  /\ \A n \in Nat : n % 4 = 0 => (n + 16) % 4 = 0
OBVIOUS

-----------------------------------------------------------------------------
(* Lemmas about the memory of the port.                                    *)

\* What is stored are words.
LEMMA StoreType ==
  ASSUME NEW m, NEW at \in Nat, NEW words \in Seq(Word),
         DOMAIN m \subseteq Nat, \A i \in DOMAIN m : m[i] \in Word
  PROVE  /\ DOMAIN Store(m, at, words) \subseteq Nat
         /\ \A i \in DOMAIN Store(m, at, words) : Store(m, at, words)[i] \in Word
<1> DEFINE n == Store(m, at, words)
<1>1. Len(words) \in Nat /\ \A i \in 1..Len(words) : words[i] \in Word
  BY LenProperties
<1>2. DOMAIN n = DOMAIN m \cup at..at + Len(words) - 1
  BY DEF Store
<1>3. \A i \in DOMAIN n : n[i] = IF i \in at..at + Len(words) - 1
                                 THEN words[i - at + 1] ELSE m[i]
  BY DEF Store
<1> HIDE DEF n
<1>4. DOMAIN n \subseteq Nat
  BY <1>1, <1>2
<1>5. ASSUME NEW i \in DOMAIN n PROVE n[i] \in Word
  <2>1. CASE i \in at..at + Len(words) - 1
    <3>1. i - at + 1 \in 1..Len(words)
      BY <1>1, <2>1
    <3>2. QED
      BY <1>1, <1>3, <2>1, <3>1
  <2>2. CASE i \notin at..at + Len(words) - 1
    BY <1>2, <1>3, <2>2
  <2>3. QED
    BY <2>1, <2>2
<1>6. QED
  BY <1>4, <1>5 DEF n

\* Nothing before the place changes.
LEMMA StoreKeeps ==
  ASSUME NEW m, NEW at \in Nat, NEW words, DOMAIN m \subseteq Nat,
         NEW i \in DOMAIN m, i < at
  PROVE  i \in DOMAIN Store(m, at, words) /\ Store(m, at, words)[i] = m[i]
BY DEF Store

\* The words are where they were stored.
LEMMA StoreWrites ==
  ASSUME NEW m, NEW at \in Nat, NEW words \in Seq(Word), NEW i \in 1..Len(words)
  PROVE  /\ at + i - 1 \in DOMAIN Store(m, at, words)
         /\ Store(m, at, words)[at + i - 1] = words[i]
<1>1. Len(words) \in Nat
  BY LenProperties
<1>2. at + i - 1 \in at..at + Len(words) - 1 /\ (at + i - 1) - at + 1 = i
  BY <1>1
<1>3. QED
  BY <1>2 DEF Store

\* The words of each message.
LEMMA WordsType ==
  ASSUME NEW n \in Nat
  PROVE  /\ Timestamp(n) \in Word /\ Note(n) \in Word
         /\ \A part \in 1..4 : Sysex(n, part) \in Word /\ Param(n, part) \in Word
         /\ ParamWords(n) \in Seq(Word) /\ Len(ParamWords(n)) = 4
         /\ \A part \in 1..4 : ParamWords(n)[part] = Param(n, part)
<1>1. /\ Timestamp(n) \in Word /\ Note(n) \in Word
      /\ \A part \in 1..4 : Sysex(n, part) \in Word /\ Param(n, part) \in Word
  BY DEF Timestamp, Note, Sysex, Param, Word
<1>2. ParamWords(n) \in Seq(Word) /\ Len(ParamWords(n)) = 4
  BY <1>1 DEF ParamWords
<1>3. QED
  BY <1>1, <1>2 DEF ParamWords

\* So are the words of a change.
LEMMA StoreParam ==
  ASSUME NEW m, NEW at \in Nat, NEW c \in Nat, NEW part \in 1..4
  PROVE  /\ at + part - 1 \in DOMAIN Store(m, at, ParamWords(c))
         /\ Store(m, at, ParamWords(c))[at + part - 1] = Param(c, part)
<1>1. /\ ParamWords(c) \in Seq(Word) /\ part \in 1..Len(ParamWords(c))
      /\ ParamWords(c)[part] = Param(c, part)
  BY WordsType
<1>2. QED
  BY <1>1, StoreWrites

\* What an event with this number puts on the port.
LEMMA EventWords ==
  ASSUME NEW n \in Nat
  PROVE  /\ <<Timestamp(n), Note(n)>> \in Seq(Word)
         /\ Len(<<Timestamp(n), Note(n)>>) = 2
         /\ <<Timestamp(n), Note(n)>>[1] = Timestamp(n)
         /\ <<Timestamp(n), Note(n)>>[2] = Note(n)
         /\ <<Note(n)>> \in Seq(Word) /\ Len(<<Note(n)>>) = 1
         /\ <<Note(n)>>[1] = Note(n)
         /\ <<Timestamp(n)>> \in Seq(Word) /\ Len(<<Timestamp(n)>>) = 1
         /\ <<Sysex(n, 1), Sysex(n, 2)>> \in Seq(Word)
         /\ Len(<<Sysex(n, 1), Sysex(n, 2)>>) = 2
<1> HIDE DEF Timestamp, Note, Sysex, Word
<1>1. /\ Timestamp(n) \in Word /\ Note(n) \in Word
      /\ Sysex(n, 1) \in Word /\ Sysex(n, 2) \in Word
  BY WordsType
<1>2. QED
  BY <1>1

-----------------------------------------------------------------------------
(* Type correctness.                                                       *)

\* The number of an event is a natural number.
LEMMA NumberType == TypeOK => Number \in Nat
<1> SUFFICES ASSUME TypeOK PROVE Number \in Nat
  OBVIOUS
<1>1. blocks \in Nat /\ MaxEvents + 1 \in Nat /\ Len(midi) \in Nat
  BY SizesAssumption, LenProperties DEF TypeOK
<1>2. blocks * (MaxEvents + 1) \in Nat
  BY <1>1
<1>3. QED
  BY <1>1, <1>2 DEF Number

\* parameterValueChanged keeps the types.
LEMMA SetterTyping ==
  ASSUME TypeOK, NEW s \in Setters, SetterStep(s)
  PROVE  TypeOK'
<1> USE SizesAssumption DEF TypeOK
<1>1. CASE ParameterValueChanged(s)
  <2>1. changes' \in 1..MaxChanges
    BY <1>1 DEF ParameterValueChanged
  <2>2. accepted' \in Seq(1..changes')
    <3>1. accepted \in Seq(1..changes')
      <4>1. \A i \in 1..Len(accepted) : accepted[i] \in 1..changes'
        BY <1>1, LenProperties, SMTT(30) DEF ParameterValueChanged
      <4>2. QED
        BY <4>1, SeqOver
    <3>2. changes' \in 1..changes'
      BY <2>1
    <3>3. QED
      BY <1>1, <3>1, <3>2, AppendProperties DEF ParameterValueChanged
  <2>3. length \div 4 \in Nat
    OBVIOUS
  <2>4. /\ pcS' \in [Setters -> {"idle", "storing"}]
        /\ dst' \in [Setters -> Nat]
        /\ change' \in [Setters -> 0..MaxChanges]
        /\ todo' \in [Setters -> SUBSET {"length", "words"}]
        /\ clean' \in BOOLEAN
    BY <1>1, <2>1, <2>3 DEF ParameterValueChanged
  <2>5. QED
    BY <1>1, <2>1, <2>2, <2>4
    DEF ParameterValueChanged, blockVars, heardVars
<1>2. CASE StoreLength(s)
  <2>1. length' \in Nat /\ length' % 4 = 0
    <3>1. length' = 4 * dst[s] + 16 \/ length' = length + 16
      BY <1>2 DEF StoreLength
    <3>2. dst[s] \in Nat
      OBVIOUS
    <3>3. QED
      BY <3>1, <3>2, WholeWords
  <2>2. QED
    BY <1>2, <2>1 DEF StoreLength, blockVars, heardVars
<1>3. CASE StoreWords(s)
  <2>1. ParamWords(change[s]) \in Seq(Word)
    BY WordsType
  <2>2. DOMAIN mem' \subseteq Nat /\ \A i \in DOMAIN mem' : mem'[i] \in Word
    BY <1>3, <2>1, StoreType DEF StoreWords
  <2>3. todo' \in [Setters -> SUBSET {"length", "words"}]
    BY <1>3 DEF StoreWords
  <2>4. QED
    BY <1>3, <2>2, <2>3 DEF StoreWords, blockVars, heardVars
<1>4. CASE ParameterReturn(s)
  BY <1>4 DEF ParameterReturn, blockVars, heardVars
<1>5. QED
  BY <1>1, <1>2, <1>3, <1>4 DEF SetterStep

\* The audio thread keeps the types.
LEMMA AudioTyping ==
  ASSUME TypeOK, AudioStep
  PROVE  TypeOK'
<1> USE SizesAssumption DEF TypeOK, setterVars
<1>1. CASE PreProcess
  <2>1. /\ midi' \in Seq(Event) /\ Len(midi') <= MaxEvents
        /\ blocks' \in 0..MaxBlocks
    <3>1. CASE midi' = <<>> /\ blocks' = blocks
      BY <3>1
    <3>2. CASE /\ blocks < MaxBlocks
               /\ blocks' = blocks + 1
               /\ \E n \in 1..MaxEvents : midi' \in [1..n -> Event]
      <4>1. PICK n \in 1..MaxEvents : midi' \in [1..n -> Event]
        BY <3>2
      <4>2. midi' \in Seq(Event) /\ Len(midi') = n
        BY <4>1, FunctionIsSeq
      <4>3. QED
        BY <3>2, <4>2
    <3>3. QED
      BY <1>1, <3>1, <3>2 DEF PreProcess
  <2>2. <<>> \in Seq(Word)
    OBVIOUS
  <2>3. mark' \in 0..Len(heardParams) /\ clean' \in BOOLEAN
    BY <1>1, LenProperties DEF PreProcess
  <2>4. QED
    BY <1>1, <2>1, <2>2, <2>3 DEF PreProcess
<1>2. CASE AppendNote \/ AppendSysex
  <2> DEFINE n == Number
  <2>1. n \in Nat
    BY NumberType
  <2>2. Tail(midi) \in Seq(Event) /\ Len(Tail(midi)) <= MaxEvents
    BY <1>2, HeadTailProperties, LenProperties DEF AppendNote, AppendSysex
  <2>3. CASE AppendNote
    <3>1. PICK words \in {<<Timestamp(n), Note(n)>>, <<Note(n)>>} :
             mem' = Store(mem, index, words) /\ index' = index + Len(words)
      BY <2>3 DEF AppendNote
    <3>2. words \in Seq(Word) /\ Len(words) \in Nat
      BY <2>1, <3>1, EventWords, LenProperties, ZenonT(30)
    <3>3. /\ DOMAIN mem' \subseteq Nat
          /\ \A i \in DOMAIN mem' : mem'[i] \in Word
      BY <3>1, <3>2, StoreType
    <3>4. index' \in Nat
      BY <3>1, <3>2
    <3>5. played' \in Seq(Word)
      BY <2>1, <2>3, WordsType, AppendProperties DEF AppendNote
    <3>6. QED
      BY <2>2, <2>3, <3>3, <3>4, <3>5 DEF AppendNote
  <2>4. CASE AppendSysex
    <3> DEFINE stamped == IF Head(midi).timed
                          THEN Store(mem, index, <<Timestamp(n)>>) ELSE mem
               packets == <<Sysex(n, 1), Sysex(n, 2)>>
    <3>1. /\ DOMAIN stamped \subseteq Nat
          /\ \A i \in DOMAIN stamped : stamped[i] \in Word
      <4>1. <<Timestamp(n)>> \in Seq(Word)
        BY <2>1, EventWords
      <4>2. QED
        BY <4>1, StoreType
    <3>2. packets \in Seq(Word)
      BY <2>1, EventWords
    <3>3. mem' = Store(stamped, length, packets)
      BY <2>4 DEF AppendSysex
    <3> HIDE DEF stamped, packets
    <3>4. /\ DOMAIN mem' \subseteq Nat
          /\ \A i \in DOMAIN mem' : mem'[i] \in Word
      BY <3>1, <3>2, <3>3, StoreType
    <3>5. index' \in Nat
      BY <2>4 DEF AppendSysex
    <3>6. played' \in Seq(Word)
      BY <2>1, <2>4, WordsType, AppendProperties DEF AppendSysex
    <3>7. QED
      BY <2>2, <2>4, <3>4, <3>5, <3>6 DEF AppendSysex
  <2>5. QED
    BY <1>2, <2>3, <2>4
<1>3. CASE SetLength
  <2>1. 4 * index \in Nat /\ (4 * index) % 4 = 0
    OBVIOUS
  <2>2. QED
    BY <1>3, <2>1 DEF SetLength, heardVars
<1>4. CASE ReadMessage
  <2> DEFINE word == At(pos)
  <2>1. word \in Word
    <3>1. Noop \in Word
      BY DEF Noop, Word
    <3>2. QED
      BY <3>1 DEF At
  <2>2. word[2] \in Nat
    BY <2>1 DEF Word
  <2>3. SizeOf(word) \in 1..4
    BY DEF SizeOf
  <2>4. pos' \in Nat
    BY <1>4, <2>3, SMTT(30) DEF ReadMessage
  <2>5. /\ heardParams' \in Seq(Nat)
        /\ Len(heardParams') >= Len(heardParams)
    <3>1. heardParams' \in {Append(heardParams, word[2]), heardParams}
      BY <1>4 DEF ReadMessage
    <3>2. Len(heardParams) \in Nat
      BY LenProperties
    <3>3. /\ Append(heardParams, word[2]) \in Seq(Nat)
          /\ Len(Append(heardParams, word[2])) = Len(heardParams) + 1
      BY <2>2, AppendProperties
    <3>4. CASE heardParams' = heardParams
      BY <3>2, <3>4
    <3>5. CASE heardParams' = Append(heardParams, word[2])
      <4> HIDE DEF word
      <4>1. QED
        BY <3>2, <3>3, <3>5
    <3>6. QED
      BY <3>1, <3>4, <3>5
  <2>6. heardNotes' \in Seq(Word)
    BY <1>4, <2>1, AppendProperties DEF ReadMessage
  <2>7. mark' \in 0..Len(heardParams')
    BY <1>4, <2>5, LenProperties, SMTT(30) DEF ReadMessage
  <2>8. QED
    BY <1>4, <2>4, <2>5, <2>6, <2>7 DEF ReadMessage
<1>5. CASE PluginDone
  BY <1>5 DEF PluginDone, blockVars, heardVars
<1>6. CASE PostProcess
  <2>1. <<>> \in Seq(1..changes)
    OBVIOUS
  <2>2. clean' \in BOOLEAN
    BY <1>6 DEF PostProcess, AllIdle
  <2>3. QED
    BY <1>6, <2>1, <2>2 DEF PostProcess, blockVars, heardVars
<1>7. QED
  BY <1>1, <1>2, <1>3, <1>4, <1>5, <1>6 DEF AudioStep

\* The port holds words of messages, its length counts whole words, and what
\* each thread keeps has its type.
THEOREM PortTyping == Spec => []TypeOK
<1>1. Init => TypeOK
  <2> SUFFICES ASSUME Init PROVE TypeOK
    OBVIOUS
  <2>1. DOMAIN mem = {}
    BY DEF Init
  <2>2. /\ <<>> \in Seq(Event) /\ Len(<<>>) = 0 /\ <<>> \in Seq(Nat)
        /\ <<>> \in Seq(Word) /\ <<>> \in Seq(1..0)
    OBVIOUS
  <2>3. /\ DOMAIN mem \subseteq Nat
        /\ \A i \in DOMAIN mem : mem[i] \in Word
    BY <2>1
  <2>4. /\ midi \in Seq(Event) /\ Len(midi) <= MaxEvents
        /\ heardParams \in Seq(Nat) /\ mark \in 0..Len(heardParams)
        /\ accepted \in Seq(1..changes)
        /\ played \in Seq(Word) /\ heardNotes \in Seq(Word)
    BY <2>2, SizesAssumption DEF Init
  <2>5. length \in Nat /\ length % 4 = 0
    BY DEF Init
  <2>6. /\ pcS \in [Setters -> {"idle", "storing"}]
        /\ dst \in [Setters -> Nat]
        /\ change \in [Setters -> 0..MaxChanges]
        /\ todo \in [Setters -> SUBSET {"length", "words"}]
    BY SizesAssumption DEF Init
  <2>7. /\ inPort \in BOOLEAN /\ clean \in BOOLEAN
        /\ pcA \in {"idle", "append", "plugin", "post"}
    BY Zenon DEF Init
  <2>8. /\ index \in Nat /\ pos \in Nat
        /\ changes \in 0..MaxChanges /\ blocks \in 0..MaxBlocks
    BY SizesAssumption DEF Init
  <2>9. QED
    BY <2>3, <2>4, <2>5, <2>6, <2>7, <2>8 DEF TypeOK
<1>2. TypeOK /\ [Next]_vars => TypeOK'
  <2> SUFFICES ASSUME TypeOK, [Next]_vars PROVE TypeOK'
    OBVIOUS
  <2>1. CASE PrepareToPlay
    BY <2>1 DEF PrepareToPlay, TypeOK, setterVars, blockVars, heardVars
  <2>2. CASE UNCHANGED vars
    BY <2>2 DEF vars, TypeOK, setterVars, blockVars, heardVars
  <2>3. QED
    BY <2>1, <2>2, SetterTyping, AudioTyping DEF Next
<1>3. QED
  BY <1>1, <1>2, PTL DEF Spec

-----------------------------------------------------------------------------
(* The changes of a clean cycle.                                           *)

\* The first m of the changes cs stand at the beginning of the port.
Stored(port, cs, m) == \A j \in 1..m, part \in 1..4 :
  /\ 4 * (j - 1) + part - 1 \in DOMAIN port
  /\ port[4 * (j - 1) + part - 1] = Param(cs[j], part)

Pending == Len(accepted)

\* A setter that is not in parameterValueChanged has nothing to store.
IdleIsDone == \A s \in Setters : pcS[s] = "idle" => todo[s] = {}

\* What the port lacks while setter s is active: its length or its words.
ActiveSetter(s) ==
  /\ \A t \in Setters \ {s} : pcS[t] = "idle"
  /\ Pending >= 1
  /\ dst[s] = 4 * (Pending - 1)
  /\ change[s] = accepted[Pending]
  /\ length = IF "length" \in todo[s] THEN 16 * (Pending - 1) ELSE 16 * Pending
  /\ Stored(mem, accepted, Pending - 1)
  /\ "words" \notin todo[s] => Stored(mem, accepted, Pending)

\* Between two blocks, when the setters came one after the other, the port is
\* what they have accepted.
CleanPort ==
  /\ AllIdle => length = 16 * Pending /\ Stored(mem, accepted, Pending)
  /\ \A s \in Setters : pcS[s] = "storing" => ActiveSetter(s)

\* The changes that were heard after the first n of heard begin with the first
\* m of cs.
HeardFirst(heard, n, cs, m) ==
  /\ n + m <= Len(heard)
  /\ \A j \in 1..m : heard[n + j] = cs[j]

\* During a block in which no setter is active, the changes stay where they
\* are and the plugin goes through them one by one.
CleanBlock ==
  /\ AllIdle /\ Stored(mem, accepted, Pending) /\ index >= 16 * Pending
  /\ pcA = "append" => length = 16 * Pending /\ mark = Len(heardParams)
  /\ pcA \in {"plugin", "post"} => length = 4 * index
  /\ pcA = "plugin" =>
       \/ HeardFirst(heardParams, mark, accepted, Pending)
       \/ \E m \in 0..Pending : /\ pos = 4 * m
                                /\ HeardFirst(heardParams, mark, accepted, m)
                                /\ Len(heardParams) = mark + m
  /\ pcA = "post" => HeardFirst(heardParams, mark, accepted, Pending)

CleanCycle == clean => IF pcA = "idle" THEN CleanPort ELSE CleanBlock

\* What is stored stays stored when only words behind it are written.
LEMMA StoredStays ==
  ASSUME NEW port, NEW port2, NEW cs, NEW m \in Nat, NEW at \in Nat,
         Stored(port, cs, m), at >= 4 * m,
         \A i \in DOMAIN port : i < at => /\ i \in DOMAIN port2
                                          /\ port2[i] = port[i]
  PROVE  Stored(port2, cs, m)
<1> SUFFICES ASSUME NEW j \in 1..m, NEW part \in 1..4
             PROVE  /\ 4 * (j - 1) + part - 1 \in DOMAIN port2
                    /\ port2[4 * (j - 1) + part - 1] = Param(cs[j], part)
  BY DEF Stored
<1>1. 4 * (j - 1) + part - 1 < at
  OBVIOUS
<1>2. QED
  BY <1>1 DEF Stored

\* The step of parameterValueChanged that accepts a change.
LEMMA CleanAccept ==
  ASSUME TypeOK, IdleIsDone, CleanCycle,
         NEW s \in Setters, ParameterValueChanged(s)
  PROVE  IdleIsDone' /\ CleanCycle'
<1>1. /\ pcS' = [pcS EXCEPT ![s] = "storing"]
      /\ todo' = [todo EXCEPT ![s] = {"length", "words"}]
      /\ pcS \in [Setters -> {"idle", "storing"}]
      /\ todo \in [Setters -> SUBSET {"length", "words"}]
  BY DEF ParameterValueChanged, TypeOK
<1>2. IdleIsDone'
  BY <1>1 DEF IdleIsDone
<1>3. ASSUME clean' PROVE CleanCycle'
  <2>1. /\ clean /\ AllIdle /\ pcA = "idle" /\ pcA' = "idle"
        /\ length' = length /\ mem' = mem
    BY <1>3 DEF ParameterValueChanged
  <2>2. length = 16 * Pending /\ Stored(mem, accepted, Pending)
    BY <2>1 DEF CleanCycle, CleanPort
  <2>3. /\ Pending \in Nat /\ Pending' = Pending + 1
        /\ \A j \in 1..Pending : accepted'[j] = accepted[j]
        /\ accepted'[Pending + 1] = changes + 1
    <3>1. accepted \in Seq(Nat) /\ changes + 1 \in Nat
      <4>1. accepted \in Seq(1..changes) /\ changes \in Nat
        BY SizesAssumption DEF TypeOK
      <4>2. QED
        BY <4>1, SeqOver, LenProperties
    <3>2. accepted' = Append(accepted, changes + 1)
      BY DEF ParameterValueChanged
    <3>3. QED
      BY <3>1, <3>2, AppendProperties, LenProperties DEF Pending
  <2>4. dst'[s] = 4 * Pending /\ change'[s] = changes + 1
    <3>1. dst'[s] = length \div 4 /\ change'[s] = changes + 1
      BY DEF ParameterValueChanged, TypeOK
    <3>2. (16 * Pending) \div 4 = 4 * Pending
      BY <2>3
    <3>3. QED
      BY <2>2, <3>1, <3>2
  <2>5. Stored(mem, accepted', Pending)
    BY <2>2, <2>3 DEF Stored
  <2>6. \A t \in Setters \ {s} : pcS'[t] = "idle"
    BY <1>1, <2>1 DEF AllIdle
  <2>7. pcS'[s] = "storing" /\ todo'[s] = {"length", "words"}
    BY <1>1
  <2>8. ActiveSetter(s)'
    BY <2>1, <2>2, <2>3, <2>4, <2>5, <2>6, <2>7 DEF ActiveSetter
  <2>9. QED
    BY <2>1, <2>6, <2>7, <2>8 DEF CleanCycle, CleanPort, AllIdle
<1>4. QED
  BY <1>2, <1>3 DEF CleanCycle

\* A setter with something to store is, in a clean cycle, the only one that is
\* active, and no block is running.
LEMMA ActiveAlone ==
  ASSUME TypeOK, IdleIsDone, CleanCycle, clean,
         NEW s \in Setters, pcS[s] = "storing" \/ todo[s] # {}
  PROVE  pcS[s] = "storing" /\ pcA = "idle" /\ ActiveSetter(s)
<1>1. pcS[s] = "storing"
  BY DEF TypeOK, IdleIsDone
<1>2. pcA = "idle"
  BY <1>1 DEF CleanCycle, CleanBlock, AllIdle
<1>3. QED
  BY <1>1, <1>2 DEF CleanCycle, CleanPort

\* mbh->length is added to.
LEMMA CleanStoreLength ==
  ASSUME TypeOK, IdleIsDone, CleanCycle, NEW s \in Setters, StoreLength(s)
  PROVE  IdleIsDone' /\ CleanCycle'
<1>1. /\ todo' = [todo EXCEPT ![s] = todo[s] \ {"length"}]
      /\ "length" \in todo[s] /\ todo \in [Setters -> SUBSET {"length", "words"}]
      /\ UNCHANGED <<mem, pcS, dst, change, pcA, accepted, clean>>
  BY DEF StoreLength, TypeOK
<1>2. IdleIsDone'
  BY <1>1 DEF IdleIsDone
<1>3. ASSUME clean' PROVE CleanCycle'
  <2>1. clean /\ pcS[s] = "storing" /\ pcA = "idle" /\ ActiveSetter(s)
    BY <1>1, <1>3, ActiveAlone
  <2>2. Pending \in Nat
    BY LenProperties DEF TypeOK, Pending
  <2>3. length' = 16 * Pending
    BY <1>1, <2>1, <2>2 DEF StoreLength, ActiveSetter
  <2>4. /\ "length" \notin todo'[s]
        /\ "words" \in todo[s] <=> "words" \in todo'[s]
    BY <1>1
  <2>5. ActiveSetter(s)'
    BY <1>1, <2>1, <2>3, <2>4 DEF ActiveSetter, Pending
  <2>6. QED
    BY <1>1, <2>1, <2>5 DEF CleanCycle, CleanPort, AllIdle, ActiveSetter
<1>4. QED
  BY <1>2, <1>3 DEF CleanCycle

\* The four words of the change are written.
LEMMA CleanStoreWords ==
  ASSUME TypeOK, IdleIsDone, CleanCycle, NEW s \in Setters, StoreWords(s)
  PROVE  IdleIsDone' /\ CleanCycle'
<1>1. /\ todo' = [todo EXCEPT ![s] = todo[s] \ {"words"}]
      /\ "words" \in todo[s] /\ todo \in [Setters -> SUBSET {"length", "words"}]
      /\ UNCHANGED <<length, pcS, dst, change, pcA, accepted, clean>>
      /\ mem' = Store(mem, dst[s], ParamWords(change[s]))
  BY DEF StoreWords, TypeOK
<1>2. IdleIsDone'
  BY <1>1 DEF IdleIsDone
<1>3. ASSUME clean' PROVE CleanCycle'
  <2> DEFINE k == Pending
             c == change[s]
  <2>1. clean /\ pcS[s] = "storing" /\ pcA = "idle" /\ ActiveSetter(s)
    BY <1>1, <1>3, ActiveAlone
  <2>2. k \in Nat /\ k >= 1 /\ k - 1 \in Nat /\ c \in Nat
    BY <2>1, LenProperties, SizesAssumption DEF TypeOK, Pending, ActiveSetter
  <2>3. dst[s] = 4 * (k - 1) /\ dst[s] \in Nat /\ c = accepted[k]
    BY <2>1 DEF ActiveSetter, TypeOK
  <2>4. /\ \A i \in DOMAIN mem : i < dst[s] => i \in DOMAIN mem' /\ mem'[i] = mem[i]
        /\ \A part \in 1..4 : /\ dst[s] + part - 1 \in DOMAIN mem'
                              /\ mem'[dst[s] + part - 1] = Param(c, part)
    <3>1. DOMAIN mem \subseteq Nat /\ \A i \in DOMAIN mem : mem[i] \in Word
      BY DEF TypeOK
    <3>2. QED
      BY <1>1, <2>2, <2>3, <3>1, StoreParam, StoreKeeps
  <2>5. Stored(mem', accepted, k - 1)
    BY <2>1, <2>2, <2>3, <2>4, StoredStays DEF ActiveSetter
  <2>6. Stored(mem', accepted, k)
    <3> SUFFICES ASSUME NEW j \in 1..k, NEW part \in 1..4
                 PROVE  /\ 4 * (j - 1) + part - 1 \in DOMAIN mem'
                        /\ mem'[4 * (j - 1) + part - 1] = Param(accepted[j], part)
      BY DEF Stored
    <3>1. CASE j = k
      BY <2>3, <2>4, <3>1
    <3>2. CASE j # k
      <4>1. j \in 1..k - 1
        BY <2>2, <3>2
      <4>2. QED
        BY <2>5, <4>1 DEF Stored
    <3>3. QED
      BY <3>1, <3>2
  <2>7. /\ "words" \notin todo'[s]
        /\ "length" \in todo[s] <=> "length" \in todo'[s]
    BY <1>1
  <2>8. ActiveSetter(s)'
    BY <1>1, <2>1, <2>5, <2>6, <2>7 DEF ActiveSetter, Pending
  <2>9. QED
    BY <1>1, <2>1, <2>8 DEF CleanCycle, CleanPort, AllIdle, ActiveSetter
<1>4. QED
  BY <1>2, <1>3 DEF CleanCycle

\* parameterValueChanged returns.
LEMMA CleanReturn ==
  ASSUME TypeOK, IdleIsDone, CleanCycle, NEW s \in Setters, ParameterReturn(s)
  PROVE  IdleIsDone' /\ CleanCycle'
<1>1. /\ pcS' = [pcS EXCEPT ![s] = "idle"] /\ pcS[s] = "storing" /\ todo[s] = {}
      /\ pcS \in [Setters -> {"idle", "storing"}]
      /\ UNCHANGED <<mem, length, todo, pcA, accepted, clean>>
  BY DEF ParameterReturn, TypeOK
<1>2. IdleIsDone'
  BY <1>1 DEF IdleIsDone
<1>3. ASSUME clean' PROVE CleanCycle'
  <2>1. clean /\ pcA = "idle" /\ ActiveSetter(s)
    BY <1>1, <1>3, ActiveAlone
  <2>2. length = 16 * Pending /\ Stored(mem, accepted, Pending)
    BY <1>1, <2>1 DEF ActiveSetter
  <2>3. AllIdle'
    BY <1>1, <2>1 DEF ActiveSetter, AllIdle
  <2>4. QED
    BY <1>1, <2>1, <2>2, <2>3 DEF CleanCycle, CleanPort, AllIdle, Pending
<1>4. QED
  BY <1>2, <1>3 DEF CleanCycle

\* The events of a block are written behind the changes.
LEMMA AppendBehind ==
  ASSUME TypeOK, AppendNote \/ AppendSysex
  PROVE  /\ index' \in Nat /\ index' >= index
         /\ \A i \in DOMAIN mem : i < index /\ i < length
              => i \in DOMAIN mem' /\ mem'[i] = mem[i]
         /\ AppendNote => \A i \in DOMAIN mem : i < index
              => i \in DOMAIN mem' /\ mem'[i] = mem[i]
<1> DEFINE n == Number
<1>1. /\ n \in Nat /\ index \in Nat /\ length \in Nat
      /\ DOMAIN mem \subseteq Nat /\ \A i \in DOMAIN mem : mem[i] \in Word
  BY NumberType DEF TypeOK
<1>2. CASE AppendNote
  <2>1. PICK words \in {<<Timestamp(n), Note(n)>>, <<Note(n)>>} :
           mem' = Store(mem, index, words) /\ index' = index + Len(words)
    BY <1>2 DEF AppendNote
  <2>2. Len(words) \in Nat
    BY <1>1, <2>1, EventWords
  <2>3. \A i \in DOMAIN mem : i < index => i \in DOMAIN mem' /\ mem'[i] = mem[i]
    BY <1>1, <2>1, StoreKeeps
  <2>4. QED
    BY <1>1, <2>1, <2>2, <2>3
<1>3. CASE AppendSysex
  <2> DEFINE stamped == IF Head(midi).timed
                        THEN Store(mem, index, <<Timestamp(n)>>) ELSE mem
             packets == <<Sysex(n, 1), Sysex(n, 2)>>
  <2>1. mem' = Store(stamped, length, packets)
    BY <1>3 DEF AppendSysex
  <2>2. /\ \A i \in DOMAIN mem : i < index => /\ i \in DOMAIN stamped
                                              /\ stamped[i] = mem[i]
        /\ DOMAIN stamped \subseteq Nat
    <3>1. <<Timestamp(n)>> \in Seq(Word)
      BY <1>1, EventWords
    <3>2. QED
      BY <1>1, <3>1, StoreKeeps, StoreType
  <2> HIDE DEF stamped, packets
  <2>3. \A i \in DOMAIN mem : i < index /\ i < length
          => i \in DOMAIN mem' /\ mem'[i] = mem[i]
    BY <1>1, <2>1, <2>2, StoreKeeps
  <2>4. index' \in {index, index + 1} /\ ~AppendNote
    BY <1>3 DEF AppendSysex, AppendNote
  <2>5. QED
    BY <1>1, <2>3, <2>4
<1>4. QED
  BY <1>2, <1>3

\* preProcessBuffers leaves the changes where they are.
LEMMA CleanAppend ==
  ASSUME TypeOK, CleanCycle, PreProcess \/ AppendNote \/ AppendSysex \/ SetLength,
         clean'
  PROVE  CleanBlock' /\ pcA' # "idle"
<1>0. Pending \in Nat /\ index \in Nat /\ length \in Nat
  BY LenProperties DEF TypeOK, Pending
<1>1. CASE PreProcess
  <2>1. /\ clean /\ AllIdle /\ pcA = "idle" /\ pcA' = "append" /\ index' = length
        /\ mark' = Len(heardParams)
        /\ UNCHANGED <<mem, length, pcS, accepted, heardParams>>
    BY <1>1 DEF PreProcess, setterVars
  <2>2. length = 16 * Pending /\ Stored(mem, accepted, Pending)
    BY <2>1 DEF CleanCycle, CleanPort
  <2>3. QED
    BY <1>0, <2>1, <2>2 DEF CleanBlock, AllIdle, Pending
<1>2. CASE AppendNote \/ AppendSysex
  <2>1. /\ clean /\ pcA = "append" /\ pcA' = "append"
        /\ UNCHANGED <<length, pcS, accepted, heardParams, mark>>
    BY <1>2 DEF AppendNote, AppendSysex, setterVars
  <2>2. CleanBlock /\ index >= 16 * Pending /\ length = 16 * Pending
    BY <2>1 DEF CleanCycle, CleanBlock
  <2>3. /\ index' \in Nat /\ index' >= index
        /\ \A i \in DOMAIN mem : i < 16 * Pending
             => i \in DOMAIN mem' /\ mem'[i] = mem[i]
    BY <1>0, <1>2, <2>2, AppendBehind DEF TypeOK
  <2>4. Stored(mem', accepted, Pending)
    <3>1. 16 * Pending \in Nat /\ 16 * Pending >= 4 * Pending
      BY <1>0
    <3>2. QED
      BY <1>0, <2>2, <2>3, <3>1, StoredStays DEF CleanBlock
  <2>5. QED
    BY <1>0, <2>1, <2>2, <2>3, <2>4 DEF CleanBlock, AllIdle, Pending
<1>3. CASE SetLength
  <2>1. /\ clean /\ pcA = "append" /\ pcA' = "plugin"
        /\ length' = 4 * index /\ pos' = 0
        /\ UNCHANGED <<mem, pcS, index, accepted, heardParams, mark>>
    BY <1>3 DEF SetLength, setterVars, heardVars
  <2>2. CleanBlock /\ mark = Len(heardParams)
    BY <2>1 DEF CleanCycle, CleanBlock
  <2>3. HeardFirst(heardParams, mark, accepted, 0)
    <3>1. mark \in Nat
      BY LenProperties DEF TypeOK
    <3>2. QED
      BY <2>2, <3>1 DEF HeardFirst
  <2>4. pos' = 4 * 0 /\ Len(heardParams) = mark + 0 /\ 0 \in 0..Pending
    BY <1>0, <2>1, <2>2, LenProperties DEF TypeOK
  <2>5. QED
    BY <2>1, <2>2, <2>3, <2>4 DEF CleanBlock, AllIdle, Pending
<1>4. QED
  BY <1>1, <1>2, <1>3

\* What was heard first stays so when more is heard, and is one longer when it
\* was all and the next change comes.
LEMMA HeardMore ==
  ASSUME NEW heard \in Seq(Nat), NEW c \in Nat, NEW n \in Nat, NEW cs,
         NEW m \in Nat, HeardFirst(heard, n, cs, m),
         NEW heard2, heard2 = Append(heard, c)
  PROVE  /\ HeardFirst(heard2, n, cs, m)
         /\ Len(heard2) = Len(heard) + 1
         /\ Len(heard) = n + m /\ c = cs[m + 1]
              => HeardFirst(heard2, n, cs, m + 1)
<1>1. /\ Len(heard) \in Nat /\ Len(heard2) = Len(heard) + 1
      /\ \A i \in 1..Len(heard) : heard2[i] = heard[i]
      /\ heard2[Len(heard) + 1] = c
  BY Longer, LenProperties
<1>2. \A j \in 1..m : n + j \in 1..Len(heard)
  BY <1>1 DEF HeardFirst
<1>3. \A j \in 1..m : heard2[n + j] = cs[j]
  BY <1>1, <1>2 DEF HeardFirst
<1>4. n + m <= Len(heard2)
  BY <1>1 DEF HeardFirst
<1>5. ASSUME Len(heard) = n + m, c = cs[m + 1]
      PROVE  HeardFirst(heard2, n, cs, m + 1)
  <2>1. heard2[n + (m + 1)] = cs[m + 1] /\ n + (m + 1) <= Len(heard2)
    BY <1>1, <1>5
  <2>2. \A j \in 1..m + 1 : j \in 1..m \/ j = m + 1
    OBVIOUS
  <2>3. QED
    BY <1>3, <2>1, <2>2 DEF HeardFirst
<1>6. QED
  BY <1>1, <1>3, <1>4, <1>5 DEF HeardFirst

\* The plugin reads the next change, or reads on behind the changes.
LEMMA CleanRead ==
  ASSUME TypeOK, CleanCycle, ReadMessage, clean'
  PROVE  CleanBlock' /\ pcA' # "idle"
<1> DEFINE k    == Pending
           word == At(pos)
<1>1. /\ clean /\ pcA = "plugin" /\ pcA' = "plugin"
      /\ UNCHANGED <<mem, length, pcS, index, accepted, mark>>
  BY DEF ReadMessage, setterVars
<1>2. CleanBlock
  BY <1>1 DEF CleanCycle
<1>3. /\ k \in Nat /\ mark \in Nat /\ Len(heardParams) \in Nat /\ pos \in Nat
      /\ heardParams \in Seq(Nat) /\ word[2] \in Nat
  <2>1. word \in Word
    BY DEF TypeOK, At, Noop, Word
  <2>2. word[2] \in Nat
    BY <2>1 DEF Word
  <2>3. QED
    BY <2>2, LenProperties DEF TypeOK, Pending
<1>4. \/ heardParams' = heardParams
      \/ heardParams' = Append(heardParams, word[2])
  BY DEF ReadMessage
<1>5. ASSUME NEW m \in 0..k, HeardFirst(heardParams, mark, accepted, m)
      PROVE  HeardFirst(heardParams', mark, accepted, m)
  <2>1. CASE heardParams' = heardParams
    BY <1>5, <2>1
  <2>2. CASE heardParams' = Append(heardParams, word[2])
    <3> HIDE DEF word
    <3>1. m \in Nat
      BY <1>3
    <3>2. QED
      BY <1>3, <1>5, <2>2, <3>1, HeardMore, Zenon
  <2>3. QED
    BY <1>4, <2>1, <2>2
<1>6. \/ HeardFirst(heardParams', mark, accepted, k)
      \/ \E m \in 0..k : /\ pos' = 4 * m
                         /\ HeardFirst(heardParams', mark, accepted, m)
                         /\ Len(heardParams') = mark + m
  <2>1. CASE HeardFirst(heardParams, mark, accepted, k)
    BY <1>3, <1>5, <2>1
  <2>2. ASSUME NEW m \in 0..k, m # k, pos = 4 * m,
               HeardFirst(heardParams, mark, accepted, m),
               Len(heardParams) = mark + m
        PROVE  /\ pos' = 4 * (m + 1) /\ m + 1 \in 0..k
               /\ HeardFirst(heardParams', mark, accepted, m + 1)
               /\ Len(heardParams') = mark + (m + 1)
    <3> DEFINE c == accepted[m + 1]
    <3>1. m + 1 \in 1..k /\ m \in Nat
      BY <1>3, <2>2
    <3>2. \A part \in 1..4 : At(pos + part - 1) = Param(c, part)
      <4>1. \A part \in 1..4 : /\ 4 * ((m + 1) - 1) + part - 1 \in DOMAIN mem
                               /\ mem[4 * ((m + 1) - 1) + part - 1] = Param(c, part)
        BY <1>2, <3>1 DEF CleanBlock, Stored
      <4>2. \A part \in 1..4 : 4 * ((m + 1) - 1) + part - 1 = pos + part - 1
        BY <2>2, <3>1
      <4>3. QED
        BY <4>1, <4>2 DEF At
    <3>3. word = Param(c, 1)
      <4>1. pos + 1 - 1 = pos
        BY <1>3
      <4>2. QED
        BY <3>2, <4>1
    <3>4. word[1] = "param" /\ word[2] = c /\ word[3] = 1
      BY <3>3 DEF Param
    <3>5. heardParams' = Append(heardParams, c)
      BY <3>2, <3>4 DEF ReadMessage
    <3>6. pos' = pos + 4
      BY <3>4 DEF ReadMessage, SizeOf
    <3>7. /\ HeardFirst(heardParams', mark, accepted, m + 1)
          /\ Len(heardParams') = Len(heardParams) + 1
      <4>1. c \in Nat
        BY <1>3, <3>4
      <4>2. c = accepted[m + 1]
        OBVIOUS
      <4> HIDE DEF c, word, k
      <4>3. QED
        BY <1>3, <2>2, <3>1, <3>5, <4>1, <4>2, HeardMore, Zenon
    <3>8. QED
      BY <1>3, <2>2, <3>1, <3>6, <3>7
  <2>3. QED
    BY <1>1, <1>2, <2>1, <2>2 DEF CleanBlock
<1>7. QED
  BY <1>1, <1>2, <1>6 DEF CleanBlock, AllIdle, Pending

\* The inductive invariant of a clean cycle.
LEMMA CleanInvariance == Spec => [](IdleIsDone /\ CleanCycle)
<1>1. Init => IdleIsDone /\ CleanCycle
  <2> SUFFICES ASSUME Init PROVE IdleIsDone /\ CleanCycle
    OBVIOUS
  <2>1. Pending = 0
    BY DEF Init, Pending
  <2>2. Stored(mem, accepted, 0)
    BY DEF Stored
  <2>3. QED
    BY <2>1, <2>2 DEF Init, IdleIsDone, CleanCycle, CleanPort, AllIdle
<1>2. TypeOK /\ IdleIsDone /\ CleanCycle /\ [Next]_vars
        => (IdleIsDone /\ CleanCycle)'
  <2> SUFFICES ASSUME TypeOK, IdleIsDone, CleanCycle, [Next]_vars
               PROVE  IdleIsDone' /\ CleanCycle'
    OBVIOUS
  <2>1. CASE PrepareToPlay \/ UNCHANGED vars
    <3>1. UNCHANGED <<mem, length, pcS, dst, change, todo, pcA, index, pos,
                      heardParams, mark, accepted, clean>>
      BY <2>1 DEF PrepareToPlay, vars, setterVars, blockVars, heardVars
    <3>2. IdleIsDone'
      BY <3>1 DEF IdleIsDone
    <3>3. AllIdle' = AllIdle /\ Pending' = Pending
      BY <3>1 DEF AllIdle, Pending
    <3>4. CleanPort => CleanPort'
      BY <3>1, <3>3 DEF CleanPort, ActiveSetter
    <3>5. CleanBlock => CleanBlock'
      BY <3>1, <3>3 DEF CleanBlock
    <3>6. QED
      BY <3>1, <3>2, <3>4, <3>5 DEF CleanCycle
  <2>2. ASSUME NEW s \in Setters, SetterStep(s)
        PROVE  IdleIsDone' /\ CleanCycle'
    BY <2>2, CleanAccept, CleanStoreLength, CleanStoreWords, CleanReturn
    DEF SetterStep
  <2>3. CASE AudioStep
    <3>1. IdleIsDone'
      BY <2>3
      DEF IdleIsDone, AudioStep, PreProcess, AppendNote, AppendSysex,
          SetLength, ReadMessage, PluginDone, PostProcess, setterVars
    <3>2. CASE PreProcess \/ AppendNote \/ AppendSysex \/ SetLength
      BY <3>1, <3>2, CleanAppend DEF CleanCycle
    <3>3. CASE ReadMessage
      BY <3>1, <3>3, CleanRead DEF CleanCycle
    <3>4. CASE PluginDone
      <4>1. ASSUME clean PROVE CleanBlock'
        <5>1. /\ pcA = "plugin" /\ pcA' = "post" /\ 4 * pos >= length
              /\ UNCHANGED <<mem, length, pcS, index, accepted, heardParams,
                             mark>>
          BY <3>4 DEF PluginDone, setterVars, blockVars, heardVars
        <5>2. CleanBlock /\ length = 4 * index /\ index >= 16 * Pending
          BY <4>1, <5>1 DEF CleanCycle, CleanBlock
        <5>3. Pending \in Nat /\ index \in Nat
          BY LenProperties DEF TypeOK, Pending
        <5>4. HeardFirst(heardParams, mark, accepted, Pending)
          <6>1. ASSUME NEW m \in 0..Pending, pos = 4 * m PROVE m = Pending
            BY <5>1, <5>2, <5>3, <6>1
          <6>2. QED
            BY <5>1, <5>2, <6>1 DEF CleanBlock
        <5>5. QED
          BY <5>1, <5>2, <5>4 DEF CleanBlock, AllIdle, Pending
      <4>2. clean' = clean /\ pcA' # "idle"
        BY <3>4 DEF PluginDone
      <4>3. QED
        BY <3>1, <4>1, <4>2 DEF CleanCycle
    <3>5. CASE PostProcess
      <4>1. /\ pcA' = "idle" /\ length' = 0 /\ accepted' = <<>>
            /\ clean' = AllIdle /\ pcS' = pcS
        BY <3>5 DEF PostProcess, setterVars
      <4>2. Pending' = 0
        BY <4>1 DEF Pending
      <4>3. Stored(mem', accepted', 0)
        BY DEF Stored
      <4>4. ASSUME clean' PROVE CleanPort'
        <5>1. \A s \in Setters : pcS'[s] = "idle"
          BY <4>1, <4>4 DEF AllIdle
        <5>2. length' = 16 * Pending' /\ Stored(mem', accepted', Pending')
          BY <4>1, <4>2, <4>3
        <5>3. QED
          BY <5>1, <5>2 DEF CleanPort
      <4>5. QED
        BY <3>1, <4>1, <4>4 DEF CleanCycle
    <3>6. QED
      BY <2>3, <3>2, <3>3, <3>4, <3>5 DEF AudioStep
  <2>4. QED
    BY <2>1, <2>2, <2>3 DEF Next
<1>3. QED
  BY <1>1, <1>2, PortTyping, PTL DEF Spec

\* When no setter gets in the way, the plugin reads the changes that were
\* accepted since the last block, each of them, in order, before anything that
\* the port's stale words may add.
THEOREM ChangesComeFirst == Spec => []CleanChangesFirst
<1>1. TypeOK /\ CleanCycle => CleanChangesFirst
  <2> SUFFICES ASSUME TypeOK, CleanCycle, pcA = "post", clean
               PROVE  \E n \in mark..Len(heardParams) :
                        SubSeq(heardParams, mark + 1, n) = accepted
    BY DEF CleanChangesFirst
  <2> DEFINE n == mark + Pending
             t == SubSeq(heardParams, mark + 1, n)
  <2>1. HeardFirst(heardParams, mark, accepted, Pending)
    BY DEF CleanCycle, CleanBlock
  <2>2. /\ mark \in Nat /\ Len(heardParams) \in Nat /\ Pending \in Nat
        /\ accepted \in Seq(Nat)
    <3>1. accepted \in Seq(1..changes) /\ changes \in Nat
      BY SizesAssumption DEF TypeOK
    <3>2. accepted \in Seq(Nat)
      BY <3>1, SeqOver, LenProperties
    <3>3. QED
      BY <3>2, LenProperties DEF TypeOK, Pending
  <2>3. n \in mark..Len(heardParams)
    BY <2>1, <2>2 DEF HeardFirst
  <2>4. \A i \in mark + 1..n : heardParams[i] \in Nat
    BY <2>2, <2>3, LenProperties DEF TypeOK
  <2>5. /\ t \in Seq(Nat) /\ Len(t) = Pending
        /\ \A j \in 1..Pending : t[j] = heardParams[mark + j]
    <3>1. /\ t \in Seq(Nat)
          /\ Len(t) = IF mark + 1 <= n THEN n - (mark + 1) + 1 ELSE 0
          /\ \A j \in 1..n - (mark + 1) + 1 : t[j] = heardParams[(mark + 1) + j - 1]
      BY <2>2, <2>4, SubSeqProperties
    <3>2. n - (mark + 1) + 1 = Pending /\ (mark + 1 <= n <=> Pending # 0)
      BY <2>2
    <3>3. \A j \in 1..Pending : (mark + 1) + j - 1 = mark + j
      BY <2>2
    <3> HIDE DEF t, n
    <3>4. QED
      BY <2>2, <3>1, <3>2, <3>3
  <2>6. t = accepted
    BY <2>1, <2>2, <2>5, SeqEqual DEF HeardFirst, Pending
  <2>7. QED
    BY <2>3, <2>6
<1>2. QED
  BY <1>1, PortTyping, CleanInvariance, PTL

-----------------------------------------------------------------------------
(* The notes of a clean block.                                             *)

\* The words before n are these notes and timestamps: note i is word w[i].
NotesAt(words, n, notes, w) ==
  /\ w \in [1..Len(notes) -> 0..n - 1]
  /\ \A i, j \in 1..Len(notes) : i < j => w[i] < w[j]
  /\ \A i \in 1..Len(notes) : words[w[i]] = notes[i]
  /\ \A x \in 0..n - 1 :
       /\ x \in DOMAIN words /\ words[x][3] = 1
       /\ \/ words[x][1] = "time"
          \/ words[x][1] = "note" /\ \E i \in 1..Len(notes) : w[i] = x

\* The first m of them were read: those before word p.
NotesRead(notes, heard, w, m, p) ==
  /\ m \in 0..Len(notes) /\ Len(heard) = m
  /\ \A i \in 1..m : heard[i] = notes[i]
  /\ \A i \in 1..Len(notes) : i <= m <=> w[i] < p

\* A block in which no setter was active, behind no change, has only notes.
NotesOnly ==
  /\ pcA # "idle" /\ clean /\ accepted = <<>>
  /\ \A i \in 1..Len(played) : IsNote(played[i])

NoteBlock ==
  NotesOnly =>
    /\ pcA = "append" => /\ heardNotes = <<>>
                         /\ \E w : NotesAt(mem, index, played, w)
    /\ pcA = "plugin" => \E w : /\ NotesAt(mem, index, played, w)
                                /\ \E m : NotesRead(played, heardNotes, w, m, pos)
    /\ pcA = "post" => heardNotes = played

\* One note more, behind its timestamp or not.
LEMMA NoteAdded ==
  ASSUME NEW words, NEW words2, NEW n \in Nat, NEW k \in {1, 2},
         NEW notes \in Seq(Word), NEW note \in Word, NEW notes2, NEW w,
         NotesAt(words, n, notes, w), note[1] = "note", note[3] = 1,
         \A x \in 0..n - 1 : x \in DOMAIN words2 /\ words2[x] = words[x],
         n + k - 1 \in DOMAIN words2, words2[n + k - 1] = note,
         k = 2 => /\ n \in DOMAIN words2
                  /\ words2[n][1] = "time" /\ words2[n][3] = 1,
         notes2 = Append(notes, note)
  PROVE  \E v : NotesAt(words2, n + k, notes2, v)
<1> DEFINE l == Len(notes)
           v == [i \in 1..l + 1 |-> IF i = l + 1 THEN n + k - 1 ELSE w[i]]
<1>1. /\ l \in Nat /\ Len(notes2) = l + 1 /\ notes2[l + 1] = note
      /\ \A i \in 1..l : notes2[i] = notes[i]
  BY Longer, LenProperties
<1>2. /\ \A i \in 1..l : v[i] = w[i] /\ w[i] \in 0..n - 1
      /\ v[l + 1] = n + k - 1
  <2>1. w \in [1..l -> 0..n - 1]
    BY DEF NotesAt
  <2>2. /\ \A i \in 1..l : i \in 1..l + 1 /\ i # l + 1
        /\ l + 1 \in 1..l + 1
    BY <1>1
  <2> HIDE DEF l
  <2>3. QED
    BY <2>1, <2>2
<1>3. \A i \in 1..l + 1 : i \in 1..l \/ i = l + 1
  BY <1>1
<1>4. v \in [1..l + 1 -> 0..(n + k) - 1]
  <2> HIDE DEF l
  <2>1. ASSUME NEW i \in 1..l + 1 PROVE v[i] \in 0..(n + k) - 1
    <3> HIDE DEF v
    <3>1. QED
      BY <1>2, <1>3, SMTT(30)
  <2>2. QED
    BY <2>1
<1> HIDE DEF v, l
<1>5. ASSUME NEW i \in 1..l + 1, NEW j \in 1..l + 1, i < j PROVE v[i] < v[j]
  <2>1. i \in 1..l
    BY <1>1, <1>3, <1>5
  <2>2. CASE j \in 1..l
    BY <1>2, <1>5, <2>1, <2>2 DEF NotesAt, l
  <2>3. CASE j = l + 1
    BY <1>2, <2>1, <2>3
  <2>4. QED
    BY <1>3, <2>2, <2>3
<1>6. ASSUME NEW i \in 1..l + 1 PROVE words2[v[i]] = notes2[i]
  <2>1. CASE i \in 1..l
    <3>1. words2[v[i]] = words[w[i]] /\ notes2[i] = notes[i]
      BY <1>1, <1>2, <2>1
    <3>2. QED
      BY <2>1, <3>1 DEF NotesAt, l
  <2>2. CASE i = l + 1
    BY <1>1, <1>2, <2>2
  <2>3. QED
    BY <1>3, <2>1, <2>2
<1>7. ASSUME NEW x \in 0..(n + k) - 1
      PROVE  /\ x \in DOMAIN words2 /\ words2[x][3] = 1
             /\ \/ words2[x][1] = "time"
                \/ words2[x][1] = "note" /\ \E i \in 1..l + 1 : v[i] = x
  <2>1. CASE x \in 0..n - 1
    <3>1. /\ words[x][3] = 1
          /\ \/ words[x][1] = "time"
             \/ words[x][1] = "note" /\ \E i \in 1..l : w[i] = x
      BY <2>1 DEF NotesAt, l
    <3>2. x \in DOMAIN words2 /\ words2[x] = words[x]
      BY <2>1
    <3>3. (\E i \in 1..l : w[i] = x) => \E i \in 1..l + 1 : v[i] = x
      <4> SUFFICES ASSUME NEW i \in 1..l, w[i] = x
                   PROVE  i \in 1..l + 1 /\ v[i] = x
        OBVIOUS
      <4>1. i \in 1..l + 1
        BY <1>1
      <4>2. QED
        BY <1>2, <4>1
    <3>4. words2[x][1] = words[x][1] /\ words2[x][3] = 1
      BY <3>1, <3>2
    <3>5. \/ words2[x][1] = "time"
          \/ words2[x][1] = "note" /\ \E i \in 1..l + 1 : v[i] = x
      BY <3>1, <3>3, <3>4, Zenon
    <3>6. QED
      BY <3>2, <3>4, <3>5, Zenon
  <2>2. CASE x = n + k - 1
    <3>1. l + 1 \in 1..l + 1
      BY <1>1
    <3>2. QED
      BY <1>2, <2>2, <3>1
  <2>3. CASE x = n /\ k = 2
    BY <2>3
  <2>4. x \in 0..n - 1 \/ x = n + k - 1 \/ (x = n /\ k = 2)
    OBVIOUS
  <2>5. QED
    BY <2>1, <2>2, <2>3, <2>4
<1>8. QED
  <2>1. Len(notes2) = l + 1 /\ (n + k) - 1 \in Int
    BY <1>1
  <2>2. NotesAt(words2, n + k, notes2, v)
    BY <1>4, <1>5, <1>6, <1>7, <2>1 DEF NotesAt
  <2>3. QED
    BY <2>2

\* A timestamp is read over.
LEMMA TimeRead ==
  ASSUME NEW words, NEW n \in Nat, NEW notes \in Seq(Word), NEW heard,
         NEW w, NEW m, NEW p \in 0..n - 1,
         NotesAt(words, n, notes, w), NotesRead(notes, heard, w, m, p),
         \A i \in 1..Len(notes) : IsNote(notes[i]), words[p][1] = "time"
  PROVE  NotesRead(notes, heard, w, m, p + 1)
<1>1. ASSUME NEW i \in 1..Len(notes) PROVE w[i] # p /\ w[i] \in Int
  BY DEF NotesAt, IsNote
<1>2. ASSUME NEW i \in 1..Len(notes) PROVE w[i] < p + 1 <=> w[i] < p
  BY <1>1
<1>3. QED
  BY <1>2 DEF NotesRead

\* A note is the next one that was not read.
LEMMA NoteRead ==
  ASSUME NEW words, NEW n \in Nat, NEW notes \in Seq(Word), NEW heard \in Seq(Word),
         NEW w, NEW m, NEW p \in 0..n - 1, NEW heard2,
         NotesAt(words, n, notes, w), NotesRead(notes, heard, w, m, p),
         words[p][1] = "note", heard2 = Append(heard, words[p])
  PROVE  NotesRead(notes, heard2, w, m + 1, p + 1)
<1> DEFINE l == Len(notes)
<1>1. /\ l \in Nat /\ m \in Nat /\ m <= l /\ Len(heard) = m
      /\ \A i \in 1..l : w[i] \in Int
  BY LenProperties, SMTT(30) DEF NotesRead, NotesAt
<1>2. PICK i \in 1..l : w[i] = p
  BY DEF NotesAt
<1> HIDE DEF l
<1>3. i = m + 1
  <2>1. ~(i <= m)
    BY <1>2 DEF NotesRead, l
  <2>2. ASSUME m + 1 < i PROVE FALSE
    <3>1. m + 1 \in 1..l
      BY <1>1, <1>2, <2>2
    <3>2. w[m + 1] < w[i]
      BY <1>2, <2>2, <3>1 DEF NotesAt, l
    <3>3. m + 1 <= m
      BY <1>2, <3>1, <3>2 DEF NotesRead, l
    <3>4. QED
      BY <1>1, <3>3
  <2>3. QED
    BY <1>1, <2>1, <2>2
<1>4. words[p] = notes[m + 1] /\ notes[m + 1] \in Word
  <2>1. words[w[i]] = notes[i]
    BY <1>2 DEF NotesAt, l
  <2>2. notes[i] \in Word
    BY <1>2, LenProperties DEF l
  <2>3. QED
    BY <1>2, <1>3, <2>1, <2>2
<1>5. /\ Len(heard2) = m + 1 /\ heard2[m + 1] = notes[m + 1]
      /\ \A j \in 1..m : heard2[j] = heard[j]
  BY <1>1, <1>4, Longer
<1>6. ASSUME NEW j \in 1..m + 1 PROVE heard2[j] = notes[j]
  <2>1. CASE j = m + 1
    BY <1>5, <2>1
  <2>2. CASE j \in 1..m
    BY <1>5, <2>2 DEF NotesRead
  <2>3. QED
    BY <1>1, <2>1, <2>2
<1>7. ASSUME NEW j \in 1..l PROVE j <= m + 1 <=> w[j] < p + 1
  <2>1. CASE j <= m
    <3>1. w[j] < p
      BY <2>1 DEF NotesRead, l
    <3>2. QED
      BY <1>1, <2>1, <3>1
  <2>2. CASE j = m + 1
    BY <1>1, <1>2, <1>3, <2>2
  <2>3. CASE m + 1 < j
    <3>1. w[m + 1] < w[j]
      BY <1>2, <1>3, <2>3 DEF NotesAt, l
    <3>2. QED
      BY <1>1, <1>2, <1>3, <2>3, <3>1
  <2>4. QED
    BY <1>1, <2>1, <2>2, <2>3
<1>8. QED
  BY <1>1, <1>2, <1>3, <1>5, <1>6, <1>7 DEF NotesRead, l

\* No setter acts within such a block, nor makes one.
LEMMA SetterAway ==
  ASSUME TypeOK, IdleIsDone, CleanCycle, NEW s \in Setters, SetterStep(s)
  PROVE  NoteBlock'
<1>1. CASE ParameterValueChanged(s)
  <2>1. accepted' = Append(accepted, changes') /\ changes' \in 1..changes'
    BY <1>1, SizesAssumption DEF ParameterValueChanged, TypeOK
  <2>2. accepted \in Seq(Nat) /\ changes' \in Nat
    <3>1. accepted \in Seq(1..changes) /\ changes \in Nat
      BY SizesAssumption DEF TypeOK
    <3>2. QED
      BY <2>1, <3>1, SeqOver, LenProperties
  <2>3. accepted' # <<>>
    BY <2>1, <2>2, AppendProperties
  <2>4. QED
    BY <2>3 DEF NoteBlock, NotesOnly
<1>2. CASE StoreLength(s) \/ StoreWords(s) \/ ParameterReturn(s)
  <2>1. /\ pcS[s] = "storing" \/ todo[s] # {}
        /\ clean' = clean /\ pcA' = pcA
    BY <1>2 DEF StoreLength, StoreWords, ParameterReturn
  <2>2. ~(clean' /\ pcA' # "idle")
    BY <2>1, ActiveAlone
  <2>3. QED
    BY <2>2 DEF NoteBlock, NotesOnly
<1>3. QED
  BY <1>1, <1>2 DEF SetterStep

\* preProcessBuffers starts on an empty port: there was no change before it.
LEMMA NotesStart ==
  ASSUME TypeOK, CleanCycle, PreProcess
  PROVE  NoteBlock'
<1> SUFFICES ASSUME NotesOnly'
             PROVE  heardNotes' = <<>> /\ \E w : NotesAt(mem', index', played', w)
  BY DEF NoteBlock, PreProcess
<1>1. /\ clean /\ AllIdle /\ pcA = "idle" /\ accepted = <<>>
      /\ index' = length /\ played' = <<>> /\ heardNotes' = <<>>
  BY DEF PreProcess, NotesOnly
<1>2. index' = 0
  <2>1. Pending = 0
    BY <1>1 DEF Pending
  <2>2. QED
    BY <1>1, <2>1 DEF CleanCycle, CleanPort
<1>3. NotesAt(mem', 0, <<>>, [i \in 1..0 |-> 0])
  <2>1. /\ Len(<<>>) = 0 /\ 1..0 = {} /\ 0..0 - 1 = {}
        /\ [i \in 1..0 |-> 0] \in [1..0 -> 0..0 - 1]
    OBVIOUS
  <2>2. QED
    BY <2>1 DEF NotesAt
<1>4. QED
  BY <1>1, <1>2, <1>3

\* A note is appended; after a sysex the block is not one of only notes.
LEMMA NotesAppend ==
  ASSUME TypeOK, NoteBlock, AppendNote \/ AppendSysex
  PROVE  NoteBlock'
<1> DEFINE n == Number
<1>1. /\ n \in Nat /\ index \in Nat
      /\ DOMAIN mem \subseteq Nat /\ \A i \in DOMAIN mem : mem[i] \in Word
      /\ played \in Seq(Word) /\ Len(played) \in Nat
  BY NumberType, LenProperties DEF TypeOK
<1>2. /\ Note(n) \in Word /\ Note(n)[1] = "note" /\ Note(n)[3] = 1
      /\ Timestamp(n)[1] = "time" /\ Timestamp(n)[3] = 1
      /\ Sysex(n, 1) \in Word /\ Sysex(n, 1)[1] # "note"
  <2> HIDE DEF n
  <2>1. Note(n) \in Word /\ Sysex(n, 1) \in Word
    BY <1>1, WordsType
  <2>2. QED
    BY <2>1 DEF Note, Timestamp, Sysex
<1> HIDE DEF n
<1>3. PICK note \in {Note(n), Sysex(n, 1)} :
        /\ played' = Append(played, note)
        /\ AppendNote => note = Note(n)
        /\ AppendSysex => note = Sysex(n, 1)
  <2>1. ~(AppendNote /\ AppendSysex)
    BY DEF AppendNote, AppendSysex
  <2>2. QED
    BY <2>1 DEF AppendNote, AppendSysex, n
<1>4. /\ Len(played') = Len(played) + 1 /\ played'[Len(played) + 1] = note
      /\ \A i \in 1..Len(played) : played'[i] = played[i]
  BY <1>1, <1>2, <1>3, Longer
<1>5. /\ pcA = "append" /\ pcA' = "append"
      /\ UNCHANGED <<clean, accepted, heardNotes>>
  BY DEF AppendNote, AppendSysex
<1> SUFFICES ASSUME NotesOnly'
             PROVE  heardNotes' = <<>> /\ \E w : NotesAt(mem', index', played', w)
  BY <1>5 DEF NoteBlock
<1>6. AppendNote /\ note = Note(n)
  <2>1. IsNote(played'[Len(played) + 1])
    <3>1. Len(played) + 1 \in 1..Len(played')
      BY <1>1, <1>4
    <3>2. QED
      BY <3>1 DEF NotesOnly
  <2>2. QED
    BY <1>2, <1>3, <1>4, <2>1 DEF IsNote
<1>7. NotesOnly
  <2>1. \A i \in 1..Len(played) : i \in 1..Len(played') /\ played'[i] = played[i]
    BY <1>1, <1>4
  <2>2. \A i \in 1..Len(played) : IsNote(played[i])
    BY <2>1 DEF NotesOnly
  <2>3. QED
    BY <1>5, <2>2 DEF NotesOnly
<1>8. heardNotes = <<>> /\ \E w : NotesAt(mem, index, played, w)
  BY <1>5, <1>7 DEF NoteBlock
<1>9. PICK w : NotesAt(mem, index, played, w)
  BY <1>8
<1>10. PICK words \in {<<Timestamp(n), Note(n)>>, <<Note(n)>>} :
         mem' = Store(mem, index, words) /\ index' = index + Len(words)
  BY <1>6 DEF AppendNote, n
<1>11. \A x \in 0..index - 1 : x \in DOMAIN mem' /\ mem'[x] = mem[x]
  <2>1. \A x \in 0..index - 1 : x \in DOMAIN mem /\ x < index
    BY <1>1, <1>9 DEF NotesAt
  <2>2. QED
    BY <1>1, <1>10, <2>1, StoreKeeps
<1>12. PICK k \in {1, 2} :
         /\ index' = index + k
         /\ index + k - 1 \in DOMAIN mem' /\ mem'[index + k - 1] = Note(n)
         /\ k = 2 => index \in DOMAIN mem' /\ mem'[index] = Timestamp(n)
  <2>1. words \in Seq(Word)
    BY <1>1, <1>10, EventWords
  <2>2. CASE words = <<Note(n)>>
    <3>1. Len(words) = 1 /\ words[1] = Note(n) /\ 1 \in 1..Len(words)
      BY <1>1, <2>2, EventWords
    <3>2. index + 1 - 1 \in DOMAIN mem' /\ mem'[index + 1 - 1] = Note(n)
      BY <1>1, <1>10, <2>1, <3>1, StoreWrites, ZenonT(30)
    <3>3. QED
      BY <1>10, <3>1, <3>2
  <2>3. CASE words = <<Timestamp(n), Note(n)>>
    <3>1. /\ Len(words) = 2 /\ words[1] = Timestamp(n) /\ words[2] = Note(n)
          /\ 1 \in 1..Len(words) /\ 2 \in 1..Len(words)
      BY <1>1, <2>3, EventWords
    <3>2. index + 1 - 1 \in DOMAIN mem' /\ mem'[index + 1 - 1] = Timestamp(n)
      BY <1>1, <1>10, <2>1, <3>1, StoreWrites, ZenonT(30)
    <3>3. index + 2 - 1 \in DOMAIN mem' /\ mem'[index + 2 - 1] = Note(n)
      BY <1>1, <1>10, <2>1, <3>1, StoreWrites, ZenonT(30)
    <3>4. index + 1 - 1 = index
      BY <1>1
    <3>5. QED
      BY <1>10, <3>1, <3>2, <3>3, <3>4
  <2>4. QED
    BY <1>10, <2>2, <2>3
<1>13. \E v : NotesAt(mem', index + k, played', v)
  <2>1. k = 2 => /\ index \in DOMAIN mem'
                 /\ mem'[index][1] = "time" /\ mem'[index][3] = 1
    BY <1>2, <1>12
  <2>2. played' = Append(played, Note(n))
    BY <1>3, <1>6
  <2>3. QED
    BY <1>1, <1>2, <1>9, <1>11, <1>12, <2>1, <2>2, NoteAdded, Zenon
<1>14. QED
  BY <1>5, <1>8, <1>12, <1>13

\* The plugin reads a word of the block.
LEMMA NotesReadOn ==
  ASSUME TypeOK, CleanCycle, NoteBlock, ReadMessage
  PROVE  NoteBlock'
<1>1. /\ pcA = "plugin" /\ pcA' = "plugin" /\ 4 * pos < length
      /\ UNCHANGED <<mem, index, played, clean, accepted>>
  BY DEF ReadMessage
<1>2. /\ pos \in Nat /\ index \in Nat /\ length \in Nat
      /\ played \in Seq(Word) /\ heardNotes \in Seq(Word)
      /\ \A i \in DOMAIN mem : mem[i] \in Word
  BY DEF TypeOK
<1> SUFFICES ASSUME NotesOnly
             PROVE  \E w : /\ NotesAt(mem, index, played, w)
                           /\ \E m : NotesRead(played, heardNotes', w, m, pos')
  BY <1>1 DEF NoteBlock, NotesOnly
<1>3. pos \in 0..index - 1
  <2>1. length = 4 * index
    BY <1>1 DEF NotesOnly, CleanCycle, CleanBlock
  <2>2. QED
    BY <1>1, <1>2, <2>1
<1>4. PICK w : /\ NotesAt(mem, index, played, w)
               /\ \E m : NotesRead(played, heardNotes, w, m, pos)
  BY <1>1 DEF NoteBlock
<1>5. PICK m : NotesRead(played, heardNotes, w, m, pos)
  BY <1>4
<1>6. /\ pos \in DOMAIN mem /\ mem[pos][3] = 1 /\ mem[pos] \in Word
      /\ mem[pos][1] = "time" \/ mem[pos][1] = "note"
  BY <1>2, <1>3, <1>4 DEF NotesAt
<1>7. At(pos) = mem[pos] /\ SizeOf(mem[pos]) = 1
  BY <1>6 DEF At, SizeOf
<1>8. pos' = pos + 1
  BY <1>6, <1>7 DEF ReadMessage
<1>9. heardNotes' = IF mem[pos][1] = "note" THEN Append(heardNotes, mem[pos])
                                            ELSE heardNotes
  BY <1>7 DEF ReadMessage
<1>10. CASE mem[pos][1] = "time"
  <2>1. heardNotes' = heardNotes
    BY <1>9, <1>10
  <2>2. NotesRead(played, heardNotes, w, m, pos + 1)
    BY <1>2, <1>3, <1>4, <1>5, <1>10, TimeRead DEF NotesOnly
  <2>3. QED
    BY <1>4, <1>8, <2>1, <2>2
<1>11. CASE mem[pos][1] = "note"
  <2>1. heardNotes' = Append(heardNotes, mem[pos])
    BY <1>9, <1>11
  <2>2. NotesRead(played, heardNotes', w, m + 1, pos + 1)
    BY <1>2, <1>3, <1>4, <1>5, <1>11, <2>1, NoteRead, Zenon
  <2>3. QED
    BY <1>4, <1>8, <2>2
<1>12. QED
  BY <1>6, <1>10, <1>11

\* The inductive invariant of the blocks of notes.
LEMMA NotesInvariance == Spec => []NoteBlock
<1>1. Init => NoteBlock
  BY DEF Init, NoteBlock, NotesOnly
<1>2. TypeOK /\ IdleIsDone /\ CleanCycle /\ NoteBlock /\ [Next]_vars
        => NoteBlock'
  <2> SUFFICES ASSUME TypeOK, IdleIsDone, CleanCycle, NoteBlock, [Next]_vars
               PROVE  NoteBlock'
    OBVIOUS
  <2>1. CASE PrepareToPlay \/ UNCHANGED vars
    BY <2>1 DEF PrepareToPlay, vars, blockVars, heardVars, NoteBlock, NotesOnly
  <2>2. CASE SetLength
    <3>1. /\ pcA = "append" /\ pcA' = "plugin" /\ pos' = 0
          /\ UNCHANGED <<mem, index, played, heardNotes, clean, accepted>>
      BY <2>2 DEF SetLength, heardVars
    <3> SUFFICES ASSUME NotesOnly
                 PROVE  \E w : /\ NotesAt(mem, index, played, w)
                               /\ \E m : NotesRead(played, heardNotes, w, m, pos')
      BY <3>1 DEF NoteBlock, NotesOnly
    <3>2. heardNotes = <<>> /\ \E w : NotesAt(mem, index, played, w)
      BY <3>1 DEF NoteBlock
    <3>3. PICK w : NotesAt(mem, index, played, w)
      BY <3>2
    <3>4. NotesRead(played, heardNotes, w, 0, pos')
      <4>1. Len(played) \in Nat /\ Len(heardNotes) = 0
        BY <3>2, LenProperties DEF TypeOK
      <4>2. ASSUME NEW i \in 1..Len(played) PROVE ~(i <= 0) /\ ~(w[i] < 0)
        BY <3>3, <4>1 DEF NotesAt
      <4>3. QED
        BY <3>1, <4>1, <4>2 DEF NotesRead
    <3>5. QED
      BY <3>3, <3>4
  <2>3. CASE PluginDone
    <3>1. /\ pcA = "plugin" /\ pcA' = "post" /\ 4 * pos >= length
          /\ UNCHANGED <<mem, index, played, heardNotes, clean, accepted>>
      BY <2>3 DEF PluginDone, blockVars, heardVars
    <3> SUFFICES ASSUME NotesOnly PROVE heardNotes = played
      BY <3>1 DEF NoteBlock, NotesOnly
    <3>2. PICK w : /\ NotesAt(mem, index, played, w)
                   /\ \E m : NotesRead(played, heardNotes, w, m, pos)
      BY <3>1 DEF NoteBlock
    <3>3. PICK m : NotesRead(played, heardNotes, w, m, pos)
      BY <3>2
    <3>4. /\ pos \in Nat /\ index \in Nat /\ Len(played) \in Nat
          /\ played \in Seq(Word) /\ heardNotes \in Seq(Word)
      BY LenProperties DEF TypeOK
    <3>5. pos >= index
      <4>1. length = 4 * index
        BY <3>1 DEF NotesOnly, CleanCycle, CleanBlock
      <4>2. QED
        BY <3>1, <3>4, <4>1
    <3>6. m = Len(played)
      <4>1. ASSUME Len(played) \in 1..Len(played) PROVE Len(played) <= m
        <5>1. w[Len(played)] \in 0..index - 1
          BY <3>2, <4>1 DEF NotesAt
        <5>2. w[Len(played)] < pos
          BY <3>4, <3>5, <5>1
        <5>3. QED
          BY <3>3, <4>1, <5>2 DEF NotesRead
      <4>2. QED
        BY <3>3, <3>4, <4>1 DEF NotesRead
    <3>7. QED
      BY <3>3, <3>4, <3>6, SeqEqual DEF NotesRead
  <2>4. CASE PostProcess
    BY <2>4 DEF PostProcess, NoteBlock, NotesOnly
  <2>5. QED
    BY <2>1, <2>2, <2>3, <2>4, SetterAway, NotesStart, NotesAppend,
       NotesReadOn
    DEF Next, AudioStep
<1>3. QED
  BY <1>1, <1>2, PortTyping, CleanInvariance, PTL DEF Spec

\* When no setter gets in the way and none has set anything, the plugin reads
\* the notes of a block without sysex, once each and in order: of the words
\* that earlier blocks left on the port it reads none.
THEOREM BlockNotesArrive == Spec => []CleanBlockNotes
<1>1. TypeOK /\ NoteBlock => CleanBlockNotes
  <2> SUFFICES ASSUME TypeOK, NoteBlock, pcA = "post", clean, accepted = <<>>,
                      \A i \in DOMAIN played : IsNote(played[i])
               PROVE  heardNotes = played
    BY DEF CleanBlockNotes
  <2>1. DOMAIN played = 1..Len(played)
    BY LenProperties DEF TypeOK
  <2>2. NotesOnly
    BY <2>1 DEF NotesOnly
  <2>3. QED
    BY <2>2 DEF NoteBlock
<1>2. QED
  BY <1>1, PortTyping, NotesInvariance, PTL
=============================================================================
