---------------------- MODULE ParameterChangesProofs ----------------------
(***************************************************************************)
(* Theorems about ParameterChanges, for any set of threads, any plugin and *)
(* any number of parameters.                                               *)
(***************************************************************************)
EXTENDS ParameterChanges, SequenceTheorems, TLAPS

-----------------------------------------------------------------------------
(* Lemmas about the encoding of a list of changes.                         *)

\* The wire form of a change is a message.
LEMMA WireType == \A c \in Change : Wire(c) \in Message
BY DEF Wire, Change, Message

\* Encoding keeps the length and turns changes into messages.
LEMMA EncodeType ==
  ASSUME NEW s \in Seq(Change)
  PROVE  /\ Encode(s) \in Seq(Message)
         /\ Len(Encode(s)) = Len(s)
         /\ \A i \in 1..Len(s) : Encode(s)[i] = Wire(s[i])
<1>1. \A i \in 1..Len(s) : Wire(s[i]) \in Message
  BY WireType, LenProperties
<1>2. QED
  BY <1>1, LenProperties DEF Encode

\* Nothing is encoded as nothing.
LEMMA EncodeEmpty == Encode(<<>>) = <<>>
<1>1. <<>> \in Seq(Change) /\ Len(<<>>) = 0
  BY EmptySeq
<1>2. QED
  BY <1>1, EncodeType, EmptySeq, SeqEqual

\* The encoding of one change more ends in its message.
LEMMA EncodeAppend ==
  ASSUME NEW s \in Seq(Change), NEW c \in Change
  PROVE  Encode(Append(s, c)) = Append(Encode(s), Wire(c))
<1> DEFINE a == Encode(Append(s, c))
           b == Append(Encode(s), Wire(c))
<1>1. Append(s, c) \in Seq(Change) /\ Len(Append(s, c)) = Len(s) + 1
  BY AppendProperties
<1>2. a \in Seq(Message) /\ Len(a) = Len(s) + 1
  BY <1>1, EncodeType
<1>3. b \in Seq(Message) /\ Len(b) = Len(s) + 1
  BY WireType, EncodeType, AppendProperties
<1>4. ASSUME NEW i \in 1..Len(s) + 1 PROVE a[i] = b[i]
  <2>0. Len(s) \in Nat /\ a[i] = Wire(Append(s, c)[i])
    BY <1>1, EncodeType, LenProperties
  <2>1. CASE i = Len(s) + 1
    BY <2>0, <2>1, WireType, EncodeType, AppendProperties
  <2>2. CASE i \in 1..Len(s)
    <3>1. Append(s, c)[i] = s[i]
      BY <2>2, AppendProperties
    <3>2. b[i] = Encode(s)[i]
      BY <2>2, WireType, EncodeType, AppendProperties
    <3>3. QED
      BY <2>0, <2>2, <3>1, <3>2, EncodeType
  <2>3. i = Len(s) + 1 \/ i \in 1..Len(s)
    BY <2>0
  <2>4. QED
    BY <2>1, <2>2, <2>3
<1>5. QED
  BY <1>2, <1>3, <1>4, SeqEqual

\* The beginning of a sequence is cut out of it by its length.
LEMMA PrefixByLength ==
  ASSUME NEW S, NEW s \in Seq(S), NEW t \in Seq(S)
  PROVE  SubSeq(s \o t, 1, Len(s)) = s
<1> DEFINE c == SubSeq(s \o t, 1, Len(s))
<1>1. Len(s) \in Nat /\ Len(t) \in Nat /\ \A i \in 1..Len(s) : s[i] \in S
  BY LenProperties
<1>2. /\ s \o t \in Seq(S)
      /\ \A i \in 1..Len(s) : (s \o t)[i] = s[i]
  BY <1>1, ConcatProperties
<1>3. /\ c \in Seq(S)
      /\ Len(c) = Len(s)
      /\ \A i \in 1..Len(s) : c[i] = (s \o t)[i]
  BY <1>1, <1>2, SubSeqProperties
<1>4. QED
  BY <1>2, <1>3, SeqEqual

-----------------------------------------------------------------------------
(* Type correctness.                                                       *)

\* The wrapper's constructor leaves everything in its type.
LEMMA TypingInit == Init => TypeOK
<1> USE ThreadsAssumption, DataAssumption
<1> SUFFICES ASSUME Init PROVE TypeOK
  OBVIOUS
<1>1. value \in [Params -> Values]
  BY DEF Init
<1>2. <<>> \in Seq(Change) /\ <<>> \in Seq(Message)
  BY EmptySeq
<1>3. [index |-> 0, value |-> Default] \in Change
  BY DEF Params, Change
<1>4. pc \in [Threads -> Label]
  BY DEF Init, Label, Idle
<1>5. /\ ret \in [Threads -> {"track", "compare", "compareOld"}]
      /\ resume \in [Threads -> {"idle", "input", "block", "loading"}]
      /\ next \in [Threads -> 0..NumParams]
      /\ change \in [Threads -> Change]
  BY <1>3 DEF Init
<1>6. /\ tracked \in [Params -> Values]
      /\ oldValues \in [Params -> Values]
      /\ snapshot \in [Threads -> [Params -> Values]]
  BY <1>1 DEF Init
<1>7. /\ pending \in Seq(Change) /\ reported \in Seq(Message)
      /\ inbox \in Seq(Change) /\ swapped \in Seq(Change)
      /\ portChanges \in Seq(Message) /\ delivered \in Seq(Message)
      /\ portMidi \in BOOLEAN /\ lock \in Threads \cup {NoThread}
      /\ ops \in Nat
  BY <1>2 DEF Init
<1>8. QED
  BY <1>1, <1>4, <1>5, <1>6, <1>7 DEF TypeOK

\* What the wrapper keeps has the types of its C++ declarations.
THEOREM Typing == Spec => []TypeOK
<1> USE ThreadsAssumption, DataAssumption
<1>1. Init => TypeOK
  BY TypingInit
<1>2. TypeOK /\ [Next]_vars => TypeOK'
  <2> SUFFICES ASSUME TypeOK, [Next]_vars PROVE TypeOK'
    OBVIOUS
  <2> USE DEF TypeOK, Goto, Label, Idle, Plugin, Callback, Cycle,
          listVars, localVars, portVars
  <2>1. ASSUME NEW t \in Threads, Edit(t) PROVE TypeOK'
    BY <2>1 DEF Edit, NotifyValue, Begin, Change
  <2>2. ASSUME NEW t \in Threads, UpdateHostDisplay(t) PROVE TypeOK'
    BY <2>2 DEF UpdateHostDisplay, NotifyDisplay, Begin
  <2>3. ASSUME NEW t \in Threads, CallbackStep(t) PROVE TypeOK'
    <3>1. CASE DropUnreportable(t)
      BY <3>1 DEF DropUnreportable
    <3>2. CASE LockPending(t)
      BY <3>2 DEF LockPending
    <3>3. CASE PushChange(t)
      BY <3>3, WireType, AppendProperties DEF PushChange
    <3>4. CASE Track(t)
      BY <3>4 DEF Track, Change
    <3>5. CASE CompareParameter(t)
      <4> SUFFICES ASSUME NEW b \in BOOLEAN, CompareWith(t, b),
                          pc[t] \in {"compare", "compareOld"},
                          next[t] < NumParams,
                          UNCHANGED <<value, tracked, listVars, resume,
                                      snapshot, oldValues, inbox, portVars,
                                      ops>>
                   PROVE  TypeOK'
        BY <3>5 DEF CompareParameter
      <4>1. next[t] \in Params /\ next[t] + 1 \in 0..NumParams
        BY DEF Params
      <4>2. [index |-> next[t], value |-> value[next[t]]] \in Change
        BY <4>1 DEF Change
      <4>3. QED
        BY <4>1, <4>2, ZenonT(30) DEF CompareWith
    <3>6. CASE CompareDone(t)
      BY <3>6 DEF CompareDone
    <3>7. CASE SnapshotValues(t)
      BY <3>7 DEF SnapshotValues
    <3>8. CASE AssignTracked(t)
      BY <3>8 DEF AssignTracked
    <3>9. QED
      BY <2>3, <3>1, <3>2, <3>3, <3>4, <3>5, <3>6, <3>7, <3>8 DEF CallbackStep
  <2>4. CASE SetState
    BY <2>4 DEF SetState, Begin
  <2>5. CASE SetPresetIndex
    BY <2>5 DEF SetPresetIndex, Begin
  <2>6. CASE SilentSet
    BY <2>6 DEF SilentSet, Change
  <2>7. CASE LoadStep
    <3>1. CASE StateLoaded
      BY <3>1 DEF StateLoaded
    <3>2. CASE ProgramChanged /\ NotifyDisplay(Main, "idle")
      BY <3>2 DEF ProgramChanged, NotifyDisplay
    <3>3. CASE ProgramChanged /\ ~NotifyDisplay(Main, "idle")
      BY <3>3 DEF ProgramChanged
    <3>4. QED
      BY <2>7, <3>1, <3>2, <3>3 DEF LoadStep
  <2>8. CASE ProcessStep
    <3>1. CASE ProcessStart
      <4>1. inbox' \in Seq(Change) /\ ops' \in Nat
        <5>1. \A c \in Change : <<c>> \in Seq(Change)
          OBVIOUS
        <5>2. <<>> \in Seq(Change)
          BY EmptySeq
        <5>3. CASE inbox' = <<>> /\ UNCHANGED ops
          BY <5>2, <5>3
        <5>4. CASE Begin("inbound") /\ \E c \in Change : inbox' = <<c>>
          BY <5>1, <5>4 DEF Begin
        <5>5. QED
          BY <3>1, <5>3, <5>4 DEF ProcessStart
      <4>2. pc' \in [Threads -> Label]
        BY <3>1 DEF ProcessStart
      <4>3. QED
        BY <3>1, <4>1, <4>2 DEF ProcessStart
    <3>2. CASE ParameterInput
      <4>1. Head(inbox) \in Change /\ Tail(inbox) \in Seq(Change)
        BY <3>2, HeadTailProperties DEF ParameterInput
      <4>2. QED
        BY <3>2, <4>1 DEF ParameterInput, NotifyValue, Change
    <3>3. CASE InputDone
      BY <3>3 DEF InputDone
    <3>4. CASE WriteMidiOutput
      <4>0. <<>> \in Seq(Message)
        BY EmptySeq
      <4>1. portMidi' \in BOOLEAN /\ portChanges' \in Seq(Message)
        <5>1. CASE HasOutPort
          BY <3>4, <4>0, <5>1 DEF WriteMidiOutput
        <5>2. CASE ~HasOutPort
          BY <3>4, <5>2 DEF WriteMidiOutput
        <5>3. QED
          BY <5>1, <5>2
      <4>2. pc' \in [Threads -> Label]
        BY <3>4 DEF WriteMidiOutput
      <4>3. QED
        BY <3>4, <4>1, <4>2 DEF WriteMidiOutput
    <3>5. CASE TakePending
      BY <3>5, EmptySeq DEF TakePending
    <3>6. CASE SkipFlush
      BY <3>6 DEF SkipFlush
    <3>7. CASE EmitChanges
      BY <3>7, EmptySeq, EncodeType, ConcatProperties DEF EmitChanges
    <3>8. CASE ProcessReturn
      BY <3>8, ConcatProperties DEF ProcessReturn
    <3>9. QED
      BY <2>8, <3>1, <3>2, <3>3, <3>4, <3>5, <3>6, <3>7, <3>8 DEF ProcessStep
  <2>9. CASE UNCHANGED vars
    BY <2>9 DEF vars
  <2>10. QED
    BY <2>1, <2>2, <2>3, <2>4, <2>5, <2>6, <2>7, <2>8, <2>9 DEF Next
<1>3. QED
  BY <1>1, <1>2, PTL DEF Spec

-----------------------------------------------------------------------------
(* The inductive invariant.                                                *)

\* A thread inside push_back owns the mutex.
PushOwnsLock == \A t \in Threads : pc[t] = "push" => lock = t

\* The local list of flushParameterChanges is only alive between the swap and
\* the end of the function.
SwappedIsLocal == pc[Audio] # "emit" => swapped = <<>>

\* Without a MIDI output port nothing is ever taken from the pending list.
NoPortNoChanges == ~HasOutPort => portChanges = <<>> /\ swapped = <<>>

IInv == TypeOK /\ PushOwnsLock /\ SwappedIsLocal /\ NoPortNoChanges
               /\ ReportsInOrder

\* A step of a thread t that leaves process() where it is.
LEMMA OtherStep ==
  ASSUME IInv, UNCHANGED <<listVars, portVars>>,
         NEW t \in Threads, NEW label \in Label, Goto(t, label),
         label # "push",
         pc[t] \notin {"flush", "emit", "return"},
         label \notin {"flush", "emit", "return"}
  PROVE  PushOwnsLock' /\ SwappedIsLocal' /\ NoPortNoChanges' /\ ReportsInOrder'
<1>1. /\ pc \in [Threads -> Label]
      /\ pc' = [pc EXCEPT ![t] = label]
  BY DEF IInv, TypeOK, Goto
<1>2. PushOwnsLock'
  BY <1>1 DEF IInv, PushOwnsLock, listVars
<1>3. /\ pc[Audio] = "emit" <=> pc'[Audio] = "emit"
      /\ pc[Audio] \in {"flush", "emit", "return"}
           <=> pc'[Audio] \in {"flush", "emit", "return"}
  BY <1>1, ThreadsAssumption
<1>4. SwappedIsLocal' /\ NoPortNoChanges'
  BY <1>3 DEF IInv, SwappedIsLocal, NoPortNoChanges, portVars
<1>5. ReportsInOrder'
  BY <1>3 DEF IInv, ReportsInOrder, Unread, listVars, portVars
<1>6. QED
  BY <1>2, <1>4, <1>5

\* lock_guard: the thread that gets the mutex is the only one inside.
LEMMA LockStep ==
  ASSUME IInv, NEW t \in Threads, LockPending(t)
  PROVE  PushOwnsLock' /\ SwappedIsLocal' /\ NoPortNoChanges' /\ ReportsInOrder'
<1>1. /\ pc \in [Threads -> Label]
      /\ pc' = [pc EXCEPT ![t] = "push"]
      /\ pc[t] = "enqueue"
  BY DEF IInv, TypeOK, LockPending, Goto
<1>2. \A u \in Threads : pc[u] # "push"
  BY ThreadsAssumption DEF IInv, PushOwnsLock, LockPending
<1>3. PushOwnsLock'
  BY <1>1, <1>2 DEF PushOwnsLock, LockPending
<1>4. SwappedIsLocal' /\ NoPortNoChanges'
  BY <1>1, ThreadsAssumption
  DEF IInv, SwappedIsLocal, NoPortNoChanges, LockPending, portVars
<1>5. ReportsInOrder'
  BY <1>1, ThreadsAssumption
  DEF IInv, ReportsInOrder, Unread, LockPending, portVars
<1>6. QED
  BY <1>3, <1>4, <1>5

\* push_back adds the change at the end of what is on its way.
LEMMA PushStep ==
  ASSUME IInv, NEW t \in Threads, PushChange(t)
  PROVE  PushOwnsLock' /\ SwappedIsLocal' /\ NoPortNoChanges' /\ ReportsInOrder'
<1> DEFINE front == delivered \o Unread \o Encode(swapped)
           c     == change[t]
<1>1. /\ TypeOK
      /\ pc' = [pc EXCEPT ![t] = ret[t]]
      /\ ret[t] \in {"track", "compare", "compareOld"}
      /\ pc[t] = "push"
  BY DEF IInv, TypeOK, PushChange, Goto
<1>2. PushOwnsLock'
  BY <1>1, ThreadsAssumption DEF IInv, TypeOK, PushOwnsLock, PushChange
<1>3. /\ pc'[Audio] \in {"flush", "emit", "return"}
           <=> pc[Audio] \in {"flush", "emit", "return"}
      /\ pc'[Audio] = "emit" <=> pc[Audio] = "emit"
  BY <1>1, ThreadsAssumption DEF TypeOK
<1>4. SwappedIsLocal' /\ NoPortNoChanges'
  BY <1>3 DEF IInv, SwappedIsLocal, NoPortNoChanges, PushChange, portVars
<1>5. ReportsInOrder'
  <2>1. c \in Change /\ Wire(c) \in Message /\ <<Wire(c)>> \in Seq(Message)
    BY <1>1, WireType DEF TypeOK
  <2>2. Encode(pending) \in Seq(Message) /\ Encode(swapped) \in Seq(Message)
    BY <1>1, EncodeType DEF TypeOK
  <2>3. Unread \in Seq(Message)
    BY <1>1, EmptySeq DEF TypeOK, Unread
  <2>4. front \in Seq(Message)
    BY <1>1, <2>2, <2>3, ConcatProperties DEF TypeOK
  <2>5. reported = front \o Encode(pending)
    BY DEF IInv, ReportsInOrder
  <2>6. Encode(pending') = Encode(pending) \o <<Wire(c)>>
    BY <1>1, <2>1, <2>2, EncodeAppend, AppendIsConcat DEF TypeOK, PushChange
  <2>7. reported' = reported \o <<Wire(c)>>
    BY <1>1, <2>1, AppendIsConcat DEF TypeOK, PushChange
  <2>8. reported' = front \o Encode(pending')
    BY <2>1, <2>2, <2>4, <2>5, <2>6, <2>7, ConcatAssociative, SMTT(30)
  <2>9. Unread' = Unread /\ delivered' = delivered /\ swapped' = swapped
    BY <1>3 DEF Unread, PushChange, portVars
  <2>10. QED
    BY <2>8, <2>9 DEF ReportsInOrder
<1>6. QED
  BY <1>2, <1>4, <1>5

\* Every step of process() hands the messages on without losing any: the port
\* is only overwritten after the host has read it.
LEMMA ProcessKeepsOrder ==
  ASSUME IInv, TypeOK', ProcessStep
  PROVE  PushOwnsLock' /\ SwappedIsLocal' /\ NoPortNoChanges' /\ ReportsInOrder'
<1> USE ThreadsAssumption
<1>0. /\ TypeOK
      /\ pc \in [Threads -> Label]
      /\ reported = delivered \o Unread \o Encode(swapped) \o Encode(pending)
      /\ delivered \in Seq(Message) /\ portChanges \in Seq(Message)
      /\ Encode(swapped) \in Seq(Message) /\ Encode(pending) \in Seq(Message)
  BY EncodeType DEF IInv, TypeOK, ReportsInOrder
<1>1. CASE ProcessStart
  BY <1>1, OtherStep DEF ProcessStart, Goto, Label, Cycle, portVars, listVars
<1>2. CASE ParameterInput
  BY <1>2, OtherStep
  DEF ParameterInput, NotifyValue, Goto, Label, Callback, portVars, listVars
<1>3. CASE InputDone
  BY <1>3, OtherStep DEF InputDone, Goto, Label, Cycle, portVars, listVars
<1>4. CASE WriteMidiOutput
  <2>1. pc' = [pc EXCEPT ![Audio] = "flush"] /\ pc[Audio] = "block"
    BY <1>4 DEF WriteMidiOutput, Goto
  <2>2. PushOwnsLock' /\ SwappedIsLocal'
    BY <1>0, <1>4, <2>1
    DEF IInv, PushOwnsLock, SwappedIsLocal, WriteMidiOutput, listVars
  <2>3. portChanges' = <<>>
    BY <1>4, DataAssumption DEF IInv, NoPortNoChanges, WriteMidiOutput
  <2>4. Unread = <<>> /\ Unread' = <<>>
    BY <1>0, <2>1, <2>3 DEF Unread
  <2>5. NoPortNoChanges'
    BY <1>4, <2>3 DEF IInv, NoPortNoChanges, WriteMidiOutput
  <2>6. ReportsInOrder'
    BY <1>0, <1>4, <2>4 DEF ReportsInOrder, WriteMidiOutput, listVars
  <2>7. QED
    BY <2>2, <2>5, <2>6
<1>5. CASE TakePending
  <2>1. pc' = [pc EXCEPT ![Audio] = "emit"] /\ pc[Audio] = "flush"
    BY <1>5 DEF TakePending, Goto
  <2>2. PushOwnsLock' /\ SwappedIsLocal' /\ NoPortNoChanges'
    BY <1>0, <1>5, <2>1
    DEF IInv, PushOwnsLock, SwappedIsLocal, NoPortNoChanges, TakePending
  <2>3. Unread = portChanges /\ Unread' = portChanges
    BY <1>0, <1>5, <2>1 DEF Unread, TakePending
  <2>4. Encode(swapped) = <<>> /\ Encode(pending') = <<>>
    BY <1>5, <2>1, EncodeEmpty DEF IInv, SwappedIsLocal, TakePending
  <2>5. delivered \o portChanges \in Seq(Message)
    BY <1>0, ConcatProperties
  <2>6. reported = delivered \o portChanges \o Encode(pending)
    BY <1>0, <2>3, <2>4, <2>5, ConcatEmptySeq
  <2>7. reported = delivered \o portChanges \o Encode(pending) \o <<>>
    BY <1>0, <2>5, <2>6, ConcatEmptySeq, ConcatProperties
  <2>8. QED
    BY <1>5, <2>2, <2>3, <2>4, <2>7 DEF ReportsInOrder, TakePending
<1>6. CASE SkipFlush
  <2>1. pc' = [pc EXCEPT ![Audio] = "return"] /\ pc[Audio] = "flush"
    BY <1>6 DEF SkipFlush, Goto
  <2>2. PushOwnsLock' /\ SwappedIsLocal' /\ NoPortNoChanges'
    BY <1>0, <1>6, <2>1
    DEF IInv, PushOwnsLock, SwappedIsLocal, NoPortNoChanges, SkipFlush,
        listVars, portVars
  <2>3. QED
    BY <1>0, <1>6, <2>1, <2>2
    DEF ReportsInOrder, Unread, SkipFlush, listVars, portVars
<1>7. CASE EmitChanges
  <2>1. pc' = [pc EXCEPT ![Audio] = "return"] /\ pc[Audio] = "emit"
    BY <1>7 DEF EmitChanges, Goto
  <2>2. PushOwnsLock' /\ SwappedIsLocal'
    BY <1>0, <1>7, <2>1
    DEF IInv, PushOwnsLock, SwappedIsLocal, EmitChanges, listVars
  <2>3. NoPortNoChanges'
    BY <1>0, <1>7, EncodeEmpty, ConcatEmptySeq
    DEF IInv, NoPortNoChanges, EmitChanges
  <2>4. /\ Unread = portChanges /\ Unread' = portChanges \o Encode(swapped)
        /\ Encode(swapped') = <<>>
    BY <1>0, <1>7, <2>1, EncodeEmpty DEF Unread, EmitChanges
  <2>5. /\ delivered \o portChanges \o Encode(swapped)
             = delivered \o (portChanges \o Encode(swapped))
        /\ delivered \o (portChanges \o Encode(swapped)) \in Seq(Message)
    BY <1>0, ConcatAssociative, ConcatProperties, SMTT(30)
  <2>6. reported = delivered \o Unread' \o <<>> \o Encode(pending)
    BY <1>0, <2>4, <2>5, ConcatEmptySeq
  <2>7. QED
    BY <1>7, <2>2, <2>3, <2>4, <2>6 DEF ReportsInOrder, EmitChanges, listVars
<1>8. CASE ProcessReturn
  <2>1. pc' = [pc EXCEPT ![Audio] = "idle"] /\ pc[Audio] = "return"
    BY <1>8 DEF ProcessReturn, Goto
  <2>2. PushOwnsLock' /\ SwappedIsLocal' /\ NoPortNoChanges'
    BY <1>0, <1>8, <2>1
    DEF IInv, PushOwnsLock, SwappedIsLocal, NoPortNoChanges, ProcessReturn,
        listVars
  <2>3. Unread = portChanges /\ Unread' = <<>>
    BY <1>0, <2>1 DEF Unread
  <2>4. delivered' \in Seq(Message) /\ delivered' \o <<>> = delivered'
    BY <1>0, <1>8, ConcatProperties, ConcatEmptySeq DEF ProcessReturn
  <2>5. QED
    BY <1>0, <1>8, <2>2, <2>3, <2>4 DEF ReportsInOrder, ProcessReturn, listVars
<1>9. QED
  BY <1>1, <1>2, <1>3, <1>4, <1>5, <1>6, <1>7, <1>8 DEF ProcessStep

\* The inductive invariant holds in every state.
THEOREM Invariance == Spec => []IInv
<1> USE ThreadsAssumption
<1>1. Init => IInv
  <2> SUFFICES ASSUME Init PROVE IInv
    OBVIOUS
  <2>1. TypeOK
    BY TypingInit
  <2>2. PushOwnsLock /\ SwappedIsLocal /\ NoPortNoChanges
    BY DEF Init, PushOwnsLock, SwappedIsLocal, NoPortNoChanges
  <2>3. ReportsInOrder
    BY EncodeEmpty, EmptySeq, ConcatEmptySeq DEF Init, ReportsInOrder, Unread
  <2>4. QED
    BY <2>1, <2>2, <2>3 DEF IInv
<1>2. TypeOK' /\ IInv /\ [Next]_vars => IInv'
  <2> SUFFICES ASSUME TypeOK', IInv, [Next]_vars
               PROVE  PushOwnsLock' /\ SwappedIsLocal' /\ NoPortNoChanges'
                        /\ ReportsInOrder'
    BY DEF IInv
  <2>0. pc \in [Threads -> Label]
        /\ ret \in [Threads -> {"track", "compare", "compareOld"}]
        /\ resume \in [Threads -> {"idle", "input", "block", "loading"}]
    BY DEF IInv, TypeOK
  <2> USE DEF Label, Idle, Plugin, Callback, Cycle
  <2>1. ASSUME NEW t \in Threads, Edit(t)
        PROVE  PushOwnsLock' /\ SwappedIsLocal' /\ NoPortNoChanges'
                 /\ ReportsInOrder'
    BY <2>1, OtherStep DEF Edit, NotifyValue, Begin, listVars, portVars
  <2>2. ASSUME NEW t \in Threads, UpdateHostDisplay(t)
        PROVE  PushOwnsLock' /\ SwappedIsLocal' /\ NoPortNoChanges'
                 /\ ReportsInOrder'
    BY <2>2, OtherStep DEF UpdateHostDisplay, NotifyDisplay, listVars, portVars
  <2>3. ASSUME NEW t \in Threads, CallbackStep(t)
        PROVE  PushOwnsLock' /\ SwappedIsLocal' /\ NoPortNoChanges'
                 /\ ReportsInOrder'
    <3>1. CASE DropUnreportable(t)
      BY <2>0, <3>1, OtherStep DEF DropUnreportable, listVars, portVars
    <3>2. CASE LockPending(t)
      BY <3>2, LockStep
    <3>3. CASE PushChange(t)
      BY <3>3, PushStep
    <3>4. CASE Track(t)
      BY <2>0, <3>4, OtherStep DEF Track, listVars, portVars
    <3>5. CASE CompareParameter(t)
      <4> SUFFICES ASSUME NEW b \in BOOLEAN, CompareWith(t, b),
                          pc[t] \in {"compare", "compareOld"},
                          UNCHANGED <<listVars, portVars>>
                   PROVE  PushOwnsLock' /\ SwappedIsLocal' /\ NoPortNoChanges'
                            /\ ReportsInOrder'
        BY <3>5 DEF CompareParameter
      <4>1. Goto(t, "enqueue") \/ Goto(t, pc[t])
        BY <2>0 DEF CompareWith, Goto
      <4>2. QED
        BY <4>1, OtherStep DEF listVars, portVars
    <3>6. CASE CompareDone(t)
      BY <3>6, OtherStep DEF CompareDone, listVars, portVars
    <3>7. CASE SnapshotValues(t)
      BY <3>7, OtherStep DEF SnapshotValues, listVars, portVars
    <3>8. CASE AssignTracked(t)
      BY <2>0, <3>8, OtherStep DEF AssignTracked, listVars, portVars
    <3>9. QED
      BY <2>3, <3>1, <3>2, <3>3, <3>4, <3>5, <3>6, <3>7, <3>8 DEF CallbackStep
  <2>4. CASE SetState
    BY <2>4, OtherStep DEF SetState, listVars, portVars
  <2>5. CASE SetPresetIndex
    BY <2>5, OtherStep DEF SetPresetIndex, listVars, portVars
  <2>6. CASE SilentSet
    <3>1. Goto(Main, pc[Main]) /\ pc[Main] \in {"loading", "program"}
      BY <2>0, <2>6 DEF SilentSet, Goto
    <3>2. QED
      BY <2>6, <3>1, OtherStep DEF SilentSet, listVars, portVars
  <2>7. CASE LoadStep
    <3>1. CASE StateLoaded
      BY <3>1, OtherStep DEF StateLoaded, listVars, portVars
    <3>2. CASE ProgramChanged
      <4>1. /\ Goto(Main, "compare") \/ Goto(Main, "idle")
            /\ UNCHANGED <<listVars, portVars>>
            /\ pc[Main] = "program"
        BY <3>2 DEF ProgramChanged, NotifyDisplay, listVars, portVars
      <4>2. QED
        BY <4>1, OtherStep DEF listVars, portVars
    <3>3. QED
      BY <2>7, <3>1, <3>2 DEF LoadStep
  <2>8. CASE ProcessStep
    BY <2>8, ProcessKeepsOrder
  <2>9. CASE UNCHANGED vars
    BY <2>9
    DEF IInv, PushOwnsLock, SwappedIsLocal, NoPortNoChanges, ReportsInOrder,
        Unread, vars, listVars, portVars
  <2>10. QED
    BY <2>1, <2>2, <2>3, <2>4, <2>5, <2>6, <2>7, <2>8, <2>9 DEF Next
<1>3. QED
  BY <1>1, <1>2, Typing, PTL DEF Spec

\* No report is lost, repeated or overtaken on its way to the host.
THEOREM ReportsKeepOrder == Spec => []ReportsInOrder
<1>1. IInv => ReportsInOrder
  BY DEF IInv
<1>2. QED
  BY <1>1, Invariance, PTL

\* process() never takes the list while another thread is pushing onto it.
THEOREM SwapExclusion == Spec => SwapExcludesPush
<1>1. IInv /\ [Next]_vars
        => [pc[Audio] = "flush" /\ pc'[Audio] = "emit"
              => \A t \in Threads : pc[t] # "push"]_vars
  <2> SUFFICES ASSUME IInv, Next, pc[Audio] = "flush", pc'[Audio] = "emit"
               PROVE  \A t \in Threads : pc[t] # "push"
    OBVIOUS
  <2>0. pc \in [Threads -> Label]
    BY DEF IInv, TypeOK
  <2>1. lock = NoThread
    <3> USE ThreadsAssumption DEF Goto
    <3>1. ASSUME NEW t \in Threads, Edit(t) \/ UpdateHostDisplay(t)
          PROVE  FALSE
      BY <2>0, <3>1 DEF Edit, UpdateHostDisplay, NotifyValue, NotifyDisplay
    <3>2. ASSUME NEW t \in Threads, CallbackStep(t)
          PROVE  FALSE
      <4>1. pc[t] \notin {"flush"}
        BY <3>2
        DEF CallbackStep, DropUnreportable, LockPending, PushChange, Track,
            CompareParameter, CompareDone, SnapshotValues, AssignTracked
      <4>2. \E label : pc' = [pc EXCEPT ![t] = label]
        <5>1. CASE CompareParameter(t)
          <6>1. pc' = pc \/ pc' = [pc EXCEPT ![t] = "enqueue"]
            BY <5>1 DEF CompareParameter, CompareWith
          <6>2. QED
            BY <2>0, <6>1
        <5>2. QED
          BY <3>2, <5>1
          DEF CallbackStep, DropUnreportable, LockPending, PushChange, Track,
              CompareDone, SnapshotValues, AssignTracked
      <4>3. QED
        BY <2>0, <4>1, <4>2
    <3>3. ASSUME SetState \/ SetPresetIndex \/ SilentSet \/ LoadStep
          PROVE  FALSE
      BY <2>0, <3>3
      DEF SetState, SetPresetIndex, SilentSet, LoadStep, StateLoaded,
          ProgramChanged, NotifyDisplay
    <3>4. CASE ProcessStep
      BY <2>0, <3>4
      DEF ProcessStep, ProcessStart, ParameterInput, InputDone,
          WriteMidiOutput, TakePending, SkipFlush, EmitChanges,
          ProcessReturn, NotifyValue
    <3>5. QED
      BY <3>1, <3>2, <3>3, <3>4 DEF Next
  <2>2. QED
    BY <2>1, ThreadsAssumption DEF IInv, PushOwnsLock
<1>2. QED
  BY <1>1, Invariance, PTL DEF Spec, SwapExcludesPush

-----------------------------------------------------------------------------
(* Refinement.                                                             *)

\* The pending list, the mutex and the port together implement the promise of
\* ParameterReports: reading the port hands over the next reports in a piece,
\* and no other step touches what the host knows.
THEOREM Refinement == Spec => ImplementsReports
<1>1. Init => Promise!Init
  BY DEF Init, Promise!Init
<1>2. IInv /\ IInv' /\ [Next]_vars => [Promise!Next]_(Promise!vars)
  <2> SUFFICES ASSUME IInv, IInv', Next
               PROVE  Promise!Next \/ UNCHANGED <<reported, delivered>>
    BY DEF vars, listVars, portVars, Promise!vars
  <2>0. /\ reported \in Seq(Message) /\ delivered \in Seq(Message)
        /\ portChanges \in Seq(Message)
        /\ Encode(swapped) \in Seq(Message) /\ Encode(pending) \in Seq(Message)
        /\ reported = delivered \o Unread \o Encode(swapped) \o Encode(pending)
    BY EncodeType DEF IInv, TypeOK, ReportsInOrder
  <2>1. ASSUME NEW t \in Threads, PushChange(t)
        PROVE  Promise!Report
    <3>1. Wire(change[t]) \in Message
      BY WireType DEF IInv, TypeOK
    <3>2. QED
      BY <2>1, <3>1 DEF PushChange, Promise!Report, portVars
  <2>2. ASSUME NEW t \in Threads, ~PushChange(t),
               Edit(t) \/ UpdateHostDisplay(t) \/ CallbackStep(t)
        PROVE  UNCHANGED <<reported, delivered>>
    BY <2>2
    DEF Edit, UpdateHostDisplay, NotifyValue, NotifyDisplay, CallbackStep,
        DropUnreportable, LockPending, Track, CompareParameter, CompareDone,
        SnapshotValues, AssignTracked, listVars, portVars
  <2>3. ASSUME SetState \/ SetPresetIndex \/ SilentSet \/ LoadStep
        PROVE  UNCHANGED <<reported, delivered>>
    BY <2>3
    DEF SetState, SetPresetIndex, SilentSet, LoadStep, StateLoaded,
        ProgramChanged, NotifyDisplay, listVars, portVars
  <2>4. CASE ProcessReturn
    <3> DEFINE n    == Len(delivered \o portChanges)
               rest == Encode(swapped) \o Encode(pending)
    <3>1. Unread = portChanges
      BY <2>4 DEF ProcessReturn, Unread
    <3>2. /\ delivered \o portChanges \in Seq(Message)
          /\ rest \in Seq(Message)
          /\ n = Len(delivered) + Len(portChanges)
      BY <2>0, ConcatProperties
    <3>3. reported = (delivered \o portChanges) \o rest
      BY <2>0, <3>1, <3>2, ConcatAssociative
    <3>4. SubSeq(reported, 1, n) = delivered \o portChanges
      BY <3>2, <3>3, PrefixByLength
    <3>5. n \in Len(delivered)..Len(reported)
      BY <2>0, <3>2, <3>3, ConcatProperties, LenProperties
    <3>6. delivered' = SubSeq(reported, 1, n) /\ reported' = reported
      BY <2>4, <3>4 DEF ProcessReturn, listVars
    <3>7. QED
      BY <3>5, <3>6 DEF Promise!Next, Promise!Deliver
  <2>5. CASE ProcessStep /\ ~ProcessReturn
    BY <2>5
    DEF ProcessStep, ProcessStart, ParameterInput, InputDone, WriteMidiOutput,
        TakePending, SkipFlush, EmitChanges, NotifyValue, listVars, portVars
  <2>6. QED
    BY <2>1, <2>2, <2>3, <2>4, <2>5 DEF Next, Promise!Next
<1>3. QED
  BY <1>1, <1>2, Invariance, PTL DEF Spec, ImplementsReports, Promise!Spec
=============================================================================
