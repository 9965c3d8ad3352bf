-------------------- MODULE ParameterConvergenceProofs --------------------
(***************************************************************************)
(* The host and the wrapper's own record of the parameters keep up with    *)
(* the plugin: theorems about ParameterChanges for every plugin that       *)
(* announces what it changes outside of setStateInformation and changes    *)
(* nothing on the audio thread, with any number of parameters and calls.   *)
(***************************************************************************)
EXTENDS ParameterChangesProofs, SetInduction

\* What the plugin and its host do: one thread beside the audio thread, no
\* automation from the host or from processBlock, no notification from inside
\* a state load, and every program change announced.  Dropping any of these
\* lets TLC find a run in which HostConverges fails, and, but for the
\* notification inside a load, one in which TrackedIsCurrent does.
Announces == /\ Threads = {Audio, Main}
             /\ Behaviours \subseteq {"edit", "display", "state", "program"}

-----------------------------------------------------------------------------
(* The inductive invariant.                                                *)

\* No parameter changes on the audio thread: process() only runs through its
\* own steps.
AudioIsQuiet == pc[Audio] \in Idle \cup Cycle /\ inbox = <<>>

\* The message thread does one call at a time.
MainIsBusyOnce ==
  /\ pc[Main] \in {"idle", "loading", "program", "compareOld"} \cup Callback
  /\ resume[Main] = "idle"
  /\ pc[Main] = "track" => ret[Main] = "track"

\* The message thread is about to put a change on the list; then it goes on
\* with `back`.
Reporting(back) == pc[Main] \in {"enqueue", "push"} /\ ret[Main] = back

\* The change is what the parameter holds.
ChangeIsCurrent == value[change[Main].index] = change[Main].value

\* What last_parameter_values lags behind by: nothing between two calls, one
\* parameter while its notification is handled.
TrackedFollows ==
  /\ pc[Main] = "idle" => tracked = value
  /\ Reporting("track") \/ pc[Main] = "track"
       => /\ ChangeIsCurrent
          /\ \A p \in Params \ {change[Main].index} : tracked[p] = value[p]
  /\ pc[Main] = "assign" => snapshot[Main] = value

\* After the messages s the host takes parameter p to be as in v.
Knows(s, v, p) == p <= MaxIndex => Told(s, p) = Transport[v[p]]

\* The parameters below n are known as in u, those from m on as in v.
KnowsUpTo(s, n, u, m, v) == \A p \in Params : /\ p < n => Knows(s, u, p)
                                              /\ p >= m => Knows(s, v, p)

\* The message thread is in the loop of enqueueChangedParameters that compares
\* with v, whose label is `loop`.
LoopKnows(loop, v) ==
  /\ pc[Main] = loop => KnowsUpTo(reported, next[Main], value, next[Main], v)
  /\ Reporting(loop) => /\ ChangeIsCurrent
                        /\ next[Main] = change[Main].index + 1
                        /\ KnowsUpTo(reported, change[Main].index, value,
                                     next[Main], v)

\* How far what was enqueued lags behind the parameters.
ReportsFollow ==
  /\ pc[Main] \in {"idle", "track", "snapshot", "assign"}
       => \A p \in Params : Knows(reported, value, p)
  /\ Reporting("track")
       => \A p \in Params \ {change[Main].index} : Knows(reported, value, p)
  /\ pc[Main] = "loading" => \A p \in Params : Knows(reported, oldValues, p)
  /\ pc[Main] = "program" => \A p \in Params : Knows(reported, tracked, p)
  /\ LoopKnows("compare", tracked)
  /\ LoopKnows("compareOld", oldValues)

Control == AudioIsQuiet /\ MainIsBusyOnce
CInv    == TypeOK /\ Control /\ TrackedFollows /\ ReportsFollow

-----------------------------------------------------------------------------
(* Lemmas about Told.                                                      *)

\* Before any message the host takes a parameter to be at its default.
LEMMA ToldNothing == \A p : Told(<<>>, p) = Transport[Default]
<1>1. Len(<<>>) = 0
  BY EmptySeq
<1>2. \A p : {i \in 1..Len(<<>>) : <<>>[i].index = p} = {}
  BY <1>1
<1>3. QED
  BY <1>2 DEF Told

\* A message changes what the host knows of its parameter and of no other.
LEMMA ToldMore ==
  ASSUME NEW s \in Seq(Message), NEW m \in Message, NEW p \in Params
  PROVE  Told(Append(s, m), p) = IF m.index = p THEN m.value ELSE Told(s, p)
<1> DEFINE t == Append(s, m)
           n == Len(s)
           about(q) == {i \in 1..Len(q) : q[i].index = p}
           last(q)  == CHOOSE i \in about(q) : \A j \in about(q) : j <= i
<1>1. /\ n \in Nat /\ Len(t) = n + 1 /\ t[n + 1] = m
      /\ \A i \in 1..n : t[i] = s[i]
  BY LenProperties, AppendProperties
<1> HIDE DEF t, n
<1>2. CASE m.index = p
  <2>1. n + 1 \in about(t) /\ \A j \in about(t) : j <= n + 1
    BY <1>1, <1>2
  <2>2. \A i \in about(t) : (\A j \in about(t) : j <= i) => i = n + 1
    BY <1>1, <2>1
  <2>3. last(t) = n + 1
    BY <2>1, <2>2
  <2>4. Told(t, p) = m.value
    BY <1>1, <2>1, <2>3 DEF Told
  <2>5. QED
    BY <1>2, <2>4 DEF t
<1>3. CASE m.index # p
  <2>1. about(t) = about(s)
    BY <1>1, <1>3 DEF n
  <2>2. CASE about(s) = {}
    BY <1>3, <2>1, <2>2 DEF Told, t
  <2>3. CASE about(s) # {}
    <3>1. PICK i \in about(s) : \A j \in about(s) : j <= i
      <4>1. about(s) \in SUBSET 0..n
        BY <1>1 DEF n
      <4> HIDE DEF about
      <4>2. QED
        BY <1>1, <2>3, <4>1, Greatest
    <3>2. last(t) = last(s)
      BY <2>1
    <3>3. last(s) \in about(s)
      BY <3>1
    <3>4. t[last(t)] = s[last(s)]
      BY <1>1, <3>2, <3>3 DEF n
    <3>5. QED
      BY <1>3, <2>1, <2>3, <3>4, SMTT(30) DEF Told, t
  <2>4. QED
    BY <2>2, <2>3
<1>4. QED
  BY <1>2, <1>3

-----------------------------------------------------------------------------
(* The invariant is inductive.                                             *)

\* The wrapper's constructor: everything is at its default.
LEMMA ConvergenceInit ==
  ASSUME Announces, Init
  PROVE  Control /\ TrackedFollows /\ ReportsFollow
<1> USE ThreadsAssumption
<1>1. pc = [t \in Threads |-> "idle"] /\ inbox = <<>>
      /\ resume = [t \in Threads |-> "idle"]
  BY DEF Init
<1>2. Control
  BY <1>1 DEF Control, AudioIsQuiet, MainIsBusyOnce, Idle
<1>3. TrackedFollows
  BY <1>1 DEF Init, TrackedFollows, Reporting
<1>4. \A p \in Params : Knows(reported, value, p)
  BY ToldNothing DEF Init, Knows
<1>5. ReportsFollow
  BY <1>1, <1>4 DEF ReportsFollow, Reporting, LoopKnows
<1>6. QED
  BY <1>2, <1>3, <1>5

\* What the invariant speaks about on the message thread.
MainSees == <<value, tracked, reported, oldValues, pc[Main], ret[Main],
              resume[Main], change[Main], next[Main], snapshot[Main]>>

\* A step that leaves all of it alone leaves the invariant alone.
LEMMA MainUnaffected ==
  ASSUME Control, TrackedFollows, ReportsFollow, UNCHANGED MainSees
  PROVE  MainIsBusyOnce' /\ TrackedFollows' /\ ReportsFollow'
<1>1. /\ value' = value /\ tracked' = tracked /\ reported' = reported
      /\ oldValues' = oldValues /\ pc'[Main] = pc[Main]
      /\ ret'[Main] = ret[Main] /\ resume'[Main] = resume[Main]
      /\ change'[Main] = change[Main] /\ next'[Main] = next[Main]
      /\ snapshot'[Main] = snapshot[Main]
  BY DEF MainSees
<1>2. MainIsBusyOnce'
  BY <1>1 DEF Control, MainIsBusyOnce
<1>3. TrackedFollows'
  BY <1>1 DEF TrackedFollows, Reporting, ChangeIsCurrent
<1>4. ReportsFollow'
  BY <1>1
  DEF ReportsFollow, LoopKnows, KnowsUpTo, Knows, Reporting, ChangeIsCurrent
<1>5. QED
  BY <1>2, <1>3, <1>4

\* process() touches nothing of it.
LEMMA ProcessIsQuiet ==
  ASSUME Announces, TypeOK, Control, ProcessStep
  PROVE  AudioIsQuiet' /\ UNCHANGED MainSees
<1> USE ThreadsAssumption DEF Goto
<1>1. pc \in [Threads -> Label] /\ pc[Audio] \in Idle \cup Cycle /\ inbox = <<>>
  BY DEF TypeOK, Control, AudioIsQuiet
<1>2. ~ParameterInput /\ "inbound" \notin Behaviours
  BY <1>1 DEF ParameterInput, Announces
<1>3. /\ \E label \in Idle \cup Cycle : pc' = [pc EXCEPT ![Audio] = label]
      /\ inbox' = <<>>
      /\ UNCHANGED <<value, tracked, reported, oldValues, ret, resume, change,
                     next, snapshot>>
  <2>1. CASE ProcessStart
    BY <1>2, <2>1 DEF ProcessStart, Begin, listVars, localVars, Cycle
  <2>2. CASE InputDone \/ WriteMidiOutput \/ TakePending \/ SkipFlush
               \/ EmitChanges \/ ProcessReturn
    BY <1>1, <2>2
    DEF InputDone, WriteMidiOutput, TakePending, SkipFlush, EmitChanges,
        ProcessReturn, listVars, localVars, Cycle, Idle
  <2>3. QED
    BY <1>2, <2>1, <2>2 DEF ProcessStep
<1>4. pc'[Main] = pc[Main] /\ pc'[Audio] \in Idle \cup Cycle
  BY <1>1, <1>3
<1>5. QED
  BY <1>3, <1>4 DEF AudioIsQuiet, MainSees

\* No callback runs on the audio thread.
LEMMA AudioHasNoCallback ==
  ASSUME Announces, TypeOK, Control
  PROVE  ~(Edit(Audio) \/ UpdateHostDisplay(Audio) \/ CallbackStep(Audio))
BY DEF Announces, Control, AudioIsQuiet, Edit, UpdateHostDisplay, Begin,
       CallbackStep, DropUnreportable, LockPending, PushChange, Track,
       CompareParameter, CompareDone, SnapshotValues, AssignTracked,
       Idle, Cycle

\* The facts that every step of the message thread starts from.
LEMMA MainStart ==
  ASSUME TypeOK
  PROVE  /\ pc \in [Threads -> Label]
         /\ ret \in [Threads -> {"track", "compare", "compareOld"}]
         /\ resume \in [Threads -> {"idle", "input", "block", "loading"}]
         /\ change \in [Threads -> Change]
         /\ next \in [Threads -> 0..NumParams]
         /\ snapshot \in [Threads -> [Params -> Values]]
         /\ value \in [Params -> Values] /\ tracked \in [Params -> Values]
         /\ oldValues \in [Params -> Values]
         /\ reported \in Seq(Message)
         /\ change[Main].index \in Params /\ change[Main].value \in Values
         /\ Main \in Threads /\ Audio \in Threads /\ Audio # Main
BY ThreadsAssumption DEF TypeOK, Change

\* A call of the plugin, the user or the host starts: an edit, a comparison,
\* a state load or a program change.
LEMMA CallStep ==
  ASSUME Announces, TypeOK, Control, TrackedFollows, ReportsFollow,
         Edit(Main) \/ UpdateHostDisplay(Main) \/ SetState \/ SetPresetIndex
  PROVE  Control' /\ TrackedFollows' /\ ReportsFollow'
<1> USE MainStart DEF Goto
<1>0. /\ pc[Main] = "idle" /\ tracked = value
      /\ \A p \in Params : Knows(reported, value, p)
  <2>1. pc[Main] = "idle"
    BY DEF Announces, Control, MainIsBusyOnce, Edit, UpdateHostDisplay,
           SetState, SetPresetIndex, Begin, Callback
  <2>2. QED
    BY <2>1 DEF TrackedFollows, ReportsFollow
<1>1. CASE Edit(Main)
  <2>1. PICK c \in Change : NotifyValue(Main, c, "idle")
    BY <1>0, <1>1 DEF Edit
  <2>2. c.index \in Params /\ c.value \in Values
    BY DEF Change
  <2>3. /\ pc' = [pc EXCEPT ![Main] = "enqueue"]
        /\ ret'[Main] = "track" /\ resume'[Main] = "idle"
        /\ change'[Main] = c /\ value' = [value EXCEPT ![c.index] = c.value]
        /\ tracked' = tracked /\ reported' = reported /\ inbox' = inbox
    BY <1>1, <2>1 DEF Edit, NotifyValue, listVars
  <2>4. Control'
    BY <2>3 DEF Control, AudioIsQuiet, MainIsBusyOnce, Callback
  <2>5. TrackedFollows'
    BY <1>0, <2>2, <2>3 DEF TrackedFollows, Reporting, ChangeIsCurrent
  <2>6. ReportsFollow'
    BY <1>0, <2>2, <2>3 DEF ReportsFollow, LoopKnows, Reporting, Knows
  <2>7. QED
    BY <2>4, <2>5, <2>6
<1>2. CASE UpdateHostDisplay(Main)
  <2>1. /\ pc' = [pc EXCEPT ![Main] = "compare"]
        /\ resume'[Main] = "idle" /\ next'[Main] = 0
        /\ UNCHANGED <<value, tracked, reported, inbox>>
    BY <1>0, <1>2 DEF UpdateHostDisplay, NotifyDisplay, listVars
  <2>2. Control'
    BY <2>1 DEF Control, AudioIsQuiet, MainIsBusyOnce, Callback
  <2>3. TrackedFollows'
    BY <2>1 DEF TrackedFollows, Reporting
  <2>4. ReportsFollow'
    BY <1>0, <2>1
    DEF ReportsFollow, LoopKnows, KnowsUpTo, Reporting, Knows, Params
  <2>5. QED
    BY <2>2, <2>3, <2>4
<1>3. CASE SetState \/ SetPresetIndex
  <2>1. /\ \/ pc' = [pc EXCEPT ![Main] = "loading"] /\ oldValues' = value
           \/ pc' = [pc EXCEPT ![Main] = "program"]
        /\ UNCHANGED <<value, tracked, reported, inbox, resume>>
    BY <1>3 DEF SetState, SetPresetIndex, listVars, localVars
  <2>2. Control'
    BY <2>1 DEF Control, AudioIsQuiet, MainIsBusyOnce
  <2>3. TrackedFollows'
    BY <2>1 DEF TrackedFollows, Reporting
  <2>4. ReportsFollow'
    BY <1>0, <2>1 DEF ReportsFollow, LoopKnows, Reporting, Knows
  <2>5. QED
    BY <2>2, <2>3, <2>4
<1>4. QED
  BY <1>1, <1>2, <1>3

\* While a state or a program is loaded, and when it is.
LEMMA LoadKeeps ==
  ASSUME Announces, TypeOK, Control, TrackedFollows, ReportsFollow,
         SilentSet \/ LoadStep
  PROVE  Control' /\ TrackedFollows' /\ ReportsFollow'
<1> USE MainStart DEF Goto
<1>1. CASE SilentSet
  <2>1. /\ pc[Main] \in {"loading", "program"} /\ pc' = pc
        /\ UNCHANGED <<tracked, reported, inbox, resume, oldValues>>
    BY <1>1 DEF SilentSet, listVars, localVars
  <2>2. Control'
    BY <2>1 DEF Control, AudioIsQuiet, MainIsBusyOnce
  <2>3. TrackedFollows'
    BY <2>1 DEF TrackedFollows, Reporting
  <2>4. ReportsFollow'
    BY <2>1 DEF ReportsFollow, LoopKnows, Reporting, Knows
  <2>5. QED
    BY <2>2, <2>3, <2>4
<1>2. CASE LoadStep
  <2>1. /\ \/ /\ pc[Main] = "loading"
              /\ pc' = [pc EXCEPT ![Main] = "compareOld"]
           \/ /\ pc[Main] = "program"
              /\ pc' = [pc EXCEPT ![Main] = "compare"]
        /\ resume'[Main] = "idle" /\ next'[Main] = 0
        /\ UNCHANGED <<value, tracked, reported, inbox, oldValues>>
    BY <1>2
    DEF Announces, LoadStep, StateLoaded, ProgramChanged, NotifyDisplay,
        listVars
  <2>2. Control'
    BY <2>1 DEF Control, AudioIsQuiet, MainIsBusyOnce, Callback
  <2>3. TrackedFollows'
    BY <2>1 DEF TrackedFollows, Reporting
  <2>4. ReportsFollow'
    BY <2>1 DEF ReportsFollow, LoopKnows, KnowsUpTo, Reporting, Knows, Params
  <2>5. QED
    BY <2>2, <2>3, <2>4
<1>3. QED
  BY <1>1, <1>2

\* enqueueParameterChange is left with its change known to the host, or with
\* an index that cannot be reported.
LEMMA EnqueueReturns ==
  ASSUME TypeOK, Control, TrackedFollows, ReportsFollow,
         pc[Main] \in {"enqueue", "push"},
         pc' = [pc EXCEPT ![Main] = ret[Main]],
         UNCHANGED <<value, tracked, localVars, oldValues, inbox>>,
         \/ change[Main].index > MaxIndex /\ reported' = reported
         \/ reported' = Append(reported, Wire(change[Main]))
  PROVE  Control' /\ TrackedFollows' /\ ReportsFollow'
<1> DEFINE n == change[Main].index
<1> USE MainStart
<1>0. /\ ret[Main] \in {"track", "compare", "compareOld"}
      /\ n \in Params /\ pc'[Main] = ret[Main] /\ pc'[Audio] = pc[Audio]
      /\ UNCHANGED <<ret, resume, change, next, snapshot>>
  BY DEF localVars
<1>1. Control'
  BY <1>0 DEF Control, AudioIsQuiet, MainIsBusyOnce, Callback
<1>2. ChangeIsCurrent
  BY <1>0
  DEF TrackedFollows, ReportsFollow, LoopKnows, Reporting
<1>3. TrackedFollows'
  BY <1>0 DEF TrackedFollows, Reporting, ChangeIsCurrent
<1>4. \A p \in Params : p <= MaxIndex =>
         Told(reported', p) = IF p = n THEN Transport[value[p]]
                                       ELSE Told(reported, p)
  <2>1. CASE n > MaxIndex /\ reported' = reported
    BY <2>1, DataAssumption DEF Params
  <2>2. CASE reported' = Append(reported, Wire(change[Main]))
    <3>1. /\ Wire(change[Main]) \in Message
          /\ Wire(change[Main]).index = n
          /\ Wire(change[Main]).value = Transport[value[n]]
      BY <1>2, WireType DEF Wire, ChangeIsCurrent
    <3>2. QED
      BY <2>2, <3>1, ToldMore
  <2>3. QED
    BY <2>1, <2>2
<1>5. /\ Knows(reported', value, n)
      /\ \A p \in Params \ {n}, v \in {value, tracked, oldValues} :
           Knows(reported, v, p) => Knows(reported', v, p)
  BY <1>0, <1>4 DEF Knows
<1>6. ReportsFollow'
  <2>0. Params \subseteq Int /\ ~Reporting("track")' /\ ~Reporting("compare")'
        /\ ~Reporting("compareOld")'
    BY <1>0 DEF Params, Reporting
  <2>1. CASE ret[Main] = "track"
    <3>1. \A p \in Params \ {n} : Knows(reported, value, p)
      BY <2>1 DEF ReportsFollow, Reporting
    <3>2. \A p \in Params : Knows(reported', value', p)
      BY <1>5, <3>1
    <3>3. QED
      BY <1>0, <2>0, <2>1, <3>2 DEF ReportsFollow, LoopKnows
  <2>2. CASE ret[Main] = "compare"
    <3>1. next[Main] = n + 1 /\ KnowsUpTo(reported, n, value, n + 1, tracked)
      BY <2>2 DEF ReportsFollow, LoopKnows, Reporting
    <3>2. ASSUME NEW p \in Params
          PROVE  /\ p < n + 1 => Knows(reported', value, p)
                 /\ p >= n + 1 => Knows(reported', tracked, p)
      <4>1. p \in Int /\ n \in Int
        BY <1>0, <2>0
      <4>2. CASE p = n
        BY <1>5, <4>1, <4>2
      <4>3. CASE p # n
        BY <1>5, <3>1, <4>1, <4>3 DEF KnowsUpTo
      <4>4. QED
        BY <4>2, <4>3
    <3>3. KnowsUpTo(reported', n + 1, value', n + 1, tracked')
      BY <3>2 DEF KnowsUpTo
    <3>4. next'[Main] = n + 1
      BY <1>0, <3>1
    <3>5. QED
      BY <1>0, <2>0, <2>2, <3>3, <3>4 DEF ReportsFollow, LoopKnows
  <2>3. CASE ret[Main] = "compareOld"
    <3>1. next[Main] = n + 1 /\ KnowsUpTo(reported, n, value, n + 1, oldValues)
      BY <2>3 DEF ReportsFollow, LoopKnows, Reporting
    <3>2. ASSUME NEW p \in Params
          PROVE  /\ p < n + 1 => Knows(reported', value, p)
                 /\ p >= n + 1 => Knows(reported', oldValues, p)
      <4>1. p \in Int /\ n \in Int
        BY <1>0, <2>0
      <4>2. CASE p = n
        BY <1>5, <4>1, <4>2
      <4>3. CASE p # n
        BY <1>5, <3>1, <4>1, <4>3 DEF KnowsUpTo
      <4>4. QED
        BY <4>2, <4>3
    <3>3. KnowsUpTo(reported', n + 1, value', n + 1, oldValues')
      BY <3>2 DEF KnowsUpTo
    <3>4. next'[Main] = n + 1
      BY <1>0, <3>1
    <3>5. QED
      BY <1>0, <2>0, <2>3, <3>3, <3>4 DEF ReportsFollow, LoopKnows
  <2>4. QED
    BY <1>0, <2>1, <2>2, <2>3
<1>7. QED
  BY <1>1, <1>3, <1>6

\* One turn of the loop of enqueueChangedParameters, which compares with v:
\* what does not differ the host knows already.
LEMMA CompareStep ==
  ASSUME Announces, TypeOK, Control, TrackedFollows, ReportsFollow,
         CompareParameter(Main)
  PROVE  Control' /\ TrackedFollows' /\ ReportsFollow'
<1> DEFINE n == next[Main]
           v == IF pc[Main] = "compare" THEN tracked ELSE oldValues
<1> USE MainStart
<1>0. /\ pc[Main] \in {"compare", "compareOld"} /\ n \in Params
      /\ CompareWith(Main, value[n] # v[n])
      /\ UNCHANGED <<value, tracked, reported, resume, oldValues, inbox>>
  <2>1. ~Racing(Main)
    BY DEF Announces, Control, AudioIsQuiet, Racing, Idle, Cycle
  <2>2. UNCHANGED <<value, tracked, reported, resume, oldValues, inbox>>
    BY DEF CompareParameter, listVars
  <2>3. n \in Params
    BY DataAssumption DEF CompareParameter, Params
  <2>4. CASE pc[Main] = "compare"
    BY <2>1, <2>2, <2>3, <2>4 DEF CompareParameter
  <2>5. CASE pc[Main] = "compareOld"
    BY <2>2, <2>3, <2>5 DEF CompareParameter
  <2>6. QED
    BY <2>4, <2>5 DEF CompareParameter
<1>1. next'[Main] = n + 1
  BY <1>0 DEF CompareWith
<1>2. KnowsUpTo(reported, n, value, n, v)
  BY <1>0 DEF ReportsFollow, LoopKnows
<1>3. CASE value[n] # v[n]
  <2>1. /\ pc' = [pc EXCEPT ![Main] = "enqueue"]
        /\ ret'[Main] = pc[Main]
        /\ change'[Main] = [index |-> n, value |-> value[n]]
    BY <1>0, <1>3 DEF CompareWith, Goto
  <2>2. Control'
    BY <1>0, <2>1 DEF Control, AudioIsQuiet, MainIsBusyOnce, Callback
  <2>3. TrackedFollows'
    BY <1>0, <2>1 DEF TrackedFollows, Reporting
  <2>4. /\ ChangeIsCurrent' /\ change'[Main].index = n
        /\ pc'[Main] = "enqueue"
    BY <1>0, <2>1 DEF ChangeIsCurrent
  <2>5. KnowsUpTo(reported', n, value', n + 1, v)
    BY <1>0, <1>2, DataAssumption DEF KnowsUpTo, Params
  <2>6. /\ pc[Main] = "compare" => v = tracked'
        /\ pc[Main] = "compareOld" => v = oldValues'
    BY <1>0
  <2>7. ReportsFollow'
    BY <1>0, <1>1, <2>1, <2>4, <2>5, <2>6
    DEF ReportsFollow, LoopKnows, Reporting
  <2>8. QED
    BY <2>2, <2>3, <2>7
<1>4. CASE value[n] = v[n]
  <2>1. UNCHANGED <<pc, ret, change>>
    BY <1>0, <1>4 DEF CompareWith
  <2>2. Control'
    BY <1>0, <2>1 DEF Control, AudioIsQuiet, MainIsBusyOnce
  <2>3. TrackedFollows'
    BY <1>0, <2>1 DEF TrackedFollows, Reporting
  <2>4. Knows(reported, value, n)
    <3>1. n \in Params /\ n >= n
      BY <1>0 DEF Params
    <3>2. Knows(reported, v, n)
      BY <1>2, <3>1 DEF KnowsUpTo
    <3>3. QED
      BY <1>4, <3>2 DEF Knows
  <2>5. KnowsUpTo(reported, n + 1, value, n + 1, v)
    BY <1>0, <1>2, <2>4 DEF KnowsUpTo, Params
  <2>6. ReportsFollow'
    BY <1>0, <1>1, <2>1, <2>5
    DEF ReportsFollow, LoopKnows, KnowsUpTo, Knows, Reporting
  <2>7. QED
    BY <2>2, <2>3, <2>6
<1>5. QED
  BY <1>3, <1>4

\* A callback on the message thread.
LEMMA CallbackKeeps ==
  ASSUME Announces, TypeOK, Control, TrackedFollows, ReportsFollow,
         CallbackStep(Main)
  PROVE  Control' /\ TrackedFollows' /\ ReportsFollow'
<1> USE MainStart
<1>1. CASE DropUnreportable(Main) \/ PushChange(Main)
  <2>1. /\ pc[Main] \in {"enqueue", "push"}
        /\ pc' = [pc EXCEPT ![Main] = ret[Main]]
        /\ UNCHANGED <<value, tracked, localVars, oldValues, inbox>>
        /\ \/ change[Main].index > MaxIndex /\ reported' = reported
           \/ reported' = Append(reported, Wire(change[Main]))
    BY <1>1 DEF DropUnreportable, PushChange, Goto, listVars
  <2>2. QED
    BY <2>1, EnqueueReturns
<1>2. CASE LockPending(Main)
  <2>1. /\ pc[Main] = "enqueue" /\ pc' = [pc EXCEPT ![Main] = "push"]
        /\ UNCHANGED <<value, tracked, reported, ret, resume, change, next,
                       oldValues, inbox>>
    BY <1>2 DEF LockPending, Goto, localVars
  <2>2. Control'
    BY <2>1 DEF Control, AudioIsQuiet, MainIsBusyOnce, Callback
  <2>3. TrackedFollows'
    BY <2>1 DEF TrackedFollows, Reporting, ChangeIsCurrent
  <2>4. ReportsFollow'
    BY <2>1 DEF ReportsFollow, LoopKnows, KnowsUpTo, Knows, Reporting,
                ChangeIsCurrent
  <2>5. QED
    BY <2>2, <2>3, <2>4
<1>3. CASE Track(Main)
  <2>1. /\ pc[Main] = "track" /\ resume[Main] = "idle" /\ pc'[Main] = "idle"
        /\ pc'[Audio] = pc[Audio]
        /\ tracked' = [tracked EXCEPT ![change[Main].index]
                                        = change[Main].value]
        /\ UNCHANGED <<value, reported, resume, inbox>>
    BY <1>3 DEF Control, MainIsBusyOnce, Track, Goto, listVars, localVars
  <2>2. Control'
    BY <2>1 DEF Control, AudioIsQuiet, MainIsBusyOnce
  <2>3. \A p \in Params : tracked'[p] = value[p]
    BY <2>1 DEF TrackedFollows, ChangeIsCurrent
  <2>4. tracked' \in [Params -> Values]
    BY <2>1
  <2>5. tracked' = value'
    BY <2>1, <2>3, <2>4
  <2>6. TrackedFollows'
    BY <2>1, <2>5 DEF TrackedFollows, Reporting
  <2>7. ReportsFollow'
    BY <2>1 DEF ReportsFollow, LoopKnows, Reporting, Knows
  <2>8. QED
    BY <2>2, <2>6, <2>7
<1>4. CASE CompareParameter(Main)
  BY <1>4, CompareStep
<1>5. CASE CompareDone(Main)
  <2>1. /\ pc[Main] \in {"compare", "compareOld"} /\ next[Main] = NumParams
        /\ pc' = [pc EXCEPT ![Main] = "snapshot"]
        /\ UNCHANGED <<value, tracked, reported, resume, inbox>>
    BY <1>5 DEF CompareDone, Goto, listVars, localVars
  <2>2. Control'
    BY <2>1 DEF Control, AudioIsQuiet, MainIsBusyOnce, Callback
  <2>3. TrackedFollows'
    BY <2>1 DEF TrackedFollows, Reporting
  <2>4. \A p \in Params : Knows(reported, value, p)
    BY <2>1, DataAssumption DEF ReportsFollow, LoopKnows, KnowsUpTo, Params
  <2>5. ReportsFollow'
    BY <2>1, <2>4 DEF ReportsFollow, LoopKnows, Reporting, Knows
  <2>6. QED
    BY <2>2, <2>3, <2>5
<1>6. CASE SnapshotValues(Main)
  <2>1. /\ pc[Main] = "snapshot" /\ pc' = [pc EXCEPT ![Main] = "assign"]
        /\ snapshot'[Main] = value
        /\ UNCHANGED <<value, tracked, reported, resume, inbox>>
    BY <1>6 DEF SnapshotValues, Goto, listVars
  <2>2. Control'
    BY <2>1 DEF Control, AudioIsQuiet, MainIsBusyOnce, Callback
  <2>3. TrackedFollows'
    BY <2>1 DEF TrackedFollows, Reporting
  <2>4. ReportsFollow'
    BY <2>1 DEF ReportsFollow, LoopKnows, Reporting, Knows
  <2>5. QED
    BY <2>2, <2>3, <2>4
<1>7. CASE AssignTracked(Main)
  <2>1. /\ pc[Main] = "assign" /\ pc'[Main] = "idle" /\ pc'[Audio] = pc[Audio]
        /\ tracked' = value'
        /\ UNCHANGED <<value, reported, resume, inbox>>
    BY <1>7
    DEF Control, MainIsBusyOnce, TrackedFollows, AssignTracked, Goto,
        listVars, localVars
  <2>2. Control'
    BY <2>1 DEF Control, AudioIsQuiet, MainIsBusyOnce
  <2>3. TrackedFollows'
    BY <2>1 DEF TrackedFollows, Reporting
  <2>4. ReportsFollow'
    BY <2>1 DEF ReportsFollow, LoopKnows, Reporting, Knows
  <2>5. QED
    BY <2>2, <2>3, <2>4
<1>8. QED
  BY <1>1, <1>2, <1>3, <1>4, <1>5, <1>6, <1>7 DEF CallbackStep

\* The inductive invariant holds in every state.
LEMMA ConvergenceInvariance ==
  ASSUME Announces
  PROVE  Spec => []CInv
<1>1. Init => CInv
  BY TypingInit, ConvergenceInit DEF CInv
<1>2. CInv /\ TypeOK' /\ [Next]_vars => CInv'
  <2> SUFFICES ASSUME TypeOK, Control, TrackedFollows, ReportsFollow, [Next]_vars
               PROVE  Control' /\ TrackedFollows' /\ ReportsFollow'
    BY DEF CInv
  <2>1. ASSUME NEW t \in Threads,
               Edit(t) \/ UpdateHostDisplay(t) \/ CallbackStep(t)
        PROVE  Control' /\ TrackedFollows' /\ ReportsFollow'
    <3>1. t = Main
      BY <2>1, AudioHasNoCallback DEF Announces
    <3>2. QED
      BY <2>1, <3>1, CallStep, CallbackKeeps
  <2>2. CASE SetState \/ SetPresetIndex
    BY <2>2, CallStep
  <2>3. CASE SilentSet \/ LoadStep
    BY <2>3, LoadKeeps
  <2>4. CASE ProcessStep
    BY <2>4, ProcessIsQuiet, MainUnaffected DEF Control
  <2>5. CASE UNCHANGED vars
    <3>1. AudioIsQuiet' /\ UNCHANGED MainSees
      BY <2>5 DEF vars, listVars, localVars, MainSees, Control, AudioIsQuiet
    <3>2. QED
      BY <3>1, MainUnaffected DEF Control
  <2>6. QED
    BY <2>1, <2>2, <2>3, <2>4, <2>5 DEF Next
<1>3. QED
  BY <1>1, <1>2, Typing, PTL DEF Spec

-----------------------------------------------------------------------------
(* What follows from it.                                                   *)

\* Between two calls last_parameter_values is what the plugin has.
THEOREM TrackedKeepsUp ==
  ASSUME Announces
  PROVE  Spec => []TrackedIsCurrent
<1>1. CInv => TrackedIsCurrent
  BY ThreadsAssumption
  DEF CInv, Control, MainIsBusyOnce, TrackedFollows, TrackedIsCurrent, Idle,
      Cycle, Callback
<1>2. QED
  BY <1>1, ConvergenceInvariance, PTL

\* When nothing is going on and nothing is pending, the host knows the value
\* of every parameter that can be reported.
THEOREM Convergence ==
  ASSUME Announces
  PROVE  Spec => []HostConverges
<1>1. CInv /\ IInv => HostConverges
  <2> SUFFICES ASSUME CInv, IInv, Quiet, NEW p \in Params, p <= MaxIndex
               PROVE  HostValue(p) = Transport[value[p]]
    BY DEF HostConverges
  <2>1. pc[Audio] = "idle" /\ pc[Main] = "idle" /\ pending = <<>>
    BY ThreadsAssumption DEF Quiet
  <2>2. Unread = <<>> /\ Encode(swapped) = <<>> /\ Encode(pending) = <<>>
    BY <2>1, EncodeEmpty DEF IInv, SwappedIsLocal, Unread
  <2>3. delivered \in Seq(Message)
    BY DEF IInv, TypeOK
  <2>4. reported = delivered
    BY <2>2, <2>3, ConcatEmptySeq DEF IInv, ReportsInOrder
  <2>5. Told(reported, p) = Transport[value[p]]
    BY <2>1 DEF CInv, ReportsFollow, Knows
  <2>6. QED
    BY <2>4, <2>5 DEF HostValue
<1>2. QED
  BY <1>1, ConvergenceInvariance, Invariance, PTL
=============================================================================
