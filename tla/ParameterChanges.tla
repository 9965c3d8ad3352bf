------------------------- MODULE ParameterChanges -------------------------
(***************************************************************************)
(* How JuceAAPWrapper tells the host that the plugin changed one of its    *)
(* own parameters (juceaap_AAPWrappers.cpp).  The JUCE listener callbacks  *)
(* and setState() put changes on pending_parameter_changes, under a mutex, *)
(* from whatever thread runs the plugin's code; process() takes the list,  *)
(* if it gets the mutex, and writes it behind the MIDI output of the port. *)
(*                                                                         *)
(* A routine of the wrapper is a chain of steps of one thread: every       *)
(* access to state that two threads share is a step of its own.            *)
(***************************************************************************)
EXTENDS Sequences, Integers

CONSTANTS
  Threads,       \* every thread that runs the plugin's code
  Audio,         \* the one on which the host calls process()
  Main,          \* the message thread: editor, setState, setPresetIndex
  NoThread,      \* the owner of an unlocked mutex
  NumParams,     \* parameters of the plugin, indexed from 0
  MaxIndex,      \* UINT16_MAX: the largest index that can be reported
  Values,        \* normalized parameter values
  Default,       \* the value every parameter starts with
  Transport,     \* juceNormalizedToTransportUint32: value -> what is sent
  HasOutPort,    \* aap_midi2_out_port is a port of the buffer
  ProducesMidi,  \* juce_processor->producesMidi()
  Behaviours,    \* what this plugin and its host do, see below
  MaxOps         \* bound: calls that start a change, over the whole run

\* "edit": setValueNotifyingHost outside process(); "blockEdit": in it;
\* "display": updateHostDisplay() on its own;  "inbound": the host sends
\* parameter changes;  "state": the host calls setState, "loadReports":
\* whose plugin code itself notifies;  "program": the host calls
\* setPresetIndex, "silentProgram": whose plugin code may never notify.
AllBehaviours == {"edit", "blockEdit", "display", "inbound", "state",
                  "loadReports", "program", "silentProgram"}

Params  == 0..NumParams-1
Change  == [index : Params, value : Values]           \* PendingParameterChange
Message == [index : Params, value : {Transport[v] : v \in Values}]

ASSUME ThreadsAssumption == /\ Audio \in Threads
                            /\ Main \in Threads
                            /\ Audio # Main
                            /\ NoThread \notin Threads

ASSUME DataAssumption == /\ NumParams \in Nat \ {0}
                         /\ MaxIndex \in Nat
                         /\ Default \in Values
                         /\ HasOutPort \in BOOLEAN
                         /\ ProducesMidi \in BOOLEAN
                         /\ Behaviours \subseteq AllBehaviours
                         /\ MaxOps \in Nat

VARIABLES
  value,         \* the plugin's parameters
  tracked,       \* last_parameter_values
  pending,       \* pending_parameter_changes
  lock,          \* owner of pending_parameter_changes_lock
  pc,            \* where each thread is
  ret,           \* where enqueueParameterChange returns to
  resume,        \* where the listener callback returns to
  change,        \* argument of the callback or of enqueueParameterChange
  next,          \* i in enqueueChangedParameters
  snapshot,      \* what snapshotParameterValues returned
  oldValues,     \* the local of setState
  inbox,         \* parameter changes on the MIDI input port, not handled yet
  swapped,       \* the local `changes` of flushParameterChanges
  portMidi,      \* the output port starts with the plugin's own MIDI
  portChanges,   \* the parameter messages on the output port
  delivered,     \* history: what the host read from the port
  reported,      \* history: what was enqueued, as it is to be sent
  ops            \* calls started so far, at most MaxOps

localVars == <<ret, resume, change, next, snapshot>>
portVars  == <<swapped, portMidi, portChanges, delivered>>
listVars  == <<pending, lock, reported>>
vars == <<value, tracked, listVars, pc, localVars, oldValues, inbox,
          portVars, ops>>

Idle     == {"idle"}
Plugin   == {"block", "loading", "program"}    \* the plugin's own code runs
Callback == {"enqueue", "push", "track", "compare", "snapshot", "assign"}
Cycle    == {"input", "block", "flush", "emit", "return"}
Label    == Idle \cup Plugin \cup Callback \cup Cycle \cup {"compareOld"}

Wire(c)   == [index |-> c.index, value |-> Transport[c.value]]
Encode(s) == [i \in 1..Len(s) |-> Wire(s[i])]

Goto(t, label) == pc' = [pc EXCEPT ![t] = label]
Begin(what)    == what \in Behaviours /\ ops < MaxOps /\ ops' = ops + 1

-----------------------------------------------------------------------------
Init ==
  /\ value = [p \in Params |-> Default]
  /\ tracked = value
  /\ pending = <<>> /\ lock = NoThread /\ reported = <<>>
  /\ pc = [t \in Threads |-> "idle"]
  /\ ret = [t \in Threads |-> "track"]
  /\ resume = [t \in Threads |-> "idle"]
  /\ change = [t \in Threads |-> [index |-> 0, value |-> Default]]
  /\ next = [t \in Threads |-> 0]
  /\ snapshot = [t \in Threads |-> value]
  /\ oldValues = value
  /\ inbox = <<>>
  /\ swapped = <<>> /\ portMidi = FALSE /\ portChanges = <<>>
  /\ delivered = <<>>
  /\ ops = 0

-----------------------------------------------------------------------------
(* Calls into the wrapper's listener.                                      *)

\* The parameter takes the value, then its listeners hear of it.
NotifyValue(t, c, back) ==
  /\ value' = [value EXCEPT ![c.index] = c.value]
  /\ change' = [change EXCEPT ![t] = c]
  /\ ret' = [ret EXCEPT ![t] = "track"]
  /\ resume' = [resume EXCEPT ![t] = back]
  /\ Goto(t, "enqueue")
  /\ UNCHANGED <<tracked, listVars, next, snapshot, oldValues, portVars>>

\* audioProcessorChanged, from updateHostDisplay(): compare the parameters
\* with last_parameter_values itself, which is passed by reference.  The call
\* that may follow, notify_parameters_changed, is the host's: it changes nothing
\* here.
NotifyDisplay(t, back) ==
  /\ resume' = [resume EXCEPT ![t] = back]
  /\ next' = [next EXCEPT ![t] = 0]
  /\ Goto(t, "compare")
  /\ UNCHANGED <<value, tracked, listVars, ret, change, snapshot, oldValues,
                 inbox, portVars>>

\* An editor, a worker or a state loader changes a parameter.
Edit(t) ==
  /\ \/ t # Audio /\ pc[t] = "idle" /\ Begin("edit")
     \/ pc[t] = "block" /\ Begin("blockEdit")
     \/ pc[t] = "loading" /\ Begin("loadReports")
  /\ \E c \in Change : NotifyValue(t, c, pc[t])
  /\ UNCHANGED inbox

UpdateHostDisplay(t) ==
  /\ \/ t # Audio /\ pc[t] = "idle"
     \/ pc[t] = "block" /\ "blockEdit" \in Behaviours
     \/ pc[t] = "loading" /\ "loadReports" \in Behaviours
  /\ Begin("display")
  /\ NotifyDisplay(t, pc[t])

-----------------------------------------------------------------------------
(* enqueueParameterChange and what follows it.                             *)

DropUnreportable(t) ==
  /\ pc[t] = "enqueue" /\ change[t].index > MaxIndex
  /\ Goto(t, ret[t])
  /\ UNCHANGED <<value, tracked, listVars, localVars, oldValues, inbox,
                 portVars, ops>>

LockPending(t) ==
  /\ pc[t] = "enqueue" /\ change[t].index <= MaxIndex
  /\ lock = NoThread
  /\ lock' = t
  /\ Goto(t, "push")
  /\ UNCHANGED <<value, tracked, pending, reported, localVars, oldValues,
                 inbox, portVars, ops>>

\* Variant: the mutex is not released.
PushChangeKeepsLock(t) ==
  /\ pc[t] = "push"
  /\ pending' = Append(pending, change[t])
  /\ reported' = Append(reported, Wire(change[t]))
  /\ Goto(t, ret[t])
  /\ UNCHANGED <<value, tracked, lock, localVars, oldValues, inbox, portVars,
                 ops>>

\* Variant: the newest change goes first.
PushChangeInFront(t) ==
  /\ pc[t] = "push"
  /\ pending' = <<change[t]>> \o pending
  /\ reported' = Append(reported, Wire(change[t]))
  /\ lock' = NoThread
  /\ Goto(t, ret[t])
  /\ UNCHANGED <<value, tracked, localVars, oldValues, inbox, portVars, ops>>

PushChange(t) ==
  /\ pc[t] = "push"
  /\ pending' = Append(pending, change[t])
  /\ reported' = Append(reported, Wire(change[t]))
  /\ lock' = NoThread
  /\ Goto(t, ret[t])
  /\ UNCHANGED <<value, tracked, localVars, oldValues, inbox, portVars, ops>>

\* Variant: a notified value is not remembered.
TrackForgets(t) ==
  /\ pc[t] = "track"
  /\ Goto(t, resume[t])
  /\ UNCHANGED <<value, tracked, listVars, localVars, oldValues, inbox,
                 portVars, ops>>

\* updateTrackedParameterValue
Track(t) ==
  /\ pc[t] = "track"
  /\ tracked' = [tracked EXCEPT ![change[t].index] = change[t].value]
  /\ Goto(t, resume[t])
  /\ UNCHANGED <<value, listVars, localVars, oldValues, inbox, portVars, ops>>

-----------------------------------------------------------------------------
(* enqueueChangedParameters and the assignment that follows it.            *)

\* One turn of the loop.
CompareWith(t, differs) ==
  /\ next' = [next EXCEPT ![t] = @ + 1]
  /\ IF differs
     THEN /\ change' = [change EXCEPT ![t] = [index |-> next[t],
                                              value |-> value[next[t]]]]
          /\ ret' = [ret EXCEPT ![t] = pc[t]]
          /\ Goto(t, "enqueue")
     ELSE UNCHANGED <<change, ret, pc>>

\* Another thread replaces the vector while this one reads it: the element
\* read may be of the old buffer, of the new one or of freed memory.
Racing(t) == \E u \in Threads \ {t} : pc[u] = "assign"

CompareParameter(t) ==
  /\ next[t] < NumParams
  /\ \/ /\ pc[t] = "compare" /\ ~Racing(t)
        /\ CompareWith(t, value[next[t]] # tracked[next[t]])
     \/ /\ pc[t] = "compare" /\ Racing(t)
        /\ \E differs \in BOOLEAN : CompareWith(t, differs)
     \/ /\ pc[t] = "compareOld"
        /\ CompareWith(t, value[next[t]] # oldValues[next[t]])
  /\ UNCHANGED <<value, tracked, listVars, resume, snapshot, oldValues, inbox,
                 portVars, ops>>

CompareDone(t) ==
  /\ pc[t] \in {"compare", "compareOld"} /\ next[t] = NumParams
  /\ Goto(t, "snapshot")
  /\ UNCHANGED <<value, tracked, listVars, localVars, oldValues, inbox,
                 portVars, ops>>

SnapshotValues(t) ==
  /\ pc[t] = "snapshot"
  /\ snapshot' = [snapshot EXCEPT ![t] = value]
  /\ Goto(t, "assign")
  /\ UNCHANGED <<value, tracked, listVars, ret, resume, change, next,
                 oldValues, inbox, portVars, ops>>

AssignTracked(t) ==
  /\ pc[t] = "assign"
  /\ tracked' = snapshot[t]
  /\ Goto(t, resume[t])
  /\ UNCHANGED <<value, listVars, localVars, oldValues, inbox, portVars, ops>>

-----------------------------------------------------------------------------
(* setState and setPresetIndex, on the message thread.                     *)

SetState ==
  /\ pc[Main] = "idle" /\ Begin("state")
  /\ oldValues' = value
  /\ Goto(Main, "loading")
  /\ UNCHANGED <<value, tracked, listVars, localVars, inbox, portVars>>

SetPresetIndex ==
  /\ pc[Main] = "idle" /\ Begin("program")
  /\ Goto(Main, "program")
  /\ UNCHANGED <<value, tracked, listVars, localVars, oldValues, inbox,
                 portVars>>

\* setStateInformation and setCurrentProgram may write a parameter without
\* telling anybody.
SilentSet ==
  /\ pc[Main] \in {"loading", "program"}
  /\ \E c \in Change :
       /\ value[c.index] # c.value
       /\ value' = [value EXCEPT ![c.index] = c.value]
  /\ UNCHANGED <<tracked, listVars, pc, localVars, oldValues, inbox, portVars,
                 ops>>

\* Variant: the comparison starts after the first parameter.
StateLoadedSkipsFirst ==
  /\ pc[Main] = "loading"
  /\ resume' = [resume EXCEPT ![Main] = "idle"]
  /\ next' = [next EXCEPT ![Main] = 1]
  /\ Goto(Main, "compareOld")
  /\ UNCHANGED <<value, tracked, listVars, ret, change, snapshot, oldValues,
                 inbox, portVars, ops>>

StateLoaded ==
  /\ pc[Main] = "loading"
  /\ resume' = [resume EXCEPT ![Main] = "idle"]
  /\ next' = [next EXCEPT ![Main] = 0]
  /\ Goto(Main, "compareOld")
  /\ UNCHANGED <<value, tracked, listVars, ret, change, snapshot, oldValues,
                 inbox, portVars, ops>>

\* setPresetIndex adds nothing to what the plugin's setCurrentProgram does.
ProgramChanged ==
  /\ pc[Main] = "program"
  /\ \/ NotifyDisplay(Main, "idle")
     \/ /\ "silentProgram" \in Behaviours
        /\ Goto(Main, "idle")
        /\ UNCHANGED <<value, tracked, listVars, localVars, oldValues, inbox,
                       portVars>>
  /\ UNCHANGED ops

-----------------------------------------------------------------------------
(* process, on the audio thread.                                           *)

\* The host calls process() with at most one parameter change on the port.
ProcessStart ==
  /\ pc[Audio] = "idle"
  /\ \/ inbox' = <<>> /\ UNCHANGED ops
     \/ Begin("inbound") /\ \E c \in Change : inbox' = <<c>>
  /\ Goto(Audio, "input")
  /\ UNCHANGED <<value, tracked, listVars, localVars, oldValues, portVars>>

\* processMidiInputs: setValue and sendValueChangedMessageToListeners, which
\* call the wrapper's own listener.
ParameterInput ==
  /\ pc[Audio] = "input" /\ inbox # <<>>
  /\ NotifyValue(Audio, Head(inbox), "input")
  /\ inbox' = Tail(inbox)
  /\ UNCHANGED ops

InputDone ==
  /\ pc[Audio] = "input" /\ inbox = <<>>
  /\ Goto(Audio, "block")
  /\ UNCHANGED <<value, tracked, listVars, localVars, oldValues, inbox,
                 portVars, ops>>

\* Variant: the port is only written when the plugin produces MIDI.
WriteMidiOutputNoClear ==
  /\ pc[Audio] = "block"
  /\ portMidi' \in BOOLEAN
  /\ portChanges' = IF portMidi' THEN <<>> ELSE portChanges
  /\ Goto(Audio, "flush")
  /\ UNCHANGED <<value, tracked, listVars, localVars, oldValues, inbox,
                 swapped, delivered, ops>>

\* processBlock returns; clearMidiOutput, then processMidiOutputs.
WriteMidiOutput ==
  /\ pc[Audio] = "block"
  /\ IF HasOutPort
     THEN /\ portChanges' = <<>>
          /\ portMidi' \in IF ProducesMidi THEN BOOLEAN ELSE {FALSE}
     ELSE UNCHANGED <<portChanges, portMidi>>
  /\ Goto(Audio, "flush")
  /\ UNCHANGED <<value, tracked, listVars, localVars, oldValues, inbox,
                 swapped, delivered, ops>>

\* Variant: the list is taken whoever holds the mutex.
TakePendingUnlocked ==
  /\ pc[Audio] = "flush" /\ HasOutPort
  /\ swapped' = pending
  /\ pending' = <<>>
  /\ Goto(Audio, "emit")
  /\ UNCHANGED <<value, tracked, lock, reported, localVars, oldValues, inbox,
                 portMidi, portChanges, delivered, ops>>

\* flushParameterChanges up to the unlock.  A held mutex is not waited for.
TakePending ==
  /\ pc[Audio] = "flush" /\ HasOutPort /\ lock = NoThread
  /\ swapped' = pending
  /\ pending' = <<>>
  /\ Goto(Audio, "emit")
  /\ UNCHANGED <<value, tracked, lock, reported, localVars, oldValues, inbox,
                 portMidi, portChanges, delivered, ops>>

SkipFlush ==
  /\ pc[Audio] = "flush" /\ (~HasOutPort \/ lock # NoThread)
  /\ Goto(Audio, "return")
  /\ UNCHANGED <<value, tracked, listVars, localVars, oldValues, inbox,
                 portVars, ops>>

\* Variant: normalized values go on the port as they are.
EmitChangesUntranslated ==
  /\ pc[Audio] = "emit"
  /\ portChanges' = portChanges \o swapped
  /\ swapped' = <<>>
  /\ Goto(Audio, "return")
  /\ UNCHANGED <<value, tracked, listVars, localVars, oldValues, inbox,
                 portMidi, delivered, ops>>

\* The rest of flushParameterChanges.
EmitChanges ==
  /\ pc[Audio] = "emit"
  /\ portChanges' = portChanges \o Encode(swapped)
  /\ swapped' = <<>>
  /\ Goto(Audio, "return")
  /\ UNCHANGED <<value, tracked, listVars, localVars, oldValues, inbox,
                 portMidi, delivered, ops>>

\* process() returns and the host reads the port.
ProcessReturn ==
  /\ pc[Audio] = "return"
  /\ delivered' = delivered \o portChanges
  /\ Goto(Audio, "idle")
  /\ UNCHANGED <<value, tracked, listVars, localVars, oldValues, inbox,
                 swapped, portMidi, portChanges, ops>>

-----------------------------------------------------------------------------
\* A thread inside a callback goes on by itself.
CallbackStep(t) ==
  \/ DropUnreportable(t) \/ LockPending(t) \/ PushChange(t) \/ Track(t)
  \/ CompareParameter(t) \/ CompareDone(t)
  \/ SnapshotValues(t) \/ AssignTracked(t)

ProcessStep ==
  \/ ProcessStart \/ ParameterInput \/ InputDone \/ WriteMidiOutput
  \/ TakePending \/ SkipFlush \/ EmitChanges \/ ProcessReturn

LoadStep == StateLoaded \/ ProgramChanged

Next ==
  \/ \E t \in Threads : Edit(t) \/ UpdateHostDisplay(t) \/ CallbackStep(t)
  \/ SetState \/ SetPresetIndex \/ SilentSet \/ LoadStep
  \/ ProcessStep

Spec == Init /\ [][Next]_vars

\* A callback and a load run to their end, and the host keeps calling
\* process(); nothing makes the plugin, the user or the host start a change.
Fairness == /\ \A t \in Threads : WF_vars(CallbackStep(t))
            /\ WF_vars(LoadStep)
            /\ WF_vars(ProcessStep)

FairSpec == Spec /\ Fairness

-----------------------------------------------------------------------------
(* Properties.                                                             *)

TypeOK ==
  /\ value \in [Params -> Values]
  /\ tracked \in [Params -> Values]
  /\ pending \in Seq(Change)
  /\ lock \in Threads \cup {NoThread}
  /\ reported \in Seq(Message)
  /\ pc \in [Threads -> Label]
  /\ ret \in [Threads -> {"track", "compare", "compareOld"}]
  /\ resume \in [Threads -> {"idle", "input", "block", "loading"}]
  /\ change \in [Threads -> Change]
  /\ next \in [Threads -> 0..NumParams]
  /\ snapshot \in [Threads -> [Params -> Values]]
  /\ oldValues \in [Params -> Values]
  /\ inbox \in Seq(Change)
  /\ swapped \in Seq(Change)
  /\ portMidi \in BOOLEAN
  /\ portChanges \in Seq(Message)
  /\ delivered \in Seq(Message)
  /\ ops \in Nat

\* What this process() call has put on the port.  Outside of it the port still
\* holds the messages of the last call, which the host has read.
Unread == IF pc[Audio] \in {"flush", "emit", "return"} THEN portChanges
                                                       ELSE <<>>

\* Every change that was enqueued is, in the order of enqueueing, either read
\* by the host, or on the port and unread, or in the local list of
\* flushParameterChanges, or pending: nothing is lost when a flush is skipped,
\* and nothing is sent again from a port that was not cleared.
ReportsInOrder ==
  reported = delivered \o Unread \o Encode(swapped) \o Encode(pending)

\* The audio thread never takes pending_parameter_changes while another thread
\* is inside push_back on it.
SwapExcludesPush ==
  [][pc[Audio] = "flush" /\ pc'[Audio] = "emit"
       => \A t \in Threads : pc[t] # "push"]_vars

\* The wrapper implements the promise of ParameterReports.
Promise == INSTANCE ParameterReports WITH Messages <- Message
ImplementsReports == Promise!Spec

\* A change that was enqueued is read by the host at last, although a flush
\* that finds the mutex taken gives up.
EventuallyDelivered ==
  \A n \in 1..MaxOps * NumParams :
    Len(reported) = n ~> Len(delivered) >= n

\* The value of parameter p after the messages s: that of the last one about
\* it, or what the plugin started with.
Told(s, p) ==
  LET told == {i \in 1..Len(s) : s[i].index = p}
      last == CHOOSE i \in told : \A j \in told : j <= i
  IN  IF told = {} THEN Transport[Default] ELSE s[last].value

\* The value of a parameter, as the host has been told.
HostValue(p) == Told(delivered, p)

Quiet == /\ \A t \in Threads : pc[t] = "idle"
         /\ pending = <<>>

\* When nothing is going on and nothing is pending, the host knows the value
\* of every parameter that can be reported: neither a state load nor a program
\* change that the plugin made in silence has slipped past the comparison
\* with the values of before.
HostConverges ==
  Quiet => \A p \in Params : p <= MaxIndex => HostValue(p) = Transport[value[p]]

\* Between two calls last_parameter_values is what the plugin has, so that a
\* comparison with it reports each change once.
TrackedIsCurrent ==
  (\A t \in Threads : pc[t] \in Idle \cup Cycle) => tracked = value
=============================================================================
