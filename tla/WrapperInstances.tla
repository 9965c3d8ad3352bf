------------------------- MODULE WrapperInstances -------------------------
(***************************************************************************)
(* The plugin's process: the JuceAAPWrappers of all plugins that live in   *)
(* it, what they share, and the calls that a Binder thread makes on them.  *)
(*                                                                         *)
(* Shared are the two tables of extensions, keyed by the address of the    *)
(* plugin, the error code juce_aap_wrapper_last_error_code, and the JUCE   *)
(* message thread, on which state and preset calls run while their caller  *)
(* waits (juceaap_callOnExistingMessageThreadIfNeeded).                    *)
(*                                                                         *)
(* The plugin's state changes whenever it likes: getStateInformation may   *)
(* give any state.  What setState and setPresetIndex do to the parameters  *)
(* is in ParameterChanges.                                                 *)
(*                                                                         *)
(* What AAP does is an assumption: the calls on one plugin come one at a   *)
(* time, calls that touch the tables do not overlap, and no call is made   *)
(* on a released plugin.                                                   *)
(***************************************************************************)
EXTENDS Integers, Sequences

CONSTANTS
  Addresses,       \* where an AndroidAudioPlugin may be allocated
  Cells,           \* where an extension may be allocated
  Binder,          \* Binder threads
  Main,            \* the JUCE message thread
  States,          \* what a plugin's state may be
  Size,            \* bytes of each state, as getStateInformation writes it
  None             \* no thread, no extension, no answer, no plugin

\* What a JuceAAPWrapper has: aap_state_t (data and its size, and the size of the
\* memory), whether prepareToPlay was called, and the play head's flag.
Wrappers ==
  [capacity : Nat, size : Nat, data : States \cup {"null", "zero"},
   prepared : BOOLEAN, playing : BOOLEAN]

ASSUME WrapperAssumption ==
  /\ Main \notin Binder
  /\ Size \in [States -> Nat \ {0}] /\ "null" \notin States
  /\ None \notin Addresses \cup Cells \cup Binder \cup {Main} \cup States
  /\ None \notin Wrappers

Threads == Binder \cup {Main}
Uris    == {"state", "presets"}        \* those with a table
Ops     == {"getState", "other"}       \* other: getStateSize, setState, presets

VARIABLES
  wrapper,     \* the JuceAAPWrapper at each address, or None
  table,       \* state_ext_map and presets_ext_map
  lastError,   \* juce_aap_wrapper_last_error_code is not JUCEAAP_SUCCESS
  pc,          \* where each thread is in its call
  call,        \* the call: the plugin, the operation, what it works on
  queue,       \* messages for the message thread: <<"call" or "lock", thread>>
  serving,     \* whose call the message thread runs
  locked,      \* who has the MessageManagerLock
  given,       \* the extensions that AAP was given for the plugin there
  answer       \* the aap_state_t that AAP was given, until its next getState

threadVars == <<pc, call>>
loopVars   == <<queue, serving, locked>>
aapVars    == <<given, answer>>
wrapperVars == <<wrapper, table, lastError, threadVars, loopVars, aapVars>>

Live == {a \in Addresses : wrapper[a] # None}

\* A wrapper as its constructor leaves it; state.data is null.
NewWrapper ==
  [capacity |-> 0, size |-> 0, data |-> "null", prepared |-> FALSE, playing |-> FALSE]

NoCall == [plugin |-> None, op |-> "none", arg |-> None]

WrapperInit ==
  /\ wrapper = [a \in Addresses |-> None]
  /\ table = [u \in Uris |-> [a \in Addresses |-> None]]
  /\ lastError = FALSE
  /\ pc = [t \in Threads |-> "idle"]
  /\ call = [t \in Threads |-> NoCall]
  /\ queue = <<>> /\ serving = None /\ locked = None
  /\ given = [a \in Addresses |-> {}]
  /\ answer = [a \in Addresses |-> None]

\* AAP makes no two calls on one plugin at once.
Quiet(a) == \A t \in Threads : call[t].plugin # a

-----------------------------------------------------------------------------
(* The factory and the tables of extensions.                               *)

\* juceaap_instantiate: malloc may return the address of a released plugin.
Instantiate(a) ==
  /\ wrapper[a] = None
  /\ wrapper' = [wrapper EXCEPT ![a] = NewWrapper]
  /\ UNCHANGED <<table, lastError, threadVars, loopVars, aapVars>>

Allocated == {table[u][a] : u \in Uris, a \in Addresses} \ {None}

\* juceaap_get_extension: an extension is made when its table has none.  Any
\* free memory is as good as any other, and there is some.
GetExtension(a, u) ==
  /\ a \in Live /\ Quiet(a)
  /\ IF table[u][a] = None
     THEN /\ \E c \in Cells : c \notin Allocated
          /\ table' = [table EXCEPT ![u][a] = CHOOSE c \in Cells : c \notin Allocated]
     ELSE UNCHANGED table
  /\ given' = [given EXCEPT ![a] = @ \cup {<<u, table'[u][a]>>}]
  /\ UNCHANGED <<wrapper, lastError, threadVars, loopVars, answer>>

ReleaseWith(a, presets) ==
  /\ a \in Live /\ Quiet(a)
  /\ wrapper' = [wrapper EXCEPT ![a] = None]
  /\ table' = [table EXCEPT !["presets"] = presets]
  /\ given' = [given EXCEPT ![a] = {}]
  /\ answer' = [answer EXCEPT ![a] = None]
  /\ UNCHANGED <<lastError, threadVars, loopVars>>

\* Variant: the whole table of presets is cleared.
ReleaseAllPresets(a) == ReleaseWith(a, [b \in Addresses |-> None])

\* juceaap_release erases the plugin's presets extension; its state extension
\* stays in the table, for the next plugin at that address.
Release(a) == ReleaseWith(a, [table["presets"] EXCEPT ![a] = None])

-----------------------------------------------------------------------------
(* prepare, activate and deactivate.                                       *)

Begin(t, a, op, arg, label) ==
  /\ pc[t] = "idle" /\ a \in Live /\ Quiet(a)
  /\ call' = [call EXCEPT ![t] = [plugin |-> a, op |-> op, arg |-> arg]]
  /\ pc' = [pc EXCEPT ![t] = label]

\* Variant: a good buffer clears the error.
AllocateBufferClearsError(t, a, buffer) ==
  /\ t \in Binder /\ Begin(t, a, "prepare", buffer, "prepare")
  /\ lastError' = (buffer = "null")
  /\ UNCHANGED <<wrapper, table, loopVars, aapVars>>

\* prepare, first half: allocateBuffer reports a null buffer, in the variable
\* of the process.
AllocateBuffer(t, a, buffer) ==
  /\ t \in Binder /\ Begin(t, a, "prepare", buffer, "prepare")
  /\ lastError' = (lastError \/ buffer = "null")
  /\ UNCHANGED <<wrapper, table, loopVars, aapVars>>

\* Variant: the prepare that an error stops also clears it.
PrepareToPlayClearsError(t) ==
  /\ pc[t] = "prepare"
  /\ wrapper' = IF lastError THEN wrapper
                ELSE [wrapper EXCEPT ![call[t].plugin].prepared = TRUE]
  /\ lastError' = FALSE
  /\ pc' = [pc EXCEPT ![t] = "idle"]
  /\ call' = [call EXCEPT ![t] = NoCall]
  /\ UNCHANGED <<table, loopVars, aapVars>>

\* prepare, second half: after an error, whoever made it, nothing; else
\* prepareToPlay with the number of frames of the buffer.
PrepareToPlay(t) ==
  /\ pc[t] = "prepare"
  /\ wrapper' = IF lastError THEN wrapper
                ELSE [wrapper EXCEPT ![call[t].plugin].prepared = TRUE]
  /\ pc' = [pc EXCEPT ![t] = IF ~lastError /\ call[t].arg = "null"
                             THEN "null buffer read" ELSE "idle"]
  /\ call' = [call EXCEPT ![t] = NoCall]
  /\ UNCHANGED <<table, lastError, loopVars, aapVars>>

\* activate and deactivate set the play head's flag.
SetPlaying(a, playing) ==
  /\ a \in Live /\ Quiet(a)
  /\ wrapper' = [wrapper EXCEPT ![a].playing = playing]
  /\ UNCHANGED <<table, lastError, threadVars, loopVars, aapVars>>

-----------------------------------------------------------------------------
(* State and preset calls: juceaap_callOnExistingMessageThreadIfNeeded.    *)

\* A call arrives on a Binder thread, or on the message thread itself when it
\* is in no other call.  AAP has copied what the last getState gave it.
Call(t, a, op) ==
  /\ op \in Ops
  /\ t = Main => serving = None /\ locked = None
  /\ Begin(t, a, op, None, "entering")
  /\ answer' = IF op = "getState" THEN [answer EXCEPT ![a] = None] ELSE answer
  /\ UNCHANGED <<wrapper, table, lastError, loopVars, given>>

\* Variant: the lock of the message manager is not asked for.
EnterUnlessMain(t) ==
  /\ pc[t] = "entering"
  /\ IF t = Main
     THEN pc' = [pc EXCEPT ![t] = "running"] /\ UNCHANGED queue
     ELSE /\ pc' = [pc EXCEPT ![t] = "posted"]
          /\ queue' = Append(queue, <<"call", t>>)
  /\ UNCHANGED <<wrapper, table, lastError, call, serving, locked, aapVars>>

\* Variant: the message thread posts to itself.
EnterPosts(t) ==
  /\ pc[t] = "entering"
  /\ pc' = [pc EXCEPT ![t] = "posted"]
  /\ queue' = Append(queue, <<"call", t>>)
  /\ UNCHANGED <<wrapper, table, lastError, call, serving, locked, aapVars>>

\* Variant: every call runs where it arrives.
EnterDirectly(t) ==
  /\ pc[t] = "entering"
  /\ pc' = [pc EXCEPT ![t] = "running"]
  /\ UNCHANGED <<wrapper, table, lastError, call, loopVars, aapVars>>

\* On the message thread, or with its lock, the function is called; else it
\* is posted and waited for.  (Without a message manager it would be called too,
\* but the constructor of a plugin needs one before there is a plugin to call.)
Enter(t) ==
  /\ pc[t] = "entering"
  /\ IF t = Main \/ locked = t
     THEN pc' = [pc EXCEPT ![t] = "running"] /\ UNCHANGED queue
     ELSE /\ pc' = [pc EXCEPT ![t] = "posted"]
          /\ queue' = Append(queue, <<"call", t>>)
  /\ UNCHANGED <<wrapper, table, lastError, call, serving, locked, aapVars>>

\* JUCE's MessageManagerLock, which the plugin's code may take around a call:
\* a message that keeps the message thread until the lock is released.
RequestLock(t) ==
  /\ t \in Binder /\ pc[t] = "idle" /\ locked # t
  /\ pc' = [pc EXCEPT ![t] = "locking"]
  /\ queue' = Append(queue, <<"lock", t>>)
  /\ UNCHANGED <<wrapper, table, lastError, call, serving, locked, aapVars>>

ReleaseLock(t) ==
  /\ locked = t /\ pc[t] = "idle"
  /\ locked' = None
  /\ UNCHANGED <<wrapper, table, lastError, threadVars, queue, serving, aapVars>>

\* The message thread takes the next message.
Dispatch ==
  /\ queue # <<>> /\ serving = None /\ locked = None /\ pc[Main] = "idle"
  /\ LET t == Head(queue)[2]
     IN  IF Head(queue)[1] = "call"
         THEN /\ serving' = t /\ UNCHANGED locked
              /\ pc' = [pc EXCEPT ![t] = "running"]
         ELSE /\ locked' = t /\ UNCHANGED serving
              /\ pc' = [pc EXCEPT ![t] = "idle"]
  /\ queue' = Tail(queue)
  /\ UNCHANGED <<wrapper, table, lastError, call, aapVars>>

\* Variant: a buffer once made is kept.
GrowStateOnce(w, bytes) ==
  IF w.data = "null" THEN [w EXCEPT !.capacity = bytes, !.data = "zero"] ELSE w

\* getState makes a new buffer when the state is larger than the last one.
GrowState(w, bytes) ==
  IF w.data = "null" \/ w.size < bytes
  THEN [w EXCEPT !.capacity = bytes, !.data = "zero"] ELSE w

\* The function starts: getStateInformation, and room for what it gave.
Serialize(t) ==
  \E s \in States :
      /\ pc[t] = "running" /\ call[t].op = "getState"
      /\ call' = [call EXCEPT ![t].arg = s]
      /\ wrapper' = [wrapper EXCEPT ![call[t].plugin] = GrowState(@, Size[s])]
      /\ pc' = [pc EXCEPT ![t] = "copying"]
      /\ UNCHANGED <<table, lastError, loopVars, aapVars>>

\* The function returns, and with it the call.
Finish(t) ==
  /\ pc' = [pc EXCEPT ![t] = "idle"]
  /\ call' = [call EXCEPT ![t] = NoCall]
  /\ serving' = IF serving = t THEN None ELSE serving
  /\ UNCHANGED <<table, lastError, queue, locked, given>>

\* Variant: the wrappers share one buffer.
PublishShared(t) ==
  LET s == call[t].arg
  IN  /\ pc[t] = "copying" /\ Finish(t)
      /\ wrapper' = [a \in Addresses |->
           IF a \in Live THEN [wrapper[a] EXCEPT !.size = Size[s], !.data = s]
           ELSE None]
      /\ answer' = [answer EXCEPT ![call[t].plugin] = s]

\* getState copies the state and hands out its own buffer and size.
Publish(t) ==
  LET a == call[t].plugin  s == call[t].arg
  IN  /\ pc[t] = "copying" /\ Finish(t)
      /\ wrapper' = [wrapper EXCEPT ![a].size = Size[s], ![a].data = s]
      /\ answer' = [answer EXCEPT ![a] = s]

\* The functions of the other calls keep nothing of the wrapper's.
RunOther(t) ==
  /\ pc[t] = "running" /\ call[t].op = "other" /\ Finish(t)
  /\ UNCHANGED <<wrapper, answer>>

-----------------------------------------------------------------------------
(* The steps that need nobody to begin them, and their fairness: threads run,
   the message loop runs, and whoever has the lock releases it.            *)

CallStep(t) == PrepareToPlay(t) \/ Enter(t) \/ Serialize(t) \/ Publish(t)
                 \/ RunOther(t) \/ ReleaseLock(t)

WrapperStep == Dispatch \/ \E t \in Threads : CallStep(t)
=============================================================================
