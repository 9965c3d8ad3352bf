----------------------------- MODULE NativeUi -----------------------------
(***************************************************************************)
(* The plugin's own user interface inside a host's editor.                 *)
(*                                                                         *)
(* In the host, AndroidNativeAudioProcessorEditor starts a worker thread   *)
(* that asks the plugin for the size of its view; the answer comes back to *)
(* the message thread, which then connects the remote view.  The editor    *)
(* may be closed and opened again at any time.                             *)
(*                                                                         *)
(* In the plugin's process a Binder thread answers the question with the   *)
(* help of that process's message thread (getAndroidViewPreferredSize),    *)
(* and each new JuceAudioProcessorEditorView has the JUCE editor put on it *)
(* (addAndroidView).                                                       *)
(***************************************************************************)
EXTENDS Integers, Sequences

CONSTANTS
  MaxOpens,          \* bound: editors that the host opens
  ViewThreads,       \* where views may be built: "message", "other"
  Size,              \* size of the plugin's JUCE editor, or NoSize
  DefaultSize,       \* getDefaultEditorBounds
  NoSize             \* zero, the value of a preferred size not known yet

ASSUME UiAssumption == /\ MaxOpens \in Nat
                       /\ ViewThreads \subseteq {"message", "other"}
                       /\ DefaultSize # NoSize

Gens == 1..MaxOpens          \* editors, and their views, by age
None == 0
Trash == MaxOpens + 1        \* what dead stack memory holds

VARIABLES
  \* the host's process
  opened,        \* editors opened so far
  editor,        \* the editor that exists, or None
  hostMain,      \* the message thread: in its loop or in the destructor
  worker,        \* the PreferredSizeThread of each editor
  answer,        \* what getRemoteNativeViewPreferredSize gave it
  hostQueue,     \* callAsync messages: <<editor, bounds>>
  connected,     \* `connected` of each editor
  connects,      \* history: calls of connectRemoteNativeView
  \* the plugin's process
  request,       \* the getPreferredSize call that a Binder thread serves
  preferred,     \* android_preferred_view_width and _height
  viewFrame,     \* the view whose addAndroidView call is running, or None
  viewsDue,      \* connected, but the view is not built yet
  pluginQueue,   \* messages: <<"size", editor>> or <<"attach", view>>
  jucePeer,      \* the view that the JUCE editor is on, or None
  viewGiven      \* history: the view it was to be put on

hostVars   == <<opened, editor, hostMain, worker, answer, hostQueue,
                connected, connects>>
pluginVars == <<request, preferred, viewFrame, viewsDue, pluginQueue, jucePeer,
                viewGiven>>
vars == <<hostVars, pluginVars>>

Init ==
  /\ opened = 0 /\ editor = None /\ hostMain = "loop"
  /\ worker = [g \in Gens |-> "none"]
  /\ answer = [g \in Gens |-> NoSize]
  /\ hostQueue = <<>>
  /\ connected = [g \in Gens |-> FALSE]
  /\ connects = <<>>
  /\ request = [g \in Gens |-> "none"]
  /\ preferred = NoSize
  /\ viewFrame = None /\ viewsDue = {} /\ pluginQueue = <<>>
  /\ jucePeer = None /\ viewGiven = None

-----------------------------------------------------------------------------
(* The host's message thread.                                              *)

\* createEditor: the constructor ends by starting the thread.
OpenEditor ==
  /\ hostMain = "loop" /\ editor = None /\ opened < MaxOpens
  /\ opened' = opened + 1
  /\ editor' = opened'
  /\ worker' = [worker EXCEPT ![opened'] = "started"]
  /\ UNCHANGED <<hostMain, answer, hostQueue, connected, connects, pluginVars>>

\* The destructor lets go of the view and waits in stopThread(-1).
CloseEditor ==
  /\ hostMain = "loop" /\ editor # None
  /\ hostMain' = "stopThread"
  /\ UNCHANGED <<opened, editor, worker, answer, hostQueue, connected,
                 connects, pluginVars>>

\* Variant: the destructor does not wait for the thread.
EditorClosedAtOnce ==
  /\ hostMain = "stopThread"
  /\ hostMain' = "loop"
  /\ editor' = None
  /\ UNCHANGED <<opened, worker, answer, hostQueue, connected, connects,
                 pluginVars>>

EditorClosed ==
  /\ hostMain = "stopThread" /\ worker[editor] = "ended"
  /\ hostMain' = "loop"
  /\ editor' = None
  /\ UNCHANGED <<opened, worker, answer, hostQueue, connected, connects,
                 pluginVars>>

\* Variant: the message does not ask whether its editor still exists.
RunHostMessageUnsafe ==
  /\ hostMain = "loop" /\ hostQueue # <<>>
  /\ hostQueue' = Tail(hostQueue)
  /\ LET g == Head(hostQueue)[1]
     IN  /\ connected' = [connected EXCEPT ![g] = TRUE]
         /\ connects' = Append(connects, Head(hostQueue))
         /\ viewsDue' = viewsDue \cup {g}
  /\ UNCHANGED <<opened, editor, hostMain, worker, answer, request, preferred,
                 viewFrame, pluginQueue, jucePeer, viewGiven>>

\* The message runs applyBoundsAndConnect if the SafePointer is not null.
RunHostMessage ==
  /\ hostMain = "loop" /\ hostQueue # <<>>
  /\ hostQueue' = Tail(hostQueue)
  /\ LET g == Head(hostQueue)[1]
     IN  IF editor = g /\ ~connected[g]
         THEN /\ connected' = [connected EXCEPT ![g] = TRUE]
              /\ connects' = Append(connects, Head(hostQueue))
              /\ viewsDue' = viewsDue \cup {g}
         ELSE UNCHANGED <<connected, connects, viewsDue>>
  /\ UNCHANGED <<opened, editor, hostMain, worker, answer, request, preferred,
                 viewFrame, pluginQueue, jucePeer, viewGiven>>

-----------------------------------------------------------------------------
(* updatePreferredBoundsAndConnectOnWorker.                                *)

\* The SafePointer is taken from the owner, and its instance is asked.
WorkerAsks(g) ==
  /\ worker[g] = "started"
  /\ worker' = [worker EXCEPT ![g] = "asking"]
  /\ request' = [request EXCEPT ![g] = "received"]
  /\ UNCHANGED <<opened, editor, hostMain, answer, hostQueue, connected,
                 connects, preferred, viewFrame, viewsDue, pluginQueue,
                 jucePeer, viewGiven>>

WorkerAnswered(g) ==
  /\ worker[g] = "asking" /\ request[g] = "replied"
  /\ worker' = [worker EXCEPT ![g] = "answered"]
  /\ answer' = [answer EXCEPT ![g] = preferred]
  /\ UNCHANGED <<opened, editor, hostMain, hostQueue, connected, connects,
                 pluginVars>>

\* The plugin's service is gone, or has no such view: the call gives false.
WorkerRefused(g) ==
  /\ worker[g] = "asking"
  /\ worker' = [worker EXCEPT ![g] = "answered"]
  /\ answer' = [answer EXCEPT ![g] = NoSize]
  /\ UNCHANGED <<opened, editor, hostMain, hostQueue, connected, connects,
                 pluginVars>>

\* Variant: without an answer there is no message.
WorkerPostsOnSuccess(g) ==
  /\ worker[g] = "answered"
  /\ worker' = [worker EXCEPT ![g] = "ended"]
  /\ hostQueue' = IF answer[g] = NoSize THEN hostQueue
                  ELSE Append(hostQueue, <<g, answer[g]>>)
  /\ UNCHANGED <<opened, editor, hostMain, answer, connected, connects,
                 pluginVars>>

\* Variant: an unknown size is posted as it is.
WorkerPostsAnswer(g) ==
  /\ worker[g] = "answered"
  /\ worker' = [worker EXCEPT ![g] = "ended"]
  /\ hostQueue' = Append(hostQueue, <<g, answer[g]>>)
  /\ UNCHANGED <<opened, editor, hostMain, answer, connected, connects,
                 pluginVars>>

\* Variant: the worker calls the message thread and waits, as
\* callFunctionOnMessageThread does.
WorkerCallsMessageThread(g) ==
  /\ worker[g] = "answered" /\ hostMain = "loop"
  /\ worker' = [worker EXCEPT ![g] = "ended"]
  /\ hostQueue' = Append(hostQueue,
                         <<g, IF answer[g] = NoSize THEN DefaultSize
                                                    ELSE answer[g]>>)
  /\ UNCHANGED <<opened, editor, hostMain, answer, connected, connects,
                 pluginVars>>

WorkerPosts(g) ==
  /\ worker[g] = "answered"
  /\ worker' = [worker EXCEPT ![g] = "ended"]
  /\ hostQueue' = Append(hostQueue,
                         <<g, IF answer[g] = NoSize THEN DefaultSize
                                                    ELSE answer[g]>>)
  /\ UNCHANGED <<opened, editor, hostMain, answer, connected, connects,
                 pluginVars>>

-----------------------------------------------------------------------------
(* The plugin's process.                                                   *)

\* getAndroidViewPreferredSize on a Binder thread: an old answer, or a
\* blocking call on the message thread.
QueryCached(g) ==
  /\ request[g] = "received" /\ preferred # NoSize
  /\ request' = [request EXCEPT ![g] = "replied"]
  /\ UNCHANGED <<hostVars, preferred, viewFrame, viewsDue, pluginQueue,
                 jucePeer, viewGiven>>

QueryOnMessageThread(g) ==
  /\ request[g] = "received" /\ preferred = NoSize
  /\ request' = [request EXCEPT ![g] = "waiting"]
  /\ pluginQueue' = Append(pluginQueue, <<"size", g>>)
  /\ UNCHANGED <<hostVars, preferred, viewFrame, viewsDue, jucePeer, viewGiven>>

\* The view's constructor calls addAndroidView, which moves the editor at once
\* on the message thread and else posts a message and returns.
ViewConstructor(v) ==
  /\ v \in viewsDue /\ viewFrame = None
  /\ viewsDue' = viewsDue \ {v}
  /\ \/ /\ "message" \in ViewThreads
        /\ jucePeer' = v
        /\ viewGiven' = v
        /\ UNCHANGED <<viewFrame, pluginQueue>>
     \/ /\ "other" \in ViewThreads
        /\ viewFrame' = v
        /\ pluginQueue' = Append(pluginQueue, <<"attach", v>>)
        /\ UNCHANGED <<jucePeer, viewGiven>>
  /\ UNCHANGED <<hostVars, request, preferred>>

ViewReturn ==
  /\ viewFrame # None
  /\ viewFrame' = None
  /\ UNCHANGED <<hostVars, request, preferred, viewsDue, pluginQueue, jucePeer,
                 viewGiven>>

\* querySize: the active editor's size or that of one made for the purpose.
RunSizeMessage ==
  /\ pluginQueue # <<>> /\ Head(pluginQueue)[1] = "size"
  /\ request' = [request EXCEPT ![Head(pluginQueue)[2]] = "sized"]
  /\ pluginQueue' = Tail(pluginQueue)
  /\ UNCHANGED <<hostVars, preferred, viewFrame, viewsDue, jucePeer, viewGiven>>

\* The Binder thread wakes up, keeps the size for later and replies.
QueryReturn(g) ==
  /\ request[g] = "sized"
  /\ request' = [request EXCEPT ![g] = "replied"]
  /\ preferred' = IF Size = NoSize THEN preferred ELSE Size
  /\ UNCHANGED <<hostVars, viewFrame, viewsDue, pluginQueue, jucePeer,
                 viewGiven>>

\* The creator captured parentLinearLayout by reference, a parameter of the
\* call that posted it: once that call has returned, the memory is anything's.
RunAttachMessage ==
  /\ pluginQueue # <<>> /\ Head(pluginQueue)[1] = "attach"
  /\ LET given == Head(pluginQueue)[2]
         found == IF viewFrame = given THEN {given} ELSE Gens \cup {Trash}
     IN  /\ jucePeer' \in found
         /\ viewGiven' = given
  /\ pluginQueue' = Tail(pluginQueue)
  /\ UNCHANGED <<hostVars, request, preferred, viewFrame, viewsDue>>

-----------------------------------------------------------------------------
HostLoop == EditorClosed \/ RunHostMessage

WorkerStep(g) == \/ WorkerAsks(g) \/ WorkerAnswered(g) \/ WorkerPosts(g)

BinderStep(g) == QueryCached(g) \/ QueryOnMessageThread(g) \/ QueryReturn(g)

PluginLoop == RunSizeMessage \/ RunAttachMessage

ViewStep == ViewReturn \/ \E v \in Gens : ViewConstructor(v)

Next ==
  \/ OpenEditor \/ CloseEditor \/ HostLoop
  \/ \E g \in Gens : WorkerStep(g) \/ WorkerRefused(g) \/ BinderStep(g)
  \/ PluginLoop \/ ViewStep

Spec == Init /\ [][Next]_vars

\* Threads run and message loops turn; nobody has to open or close anything,
\* and the service need not fail.
Fairness == /\ WF_vars(HostLoop)
            /\ WF_vars(PluginLoop)
            /\ WF_vars(ViewStep)
            /\ \A g \in Gens : WF_vars(WorkerStep(g)) /\ WF_vars(BinderStep(g))

FairSpec == Spec /\ Fairness

-----------------------------------------------------------------------------
(* Properties.                                                             *)

TypeOK ==
  /\ opened \in 0..MaxOpens /\ editor \in {None} \cup Gens
  /\ hostMain \in {"loop", "stopThread"}
  /\ worker \in [Gens -> {"none", "started", "asking", "answered", "ended"}]
  /\ answer \in [Gens -> {NoSize, Size}]
  /\ hostQueue \in Seq(Gens \X {Size, DefaultSize})
  /\ connected \in [Gens -> BOOLEAN]
  /\ connects \in Seq(Gens \X {Size, DefaultSize})
  /\ request \in [Gens -> {"none", "received", "waiting", "sized", "replied"}]
  /\ preferred \in {NoSize, Size}
  /\ viewFrame \in {None} \cup Gens /\ viewsDue \subseteq Gens
  /\ pluginQueue \in Seq({"size", "attach"} \X Gens)
  /\ jucePeer \in {None, Trash} \cup Gens
  /\ viewGiven \in {None} \cup Gens

\* The worker only touches its editor while the editor exists, although the
\* host may close it at any moment: the destructor outlasts the thread.
WorkerHasOwner ==
  \A g \in Gens : worker[g] \in {"started", "asking", "answered"} => editor = g

\* A remote view is connected for the editor that is open at that moment and
\* for no earlier one, and once for each: a late answer does not connect a view
\* for an editor that was closed and opened again.
ConnectsOpenEditor ==
  [][connects' # connects =>
       /\ editor # None /\ hostMain = "loop"
       /\ connects' = Append(connects, <<editor, connects'[Len(connects')][2]>>)
       /\ \A i \in 1..Len(connects) : connects[i][1] # editor]_vars

\* An editor that stays open is connected to the plugin's view.
EditorShown ==
  \A g \in Gens : editor = g ~> connected[g] \/ hostMain = "stopThread"

\* Closing an editor comes to an end: the plugin's answer, for which the
\* destructor waits without a limit, does not need the host's message thread.
CloseReturns == hostMain = "stopThread" ~> hostMain = "loop"

\* "adding the view might be asynchronously done": the JUCE editor is put on
\* the view that was given, whichever thread builds the view.
AttachedToGivenView == jucePeer = viewGiven
=============================================================================
