-------------------------- MODULE NativeUiProofs --------------------------
(***************************************************************************)
(* What holds of the native editor for any number of openings: the worker  *)
(* thread never outlives its editor, and only the open editor is ever      *)
(* connected, once.                                                        *)
(***************************************************************************)
EXTENDS NativeUi, SequenceTheorems, TLAPS

\* Only an editor can be waited for in its destructor.
ClosingHasEditor == hostMain = "stopThread" => editor # None

\* An editor for which connectRemoteNativeView was called says so itself.
ConnectsAreMarked ==
  \A i \in 1..Len(connects) : connected[connects[i][1]]

\* WorkerHasOwner alone is not inductive: an editor that is being closed has
\* to exist for its thread to be asked about.
IInv == /\ TypeOK
        /\ ClosingHasEditor
        /\ WorkerHasOwner
        /\ ConnectsAreMarked

\* The state before the host has done anything satisfies the invariant.
LEMMA InitInvariant == Init => IInv
  <1> SUFFICES ASSUME Init PROVE IInv OBVIOUS
  <1> USE UiAssumption DEF Init, Gens, None
  <1>1. TypeOK BY DEF TypeOK
  <1>2. ClosingHasEditor BY DEF ClosingHasEditor
  <1>3. WorkerHasOwner BY DEF WorkerHasOwner
  <1>4. ConnectsAreMarked BY DEF ConnectsAreMarked
  <1> QED BY <1>1, <1>2, <1>3, <1>4 DEF IInv

\* A step of the plugin's process leaves the host's editor, its worker and
\* what was connected alone.
LEMMA PluginStep ==
  ASSUME IInv, UNCHANGED <<opened, editor, hostMain, worker, connected,
                           connects>>
  PROVE  ClosingHasEditor' /\ WorkerHasOwner' /\ ConnectsAreMarked'
  BY DEF IInv, ClosingHasEditor, WorkerHasOwner, ConnectsAreMarked

\* A queue without its first message is a queue of the same messages.
LEMMA TailType ==
  ASSUME NEW S, NEW q \in Seq(S), q # <<>>
  PROVE  Tail(q) \in Seq(S) /\ Head(q) \in S
  BY HeadTailProperties

\* Every step keeps the invariant.
LEMMA StepInvariant == IInv /\ [Next]_vars => IInv'
  <1> SUFFICES ASSUME IInv, [Next]_vars PROVE IInv' OBVIOUS
  <1> USE UiAssumption
  <1> USE DEF IInv, Gens, None
  <1>1. CASE OpenEditor
    <2> USE <1>1 DEF OpenEditor, pluginVars
    <2>1. TypeOK' BY DEF TypeOK
    <2>2. WorkerHasOwner' BY DEF TypeOK, WorkerHasOwner
    <2>3. ClosingHasEditor' /\ ConnectsAreMarked'
      BY DEF TypeOK, ClosingHasEditor, ConnectsAreMarked
    <2> QED BY <2>1, <2>2, <2>3
  <1>2. CASE CloseEditor
    BY <1>2 DEF CloseEditor, pluginVars, TypeOK, ClosingHasEditor,
                WorkerHasOwner, ConnectsAreMarked
  <1>3. CASE EditorClosed
    <2> USE <1>3 DEF EditorClosed, pluginVars
    <2>1. TypeOK' BY DEF TypeOK
    <2>2. editor \in 1..MaxOpens BY DEF TypeOK, ClosingHasEditor
    <2>3. WorkerHasOwner' BY <2>2 DEF WorkerHasOwner
    <2>4. ClosingHasEditor' /\ ConnectsAreMarked'
      BY DEF ClosingHasEditor, ConnectsAreMarked
    <2> QED BY <2>1, <2>3, <2>4
  <1>4. CASE RunHostMessage
    <2> USE <1>4 DEF RunHostMessage
    <2> DEFINE g == Head(hostQueue)[1]
    <2>1. /\ Tail(hostQueue) \in Seq(Gens \X {Size, DefaultSize})
          /\ Head(hostQueue) \in Gens \X {Size, DefaultSize}
      BY TailType DEF TypeOK
    <2>2. g \in Gens BY <2>1
    <2>3. CASE editor = g /\ ~connected[g]
      <3>1. TypeOK'
        <4>1. connects' \in Seq(Gens \X {Size, DefaultSize})
          <5>1. connects \in Seq(Gens \X {Size, DefaultSize}) BY DEF TypeOK
          <5>2. connects' = Append(connects, Head(hostQueue)) BY <2>3
          <5> QED BY <2>1, <5>1, <5>2, AppendProperties
        <4>2. connected' \in [Gens -> BOOLEAN] /\ viewsDue' \subseteq Gens
          BY <2>2, <2>3 DEF TypeOK
        <4> QED BY <2>1, <4>1, <4>2 DEF TypeOK
      <3>2. ConnectsAreMarked'
        <4> SUFFICES ASSUME NEW i \in 1..Len(connects')
                     PROVE  connected'[connects'[i][1]]
          BY DEF ConnectsAreMarked
        <4>1. /\ connects \in Seq(Gens \X {Size, DefaultSize})
              /\ connects' = Append(connects, Head(hostQueue))
              /\ connected' = [connected EXCEPT ![g] = TRUE]
          BY <2>3 DEF TypeOK
        <4>2. CASE i = Len(connects) + 1
          BY <2>2, <4>1, <4>2 DEF TypeOK
        <4>3. CASE i \in 1..Len(connects)
          <5>1. connects'[i] = connects[i] BY <4>1, <4>3
          <5>2. connects[i][1] \in Gens BY <4>1, <4>3
          <5>3. connected[connects[i][1]] BY <4>3 DEF ConnectsAreMarked
          <5> QED BY <4>1, <5>1, <5>2, <5>3 DEF TypeOK
        <4> QED BY <4>1, <4>2, <4>3
      <3> QED BY <3>1, <3>2 DEF ClosingHasEditor, WorkerHasOwner
    <2>4. CASE ~(editor = g /\ ~connected[g])
      <3>1. UNCHANGED <<connected, connects, viewsDue>> BY <2>4
      <3>2. TypeOK' BY <2>1, <3>1 DEF TypeOK
      <3> QED BY <3>1, <3>2, PluginStep
    <2> QED BY <2>3, <2>4
  <1>5. ASSUME NEW g \in Gens, WorkerAsks(g) PROVE IInv'
    BY <1>5 DEF WorkerAsks, TypeOK, ClosingHasEditor, WorkerHasOwner,
                ConnectsAreMarked
  <1>6. ASSUME NEW g \in Gens, WorkerAnswered(g) PROVE IInv'
    BY <1>6 DEF WorkerAnswered, pluginVars, TypeOK, ClosingHasEditor,
                WorkerHasOwner, ConnectsAreMarked
  <1>7. ASSUME NEW g \in Gens, WorkerRefused(g) PROVE IInv'
    BY <1>7 DEF WorkerRefused, pluginVars, TypeOK, ClosingHasEditor,
                WorkerHasOwner, ConnectsAreMarked
  <1>8. ASSUME NEW g \in Gens, WorkerPosts(g) PROVE IInv'
    <2> USE <1>8 DEF WorkerPosts, pluginVars
    <2>1. hostQueue' \in Seq(Gens \X {Size, DefaultSize})
      <3> DEFINE size == IF answer[g] = NoSize THEN DefaultSize ELSE answer[g]
      <3>1. size \in {Size, DefaultSize} BY DEF TypeOK
      <3>2. <<g, size>> \in Gens \X {Size, DefaultSize} BY <3>1
      <3> QED BY <3>2, AppendProperties DEF TypeOK
    <2>2. TypeOK' BY <2>1 DEF TypeOK
    <2>3. WorkerHasOwner' BY DEF TypeOK, WorkerHasOwner
    <2> QED BY <2>2, <2>3 DEF ClosingHasEditor, ConnectsAreMarked
  <1>9. ASSUME NEW g \in Gens, QueryCached(g) PROVE IInv'
    BY <1>9, PluginStep DEF QueryCached, hostVars, TypeOK
  <1>10. ASSUME NEW g \in Gens, QueryOnMessageThread(g) PROVE IInv'
    <2> USE <1>10 DEF QueryOnMessageThread, hostVars
    <2>1. pluginQueue' \in Seq({"size", "attach"} \X Gens)
      BY AppendProperties DEF TypeOK
    <2> QED BY <2>1, PluginStep DEF TypeOK
  <1>11. ASSUME NEW g \in Gens, QueryReturn(g) PROVE IInv'
    BY <1>11, PluginStep DEF QueryReturn, hostVars, TypeOK
  <1>12. CASE RunSizeMessage
    <2> USE <1>12 DEF RunSizeMessage, hostVars
    <2>1. /\ Tail(pluginQueue) \in Seq({"size", "attach"} \X Gens)
          /\ Head(pluginQueue) \in {"size", "attach"} \X Gens
      BY TailType DEF TypeOK
    <2> QED BY <2>1, PluginStep DEF TypeOK
  <1>13. CASE RunAttachMessage
    <2> USE <1>13 DEF RunAttachMessage, hostVars
    <2>1. /\ Tail(pluginQueue) \in Seq({"size", "attach"} \X Gens)
          /\ Head(pluginQueue) \in {"size", "attach"} \X Gens
      BY TailType DEF TypeOK
    <2> QED BY <2>1, PluginStep DEF TypeOK, Trash
  <1>14. CASE ViewReturn
    BY <1>14, PluginStep DEF ViewReturn, hostVars, TypeOK
  <1>15. ASSUME NEW v \in Gens, ViewConstructor(v) PROVE IInv'
    <2> USE <1>15 DEF ViewConstructor, hostVars
    <2>1. Append(pluginQueue, <<"attach", v>>)
            \in Seq({"size", "attach"} \X Gens)
      BY AppendProperties DEF TypeOK
    <2> QED BY <2>1, PluginStep DEF TypeOK
  <1>16. CASE UNCHANGED vars
    BY <1>16, PluginStep DEF vars, hostVars, pluginVars, TypeOK
  <1> QED
    BY <1>1, <1>2, <1>3, <1>4, <1>5, <1>6, <1>7, <1>8, <1>9, <1>10, <1>11,
       <1>12, <1>13, <1>14, <1>15, <1>16
    DEF Next, HostLoop, WorkerStep, BinderStep, PluginLoop, ViewStep

\* Every reachable state satisfies the inductive invariant.
THEOREM UiInvariance == Spec => []IInv
  BY InitInvariant, StepInvariant, PTL DEF Spec

\* The queues of the message threads, the addresses of the editors and what each
\* thread is doing have their types.
THEOREM UiTyping == Spec => []TypeOK
  <1>1. IInv => TypeOK BY DEF IInv
  <1> QED BY UiInvariance, <1>1, PTL

\* The worker thread touches its editor (the reference `owner`, the
\* SafePointer) only while that editor exists, however often the host opens
\* and closes: stopThread in the destructor is enough.
THEOREM WorkerKeepsOwner == Spec => []WorkerHasOwner
  <1>1. IInv => WorkerHasOwner BY DEF IInv
  <1> QED BY UiInvariance, <1>1, PTL

\* applyBoundsAndConnect connects the editor that is open, on a message thread
\* that is not inside a destructor, and each editor at most once.
THEOREM ConnectsOnce == Spec => ConnectsOpenEditor
  <1> DEFINE Connecting ==
        connects' # connects =>
          /\ editor # None /\ hostMain = "loop"
          /\ connects' =
               Append(connects, <<editor, connects'[Len(connects')][2]>>)
          /\ \A i \in 1..Len(connects) : connects[i][1] # editor
  <1>1. IInv /\ [Next]_vars => [Connecting]_vars
    <2> SUFFICES ASSUME IInv, Next, connects' # connects PROVE Connecting
      BY DEF vars, hostVars
    <2> USE DEF IInv
    <2>1. RunHostMessage
      BY DEF Next, HostLoop, WorkerStep, BinderStep, PluginLoop, ViewStep,
             OpenEditor, CloseEditor, EditorClosed, WorkerAsks, WorkerAnswered,
             WorkerPosts, WorkerRefused, QueryCached, QueryOnMessageThread,
             QueryReturn, RunSizeMessage, RunAttachMessage, ViewReturn,
             ViewConstructor, hostVars, pluginVars
    <2> DEFINE message == Head(hostQueue)
    <2>2. /\ hostMain = "loop"
          /\ editor = message[1] /\ ~connected[editor]
          /\ connects' = Append(connects, message)
      BY <2>1 DEF RunHostMessage
    <2>3. /\ message \in Gens \X {Size, DefaultSize}
          /\ connects \in Seq(Gens \X {Size, DefaultSize})
      BY <2>1, TailType DEF RunHostMessage, TypeOK
    <2>4. connects'[Len(connects')] = message BY <2>2, <2>3
    <2>5. message = <<editor, message[2]>> BY <2>2, <2>3
    <2>6. editor # None
      BY <2>2, <2>3, UiAssumption DEF Gens, None
    <2>7. \A i \in 1..Len(connects) : connects[i][1] # editor
      BY <2>2 DEF ConnectsAreMarked
    <2> QED BY <2>2, <2>4, <2>5, <2>6, <2>7
  <1>2. Spec => [][Connecting]_vars
    BY <1>1, UiInvariance, PTL DEF Spec
  <1> QED BY <1>2 DEF ConnectsOpenEditor
=============================================================================
