------------------------ MODULE HostedPluginsProofs ------------------------
(***************************************************************************)
(* What holds in the plugins' process for any number of plugins, threads,  *)
(* states and operations: state and preset calls never run two at a time,  *)
(* the memory that getState hands out is large enough and stays as it was, *)
(* and prepare never follows a null buffer.                                *)
(***************************************************************************)
EXTENDS HostedPlugins, SetInduction, SequenceTheorems, TLAPS

-----------------------------------------------------------------------------
(* The steps of the process.                                               *)

\* Every step of a wrapper, whoever asks for it.
WrapperChange ==
  \/ \E a \in Addresses : \/ Instantiate(a) \/ Release(a)
                          \/ \E b \in BOOLEAN : SetPlaying(a, b)
                          \/ \E u \in Uris : GetExtension(a, u)
  \/ \E t \in Binder, a \in Addresses, b \in {"buffer", "null"} :
        AllocateBuffer(t, a, b)
  \/ \E t \in Threads, a \in Addresses, op \in Ops : Call(t, a, op)
  \/ \E t \in Threads : RequestLock(t) \/ CallStep(t)
  \/ Dispatch

\* Nothing else in the system changes what WrapperInstances keeps.
LEMMA StepOfWrapper == [Next]_vars => WrapperChange \/ UNCHANGED wrapperVars
<1> SUFFICES ASSUME [Next]_vars PROVE WrapperChange \/ UNCHANGED wrapperVars
  OBVIOUS
<1>1. CASE Create
  BY <1>1 DEF Create
<1>2. ASSUME NEW r \in Requests, CreateInstance(r) PROVE WrapperChange
  <2> DEFINE a == CHOOSE b \in Addresses : wrapper[b] = None
  <2>1. a \in Addresses /\ Instantiate(a) BY <1>2 DEF CreateInstance
  <2>2. QED BY <2>1 DEF WrapperChange
<1>3. ASSUME NEW r \in Requests, HostActivate(r) PROVE WrapperChange
  <2>1. PICK b \in BOOLEAN : SetPlaying(native[r], b) BY <1>3 DEF HostActivate
  <2>2. native[r] \in Addresses BY <2>1 DEF SetPlaying, Live
  <2>3. QED BY <2>1, <2>2 DEF WrapperChange
<1>4. ASSUME NEW r \in Requests, NativeReleased(r) PROVE WrapperChange
  <2>1. Release(native[r]) BY <1>4 DEF NativeReleased
  <2>2. native[r] \in Addresses BY <2>1 DEF Release, ReleaseWith, Live
  <2>3. QED BY <2>1, <2>2 DEF WrapperChange
<1>5. CASE WrapperStep
  BY <1>5 DEF WrapperStep, WrapperChange
<1>6. ASSUME NEW r \in Requests, NEW t \in Binder, NEW b \in {"buffer", "null"},
             HostPrepare(r, t, b)
      PROVE  WrapperChange
  <2>1. AllocateBuffer(t, native[r], b) BY <1>6 DEF HostPrepare
  <2>2. native[r] \in Addresses BY <2>1 DEF AllocateBuffer, Begin, Live
  <2>3. QED BY <2>1, <2>2 DEF WrapperChange
<1>7. ASSUME NEW r \in Requests, NEW t \in Threads, NEW op \in Ops,
             HostCall(r, t, op)
      PROVE  WrapperChange
  <2>1. Call(t, native[r], op) BY <1>7 DEF HostCall
  <2>2. native[r] \in Addresses BY <2>1 DEF Call, Begin, Live
  <2>3. QED BY <2>1, <2>2 DEF WrapperChange
<1>8. ASSUME NEW r \in Requests, HostDeactivate(r) \/ HostDestroy(r)
      PROVE  WrapperChange
  <2>1. SetPlaying(native[r], FALSE) BY <1>8 DEF HostDeactivate, HostDestroy
  <2>2. native[r] \in Addresses BY <2>1 DEF SetPlaying, Live
  <2>3. QED BY <2>1, <2>2 DEF WrapperChange
<1>9. CASE Begun
  BY <1>6, <1>7, <1>8, <1>9 DEF Begun, WrapperChange
<1>10. QED
  BY <1>1, <1>2, <1>3, <1>4, <1>5, <1>9 DEF Next, HostStep, vars

-----------------------------------------------------------------------------
(* The threads of the process.                                             *)

CallType == [plugin : Addresses \cup {None}, op : Ops \cup {"none", "prepare"},
             arg : States \cup {None, "buffer", "null"}]

Labels == {"idle", "prepare", "null buffer read", "entering", "posted",
           "running", "copying", "locking"}

WrapperTypeOK ==
  /\ wrapper \in [Addresses -> Wrappers \cup {None}]
  /\ lastError \in BOOLEAN
  /\ pc \in [Threads -> Labels] /\ call \in [Threads -> CallType]
  /\ queue \in Seq({"call", "lock"} \X Binder)
  /\ serving \in Binder \cup {None} /\ locked \in Binder \cup {None}
  /\ answer \in [Addresses -> States \cup {None}]

\* A thread at one of these is in a call of a plugin.
InCall == {"prepare", "entering", "posted", "running", "copying"}

\* The plugin of a call lives as long as the call.
CallsOnLive ==
  \A t \in Threads : IF pc[t] \in InCall THEN call[t].plugin \in Live
                                         ELSE call[t].plugin = None

\* A plugin is in one call at most.
OneCallEach ==
  \A t, u \in Threads : call[t].plugin = call[u].plugin /\ call[t].plugin # None
                          => t = u

\* What is copied is a state, and the call is a getState.
CopyingState ==
  \A t \in Threads : pc[t] = "copying" =>
    call[t].op = "getState" /\ call[t].arg \in States

\* A thread with a message in the queue waits for that message and no other.
QueueWaits ==
  \A i \in 1..Len(queue) :
    /\ pc[queue[i][2]] = IF queue[i][1] = "call" THEN "posted" ELSE "locking"
    /\ \A j \in 1..Len(queue) : queue[j][2] = queue[i][2] => j = i

\* A wrapper is not None, whatever is written into it.
LEMMA WrapperType ==
  ASSUME WrapperTypeOK, NEW a \in Live
  PROVE  a \in Addresses /\ wrapper[a] \in Wrappers
BY DEF Live, WrapperTypeOK

\* Whoever works in a plugin's wrapper or asks nothing of the queue leaves it.
LEMMA QueueKept ==
  ASSUME WrapperTypeOK, QueueWaits, UNCHANGED queue, NEW t \in Threads,
         pc[t] \notin {"posted", "locking"}, NEW label, pc' = [pc EXCEPT ![t] = label]
  PROVE  QueueWaits'
<1> SUFFICES ASSUME NEW i \in 1..Len(queue)
             PROVE  /\ pc'[queue[i][2]] = IF queue[i][1] = "call" THEN "posted"
                                                                  ELSE "locking"
                    /\ \A j \in 1..Len(queue) : queue[j][2] = queue[i][2] => j = i
  BY DEF QueueWaits
<1>1. queue[i] \in {"call", "lock"} \X Binder
  BY ElementOfSeq DEF WrapperTypeOK
<1>2. queue[i][2] # t BY DEF QueueWaits
<1>3. QED BY <1>1, <1>2 DEF QueueWaits, WrapperTypeOK, Threads

\* A thread with nothing in the queue may put a message there.
LEMMA QueueGrows ==
  ASSUME WrapperTypeOK, QueueWaits, NEW t \in Binder, NEW kind \in {"call", "lock"},
         pc[t] \notin {"posted", "locking"}, queue' = Append(queue, <<kind, t>>),
         pc' = [pc EXCEPT ![t] = IF kind = "call" THEN "posted" ELSE "locking"]
  PROVE  QueueWaits' /\ queue' \in Seq({"call", "lock"} \X Binder)
<1> DEFINE n == Len(queue)
<1>1. /\ queue \in Seq({"call", "lock"} \X Binder)
      /\ <<kind, t>> \in {"call", "lock"} \X Binder
  BY DEF WrapperTypeOK
<1>2. /\ queue' \in Seq({"call", "lock"} \X Binder)
      /\ n \in Nat /\ Len(queue') = n + 1
      /\ \A i \in 1..n : queue'[i] = queue[i]
      /\ queue'[n + 1] = <<kind, t>>
  BY <1>1, AppendProperties, LenProperties
<1>3. \A i \in 1..n : /\ queue[i] \in {"call", "lock"} \X Binder
                      /\ queue[i][2] # t
  BY <1>1, ElementOfSeq DEF QueueWaits
<1>4. ASSUME NEW i \in 1..n + 1
      PROVE  /\ pc'[queue'[i][2]] = IF queue'[i][1] = "call" THEN "posted"
                                                             ELSE "locking"
             /\ \A j \in 1..n + 1 : queue'[j][2] = queue'[i][2] => j = i
  <2>1. i \in 1..n \/ i = n + 1 BY <1>2
  <2>2. CASE i = n + 1
    <3>1. pc'[t] = IF kind = "call" THEN "posted" ELSE "locking"
      BY DEF WrapperTypeOK, Threads
    <3>2. ASSUME NEW j \in 1..n + 1, j # i PROVE queue'[j][2] # t
      BY <1>2, <1>3, <2>2, <3>2
    <3>3. QED BY <1>2, <2>2, <3>1, <3>2
  <2>3. CASE i \in 1..n
    <3>1. pc'[queue[i][2]] = pc[queue[i][2]]
      BY <1>3, <2>3 DEF WrapperTypeOK, Threads
    <3>2. ASSUME NEW j \in 1..n + 1, queue'[j][2] = queue'[i][2] PROVE j = i
      <4>1. j # n + 1 BY <1>2, <1>3, <2>3, <3>2
      <4>2. j \in 1..n BY <1>2, <4>1
      <4>3. QED BY <1>2, <2>3, <3>2, <4>2 DEF QueueWaits
    <3>3. QED BY <1>2, <2>3, <3>1, <3>2 DEF QueueWaits
  <2>4. QED BY <2>1, <2>2, <2>3
<1>5. QED BY <1>2, <1>4 DEF QueueWaits

\* The message that leaves the queue was its thread's only one.
LEMMA QueueServed ==
  ASSUME WrapperTypeOK, QueueWaits, queue # <<>>, queue' = Tail(queue),
         NEW label, pc' = [pc EXCEPT ![Head(queue)[2]] = label]
  PROVE  /\ QueueWaits' /\ queue' \in Seq({"call", "lock"} \X Binder)
         /\ Head(queue) \in {"call", "lock"} \X Binder
         /\ pc[Head(queue)[2]] = IF Head(queue)[1] = "call" THEN "posted"
                                                            ELSE "locking"
<1> DEFINE n == Len(queue)  t == Head(queue)[2]
<1>1. /\ queue \in Seq({"call", "lock"} \X Binder)
      /\ Head(queue) = queue[1]
  BY DEF WrapperTypeOK
<1>2. /\ queue' \in Seq({"call", "lock"} \X Binder)
      /\ Head(queue) \in {"call", "lock"} \X Binder
      /\ n \in Nat \ {0} /\ Len(queue') = n - 1
      /\ \A i \in 1..n - 1 : queue'[i] = queue[i + 1]
  BY <1>1, HeadTailProperties, EmptySeq
<1>3. pc[t] = IF Head(queue)[1] = "call" THEN "posted" ELSE "locking"
  BY <1>1, <1>2 DEF QueueWaits
<1>4. \A i \in 1..n - 1 :
        /\ i + 1 \in 1..n /\ i + 1 # 1
        /\ queue[i + 1] \in {"call", "lock"} \X Binder
        /\ queue[i + 1][2] # t
  BY <1>1, <1>2, ElementOfSeq DEF QueueWaits
<1>5. ASSUME NEW i \in 1..n - 1
      PROVE  /\ pc'[queue'[i][2]] = IF queue'[i][1] = "call" THEN "posted"
                                                             ELSE "locking"
             /\ \A j \in 1..n - 1 : queue'[j][2] = queue'[i][2] => j = i
  <2>1. pc'[queue[i + 1][2]] = pc[queue[i + 1][2]]
    BY <1>4 DEF WrapperTypeOK, Threads
  <2>2. pc[queue[i + 1][2]] = IF queue[i + 1][1] = "call" THEN "posted"
                                                         ELSE "locking"
    BY <1>4 DEF QueueWaits
  <2>3. ASSUME NEW j \in 1..n - 1, queue'[j][2] = queue'[i][2] PROVE j = i
    <3>1. queue[j + 1][2] = queue[i + 1][2] BY <1>2, <2>3
    <3>2. j + 1 = i + 1 BY <1>4, <3>1 DEF QueueWaits
    <3>3. QED BY <1>2, <3>2
  <2>4. QED BY <1>2, <2>1, <2>2, <2>3
<1>6. QED BY <1>2, <1>3, <1>5 DEF QueueWaits

CallInv == /\ WrapperTypeOK
           /\ CallsOnLive /\ OneCallEach /\ CopyingState
           /\ QueueWaits

\* What writes to a wrapper of a live plugin leaves the same plugins live.
LEMMA Rewritten ==
  ASSUME WrapperTypeOK, NEW a \in Live, NEW w \in Wrappers,
         wrapper' = [wrapper EXCEPT ![a] = w]
  PROVE  /\ wrapper' \in [Addresses -> Wrappers \cup {None}]
         /\ Live' = Live
         /\ \A b \in Addresses : wrapper'[b] = IF b = a THEN w ELSE wrapper[b]
BY WrapperAssumption DEF WrapperTypeOK, Live

\* Writing a flag gives a wrapper with the same memory.
LEMMA FlagWritten ==
  ASSUME NEW w \in Wrappers, NEW b \in BOOLEAN
  PROVE  /\ [w EXCEPT !.playing = b] \in Wrappers
         /\ [w EXCEPT !.prepared = b] \in Wrappers
         /\ [w EXCEPT !.playing = b].capacity = w.capacity
         /\ [w EXCEPT !.playing = b].size = w.size
         /\ [w EXCEPT !.playing = b].data = w.data
         /\ [w EXCEPT !.prepared = b].capacity = w.capacity
         /\ [w EXCEPT !.prepared = b].size = w.size
         /\ [w EXCEPT !.prepared = b].data = w.data
BY DEF Wrappers

\* A buffer that grows has room, and what fitted before still fits.
LEMMA GrowStateRoom ==
  ASSUME NEW w \in Wrappers, NEW n \in Nat
  PROVE  /\ GrowState(w, n) \in Wrappers
         /\ GrowState(w, n).size = w.size
         /\ GrowState(w, n).data # "null"
         /\ w.size <= w.capacity /\ (w.data = "null" => w.size = 0) =>
              n <= GrowState(w, n).capacity /\ w.size <= GrowState(w, n).capacity
<1> DEFINE v == [w EXCEPT !.capacity = n, !.data = "zero"]
<1>1. /\ v \in Wrappers
      /\ v.capacity = n /\ v.size = w.size /\ v.data = "zero"
  BY DEF Wrappers
<1>2. w.capacity \in Nat /\ w.size \in Nat BY DEF Wrappers
<1>3. CASE w.data = "null" \/ w.size < n
  <2>1. GrowState(w, n) = v BY <1>3 DEF GrowState
  <2>2. w.data = "null" /\ w.size = 0 => w.size <= n BY <1>2
  <2>3. w.size < n => w.size <= n BY <1>2
  <2>4. QED BY <1>1, <1>2, <1>3, <2>1, <2>2, <2>3
<1>4. CASE ~(w.data = "null" \/ w.size < n)
  <2>1. GrowState(w, n) = w BY <1>4 DEF GrowState
  <2>2. w.size <= w.capacity => n <= w.capacity BY <1>2, <1>4
  <2>3. QED BY <1>4, <2>1, <2>2
<1>5. QED BY <1>3, <1>4

\* A state written into its buffer.
LEMMA StateWritten ==
  ASSUME NEW w \in Wrappers, NEW s \in States
  PROVE  /\ [w EXCEPT !.size = Size[s], !.data = s] \in Wrappers
         /\ [w EXCEPT !.size = Size[s], !.data = s].size = Size[s]
         /\ [w EXCEPT !.size = Size[s], !.data = s].data = s
         /\ [w EXCEPT !.size = Size[s], !.data = s].capacity = w.capacity
BY WrapperAssumption DEF Wrappers

\* A call that begins finds its plugin live and in no call.
LEMMA BeginKeeps ==
  ASSUME CallInv, NEW t \in Threads, NEW a \in Addresses,
         NEW op \in Ops \cup {"prepare"}, NEW arg \in {None, "buffer", "null"},
         NEW label \in {"prepare", "entering"}, Begin(t, a, op, arg, label),
         UNCHANGED <<wrapper, queue>>
  PROVE  /\ pc' \in [Threads -> Labels] /\ call' \in [Threads -> CallType]
         /\ CallsOnLive' /\ OneCallEach' /\ CopyingState' /\ QueueWaits'
<1> USE DEF CallInv
<1>1. /\ pc \in [Threads -> Labels] /\ call \in [Threads -> CallType]
      /\ pc[t] = "idle" /\ a \in Live /\ pc' = [pc EXCEPT ![t] = label]
      /\ call' = [call EXCEPT ![t] = [plugin |-> a, op |-> op, arg |-> arg]]
      /\ \A u \in Threads : call[u].plugin # a
  BY DEF WrapperTypeOK, Begin, Quiet
<1>2. [plugin |-> a, op |-> op, arg |-> arg] \in CallType BY DEF CallType
<1>3. pc' \in [Threads -> Labels] /\ call' \in [Threads -> CallType]
  BY <1>1, <1>2 DEF Labels
<1>4. Live' = Live BY DEF Live
<1>5. CallsOnLive' BY <1>1, <1>4 DEF CallsOnLive, InCall
<1>6. OneCallEach' BY <1>1 DEF OneCallEach
<1>7. CopyingState' BY <1>1 DEF CopyingState
<1>8. QueueWaits' BY <1>1, QueueKept
<1>9. QED BY <1>3, <1>5, <1>6, <1>7, <1>8

\* A call that returns leaves its plugin to others.
LEMMA ReturnKeeps ==
  ASSUME CallInv, NEW t \in Threads, pc[t] \in {"prepare", "running", "copying"},
         NEW label \in {"idle", "null buffer read"},
         pc' = [pc EXCEPT ![t] = label], call' = [call EXCEPT ![t] = NoCall],
         Live' = Live, UNCHANGED queue
  PROVE  /\ pc' \in [Threads -> Labels] /\ call' \in [Threads -> CallType]
         /\ CallsOnLive' /\ OneCallEach' /\ CopyingState' /\ QueueWaits'
<1> USE DEF CallInv
<1>1. pc \in [Threads -> Labels] /\ call \in [Threads -> CallType]
  BY DEF WrapperTypeOK
<1>2. NoCall \in CallType /\ NoCall.plugin = None BY DEF CallType, NoCall
<1>3. pc' \in [Threads -> Labels] /\ call' \in [Threads -> CallType]
  BY <1>1, <1>2 DEF Labels
<1>4. CallsOnLive' BY <1>1, <1>2 DEF CallsOnLive, InCall
<1>5. OneCallEach' BY <1>1, <1>2 DEF OneCallEach
<1>6. CopyingState' BY <1>1 DEF CopyingState
<1>7. QueueWaits' BY QueueKept
<1>8. QED BY <1>3, <1>4, <1>5, <1>6, <1>7

\* Between its start and its return a call keeps its plugin.
LEMMA GoesOn ==
  ASSUME CallInv, NEW t \in Threads, NEW label \in Labels \ {"copying"},
         pc[t] \in InCall <=> label \in InCall,
         pc' = [pc EXCEPT ![t] = label], UNCHANGED <<wrapper, call>>
  PROVE  /\ pc' \in [Threads -> Labels]
         /\ CallsOnLive' /\ OneCallEach' /\ CopyingState'
<1> USE DEF CallInv
<1>1. pc \in [Threads -> Labels] /\ Live' = Live BY DEF WrapperTypeOK, Live
<1>2. CallsOnLive' BY <1>1 DEF CallsOnLive
<1>3. OneCallEach' /\ CopyingState' BY <1>1 DEF OneCallEach, CopyingState
<1>4. QED BY <1>1, <1>2, <1>3

\* Before the first call.
LEMMA CallInvInit == Init => CallInv
<1> SUFFICES ASSUME Init PROVE CallInv OBVIOUS
<1> USE WrapperAssumption DEF Init, WrapperInit, Threads
<1>1. NoCall \in CallType /\ NoCall.plugin = None BY DEF CallType, NoCall
<1>2. WrapperTypeOK BY <1>1, EmptySeq DEF WrapperTypeOK, Labels
<1>3. CallsOnLive BY <1>1 DEF CallsOnLive, InCall
<1>4. OneCallEach BY <1>1 DEF OneCallEach
<1>5. CopyingState BY DEF CopyingState
<1>6. QueueWaits BY EmptySeq DEF QueueWaits
<1>7. QED BY <1>2, <1>3, <1>4, <1>5, <1>6 DEF CallInv

\* Threads work on live plugins, one each, in every step.
LEMMA CallInvStep == CallInv /\ [Next]_vars => CallInv'
<1> SUFFICES ASSUME CallInv, WrapperChange \/ UNCHANGED wrapperVars PROVE CallInv'
  BY StepOfWrapper
<1> USE DEF CallInv
<1>0. None \notin Addresses /\ None \notin Threads /\ Binder \subseteq Threads
  BY WrapperAssumption DEF Threads
<1>1. ASSUME NEW a \in Addresses, Instantiate(a) PROVE CallInv'
  <2> USE <1>1 DEF Instantiate, threadVars, loopVars, aapVars
  <2>1. NewWrapper \in Wrappers BY DEF NewWrapper, Wrappers
  <2>2. WrapperTypeOK' BY <2>1 DEF WrapperTypeOK
  <2>3. Live \subseteq Live' BY <2>1, WrapperAssumption DEF WrapperTypeOK, Live
  <2>4. CallsOnLive' BY <2>3 DEF CallsOnLive
  <2>5. OneCallEach' /\ CopyingState' /\ QueueWaits'
    BY DEF OneCallEach, CopyingState, QueueWaits
  <2>6. QED BY <2>2, <2>4, <2>5
<1>2. ASSUME NEW a \in Addresses, Release(a) PROVE CallInv'
  <2> USE <1>2 DEF Release, ReleaseWith, threadVars, loopVars
  <2>1. WrapperTypeOK' BY DEF WrapperTypeOK
  <2>2. Live \ {a} \subseteq Live' BY DEF WrapperTypeOK, Live
  <2>3. CallsOnLive' BY <2>2 DEF CallsOnLive, Quiet
  <2>4. OneCallEach' /\ CopyingState' /\ QueueWaits'
    BY DEF OneCallEach, CopyingState, QueueWaits
  <2>5. QED BY <2>1, <2>3, <2>4
<1>3. ASSUME NEW a \in Addresses, NEW b \in BOOLEAN, SetPlaying(a, b)
      PROVE  CallInv'
  <2> DEFINE w == [wrapper[a] EXCEPT !.playing = b]
  <2>1. a \in Live /\ wrapper' = [wrapper EXCEPT ![a] = w]
        /\ UNCHANGED <<lastError, pc, call, queue, serving, locked, answer>>
    BY <1>3 DEF SetPlaying, threadVars, loopVars, aapVars
  <2>2. w \in Wrappers BY <2>1, WrapperType, FlagWritten
  <2> HIDE DEF w
  <2>3. wrapper' \in [Addresses -> Wrappers \cup {None}] /\ Live' = Live
    BY <2>1, <2>2, Rewritten
  <2>4. QED
    BY <2>1, <2>3
    DEF WrapperTypeOK, CallsOnLive, OneCallEach, CopyingState, QueueWaits
<1>4. ASSUME NEW a \in Addresses, NEW u \in Uris, GetExtension(a, u) PROVE CallInv'
  BY <1>4 DEF GetExtension, threadVars, loopVars, Live,
              WrapperTypeOK, CallsOnLive, OneCallEach, CopyingState, QueueWaits
<1>5. ASSUME NEW t \in Binder, NEW a \in Addresses, NEW b \in {"buffer", "null"},
             AllocateBuffer(t, a, b)
      PROVE  CallInv'
  <2>1. Begin(t, a, "prepare", b, "prepare") /\ lastError' \in BOOLEAN
        /\ UNCHANGED <<wrapper, queue, serving, locked, answer>>
    BY <1>5 DEF AllocateBuffer, loopVars, aapVars
  <2>2. QED BY <1>0, <2>1, BeginKeeps DEF WrapperTypeOK
<1>6. ASSUME NEW t \in Threads, NEW a \in Addresses, NEW op \in Ops, Call(t, a, op)
      PROVE  CallInv'
  <2>1. Begin(t, a, op, None, "entering")
        /\ UNCHANGED <<wrapper, lastError, queue, serving, locked>>
    BY <1>6 DEF Call, loopVars
  <2>2. answer' \in [Addresses -> States \cup {None}]
    BY <1>6 DEF Call, WrapperTypeOK
  <2>3. QED BY <2>1, <2>2, BeginKeeps DEF WrapperTypeOK
<1>7. ASSUME NEW t \in Threads, RequestLock(t) PROVE CallInv'
  <2>1. /\ t \in Binder /\ pc[t] = "idle" /\ pc' = [pc EXCEPT ![t] = "locking"]
        /\ queue' = Append(queue, <<"lock", t>>)
        /\ UNCHANGED <<wrapper, lastError, call, serving, locked, answer>>
    BY <1>7 DEF RequestLock, aapVars
  <2>2. QueueWaits' /\ queue' \in Seq({"call", "lock"} \X Binder)
    BY <2>1, QueueGrows
  <2>3. pc' \in [Threads -> Labels] /\ CallsOnLive' /\ OneCallEach' /\ CopyingState'
    BY <2>1, GoesOn DEF Labels, InCall
  <2>4. QED BY <2>1, <2>2, <2>3 DEF WrapperTypeOK
<1>8. ASSUME NEW t \in Threads, Enter(t) PROVE CallInv'
  <2>1. pc[t] = "entering" /\ UNCHANGED <<wrapper, lastError, call, serving, locked, answer>>
    BY <1>8 DEF Enter, aapVars
  <2>2. CASE t = Main \/ locked = t
    <3>1. pc' = [pc EXCEPT ![t] = "running"] /\ UNCHANGED queue
      BY <1>8, <2>2 DEF Enter
    <3>2. QueueWaits' BY <2>1, <3>1, QueueKept
    <3>3. pc' \in [Threads -> Labels] /\ CallsOnLive' /\ OneCallEach' /\ CopyingState'
      BY <2>1, <3>1, GoesOn DEF Labels, InCall
    <3>4. QED BY <2>1, <3>1, <3>2, <3>3 DEF WrapperTypeOK
  <2>3. CASE ~(t = Main \/ locked = t)
    <3>1. /\ pc' = [pc EXCEPT ![t] = "posted"]
          /\ queue' = Append(queue, <<"call", t>>)
      BY <1>8, <2>3 DEF Enter
    <3>2. t \in Binder BY <2>3 DEF Threads
    <3>3. QueueWaits' /\ queue' \in Seq({"call", "lock"} \X Binder)
      BY <2>1, <3>1, <3>2, QueueGrows
    <3>4. pc' \in [Threads -> Labels] /\ CallsOnLive' /\ OneCallEach' /\ CopyingState'
      BY <2>1, <3>1, GoesOn DEF Labels, InCall
    <3>5. QED BY <2>1, <3>3, <3>4 DEF WrapperTypeOK
  <2>4. QED BY <2>2, <2>3
<1>9. CASE Dispatch
  <2> DEFINE t == Head(queue)[2]
             label == IF Head(queue)[1] = "call" THEN "running" ELSE "idle"
  <2>1. /\ queue # <<>> /\ queue' = Tail(queue)
        /\ pc' = [pc EXCEPT ![t] = label]
        /\ serving' \in {serving, t} /\ locked' \in {locked, t}
        /\ UNCHANGED <<wrapper, lastError, call, answer>>
    BY <1>9 DEF Dispatch, aapVars
  <2>2. /\ QueueWaits' /\ queue' \in Seq({"call", "lock"} \X Binder)
        /\ Head(queue) \in {"call", "lock"} \X Binder
        /\ pc[t] = IF Head(queue)[1] = "call" THEN "posted" ELSE "locking"
    BY <2>1, QueueServed
  <2>3. t \in Binder /\ t \in Threads BY <1>0, <2>2
  <2>4. pc' \in [Threads -> Labels] /\ CallsOnLive' /\ OneCallEach' /\ CopyingState'
    BY <2>1, <2>2, <2>3, GoesOn DEF Labels, InCall
  <2>5. QED BY <2>1, <2>2, <2>3, <2>4 DEF WrapperTypeOK
<1>10. ASSUME NEW t \in Threads, PrepareToPlay(t) PROVE CallInv'
  <2> DEFINE a == call[t].plugin
             w == [wrapper[a] EXCEPT !.prepared = TRUE]
  <2>1. /\ pc[t] = "prepare"
        /\ wrapper' = IF lastError THEN wrapper ELSE [wrapper EXCEPT ![a] = w]
        /\ pc' = [pc EXCEPT ![t] = IF ~lastError /\ call[t].arg = "null"
                                   THEN "null buffer read" ELSE "idle"]
        /\ call' = [call EXCEPT ![t] = NoCall]
        /\ UNCHANGED <<lastError, queue, serving, locked, answer>>
    BY <1>10 DEF PrepareToPlay, loopVars, aapVars
  <2>2. a \in Live BY <2>1 DEF CallsOnLive, InCall
  <2>3. w \in Wrappers BY <2>2, WrapperType, FlagWritten
  <2>4. wrapper' \in [Addresses -> Wrappers \cup {None}] /\ Live' = Live
    <3> HIDE DEF w
    <3>1. CASE lastError BY <2>1, <3>1 DEF WrapperTypeOK, Live
    <3>2. CASE ~lastError BY <2>1, <2>2, <2>3, <3>2, Rewritten
    <3>3. QED BY <3>1, <3>2
  <2>5. QED BY <2>1, <2>4, ReturnKeeps DEF WrapperTypeOK
<1>11. ASSUME NEW t \in Threads, Serialize(t) PROVE CallInv'
  <2> DEFINE a == call[t].plugin
  <2>1. PICK s \in States :
          /\ pc[t] = "running" /\ call[t].op = "getState"
          /\ call' = [call EXCEPT ![t].arg = s]
          /\ wrapper' = [wrapper EXCEPT ![a] = GrowState(wrapper[a], Size[s])]
          /\ pc' = [pc EXCEPT ![t] = "copying"]
          /\ UNCHANGED <<lastError, queue, serving, locked, answer>>
    BY <1>11 DEF Serialize, loopVars, aapVars
  <2>2. a \in Live BY <2>1 DEF CallsOnLive, InCall
  <2>3. GrowState(wrapper[a], Size[s]) \in Wrappers
    BY <2>2, WrapperType, GrowStateRoom, WrapperAssumption
  <2>4. wrapper' \in [Addresses -> Wrappers \cup {None}] /\ Live' = Live
    BY <2>1, <2>2, <2>3, Rewritten
  <2>5. /\ call' \in [Threads -> CallType]
        /\ call'[t].op = "getState" /\ call'[t].arg = s
        /\ \A u \in Threads : /\ call'[u].plugin = call[u].plugin
                              /\ u # t => call'[u] = call[u]
    BY <2>1 DEF WrapperTypeOK, CallType
  <2>6. pc' \in [Threads -> Labels] BY <2>1 DEF WrapperTypeOK, Labels
  <2>7. CallsOnLive' BY <2>1, <2>4, <2>5 DEF CallsOnLive, InCall, WrapperTypeOK
  <2>8. OneCallEach' BY <2>5 DEF OneCallEach
  <2>9. CopyingState' BY <2>1, <2>5 DEF CopyingState, WrapperTypeOK
  <2>10. QueueWaits' BY <2>1, QueueKept
  <2>11. QED BY <2>1, <2>4, <2>5, <2>6, <2>7, <2>8, <2>9, <2>10 DEF WrapperTypeOK
<1>12. ASSUME NEW t \in Threads, Publish(t) PROVE CallInv'
  <2> DEFINE a == call[t].plugin  s == call[t].arg
             w == [wrapper[a] EXCEPT !.size = Size[s], !.data = s]
  <2>1. /\ pc[t] = "copying" /\ wrapper' = [wrapper EXCEPT ![a] = w]
        /\ answer' = [answer EXCEPT ![a] = s]
        /\ pc' = [pc EXCEPT ![t] = "idle"] /\ call' = [call EXCEPT ![t] = NoCall]
        /\ serving' \in {None, serving} /\ UNCHANGED <<lastError, queue, locked>>
    BY <1>12 DEF Publish, Finish
  <2>2. a \in Live /\ s \in States BY <2>1 DEF CallsOnLive, InCall, CopyingState
  <2>3. w \in Wrappers BY <2>2, WrapperType, StateWritten
  <2>4. wrapper' \in [Addresses -> Wrappers \cup {None}] /\ Live' = Live
    <3> HIDE DEF w
    <3>1. QED BY <2>1, <2>2, <2>3, Rewritten
  <2>5. answer' \in [Addresses -> States \cup {None}] BY <2>1, <2>2 DEF WrapperTypeOK
  <2>6. QED BY <2>1, <2>4, <2>5, ReturnKeeps DEF WrapperTypeOK
<1>13. ASSUME NEW t \in Threads, RunOther(t) PROVE CallInv'
  <2>1. /\ pc[t] = "running" /\ UNCHANGED <<wrapper, answer, lastError, queue, locked>>
        /\ pc' = [pc EXCEPT ![t] = "idle"] /\ call' = [call EXCEPT ![t] = NoCall]
        /\ serving' \in {None, serving} /\ Live' = Live
    BY <1>13 DEF RunOther, Finish, Live
  <2>2. QED BY <2>1, ReturnKeeps DEF WrapperTypeOK
<1>14. ASSUME NEW t \in Threads, ReleaseLock(t) PROVE CallInv'
  BY <1>14 DEF ReleaseLock, threadVars, aapVars, Live,
               WrapperTypeOK, CallsOnLive, OneCallEach, CopyingState, QueueWaits
<1>15. CASE UNCHANGED wrapperVars
  BY <1>15 DEF wrapperVars, threadVars, loopVars, aapVars, Live,
               WrapperTypeOK, CallsOnLive, OneCallEach, CopyingState, QueueWaits
<1>16. QED
  BY <1>1, <1>2, <1>3, <1>4, <1>5, <1>6, <1>7, <1>8, <1>9, <1>10, <1>11, <1>12,
     <1>13, <1>14, <1>15
  DEF WrapperChange, CallStep

-----------------------------------------------------------------------------
(* State and preset calls run one at a time.                               *)

Running == {"running", "copying"}

\* What runs, runs on the message thread, for the one it serves, or while its
\* lock is held.
RunsForMain == \A t \in Threads : pc[t] \in Running => t = Main \/ serving = t \/ locked = t

\* The message thread serves one call, and then has given its lock to nobody.
ServesOne == serving # None => locked = None /\ pc[serving] \in Running

\* In a call of its own it does neither.
MainAlone == pc[Main] # "idle" => serving = None /\ locked = None

LoopInv == RunsForMain /\ ServesOne /\ MainAlone

\* CallsExclusive is not inductive: it has to be known for whom a call runs.
LEMMA LoopExclusive == CallInv /\ LoopInv => CallsExclusive
<1> SUFFICES ASSUME CallInv, LoopInv, NEW t \in Threads, NEW u \in Threads,
                    pc[t] \in Running, pc[u] \in Running
             PROVE  t = u
  BY DEF CallsExclusive, Running
<1>1. None \notin Threads BY WrapperAssumption DEF Threads
<1>2. /\ t = Main \/ serving = t \/ locked = t
      /\ u = Main \/ serving = u \/ locked = u
  BY DEF LoopInv, RunsForMain
<1>3. (t = Main \/ u = Main) => serving = None /\ locked = None
  BY DEF LoopInv, MainAlone, Running
<1>4. serving # None => locked = None BY DEF LoopInv, ServesOne
<1>5. QED BY <1>1, <1>2, <1>3, <1>4

\* A step in which no thread but t moves, and t neither starts nor stops running.
LEMMA LoopKept ==
  ASSUME CallInv, LoopInv, NEW t \in Threads, NEW label,
         pc' = [pc EXCEPT ![t] = label], pc[t] \in Running <=> label \in Running,
         t = Main => label = "idle" \/ (serving = None /\ locked = None),
         UNCHANGED <<serving, locked>>
  PROVE  LoopInv'
<1>1. pc \in [Threads -> Labels] /\ Main \in Threads
  BY DEF CallInv, WrapperTypeOK, Threads
<1>2. RunsForMain' BY <1>1 DEF LoopInv, RunsForMain
<1>3. ServesOne'
  <2>1. serving # None => serving \in Threads
    BY DEF CallInv, WrapperTypeOK, Threads
  <2>2. QED BY <1>1, <2>1 DEF LoopInv, ServesOne
<1>4. MainAlone' BY <1>1 DEF LoopInv, MainAlone
<1>5. QED BY <1>2, <1>3, <1>4 DEF LoopInv

\* A call that returns is served no longer.
LEMMA LoopFinish ==
  ASSUME CallInv, LoopInv, NEW t \in Threads, pc[t] \in Running, Finish(t)
  PROVE  LoopInv'
<1>1. /\ pc \in [Threads -> Labels] /\ pc' = [pc EXCEPT ![t] = "idle"]
      /\ serving' = IF serving = t THEN None ELSE serving
      /\ serving # None => serving \in Threads
      /\ locked' = locked /\ Main \in Threads /\ None \notin Threads
  BY WrapperAssumption DEF Finish, CallInv, WrapperTypeOK, Threads
<1>2. RunsForMain'
  BY <1>1 DEF LoopInv, RunsForMain, Running
<1>3. ServesOne' BY <1>1 DEF LoopInv, ServesOne
<1>4. MainAlone' BY <1>1 DEF LoopInv, MainAlone
<1>5. QED BY <1>2, <1>3, <1>4 DEF LoopInv

\* Nothing runs before the first call.
LEMMA LoopInvInit == Init => LoopInv
BY DEF Init, WrapperInit, Threads, LoopInv, RunsForMain, ServesOne, MainAlone, Running

\* The message thread does one thing at a time, in every step.
LEMMA LoopInvStep == CallInv /\ LoopInv /\ [Next]_vars => LoopInv'
<1> SUFFICES ASSUME CallInv, LoopInv, WrapperChange \/ UNCHANGED wrapperVars
             PROVE  LoopInv'
  BY StepOfWrapper
<1>0. /\ Main \in Threads /\ None \notin Threads /\ Main \notin Binder
      /\ pc \in [Threads -> Labels]
  BY WrapperAssumption DEF Threads, CallInv, WrapperTypeOK
<1>1. ASSUME UNCHANGED <<pc, serving, locked>> PROVE LoopInv'
  BY <1>1 DEF LoopInv, RunsForMain, ServesOne, MainAlone
<1>2. ASSUME NEW a \in Addresses,
             \/ Instantiate(a) \/ Release(a)
             \/ \E b \in BOOLEAN : SetPlaying(a, b)
             \/ \E u \in Uris : GetExtension(a, u)
      PROVE  LoopInv'
  BY <1>1, <1>2 DEF Instantiate, Release, ReleaseWith, SetPlaying, GetExtension,
                    threadVars, loopVars
<1>3. ASSUME NEW t \in Binder, NEW a \in Addresses, NEW b \in {"buffer", "null"},
             AllocateBuffer(t, a, b)
      PROVE  LoopInv'
  <2>1. /\ t \in Threads /\ t # Main /\ pc[t] = "idle"
        /\ pc' = [pc EXCEPT ![t] = "prepare"] /\ UNCHANGED <<serving, locked>>
    BY <1>0, <1>3 DEF AllocateBuffer, Begin, loopVars, Threads
  <2>2. QED BY <2>1, LoopKept DEF Running
<1>4. ASSUME NEW t \in Threads, NEW a \in Addresses, NEW op \in Ops, Call(t, a, op)
      PROVE  LoopInv'
  <2>1. /\ pc[t] = "idle" /\ pc' = [pc EXCEPT ![t] = "entering"]
        /\ t = Main => serving = None /\ locked = None
        /\ UNCHANGED <<serving, locked>>
    BY <1>4 DEF Call, Begin, loopVars
  <2>2. QED BY <2>1, LoopKept DEF Running
<1>5. ASSUME NEW t \in Threads, RequestLock(t) PROVE LoopInv'
  <2>1. /\ t # Main /\ pc[t] = "idle" /\ pc' = [pc EXCEPT ![t] = "locking"]
        /\ UNCHANGED <<serving, locked>>
    BY <1>0, <1>5 DEF RequestLock
  <2>2. QED BY <2>1, LoopKept DEF Running
<1>6. ASSUME NEW t \in Threads, PrepareToPlay(t) PROVE LoopInv'
  <2>1. /\ pc[t] = "prepare" /\ UNCHANGED <<serving, locked>>
        /\ pc' = [pc EXCEPT ![t] = IF ~lastError /\ call[t].arg = "null"
                                   THEN "null buffer read" ELSE "idle"]
    BY <1>6 DEF PrepareToPlay, loopVars
  <2>2. t = Main => serving = None /\ locked = None
    BY <2>1 DEF LoopInv, MainAlone
  <2>3. QED BY <2>1, <2>2, LoopKept DEF Running
<1>7. ASSUME NEW t \in Threads, Enter(t) PROVE LoopInv'
  <2>1. pc[t] = "entering" /\ UNCHANGED <<serving, locked>>
    BY <1>7 DEF Enter
  <2>2. CASE t = Main \/ locked = t
    <3>1. pc' = [pc EXCEPT ![t] = "running"] BY <1>7, <2>2 DEF Enter
    <3>2. RunsForMain' BY <1>0, <2>1, <2>2, <3>1 DEF LoopInv, RunsForMain
    <3>3. ServesOne' BY <1>0, <2>1, <3>1 DEF LoopInv, ServesOne, Running
    <3>4. MainAlone' BY <1>0, <2>1, <3>1 DEF LoopInv, MainAlone
    <3>5. QED BY <3>2, <3>3, <3>4 DEF LoopInv
  <2>3. CASE ~(t = Main \/ locked = t)
    <3>1. pc' = [pc EXCEPT ![t] = "posted"] BY <1>7, <2>3 DEF Enter
    <3>2. QED BY <2>1, <2>3, <3>1, LoopKept DEF Running
  <2>4. QED BY <2>2, <2>3
<1>8. ASSUME NEW t \in Threads, Serialize(t) PROVE LoopInv'
  <2>1. /\ pc[t] = "running" /\ pc' = [pc EXCEPT ![t] = "copying"]
        /\ UNCHANGED <<serving, locked>>
    BY <1>8 DEF Serialize, loopVars
  <2>2. t = Main => serving = None /\ locked = None
    BY <2>1 DEF LoopInv, MainAlone
  <2>3. QED BY <2>1, <2>2, LoopKept DEF Running
<1>9. ASSUME NEW t \in Threads, Publish(t) \/ RunOther(t) PROVE LoopInv'
  <2>1. pc[t] \in Running /\ Finish(t)
    BY <1>9 DEF Publish, RunOther, Running
  <2>2. QED BY <2>1, LoopFinish
<1>10. ASSUME NEW t \in Threads, ReleaseLock(t) PROVE LoopInv'
  <2>1. /\ locked = t /\ pc[t] = "idle" /\ locked' = None
        /\ UNCHANGED <<pc, serving>>
    BY <1>10 DEF ReleaseLock, threadVars
  <2>2. RunsForMain' BY <2>1 DEF LoopInv, RunsForMain, Running
  <2>3. ServesOne' /\ MainAlone' BY <2>1 DEF LoopInv, ServesOne, MainAlone
  <2>4. QED BY <2>2, <2>3 DEF LoopInv
<1>11. CASE Dispatch
  <2> DEFINE t == Head(queue)[2]
  <2>1. /\ queue # <<>> /\ queue' = Tail(queue)
        /\ serving = None /\ locked = None /\ pc[Main] = "idle"
        /\ pc' = [pc EXCEPT ![t] = IF Head(queue)[1] = "call" THEN "running"
                                                              ELSE "idle"]
        /\ IF Head(queue)[1] = "call" THEN serving' = t /\ locked' = None
                                      ELSE locked' = t /\ serving' = None
    BY <1>11 DEF Dispatch
  <2>2. Head(queue) \in {"call", "lock"} \X Binder
    BY <2>1, QueueServed DEF CallInv
  <2>3. t \in Threads /\ t # Main BY <1>0, <2>2 DEF Threads
  <2>4. \A u \in Threads : pc[u] \notin Running
    BY <1>0, <2>1 DEF LoopInv, RunsForMain, Running
  <2>5. RunsForMain' BY <1>0, <2>1, <2>3, <2>4 DEF RunsForMain, Running
  <2>6. ServesOne' BY <1>0, <2>1, <2>3 DEF ServesOne, Running
  <2>7. MainAlone' BY <1>0, <2>1, <2>3 DEF MainAlone
  <2>8. QED BY <2>5, <2>6, <2>7 DEF LoopInv
<1>12. CASE UNCHANGED wrapperVars
  BY <1>1, <1>12 DEF wrapperVars, threadVars, loopVars
<1>13. QED
  BY <1>2, <1>3, <1>4, <1>5, <1>6, <1>7, <1>8, <1>9, <1>10, <1>11, <1>12
  DEF WrapperChange, CallStep

-----------------------------------------------------------------------------
(* The memory that getState hands out.                                     *)

\* What is about to be copied has room.
CopyFits ==
  \A t \in Threads : pc[t] = "copying" =>
    Size[call[t].arg] <= wrapper[call[t].plugin].capacity

\* A wrapper that never had a state has nothing in it.
EmptyIsSmall == \A a \in Live : wrapper[a].data = "null" => wrapper[a].size = 0

\* Nobody reads what the last getState gave while the next one runs.
GetStateTakes ==
  \A t \in Threads : call[t].op = "getState" =>
    call[t].plugin \in Addresses /\ answer[call[t].plugin] = None

\* Whoever prepares with a null buffer has left an error.
NullIsError ==
  \A t \in Threads : pc[t] = "prepare" /\ call[t].arg = "null" => lastError

StateInv == /\ StateFits /\ EmptyIsSmall /\ CopyFits
            /\ StateReadIntact /\ GetStateTakes
            /\ NullIsError /\ NoNullBufferRead

\* No state has been asked for yet.
LEMMA StateInvInit == Init => StateInv
<1> SUFFICES ASSUME Init PROVE StateInv OBVIOUS
<1> USE DEF Init, WrapperInit
<1>1. Live = {} BY DEF Live
<1>2. StateFits /\ EmptyIsSmall BY <1>1 DEF StateFits, EmptyIsSmall
<1>3. CopyFits /\ NullIsError /\ NoNullBufferRead
  BY DEF CopyFits, NullIsError, NoNullBufferRead
<1>4. StateReadIntact BY DEF StateReadIntact
<1>5. GetStateTakes BY DEF GetStateTakes, NoCall
<1>6. QED BY <1>2, <1>3, <1>4, <1>5 DEF StateInv

\* A step after which every live plugin has the memory it had, or a new
\* plugin none at all, and in which no copy and no getState begins.
LEMMA MemoryKept ==
  ASSUME CallInv, StateInv, UNCHANGED answer,
         \A a \in Live' :
           /\ a \in Live => /\ wrapper'[a].capacity = wrapper[a].capacity
                            /\ wrapper'[a].size = wrapper[a].size
                            /\ wrapper'[a].data = wrapper[a].data
           /\ a \notin Live => wrapper'[a] = NewWrapper,
         Live \subseteq Live',
         \A t \in Threads : /\ pc'[t] = "copying" => pc[t] = "copying"
                            /\ call'[t] = call[t] \/ call'[t] = NoCall
                            /\ pc'[t] = "copying" => call'[t] = call[t]
  PROVE  StateFits' /\ EmptyIsSmall' /\ CopyFits' /\ StateReadIntact' /\ GetStateTakes'
<1> USE DEF StateInv
<1>1. NewWrapper.size <= NewWrapper.capacity /\ NewWrapper.size = 0
  BY DEF NewWrapper
<1>2. StateFits' BY <1>1 DEF StateFits
<1>3. EmptyIsSmall' BY <1>1 DEF EmptyIsSmall
<1>4. CopyFits'
  <2>1. \A t \in Threads : pc[t] = "copying" => call[t].plugin \in Live
    BY DEF CallInv, CallsOnLive, InCall
  <2>2. QED BY <2>1 DEF CopyFits
<1>5. StateReadIntact' BY DEF StateReadIntact
<1>6. GetStateTakes' BY DEF GetStateTakes, NoCall
<1>7. QED BY <1>2, <1>3, <1>4, <1>5, <1>6

\* The memory of each plugin is its own and large enough, in every step.
LEMMA StateInvStep == CallInv /\ StateInv /\ [Next]_vars => StateInv'
<1> SUFFICES ASSUME CallInv, StateInv, WrapperChange \/ UNCHANGED wrapperVars
             PROVE  StateInv'
  BY StepOfWrapper
<1> USE DEF StateInv
<1>0. /\ None \notin Addresses /\ Binder \subseteq Threads
      /\ wrapper \in [Addresses -> Wrappers \cup {None}]
      /\ pc \in [Threads -> Labels] /\ call \in [Threads -> CallType]
      /\ answer \in [Addresses -> States \cup {None}]
  BY WrapperAssumption DEF CallInv, WrapperTypeOK, Threads
<1>1. ASSUME UNCHANGED <<wrapper, pc, call, lastError, answer>> PROVE StateInv'
  BY <1>1 DEF Live, StateFits, EmptyIsSmall, CopyFits, StateReadIntact,
              GetStateTakes, NullIsError, NoNullBufferRead
<1>2. ASSUME NEW a \in Addresses, Instantiate(a) PROVE StateInv'
  <2>1. /\ wrapper[a] = None /\ wrapper' = [wrapper EXCEPT ![a] = NewWrapper]
        /\ UNCHANGED <<pc, call, lastError, answer>>
    BY <1>2 DEF Instantiate, threadVars, aapVars
  <2>2. /\ NewWrapper # None /\ Live' = Live \cup {a} /\ a \notin Live
        /\ \A b \in Live : wrapper'[b] = wrapper[b]
        /\ wrapper'[a] = NewWrapper
    <3>1. NewWrapper \in Wrappers BY DEF NewWrapper, Wrappers
    <3>2. NewWrapper # None BY <3>1, WrapperAssumption
    <3>3. QED BY <1>0, <2>1, <3>2 DEF Live
  <2>3. StateFits' /\ EmptyIsSmall' /\ CopyFits' /\ StateReadIntact' /\ GetStateTakes'
    BY <2>1, <2>2, MemoryKept
  <2>4. NullIsError' /\ NoNullBufferRead' BY <2>1 DEF NullIsError, NoNullBufferRead
  <2>5. QED BY <2>3, <2>4
<1>3. ASSUME NEW a \in Addresses, Release(a) PROVE StateInv'
  <2>1. /\ wrapper' = [wrapper EXCEPT ![a] = None] /\ Quiet(a)
        /\ answer' = [answer EXCEPT ![a] = None]
        /\ UNCHANGED <<pc, call, lastError>>
    BY <1>3 DEF Release, ReleaseWith, threadVars
  <2>2. /\ Live' = Live \ {a} /\ \A b \in Live' : wrapper'[b] = wrapper[b]
        /\ \A b \in Addresses : answer'[b] # None => b # a /\ answer'[b] = answer[b]
        /\ \A b \in Addresses : answer[b] = None => answer'[b] = None
    BY <1>0, <2>1 DEF Live
  <2>3. StateFits' BY <2>2 DEF StateFits
  <2>4. EmptyIsSmall' BY <2>2 DEF EmptyIsSmall
  <2>5. CopyFits'
    <3>1. \A t \in Threads : pc[t] = "copying" => call[t].plugin \in Live'
      BY <2>1, <2>2 DEF CallInv, CallsOnLive, InCall, Quiet
    <3>2. QED BY <2>1, <2>2, <3>1 DEF CopyFits
  <2>6. StateReadIntact' BY <2>2 DEF StateReadIntact
  <2>7. GetStateTakes'
    <3> SUFFICES ASSUME NEW t \in Threads, call[t].op = "getState"
                 PROVE  call[t].plugin \in Addresses /\ answer'[call[t].plugin] = None
      BY <2>1 DEF GetStateTakes
    <3>1. call[t].plugin \in Addresses /\ answer[call[t].plugin] = None
      BY DEF GetStateTakes
    <3>2. QED BY <2>2, <3>1
  <2>8. NullIsError' /\ NoNullBufferRead' BY <2>1 DEF NullIsError, NoNullBufferRead
  <2>9. QED BY <2>3, <2>4, <2>5, <2>6, <2>7, <2>8
<1>4. ASSUME NEW a \in Addresses, NEW b \in BOOLEAN, SetPlaying(a, b)
      PROVE  StateInv'
  <2> DEFINE w == [wrapper[a] EXCEPT !.playing = b]
  <2>1. a \in Live /\ wrapper' = [wrapper EXCEPT ![a] = w]
        /\ UNCHANGED <<lastError, pc, call, answer>>
    BY <1>4 DEF SetPlaying, threadVars, aapVars
  <2>2. /\ w \in Wrappers /\ w.capacity = wrapper[a].capacity
        /\ w.size = wrapper[a].size /\ w.data = wrapper[a].data
    BY <2>1, WrapperType, FlagWritten DEF CallInv
  <2> HIDE DEF w
  <2>3. Live' = Live /\ \A c \in Addresses : wrapper'[c] = IF c = a THEN w ELSE wrapper[c]
    BY <2>1, <2>2, Rewritten DEF CallInv
  <2>4. StateFits' /\ EmptyIsSmall' /\ CopyFits' /\ StateReadIntact' /\ GetStateTakes'
    BY <2>1, <2>2, <2>3, MemoryKept DEF Live
  <2>5. NullIsError' /\ NoNullBufferRead' BY <2>1 DEF NullIsError, NoNullBufferRead
  <2>6. QED BY <2>4, <2>5
<1>5. ASSUME NEW a \in Addresses, NEW u \in Uris, GetExtension(a, u) PROVE StateInv'
  BY <1>1, <1>5 DEF GetExtension, threadVars
<1>6. ASSUME NEW t \in Binder, NEW a \in Addresses, NEW b \in {"buffer", "null"},
             AllocateBuffer(t, a, b)
      PROVE  StateInv'
  <2>1. /\ pc[t] = "idle" /\ pc' = [pc EXCEPT ![t] = "prepare"]
        /\ call' = [call EXCEPT ![t] = [plugin |-> a, op |-> "prepare", arg |-> b]]
        /\ lastError' = (lastError \/ b = "null")
        /\ UNCHANGED <<wrapper, answer>> /\ t \in Threads /\ Live' = Live
    BY <1>0, <1>6 DEF AllocateBuffer, Begin, aapVars, Live
  <2>2. StateFits' /\ EmptyIsSmall' /\ StateReadIntact'
    BY <2>1 DEF StateFits, EmptyIsSmall, StateReadIntact
  <2>3. CopyFits' BY <1>0, <2>1 DEF CopyFits
  <2>4. GetStateTakes' BY <1>0, <2>1 DEF GetStateTakes
  <2>5. NullIsError' BY <1>0, <2>1 DEF NullIsError
  <2>6. NoNullBufferRead' BY <1>0, <2>1 DEF NoNullBufferRead
  <2>7. QED BY <2>2, <2>3, <2>4, <2>5, <2>6
<1>7. ASSUME NEW t \in Threads, NEW a \in Addresses, NEW op \in Ops, Call(t, a, op)
      PROVE  StateInv'
  <2>1. /\ pc[t] = "idle" /\ pc' = [pc EXCEPT ![t] = "entering"]
        /\ call' = [call EXCEPT ![t] = [plugin |-> a, op |-> op, arg |-> None]]
        /\ answer' = IF op = "getState" THEN [answer EXCEPT ![a] = None] ELSE answer
        /\ UNCHANGED <<wrapper, lastError>> /\ Live' = Live
    BY <1>7 DEF Call, Begin, Live
  <2>2. \A b \in Addresses :
          /\ answer'[b] = answer[b] \/ answer'[b] = None
          /\ answer[b] = None => answer'[b] = None
    BY <1>0, <2>1
  <2>3. StateFits' /\ EmptyIsSmall' BY <2>1 DEF StateFits, EmptyIsSmall
  <2>4. CopyFits' BY <1>0, <2>1 DEF CopyFits
  <2>5. StateReadIntact' BY <2>1, <2>2 DEF StateReadIntact
  <2>6. GetStateTakes'
    <3> SUFFICES ASSUME NEW u \in Threads, call'[u].op = "getState"
                 PROVE  call'[u].plugin \in Addresses /\ answer'[call'[u].plugin] = None
      BY DEF GetStateTakes
    <3>1. CASE u = t
      <4>1. call'[u].plugin = a /\ call'[u].op = op BY <1>0, <2>1, <3>1
      <4>2. QED BY <1>0, <2>1, <4>1
    <3>2. CASE u # t
      <4>1. call'[u] = call[u] BY <1>0, <2>1, <3>2
      <4>2. call[u].plugin \in Addresses /\ answer[call[u].plugin] = None
        BY <4>1 DEF GetStateTakes
      <4>3. QED BY <2>2, <4>1, <4>2
    <3>3. QED BY <3>1, <3>2
  <2>7. NullIsError' /\ NoNullBufferRead'
    BY <1>0, <2>1 DEF NullIsError, NoNullBufferRead
  <2>8. QED BY <2>3, <2>4, <2>5, <2>6, <2>7
<1>8. ASSUME UNCHANGED <<wrapper, call, lastError, answer>>,
             NEW t \in Threads, NEW label \in Labels \ {"prepare", "copying", "null buffer read"},
             pc' = [pc EXCEPT ![t] = label]
      PROVE  StateInv'
  <2>1. Live' = Live BY <1>8 DEF Live
  <2>2. StateFits' /\ EmptyIsSmall' /\ StateReadIntact' /\ GetStateTakes'
    BY <1>8, <2>1 DEF StateFits, EmptyIsSmall, StateReadIntact, GetStateTakes
  <2>3. CopyFits' BY <1>0, <1>8 DEF CopyFits
  <2>4. NullIsError' /\ NoNullBufferRead'
    BY <1>0, <1>8 DEF NullIsError, NoNullBufferRead
  <2>5. QED BY <2>2, <2>3, <2>4
<1>9. ASSUME NEW t \in Threads, RequestLock(t) \/ Enter(t) PROVE StateInv'
  <2>1. /\ UNCHANGED <<wrapper, call, lastError, answer>>
        /\ \E label \in {"locking", "running", "posted"} : pc' = [pc EXCEPT ![t] = label]
    BY <1>9 DEF RequestLock, Enter, aapVars
  <2>2. QED BY <1>8, <2>1 DEF Labels
<1>10. CASE Dispatch
  <2>1. /\ queue # <<>> /\ queue' = Tail(queue)
        /\ UNCHANGED <<wrapper, call, lastError, answer>>
        /\ pc' = [pc EXCEPT ![Head(queue)[2]] =
                    IF Head(queue)[1] = "call" THEN "running" ELSE "idle"]
    BY <1>10 DEF Dispatch, aapVars
  <2>2. Head(queue)[2] \in Threads
    <3>1. Head(queue) \in {"call", "lock"} \X Binder
      BY <2>1, QueueServed DEF CallInv
    <3>2. QED BY <1>0, <3>1
  <2>3. \E label \in {"running", "idle"} : pc' = [pc EXCEPT ![Head(queue)[2]] = label]
    BY <2>1
  <2>4. QED BY <1>8, <2>1, <2>2, <2>3 DEF Labels
<1>11. ASSUME NEW t \in Threads, PrepareToPlay(t) PROVE StateInv'
  <2> DEFINE a == call[t].plugin
             w == [wrapper[a] EXCEPT !.prepared = TRUE]
  <2>1. /\ pc[t] = "prepare"
        /\ wrapper' = IF lastError THEN wrapper ELSE [wrapper EXCEPT ![a] = w]
        /\ pc' = [pc EXCEPT ![t] = IF ~lastError /\ call[t].arg = "null"
                                   THEN "null buffer read" ELSE "idle"]
        /\ call' = [call EXCEPT ![t] = NoCall]
        /\ UNCHANGED <<lastError, answer>>
    BY <1>11 DEF PrepareToPlay, aapVars
  <2>2. ~(~lastError /\ call[t].arg = "null") BY <2>1 DEF NullIsError
  <2>3. pc' = [pc EXCEPT ![t] = "idle"] BY <2>1, <2>2
  <2>4. a \in Live BY <2>1 DEF CallInv, CallsOnLive, InCall
  <2>5. /\ w \in Wrappers /\ w.capacity = wrapper[a].capacity
        /\ w.size = wrapper[a].size /\ w.data = wrapper[a].data
    BY <2>4, WrapperType, FlagWritten DEF CallInv
  <2> HIDE DEF w
  <2>6. /\ Live' = Live
        /\ \A c \in Addresses : wrapper'[c] = IF c = a /\ ~lastError THEN w ELSE wrapper[c]
    <3>1. CASE lastError BY <2>1, <3>1 DEF Live
    <3>2. CASE ~lastError BY <2>1, <2>4, <2>5, <3>2, Rewritten DEF CallInv
    <3>3. QED BY <3>1, <3>2
  <2>7. \A u \in Threads : /\ pc'[u] = "copying" => pc[u] = "copying"
                           /\ call'[u] = call[u] \/ call'[u] = NoCall
                           /\ pc'[u] = "copying" => call'[u] = call[u]
    BY <1>0, <2>1, <2>3
  <2>8. StateFits' /\ EmptyIsSmall' /\ CopyFits' /\ StateReadIntact' /\ GetStateTakes'
    BY <2>1, <2>5, <2>6, <2>7, MemoryKept DEF Live
  <2>9. NullIsError' BY <1>0, <2>1, <2>3 DEF NullIsError
  <2>10. NoNullBufferRead' BY <1>0, <2>3 DEF NoNullBufferRead
  <2>11. QED BY <2>8, <2>9, <2>10
<1>12. ASSUME NEW t \in Threads, Serialize(t) PROVE StateInv'
  <2> DEFINE a == call[t].plugin
  <2>1. PICK s \in States :
          /\ pc[t] = "running" /\ call[t].op = "getState"
          /\ call' = [call EXCEPT ![t].arg = s]
          /\ wrapper' = [wrapper EXCEPT ![a] = GrowState(wrapper[a], Size[s])]
          /\ pc' = [pc EXCEPT ![t] = "copying"]
          /\ UNCHANGED <<lastError, answer>>
    BY <1>12 DEF Serialize, aapVars
  <2> DEFINE w == GrowState(wrapper[a], Size[s])
  <2>2. a \in Live /\ a \in Addresses BY <2>1 DEF CallInv, CallsOnLive, InCall, Live
  <2>3. /\ wrapper[a] \in Wrappers
        /\ wrapper[a].size <= wrapper[a].capacity
        /\ wrapper[a].data = "null" => wrapper[a].size = 0
    BY <2>2, WrapperType DEF CallInv, StateFits, EmptyIsSmall
  <2>4. /\ w \in Wrappers /\ w.size = wrapper[a].size /\ w.data # "null"
        /\ Size[s] <= w.capacity /\ w.size <= w.capacity
    BY <2>3, GrowStateRoom, WrapperAssumption
  <2> HIDE DEF w
  <2>5. /\ Live' = Live /\ wrapper'[a] = w
        /\ \A c \in Addresses : c # a => wrapper'[c] = wrapper[c]
    <3>1. wrapper' = [wrapper EXCEPT ![a] = w] BY <2>1 DEF w
    <3>2. QED BY <2>2, <2>4, <3>1, Rewritten DEF CallInv
  <2>6. /\ call'[t].plugin = a /\ call'[t].op = "getState" /\ call'[t].arg = s
        /\ \A u \in Threads : u # t => call'[u] = call[u]
        /\ \A u \in Threads : /\ call'[u].plugin = call[u].plugin
                              /\ call'[u].op = call[u].op
    BY <1>0, <2>1 DEF CallType
  <2>7. StateFits' BY <2>4, <2>5 DEF StateFits, Live
  <2>8. EmptyIsSmall' BY <2>4, <2>5 DEF EmptyIsSmall, Live
  <2>9. CopyFits'
    <3> SUFFICES ASSUME NEW u \in Threads, pc'[u] = "copying"
                 PROVE  Size[call'[u].arg] <= wrapper'[call'[u].plugin].capacity
      BY DEF CopyFits
    <3>1. CASE u = t BY <2>4, <2>5, <2>6, <3>1
    <3>2. CASE u # t
      <4>1. pc[u] = "copying" /\ call'[u] = call[u] BY <1>0, <2>1, <2>6, <3>2
      <4>2. call[u].plugin \in Live /\ call[u].plugin # a
        BY <2>2, <3>2, <4>1, <1>0 DEF CallInv, CallsOnLive, OneCallEach, InCall
      <4>3. wrapper'[call[u].plugin] = wrapper[call[u].plugin]
        BY <2>5, <4>2 DEF Live
      <4>4. QED BY <4>1, <4>3 DEF CopyFits
    <3>3. QED BY <3>1, <3>2
  <2>10. StateReadIntact'
    <3>1. answer[a] = None BY <2>1 DEF GetStateTakes
    <3>2. QED BY <2>1, <2>5, <3>1 DEF StateReadIntact
  <2>11. GetStateTakes' BY <2>1, <2>6 DEF GetStateTakes
  <2>12. NullIsError' BY <1>0, <2>1, <2>6 DEF NullIsError
  <2>13. NoNullBufferRead' BY <1>0, <2>1 DEF NoNullBufferRead
  <2>14. QED BY <2>7, <2>8, <2>9, <2>10, <2>11, <2>12, <2>13
<1>13. ASSUME NEW t \in Threads, Publish(t) PROVE StateInv'
  <2> DEFINE a == call[t].plugin  s == call[t].arg
             w == [wrapper[a] EXCEPT !.size = Size[s], !.data = s]
  <2>1. /\ pc[t] = "copying" /\ wrapper' = [wrapper EXCEPT ![a] = w]
        /\ answer' = [answer EXCEPT ![a] = s]
        /\ pc' = [pc EXCEPT ![t] = "idle"] /\ call' = [call EXCEPT ![t] = NoCall]
        /\ UNCHANGED lastError
    BY <1>13 DEF Publish, Finish
  <2>2. a \in Live /\ a \in Addresses /\ s \in States
    BY <2>1 DEF CallInv, CallsOnLive, InCall, CopyingState, Live
  <2>3. /\ w \in Wrappers /\ w.size = Size[s] /\ w.data = s
        /\ w.capacity = wrapper[a].capacity
    <3>1. wrapper[a] \in Wrappers BY <2>2, WrapperType DEF CallInv
    <3>2. QED BY <2>2, <3>1, StateWritten
  <2>4. Size[s] <= wrapper[a].capacity BY <2>1 DEF CopyFits
  <2> HIDE DEF w
  <2>5. /\ Live' = Live /\ wrapper'[a] = w
        /\ \A c \in Addresses : c # a => wrapper'[c] = wrapper[c]
    BY <2>1, <2>2, <2>3, Rewritten DEF CallInv
  <2>6. StateFits' BY <2>3, <2>4, <2>5 DEF StateFits, Live
  <2>7. EmptyIsSmall'
    <3>1. s # "null" BY <2>2, WrapperAssumption
    <3>2. QED BY <2>3, <2>5, <3>1 DEF EmptyIsSmall, Live
  <2>8. CopyFits'
    <3> SUFFICES ASSUME NEW u \in Threads, pc'[u] = "copying"
                 PROVE  Size[call'[u].arg] <= wrapper'[call'[u].plugin].capacity
      BY DEF CopyFits
    <3>1. u # t /\ pc[u] = "copying" /\ call'[u] = call[u] BY <1>0, <2>1
    <3>2. call[u].plugin \in Live /\ call[u].plugin # a
      BY <2>2, <3>1, <1>0 DEF CallInv, CallsOnLive, OneCallEach, InCall
    <3>3. wrapper'[call[u].plugin] = wrapper[call[u].plugin]
      BY <2>5, <3>2 DEF Live
    <3>4. QED BY <3>1, <3>3 DEF CopyFits
  <2>9. StateReadIntact'
    BY <1>0, <2>1, <2>2, <2>3, <2>5 DEF StateReadIntact
  <2>10. GetStateTakes'
    <3> SUFFICES ASSUME NEW u \in Threads, call'[u].op = "getState"
                 PROVE  call'[u].plugin \in Addresses /\ answer'[call'[u].plugin] = None
      BY DEF GetStateTakes
    <3>1. u # t /\ call'[u] = call[u] BY <1>0, <2>1 DEF NoCall
    <3>2. call[u].plugin \in Addresses /\ answer[call[u].plugin] = None
      BY <3>1 DEF GetStateTakes
    <3>3. call[u].plugin # a
      BY <1>0, <2>2, <3>1, <3>2 DEF CallInv, OneCallEach
    <3>4. QED BY <1>0, <2>1, <3>1, <3>2, <3>3
  <2>11. NullIsError' /\ NoNullBufferRead'
    BY <1>0, <2>1 DEF NullIsError, NoNullBufferRead
  <2>12. QED BY <2>6, <2>7, <2>8, <2>9, <2>10, <2>11
<1>14. ASSUME NEW t \in Threads, RunOther(t) PROVE StateInv'
  <2>1. /\ UNCHANGED <<wrapper, answer, lastError>> /\ Live' = Live
        /\ pc' = [pc EXCEPT ![t] = "idle"] /\ call' = [call EXCEPT ![t] = NoCall]
    BY <1>14 DEF RunOther, Finish, Live
  <2>2. \A u \in Threads : /\ pc'[u] = "copying" => pc[u] = "copying"
                           /\ call'[u] = call[u] \/ call'[u] = NoCall
                           /\ pc'[u] = "copying" => call'[u] = call[u]
    BY <1>0, <2>1
  <2>3. StateFits' /\ EmptyIsSmall' /\ CopyFits' /\ StateReadIntact' /\ GetStateTakes'
    BY <2>1, <2>2, MemoryKept
  <2>4. NullIsError' /\ NoNullBufferRead'
    BY <1>0, <2>1 DEF NullIsError, NoNullBufferRead
  <2>5. QED BY <2>3, <2>4
<1>15. ASSUME NEW t \in Threads, ReleaseLock(t) PROVE StateInv'
  BY <1>1, <1>15 DEF ReleaseLock, threadVars, aapVars
<1>16. CASE UNCHANGED wrapperVars
  BY <1>1, <1>16 DEF wrapperVars, threadVars, aapVars
<1>17. QED
  BY <1>2, <1>3, <1>4, <1>5, <1>6, <1>7, <1>9, <1>10, <1>11, <1>12, <1>13, <1>14,
     <1>15, <1>16
  DEF WrapperChange, CallStep

-----------------------------------------------------------------------------
(* The extensions.                                                         *)

\* No two entries of the tables are the same extension.
TablesInjective ==
  \A u, v \in Uris, a, b \in Addresses :
    table[u][a] = table[v][b] /\ table[u][a] # None => u = v /\ a = b

\* What was given for the plugin at an address is in the tables.
GivenInTable ==
  \A a \in Addresses : \A e \in given[a] : table[e[1]][a] = e[2]

ExtInv == /\ table \in [Uris -> [Addresses -> Cells \cup {None}]]
          /\ given \in [Addresses -> SUBSET (Uris \X Cells)]
          /\ TablesInjective /\ GivenInTable

\* Tables without two entries the same keep every pointer apart.
LEMMA ExtensionsApart == ExtInv => ExtensionsLive
<1> SUFFICES ASSUME ExtInv, NEW a \in Live, NEW e \in given[a]
             PROVE  table[e[1]][a] = e[2] /\ \A u \in Uris, b \in Addresses :
                      table[u][b] = e[2] => u = e[1] /\ b = a
  BY DEF ExtensionsLive
<1>1. a \in Addresses BY DEF Live
<1>2. e[1] \in Uris /\ e[2] \in Cells BY <1>1 DEF ExtInv
<1>3. e[2] # None BY <1>2, WrapperAssumption
<1>4. table[e[1]][a] = e[2] BY <1>1 DEF ExtInv, GivenInTable
<1>5. QED BY <1>1, <1>2, <1>3, <1>4 DEF ExtInv, TablesInjective

\* The tables are empty.
LEMMA ExtInvInit == Init => ExtInv
<1> SUFFICES ASSUME Init PROVE ExtInv OBVIOUS
<1> USE DEF Init, WrapperInit
<1>1. TablesInjective BY DEF TablesInjective
<1>2. GivenInTable BY DEF GivenInTable
<1>3. QED BY <1>1, <1>2 DEF ExtInv

\* No step takes an extension from a plugin that has it.
LEMMA ExtInvStep == ExtInv /\ [Next]_vars => ExtInv'
<1> SUFFICES ASSUME ExtInv, WrapperChange \/ UNCHANGED wrapperVars PROVE ExtInv'
  BY StepOfWrapper
<1> USE DEF ExtInv
<1>1. ASSUME UNCHANGED <<table, given>> PROVE ExtInv'
  BY <1>1 DEF TablesInjective, GivenInTable
<1>2. ASSUME NEW a \in Addresses, Release(a) PROVE ExtInv'
  <2>1. /\ table' = [table EXCEPT !["presets"] = [table["presets"] EXCEPT ![a] = None]]
        /\ given' = [given EXCEPT ![a] = {}]
    BY <1>2 DEF Release, ReleaseWith
  <2>2. "presets" \in Uris BY DEF Uris
  <2>3. table["presets"] \in [Addresses -> Cells \cup {None}] BY <2>2
  <2>4. \A u \in Uris, b \in Addresses :
          table'[u][b] = IF u = "presets" /\ b = a THEN None ELSE table[u][b]
    BY <2>1, <2>3
  <2>5. /\ table' \in [Uris -> [Addresses -> Cells \cup {None}]]
        /\ given' \in [Addresses -> SUBSET (Uris \X Cells)]
    BY <2>1, <2>2, <2>3
  <2>6. TablesInjective' BY <2>4 DEF TablesInjective
  <2>7. GivenInTable'
    <3> SUFFICES ASSUME NEW b \in Addresses, NEW e \in given'[b]
                 PROVE  table'[e[1]][b] = e[2]
      BY DEF GivenInTable
    <3>1. b # a /\ e \in given[b] BY <2>1
    <3>2. e[1] \in Uris BY <3>1
    <3>3. QED BY <2>4, <3>1, <3>2 DEF GivenInTable
  <2>8. QED BY <2>5, <2>6, <2>7
<1>3. ASSUME NEW a \in Addresses, NEW u \in Uris, GetExtension(a, u) PROVE ExtInv'
  <2>1. given' = [given EXCEPT ![a] = given[a] \cup {<<u, table'[u][a]>>}]
    BY <1>3 DEF GetExtension
  <2>2. PICK c \in Cells :
          /\ table' = [table EXCEPT ![u] = [table[u] EXCEPT ![a] = c]]
          /\ \/ table[u][a] = c
             \/ table[u][a] = None /\ c \notin Allocated
    <3>1. CASE table[u][a] = None
      <4> DEFINE c == CHOOSE d \in Cells : d \notin Allocated
      <4>1. c \in Cells /\ c \notin Allocated BY <1>3, <3>1 DEF GetExtension
      <4>2. table' = [table EXCEPT ![u][a] = c] BY <1>3, <3>1 DEF GetExtension
      <4>3. QED BY <3>1, <4>1, <4>2
    <3>2. CASE table[u][a] # None
      <4>1. table' = table BY <1>3, <3>2 DEF GetExtension
      <4>2. table[u][a] \in Cells BY <3>2
      <4>3. [table[u] EXCEPT ![a] = table[u][a]] = table[u] OBVIOUS
      <4>4. table' = [table EXCEPT ![u] = table[u]] BY <4>1
      <4>5. QED BY <4>2, <4>3, <4>4
    <3>3. QED BY <3>1, <3>2
  <2>3. table[u] \in [Addresses -> Cells \cup {None}] OBVIOUS
  <2>4. \A v \in Uris, b \in Addresses :
          table'[v][b] = IF v = u /\ b = a THEN c ELSE table[v][b]
    BY <2>2, <2>3
  <2>5. table' \in [Uris -> [Addresses -> Cells \cup {None}]] BY <2>2, <2>3
  <2>6. table'[u][a] = c BY <2>4
  <2>7. given' = [given EXCEPT ![a] = given[a] \cup {<<u, c>>}] BY <2>1, <2>6
  <2>8. given' \in [Addresses -> SUBSET (Uris \X Cells)] BY <2>7
  <2>9. TablesInjective'
    <3>1. ASSUME NEW v \in Uris, NEW b \in Addresses, table[v][b] = c
          PROVE  v = u /\ b = a
      <4>1. c # None BY WrapperAssumption
      <4>2. CASE table[u][a] = c BY <3>1, <4>1, <4>2 DEF TablesInjective
      <4>3. CASE c \notin Allocated BY <3>1, <4>1, <4>3 DEF Allocated
      <4>4. QED BY <2>2, <4>2, <4>3
    <3>2. QED BY <2>4, <3>1 DEF TablesInjective
  <2>10. GivenInTable'
    <3> SUFFICES ASSUME NEW b \in Addresses, NEW e \in given'[b]
                 PROVE  table'[e[1]][b] = e[2]
      BY DEF GivenInTable
    <3>1. CASE b = a /\ e = <<u, c>> BY <2>6, <3>1
    <3>2. CASE e \in given[b]
      <4>1. e[1] \in Uris /\ table[e[1]][b] = e[2] /\ e[2] # None
        BY <3>2, WrapperAssumption DEF GivenInTable
      <4>2. e[1] = u /\ b = a => table[u][a] = c BY <2>2, <4>1
      <4>3. QED BY <2>4, <4>1, <4>2
    <3>3. QED BY <2>7, <3>1, <3>2
  <2>11. QED BY <2>5, <2>8, <2>9, <2>10
<1>4. ASSUME NEW a \in Addresses, Instantiate(a) \/ \E b \in BOOLEAN : SetPlaying(a, b)
      PROVE  ExtInv'
  BY <1>1, <1>4 DEF Instantiate, SetPlaying, aapVars
<1>5. ASSUME NEW t \in Binder, NEW a \in Addresses, NEW b \in {"buffer", "null"},
             AllocateBuffer(t, a, b)
      PROVE  ExtInv'
  BY <1>1, <1>5 DEF AllocateBuffer, aapVars
<1>6. ASSUME NEW t \in Threads, NEW a \in Addresses, NEW op \in Ops, Call(t, a, op)
      PROVE  ExtInv'
  BY <1>1, <1>6 DEF Call
<1>7. ASSUME NEW t \in Threads, RequestLock(t) \/ CallStep(t) PROVE ExtInv'
  BY <1>1, <1>7 DEF RequestLock, CallStep, PrepareToPlay, Enter, Serialize,
                    Publish, RunOther, Finish, ReleaseLock, aapVars
<1>8. CASE Dispatch
  BY <1>1, <1>8 DEF Dispatch, aapVars
<1>9. CASE UNCHANGED wrapperVars
  BY <1>1, <1>9 DEF wrapperVars, aapVars
<1>10. QED
  BY <1>2, <1>3, <1>4, <1>5, <1>6, <1>7, <1>8, <1>9 DEF WrapperChange

-----------------------------------------------------------------------------
(* The host and its plugins.                                               *)

HostTypeOK ==
  /\ native \in [Requests -> Addresses \cup {None}]
  /\ hosting \in [Requests -> {"none", "idle", "preparing", "prepared", "destroyed"}]

\* What an instance refers to is a plugin, and no other instance's.
NativeLive == \A r \in Requests : native[r] # None => native[r] \in Live
NativeApart ==
  \A q, r \in Requests : native[q] = native[r] /\ native[r] # None => q = r

\* A prepare that the host waits for is under way, or was done, or failed.
PrepareUnderWay ==
  \A r \in Requests : Hosted(r) /\ hosting[r] = "preparing" =>
    \/ wrapper[native[r]].prepared \/ lastError
    \/ \E t \in Threads : pc[t] = "prepare" /\ call[t].plugin = native[r]

HostInv == /\ HostTypeOK /\ NativeLive /\ NativeApart /\ PrepareUnderWay
           /\ PlayingAsPrepared /\ PreparedUnlessError

\* Nothing is hosted.
LEMMA HostInvInit == Init => HostInv
<1> SUFFICES ASSUME Init PROVE HostInv OBVIOUS
<1> USE DEF Init
<1>1. HostTypeOK /\ NativeLive /\ NativeApart
  BY DEF HostTypeOK, NativeLive, NativeApart
<1>2. PrepareUnderWay /\ PlayingAsPrepared /\ PreparedUnlessError
  BY DEF Hosted, PrepareUnderWay, PlayingAsPrepared, PreparedUnlessError
<1>3. QED BY <1>1, <1>2 DEF HostInv

\* A step of the plugins' process that is none of the host's.
LEMMA FlagsKept ==
  ASSUME HostInv, UNCHANGED hostVars, hostAlive' => hostAlive, lastError => lastError',
         \A a \in Live : /\ a \in Live'
                         /\ wrapper'[a].playing <=> wrapper[a].playing
                         /\ wrapper[a].prepared => wrapper'[a].prepared,
         \A t \in Threads : pc[t] = "prepare" =>
           \/ pc'[t] = "prepare" /\ call'[t].plugin = call[t].plugin
           \/ wrapper'[call[t].plugin].prepared \/ lastError'
  PROVE  HostInv'
<1> USE DEF HostInv, hostVars
<1>1. HostTypeOK' /\ NativeApart' BY DEF HostTypeOK, NativeApart
<1>2. NativeLive' BY DEF NativeLive
<1>3. PlayingAsPrepared' BY DEF PlayingAsPrepared, NativeLive
<1>4. PreparedUnlessError'
  BY DEF PreparedUnlessError, NativeLive, Hosted
<1>5. PrepareUnderWay'
  <2> SUFFICES ASSUME NEW r \in Requests, Hosted(r), hosting[r] = "preparing"
               PROVE  \/ wrapper'[native[r]].prepared \/ lastError'
                      \/ \E t \in Threads : /\ pc'[t] = "prepare"
                                            /\ call'[t].plugin = native[r]
    BY DEF PrepareUnderWay, Hosted
  <2>1. native[r] \in Live BY DEF NativeLive, Hosted
  <2>2. QED BY <2>1 DEF PrepareUnderWay
<1>6. QED BY <1>1, <1>2, <1>3, <1>4, <1>5

\* A step in which the host sets the play head's flag of one of its plugins.
LEMMA FlagSet ==
  ASSUME CallInv, HostInv, NEW r \in Requests, NEW b \in BOOLEAN,
         NEW how \in {"idle", "prepared", "destroyed"},
         SetPlaying(native[r], b), UNCHANGED <<native, hostAlive>>,
         hosting' = [hosting EXCEPT ![r] = how],
         b <=> how = "prepared" /\ HasPorts(r),
         how = "prepared" => Hosted(r) /\ hosting[r] = "preparing"
  PROVE  HostInv'
<1> DEFINE a == native[r]
           w == [wrapper[a] EXCEPT !.playing = b]
<1> USE DEF HostInv
<1>1. /\ a \in Live /\ Quiet(a) /\ wrapper' = [wrapper EXCEPT ![a] = w]
      /\ UNCHANGED <<lastError, pc, call>>
  BY DEF SetPlaying, threadVars
<1>2. wrapper[a] \in Wrappers BY <1>1, WrapperType DEF CallInv
<1>3. /\ w \in Wrappers /\ w.playing = b /\ w.prepared = wrapper[a].prepared
  BY <1>2 DEF Wrappers
<1> HIDE DEF w
<1>4. /\ Live' = Live
      /\ \A c \in Addresses : wrapper'[c] = IF c = a THEN w ELSE wrapper[c]
  BY <1>1, <1>3, Rewritten DEF CallInv
<1>5. Live \subseteq Addresses /\ a # None /\ a \in Addresses
  BY <1>1, WrapperAssumption DEF Live
<1>6. HostTypeOK' /\ NativeLive' /\ NativeApart'
  BY <1>4 DEF HostTypeOK, NativeLive, NativeApart
<1>7. \A q \in Requests : q # r /\ native[q] # None =>
        /\ wrapper'[native[q]] = wrapper[native[q]] /\ hosting'[q] = hosting[q]
  BY <1>4, <1>5 DEF NativeApart, NativeLive, HostTypeOK
<1>8. hosting'[r] = how /\ wrapper'[a] = w BY <1>4, <1>5 DEF HostTypeOK
<1>9. PlayingAsPrepared' BY <1>3, <1>7, <1>8 DEF PlayingAsPrepared
<1>10. how = "prepared" => wrapper[a].prepared \/ lastError
  <2>1. \A t \in Threads : call[t].plugin # a BY <1>1 DEF Quiet
  <2>2. QED BY <2>1 DEF PrepareUnderWay
<1>11. PreparedUnlessError'
  BY <1>1, <1>3, <1>7, <1>8, <1>10 DEF PreparedUnlessError, Hosted
<1>12. PrepareUnderWay'
  BY <1>1, <1>7, <1>8 DEF PrepareUnderWay, Hosted
<1>13. QED BY <1>6, <1>9, <1>11, <1>12

\* A plugin is prepared and plays as its host says, in every step.
LEMMA HostInvStep == CallInv /\ StateInv /\ HostInv /\ [Next]_vars => HostInv'
<1> SUFFICES ASSUME CallInv, StateInv, HostInv, [Next]_vars PROVE HostInv'
  OBVIOUS
<1>0. /\ HostedAssumption /\ wrapper \in [Addresses -> Wrappers \cup {None}]
      /\ pc \in [Threads -> Labels] /\ call \in [Threads -> CallType]
      /\ None \notin Addresses /\ HostTypeOK /\ Binder \subseteq Threads
  BY HostedAssumption, WrapperAssumption DEF CallInv, WrapperTypeOK, HostInv, Threads
<1>1. ASSUME UNCHANGED <<wrapper, lastError, hostVars>>, hostAlive' => hostAlive,
             \A t \in Threads : pc[t] = "prepare" =>
               pc'[t] = "prepare" /\ call'[t].plugin = call[t].plugin
      PROVE  HostInv'
  BY <1>1, FlagsKept DEF Live
<1>2. CASE Create
  BY <1>1, <1>2
  DEF Create, wrapperVars, threadVars, StartScan, FindAllTypesForFile,
      CreatePluginInstance, Connected, ConnectionFailed, CreationFailed, FailureFollowed
<1>3. ASSUME NEW r \in Requests, CreateInstance(r) PROVE HostInv'
  <2> DEFINE a == CHOOSE b \in Addresses : wrapper[b] = None
  <2>1. /\ a \in Addresses /\ wrapper[a] = None
        /\ wrapper' = [wrapper EXCEPT ![a] = NewWrapper]
        /\ native' = [native EXCEPT ![r] = a]
        /\ hosting' = [hosting EXCEPT ![r] = "idle"]
        /\ UNCHANGED <<hostAlive, lastError, pc, call>>
    BY <1>3 DEF CreateInstance, Instantiate, InstanceCreated, threadVars
  <2> HIDE DEF a
  <2>2. NewWrapper \in Wrappers /\ NewWrapper # None /\ ~NewWrapper.playing
    <3>1. NewWrapper \in Wrappers BY DEF NewWrapper, Wrappers
    <3>2. NewWrapper.playing = FALSE BY DEF NewWrapper
    <3>3. QED BY <3>1, <3>2, WrapperAssumption
  <2>3. /\ a \notin Live /\ Live' = Live \cup {a} /\ wrapper'[a] = NewWrapper
        /\ \A b \in Live : wrapper'[b] = wrapper[b]
    BY <1>0, <2>1, <2>2 DEF Live
  <2>4. /\ native'[r] = a /\ hosting'[r] = "idle"
        /\ \A q \in Requests : q # r => native'[q] = native[q] /\ hosting'[q] = hosting[q]
    BY <1>0, <2>1 DEF HostTypeOK
  <2>5. HostTypeOK' BY <1>0, <2>1 DEF HostTypeOK
  <2>6. NativeLive' BY <2>3, <2>4 DEF HostInv, NativeLive
  <2>7. NativeApart'
    <3>1. \A q \in Requests : q # r => native'[q] # a \/ native'[q] = None
      BY <2>3, <2>4 DEF HostInv, NativeLive
    <3>2. a # None BY <1>0, <2>1
    <3>3. QED BY <2>4, <3>1, <3>2 DEF HostInv, NativeApart
  <2>8. PlayingAsPrepared'
    BY <2>1, <2>2, <2>3, <2>4 DEF HostInv, PlayingAsPrepared, NativeLive
  <2>9. PreparedUnlessError'
    BY <2>1, <2>3, <2>4 DEF HostInv, PreparedUnlessError, NativeLive, Hosted
  <2>10. PrepareUnderWay'
    BY <2>1, <2>3, <2>4 DEF HostInv, PrepareUnderWay, NativeLive, Hosted
  <2>11. QED BY <2>5, <2>6, <2>7, <2>8, <2>9, <2>10 DEF HostInv
<1>4. ASSUME NEW r \in Requests, HostActivate(r) PROVE HostInv'
  <2> DEFINE b == wrapper[native[r]].playing \/ HasPorts(r)
  <2>1. /\ Hosted(r) /\ hosting[r] = "preparing" /\ SetPlaying(native[r], b)
        /\ hosting' = [hosting EXCEPT ![r] = "prepared"]
        /\ UNCHANGED <<native, hostAlive>>
    BY <1>4 DEF HostActivate, creationVars
  <2>2. b <=> HasPorts(r)
    <3>1. ~wrapper[native[r]].playing
      BY <2>1 DEF HostInv, PlayingAsPrepared, Hosted
    <3>2. QED BY <3>1
  <2>3. b \in BOOLEAN OBVIOUS
  <2> HIDE DEF b
  <2>4. QED BY <2>1, <2>2, <2>3, FlagSet
<1>5. ASSUME NEW r \in Requests, HostDeactivate(r) PROVE HostInv'
  <2>1. /\ SetPlaying(native[r], FALSE) /\ hosting' = [hosting EXCEPT ![r] = "idle"]
        /\ UNCHANGED <<native, hostAlive>>
    BY <1>5 DEF HostDeactivate, creationVars
  <2>2. QED BY <2>1, FlagSet
<1>6. ASSUME NEW r \in Requests, HostDestroy(r) PROVE HostInv'
  <2>1. /\ SetPlaying(native[r], FALSE)
        /\ hosting' = [hosting EXCEPT ![r] = "destroyed"]
        /\ UNCHANGED <<native, hostAlive>>
    BY <1>6 DEF HostDestroy, creationVars
  <2>2. QED BY <2>1, FlagSet
<1>7. ASSUME NEW r \in Requests, NativeReleased(r) PROVE HostInv'
  <2> DEFINE a == native[r]
  <2>1. /\ a \in Live /\ Quiet(a) /\ wrapper' = [wrapper EXCEPT ![a] = None]
        /\ native' = [native EXCEPT ![r] = None]
        /\ hosting' = [hosting EXCEPT ![r] = "destroyed"]
        /\ UNCHANGED <<hostAlive, lastError, pc, call>>
    BY <1>7 DEF NativeReleased, Release, ReleaseWith, threadVars, creationVars
  <2>2. Live' = Live \ {a} /\ \A b \in Live' : wrapper'[b] = wrapper[b]
    BY <1>0, <2>1 DEF Live
  <2>3. /\ native'[r] = None
        /\ \A q \in Requests : q # r => native'[q] = native[q] /\ hosting'[q] = hosting[q]
    BY <1>0, <2>1 DEF HostTypeOK
  <2>4. \A q \in Requests : native'[q] # None => q # r /\ native[q] \in Live'
    <3>1. a # None BY <2>1, <1>0 DEF Live
    <3>2. QED BY <2>2, <2>3, <3>1 DEF HostInv, NativeLive, NativeApart
  <2>5. HostTypeOK' BY <1>0, <2>1 DEF HostTypeOK
  <2>6. NativeLive' /\ NativeApart'
    BY <2>3, <2>4 DEF HostInv, NativeLive, NativeApart
  <2>7. PlayingAsPrepared' BY <2>1, <2>2, <2>3, <2>4 DEF HostInv, PlayingAsPrepared
  <2>8. PreparedUnlessError'
    BY <2>1, <2>2, <2>3, <2>4 DEF HostInv, PreparedUnlessError, Hosted
  <2>9. PrepareUnderWay'
    BY <2>1, <2>2, <2>3, <2>4 DEF HostInv, PrepareUnderWay, Hosted
  <2>10. QED BY <2>5, <2>6, <2>7, <2>8, <2>9 DEF HostInv
<1>8. ASSUME NEW r \in Requests, NEW t \in Binder, NEW b \in {"buffer", "null"},
             HostPrepare(r, t, b)
      PROVE  HostInv'
  <2> DEFINE a == native[r]
  <2>1. /\ Hosted(r) /\ hosting' = [hosting EXCEPT ![r] = "preparing"]
        /\ hosting[r] = "idle" /\ pc[t] = "idle" /\ pc' = [pc EXCEPT ![t] = "prepare"]
        /\ call' = [call EXCEPT ![t] = [plugin |-> a, op |-> "prepare", arg |-> b]]
        /\ lastError => lastError'
        /\ UNCHANGED <<hostAlive, native, wrapper>> /\ Live' = Live
    BY <1>8 DEF HostPrepare, AllocateBuffer, Begin, creationVars, Live
  <2>2. /\ hosting'[r] = "preparing"
        /\ \A q \in Requests : q # r => hosting'[q] = hosting[q]
    BY <1>0, <2>1 DEF HostTypeOK
  <2>3. /\ t \in Threads /\ pc'[t] = "prepare" /\ call'[t].plugin = a
        /\ \A u \in Threads : pc[u] = "prepare" => pc'[u] = pc[u] /\ call'[u] = call[u]
    BY <1>0, <2>1
  <2>4. HostTypeOK' /\ NativeLive' /\ NativeApart'
    BY <1>0, <2>1 DEF HostInv, HostTypeOK, NativeLive, NativeApart
  <2>5. PlayingAsPrepared'
    BY <2>1, <2>2 DEF HostInv, PlayingAsPrepared, HasPorts
  <2>6. PreparedUnlessError' BY <2>1, <2>2 DEF HostInv, PreparedUnlessError, Hosted
  <2>7. PrepareUnderWay' BY <2>1, <2>2, <2>3 DEF HostInv, PrepareUnderWay, Hosted
  <2>8. QED BY <2>4, <2>5, <2>6, <2>7 DEF HostInv
<1>9. ASSUME NEW r \in Requests, NEW t \in Threads, NEW op \in Ops, HostCall(r, t, op)
      PROVE  HostInv'
  <2>1. /\ pc[t] = "idle" /\ pc' = [pc EXCEPT ![t] = "entering"]
        /\ call' = [call EXCEPT ![t] = [plugin |-> native[r], op |-> op, arg |-> None]]
        /\ UNCHANGED <<wrapper, lastError, hostVars, hostAlive>>
    BY <1>9 DEF HostCall, Call, Begin, creationVars
  <2>2. \A u \in Threads : pc[u] = "prepare" =>
          pc'[u] = "prepare" /\ call'[u].plugin = call[u].plugin
    BY <1>0, <2>1
  <2>3. QED BY <1>1, <2>1, <2>2
<1>10. ASSUME NEW t \in Threads, RequestLock(t) \/ Enter(t) \/ ReleaseLock(t),
              UNCHANGED <<creationVars, hostVars>>
       PROVE  HostInv'
  <2>1. /\ pc[t] # "prepare" /\ UNCHANGED <<wrapper, lastError, call>>
        /\ \A u \in Threads : u # t => pc'[u] = pc[u]
    BY <1>0, <1>10 DEF RequestLock, Enter, ReleaseLock, threadVars
  <2>2. QED BY <1>1, <1>10, <2>1 DEF creationVars
<1>11. ASSUME NEW a \in Addresses, NEW u \in Uris, GetExtension(a, u),
              UNCHANGED <<creationVars, hostVars>>
       PROVE  HostInv'
  BY <1>1, <1>11 DEF GetExtension, threadVars, creationVars
<1>12. ASSUME NEW p \in Catalog, Uninstall(p), UNCHANGED <<wrapperVars, hostVars>>
       PROVE  HostInv'
  BY <1>1, <1>12 DEF Uninstall, wrapperVars, threadVars
<1>13. ASSUME Dispatch, UNCHANGED <<creationVars, hostVars>> PROVE HostInv'
  <2> DEFINE t == Head(queue)[2]
  <2>1. /\ queue # <<>> /\ queue' = Tail(queue)
        /\ UNCHANGED <<wrapper, lastError, call>>
        /\ pc' = [pc EXCEPT ![t] = IF Head(queue)[1] = "call" THEN "running"
                                                             ELSE "idle"]
    BY <1>13 DEF Dispatch
  <2>2. pc[t] = IF Head(queue)[1] = "call" THEN "posted" ELSE "locking"
    BY <2>1, QueueServed DEF CallInv
  <2>3. \A u \in Threads : pc[u] = "prepare" => pc'[u] = "prepare"
    BY <1>0, <2>1, <2>2
  <2>4. QED BY <1>1, <1>13, <2>1, <2>3 DEF creationVars
<1>14. ASSUME NEW t \in Threads, PrepareToPlay(t), UNCHANGED <<creationVars, hostVars>>
       PROVE  HostInv'
  <2> DEFINE a == call[t].plugin
             w == [wrapper[a] EXCEPT !.prepared = TRUE]
  <2>1. /\ pc[t] = "prepare"
        /\ wrapper' = IF lastError THEN wrapper ELSE [wrapper EXCEPT ![a] = w]
        /\ \A u \in Threads : u # t => pc'[u] = pc[u] /\ call'[u] = call[u]
        /\ UNCHANGED lastError
    BY <1>0, <1>14 DEF PrepareToPlay
  <2>2. a \in Live BY <2>1 DEF CallInv, CallsOnLive, InCall
  <2>3. wrapper[a] \in Wrappers BY <2>2, WrapperType DEF CallInv
  <2>4. w \in Wrappers /\ w.playing = wrapper[a].playing /\ w.prepared = TRUE
    BY <2>3 DEF Wrappers
  <2> HIDE DEF w
  <2>5. CASE lastError
    <3>1. wrapper' = wrapper /\ lastError' BY <2>1, <2>5
    <3>2. \A b \in Live : b \in Live' /\ wrapper'[b] = wrapper[b] BY <3>1 DEF Live
    <3>3. QED BY <1>14, <3>1, <3>2, FlagsKept DEF creationVars
  <2>6. CASE ~lastError
    <3>1. Live' = Live /\ \A b \in Addresses : wrapper'[b] = IF b = a THEN w ELSE wrapper[b]
      BY <2>1, <2>2, <2>4, <2>6, Rewritten DEF CallInv
    <3>2. \A b \in Live : /\ b \in Live'
                          /\ wrapper'[b].playing <=> wrapper[b].playing
                          /\ wrapper[b].prepared => wrapper'[b].prepared
      BY <2>4, <3>1 DEF Live
    <3>3. wrapper'[a].prepared BY <2>2, <2>4, <3>1 DEF Live
    <3>4. \A u \in Threads : pc[u] = "prepare" =>
            \/ pc'[u] = "prepare" /\ call'[u].plugin = call[u].plugin
            \/ wrapper'[call[u].plugin].prepared \/ lastError'
      BY <2>1, <3>3
    <3>5. QED BY <1>14, <2>6, <3>2, <3>4, FlagsKept DEF creationVars
  <2>7. QED BY <2>5, <2>6
<1>15. ASSUME NEW t \in Threads, Serialize(t) \/ Publish(t) \/ RunOther(t),
              UNCHANGED <<creationVars, hostVars>>
       PROVE  HostInv'
  <2> DEFINE a == call[t].plugin
  <2>1. /\ pc[t] \in {"running", "copying"} /\ UNCHANGED lastError
        /\ \A u \in Threads : u # t => pc'[u] = pc[u] /\ call'[u] = call[u]
    BY <1>0, <1>15 DEF Serialize, Publish, RunOther, Finish
  <2>2. a \in Live BY <2>1 DEF CallInv, CallsOnLive, InCall
  <2>3. wrapper[a] \in Wrappers BY <2>2, WrapperType DEF CallInv
  <2>4. PICK w \in Wrappers :
          /\ wrapper' = [wrapper EXCEPT ![a] = w]
          /\ w.playing = wrapper[a].playing /\ w.prepared = wrapper[a].prepared
    <3>1. CASE Serialize(t)
      <4>1. PICK s \in States :
              wrapper' = [wrapper EXCEPT ![a] = GrowState(wrapper[a], Size[s])]
        BY <3>1 DEF Serialize
      <4> DEFINE w == GrowState(wrapper[a], Size[s])
                 v == [wrapper[a] EXCEPT !.capacity = Size[s], !.data = "zero"]
      <4>2. w \in Wrappers BY <2>3, GrowStateRoom, WrapperAssumption
      <4>3. v.playing = wrapper[a].playing /\ v.prepared = wrapper[a].prepared
        BY <2>3 DEF Wrappers
      <4>4. w = v \/ w = wrapper[a] BY DEF GrowState
      <4>5. w.playing = wrapper[a].playing /\ w.prepared = wrapper[a].prepared
        BY <4>3, <4>4
      <4>6. QED BY <4>1, <4>2, <4>5
    <3>2. CASE Publish(t)
      <4> DEFINE s == call[t].arg
                 w == [wrapper[a] EXCEPT !.size = Size[s], !.data = s]
      <4>1. pc[t] = "copying" /\ wrapper' = [wrapper EXCEPT ![a] = w]
        BY <3>2 DEF Publish
      <4>2. s \in States BY <4>1 DEF CallInv, CopyingState
      <4>3. w \in Wrappers BY <2>3, <4>2, StateWritten
      <4>4. w.playing = wrapper[a].playing /\ w.prepared = wrapper[a].prepared
        BY <2>3 DEF Wrappers
      <4>5. QED BY <4>1, <4>3, <4>4
    <3>3. CASE RunOther(t)
      <4>1. wrapper' = wrapper BY <3>3 DEF RunOther
      <4>2. wrapper' = [wrapper EXCEPT ![a] = wrapper[a]] BY <1>0, <4>1
      <4>3. QED BY <2>3, <4>2
    <3>4. QED BY <1>15, <3>1, <3>2, <3>3
  <2>5. Live' = Live /\ \A b \in Addresses : wrapper'[b] = IF b = a THEN w ELSE wrapper[b]
    BY <2>2, <2>4, Rewritten DEF CallInv
  <2>6. \A b \in Live : /\ b \in Live'
                        /\ wrapper'[b].playing <=> wrapper[b].playing
                        /\ wrapper[b].prepared => wrapper'[b].prepared
    BY <2>4, <2>5 DEF Live
  <2>7. QED BY <1>15, <2>1, <2>6, FlagsKept DEF creationVars
<1>16. CASE UNCHANGED vars
  BY <1>1, <1>16 DEF vars, wrapperVars, threadVars, creationVars
<1>17. CASE UNCHANGED <<creationVars, hostVars, ops>> /\ WrapperStep
  BY <1>10, <1>13, <1>14, <1>15, <1>17 DEF WrapperStep, CallStep
<1>18. CASE Begun
  BY <1>5, <1>6, <1>8, <1>9, <1>10, <1>11, <1>12, <1>18 DEF Begun
<1>19. QED
  BY <1>2, <1>3, <1>4, <1>7, <1>16, <1>17, <1>18 DEF Next, HostStep

-----------------------------------------------------------------------------
(* The scan.                                                               *)

SearchRange == [first : Nat, len : Nat]

\* A step of the search leaves a range.
LEMMA HalveType ==
  ASSUME NEW seq, NEW x, NEW range \in SearchRange
  PROVE  Halve(seq, x, range) \in SearchRange
<1>1. range.len \in Nat /\ range.first \in Nat BY DEF SearchRange
<1>2. /\ range.len \div 2 \in Nat
      /\ range.len # 0 => range.len - (range.len \div 2) - 1 \in Nat
  BY <1>1
<1>3. QED BY <1>1, <1>2 DEF Halve, SearchRange

\* The ranges of a search, one for each of its steps.
Searched(seq, x, h) ==
  /\ h \in [0..Len(seq) -> SearchRange]
  /\ h[0] = [first |-> 1, len |-> Len(seq)]
  /\ \A n \in 1..Len(seq) : h[n] = Halve(seq, x, h[n - 1])

\* The recursive function in LowerBound exists, and gives them.
LEMMA SearchSteps ==
  ASSUME NEW seq \in Seq(Nat), NEW x
  PROVE  \E h : Searched(seq, x, h) /\ LowerBound(seq, x) = h[Len(seq)].first
<1> DEFINE N    == Len(seq)
           base == [first |-> 1, len |-> N]
           step == [n \in 1..N |-> [r \in SearchRange |-> Halve(seq, x, r)]]
           Halved(h) == h = [n \in 0..N |-> IF n = 0 THEN base
                                            ELSE Halve(seq, x, h[n - 1])]
           H == CHOOSE h : Halved(h)
<1>1. N \in Nat /\ base \in SearchRange BY LenProperties DEF SearchRange
<1>2. step \in [1..N -> [SearchRange -> SearchRange]] BY HalveType
<1>3. \A n \in 1..N, r \in SearchRange : step[n][r] = Halve(seq, x, r)
  OBVIOUS
<1>4. LowerBound(seq, x) = H[N].first BY DEF LowerBound
<1>5. \A n \in 0..N : n # 0 => n \in 1..N /\ n - 1 \in 0..N BY <1>1
<1> HIDE DEF N, step
<1>6. PICK h \in [0..N -> SearchRange] : IteratesTo(h, N, base, step)
  BY <1>1, <1>2, BoundedRecursion
<1>7. Halved(h)
  <2>1. ASSUME NEW n \in 0..N
        PROVE  h[n] = IF n = 0 THEN base ELSE Halve(seq, x, h[n - 1])
    <3>1. h[n] = IF n = 0 THEN base ELSE step[n][h[n - 1]]
      BY <1>6 DEF IteratesTo
    <3>2. n # 0 => h[n - 1] \in SearchRange BY <1>5
    <3>3. QED BY <1>3, <1>5, <3>1, <3>2
  <2>2. QED BY <2>1
<1>8. Halved(H) BY <1>7
<1> HIDE DEF H
<1>9. \A n \in 0..N : H[n] = IF n = 0 THEN base ELSE Halve(seq, x, H[n - 1])
  BY <1>8
<1>10. ASSUME NEW n \in 0..N PROVE H[n] \in SearchRange
  <2> DEFINE T == {i \in Nat : i <= N => H[i] \in SearchRange}
  <2>1. 0 \in T BY <1>1, <1>9
  <2>2. ASSUME NEW i \in Nat, i \in T PROVE i + 1 \in T
    <3>1. CASE i + 1 <= N
      <4>1. i + 1 \in 0..N /\ i + 1 # 0 /\ (i + 1) - 1 = i /\ i <= N
        BY <1>1, <3>1
      <4>2. H[i + 1] = Halve(seq, x, H[i]) BY <1>9, <4>1
      <4>3. H[i] \in SearchRange BY <2>2, <4>1
      <4>4. QED BY <4>2, <4>3, HalveType
    <3>2. QED BY <3>1
  <2> HIDE DEF T
  <2>3. Nat \subseteq T BY <2>1, <2>2, Induction
  <2>4. n \in Nat /\ n <= N BY <1>1
  <2>5. QED BY <2>3, <2>4 DEF T
<1>11. H \in [0..N -> SearchRange] BY <1>8, <1>10
<1>12. \A n \in 1..N : H[n] = Halve(seq, x, H[n - 1]) BY <1>1, <1>9
<1>13. H[0] = base BY <1>1, <1>9
<1>14. QED BY <1>4, <1>11, <1>12, <1>13 DEF Searched, N

\* Whatever the order of the elements: what the search says it has found is
\* there.
LEMMA SearchIsSound ==
  ASSUME NEW seq \in Seq(Nat), NEW x \in Nat, BinarySearch(seq, x)
  PROVE  \E i \in 1..Len(seq) : seq[i] = x
<1> DEFINE N == Len(seq)
<1>1. N \in Nat /\ \A i \in 1..N : seq[i] \in Nat BY LenProperties
<1>2. PICK h : Searched(seq, x, h) /\ LowerBound(seq, x) = h[N].first
  BY SearchSteps
<1> DEFINE End(n)  == h[n].first + h[n].len
           Good(n) == /\ h[n].first >= 1 /\ End(n) <= N + 1
                      /\ End(n) <= N => seq[End(n)] >= x
                      /\ h[n].len = 0 \/ h[n].len + n <= N
           T == {n \in Nat : n <= N => Good(n)}
<1>3. \A n \in 0..N : h[n].first \in Nat /\ h[n].len \in Nat
  BY <1>2 DEF Searched, SearchRange
<1> HIDE DEF N
<1>4. Good(0)
  <2>1. h[0].first = 1 /\ h[0].len = N BY <1>2 DEF Searched, N
  <2>2. QED BY <1>1, <2>1
<1>5. ASSUME NEW n \in 0..N, n < N, Good(n) PROVE Good(n + 1)
  <2> DEFINE half == h[n].len \div 2
             mid  == h[n].first + half
  <2>1. n + 1 \in 1..N /\ (n + 1) - 1 = n /\ n \in Nat BY <1>1, <1>5
  <2>2. h[n + 1] = Halve(seq, x, h[n]) BY <1>2, <2>1 DEF Searched, N
  <2>3. /\ h[n].first \in Nat /\ h[n].len \in Nat
        /\ h[n + 1].first \in Nat /\ h[n + 1].len \in Nat
    <3>1. n \in 0..N /\ n + 1 \in 0..N BY <1>1, <2>1
    <3>2. QED BY <1>3, <3>1
  <2>4. half \in Nat /\ (h[n].len # 0 => half < h[n].len) BY <2>3
  <2> HIDE DEF half
  <2>5. CASE h[n].len = 0
    <3>1. h[n + 1] = h[n] BY <2>2, <2>5 DEF Halve
    <3>2. QED BY <1>5, <2>5, <3>1
  <2>6. CASE h[n].len # 0 /\ seq[mid] < x
    <3>1. h[n + 1] = [first |-> mid + 1, len |-> h[n].len - half - 1]
      BY <2>2, <2>6 DEF Halve, half
    <3>2. /\ h[n + 1].first = mid + 1
          /\ h[n + 1].len = h[n].len - half - 1
      BY <3>1
    <3> DEFINE f == h[n].first  l == h[n].len
    <3>3. f + half + 1 + (l - half - 1) = f + l
      <4>1. f \in Int /\ l \in Int /\ half \in Int BY <2>3, <2>4
      <4> HIDE DEF f, l
      <4>2. QED BY <4>1
    <3>9. End(n + 1) = End(n) BY <3>2, <3>3
    <3>4. h[n + 1].first >= 1 BY <2>3, <2>4, <3>2
    <3>5. h[n + 1].len = 0 \/ h[n + 1].len + (n + 1) <= N
      <4>1. l + n <= N BY <1>5, <2>6
      <4>2. h[n + 1].len = l - half - 1 BY <3>2
      <4> HIDE DEF l
      <4>3. l \in Nat /\ l - half - 1 + (n + 1) <= N
        BY <1>1, <2>1, <2>3, <2>4, <4>1 DEF l
      <4>4. QED BY <4>2, <4>3
    <3>6. QED BY <1>5, <3>9, <3>4, <3>5
  <2>7. CASE h[n].len # 0 /\ ~(seq[mid] < x)
    <3>1. h[n + 1] = [first |-> h[n].first, len |-> half]
      BY <2>2, <2>7 DEF Halve, half
    <3>2. h[n + 1].first = h[n].first /\ h[n + 1].len = half
      BY <3>1
    <3>3. End(n + 1) = mid BY <3>2
    <3>4. mid \in 1..N
      <4> DEFINE f == h[n].first  l == h[n].len
      <4>1. f \in Nat /\ l \in Nat /\ half \in Nat /\ half < l
        BY <2>3, <2>4, <2>7
      <4>2. f >= 1 /\ f + l <= N + 1 BY <1>5
      <4> HIDE DEF f, l
      <4>3. f + half \in 1..N BY <1>1, <4>1, <4>2
      <4>4. QED BY <4>3 DEF f
    <3>5. seq[mid] >= x BY <1>1, <2>7, <3>4
    <3>6. h[n + 1].len = 0 \/ h[n + 1].len + (n + 1) <= N
      BY <1>1, <1>5, <2>1, <2>3, <2>4, <2>7, <3>2
    <3>7. QED BY <1>1, <1>5, <3>2, <3>3, <3>4, <3>5, <3>6
  <2>8. QED BY <2>5, <2>6, <2>7
<1>6. Good(N)
  <2> HIDE DEF Good
  <2>1. 0 \in T BY <1>4
  <2>2. ASSUME NEW n \in Nat, n \in T PROVE n + 1 \in T
    <3>1. n + 1 <= N => n \in 0..N /\ n < N /\ n <= N BY <1>1
    <3>2. QED BY <1>5, <2>2, <3>1
  <2> HIDE DEF T
  <2>3. Nat \subseteq T BY <2>1, <2>2, Induction
  <2>4. QED BY <1>1, <2>3 DEF T
<1>7. h[N].len = 0 /\ h[N].first \in Nat BY <1>1, <1>3, <1>6
<1>8. h[N].first <= N /\ seq[h[N].first] <= x
  BY <1>2 DEF BinarySearch, N
<1>9. h[N].first \in 1..N /\ seq[h[N].first] >= x
  BY <1>1, <1>6, <1>7, <1>8
<1>10. QED BY <1>1, <1>8, <1>9 DEF N

Packages == {Package[p] : p \in Catalog}

\* What searchPathsForPlugins does with a package.
Listed(acc, x) == IF BinarySearch(acc, x) THEN acc ELSE Append(acc, x)

\* A package that is listed stays so, and the next one is among them after it.
LEMMA ListedOnce ==
  ASSUME NEW acc \in Seq(Packages), NEW x \in Packages
  PROVE  /\ Listed(acc, x) \in Seq(Packages)
         /\ x \in ToSet(Listed(acc, x))
         /\ ToSet(acc) \subseteq ToSet(Listed(acc, x))
<1>1. Packages \subseteq Nat BY CreationAssumption DEF Packages
<1>2. acc \in Seq(Nat) /\ Len(acc) \in Nat /\ DOMAIN acc = 1..Len(acc)
  <2>1. Len(acc) \in Nat /\ acc \in [1..Len(acc) -> Packages] BY LenProperties
  <2>2. acc \in [1..Len(acc) -> Nat] BY <1>1, <2>1
  <2>3. acc \in Seq(Nat) BY <2>1, <2>2, SeqDef
  <2>4. QED BY <2>1, <2>3
<1>3. CASE BinarySearch(acc, x)
  <2>1. PICK i \in 1..Len(acc) : acc[i] = x BY <1>1, <1>2, <1>3, SearchIsSound
  <2>2. Listed(acc, x) = acc BY <1>3 DEF Listed
  <2>3. QED BY <1>2, <2>1, <2>2 DEF ToSet
<1>4. CASE ~BinarySearch(acc, x)
  <2> DEFINE l == Listed(acc, x)
  <2>1. l = Append(acc, x) BY <1>4 DEF Listed
  <2> HIDE DEF l
  <2>2. /\ l \in Seq(Packages) /\ Len(l) = Len(acc) + 1
        /\ \A i \in 1..Len(acc) : l[i] = acc[i]
        /\ l[Len(acc) + 1] = x
    BY <2>1, AppendProperties
  <2>3. DOMAIN l = 1..Len(acc) + 1 BY <2>2, LenProperties
  <2>4. ASSUME NEW y \in ToSet(acc) PROVE y \in ToSet(l)
    <3>1. PICK i \in 1..Len(acc) : acc[i] = y BY <1>2 DEF ToSet
    <3>2. i \in DOMAIN l /\ l[i] = y BY <1>2, <2>2, <2>3, <3>1
    <3>3. QED BY <3>2 DEF ToSet
  <2>5. Len(acc) + 1 \in DOMAIN l BY <1>2, <2>3
  <2>6. x \in ToSet(l) BY <2>2, <2>5 DEF ToSet
  <2>7. QED BY <2>2, <2>4, <2>6 DEF l
<1>5. QED BY <1>3, <1>4

\* searchPathsForPlugins lists the package of every plugin.
LEMMA PackagesAreListed ==
  ASSUME NEW list \in Seq(Catalog)
  PROVE  /\ SearchPathsForPlugins(list) \in Seq(Packages)
         /\ \A i \in 1..Len(list) :
              Package[list[i]] \in ToSet(SearchPathsForPlugins(list))
<1> DEFINE N    == Len(list)
           A    == Seq(Packages)
           step == [n \in 1..N |-> [acc \in A |-> Listed(acc, Package[list[n]])]]
           Paths(h) == h = [n \in 0..N |-> IF n = 0 THEN <<>>
                            ELSE IF BinarySearch(h[n - 1], Package[list[n]])
                            THEN h[n - 1]
                            ELSE Append(h[n - 1], Package[list[n]])]
           H == CHOOSE h : Paths(h)
<1>1. N \in Nat /\ <<>> \in A /\ \A n \in 1..N : Package[list[n]] \in Packages
  BY LenProperties DEF Packages
<1>2. step \in [1..N -> [A -> A]] BY <1>1, ListedOnce
<1>3. \A n \in 1..N, acc \in A : step[n][acc] = Listed(acc, Package[list[n]])
  OBVIOUS
<1>4. SearchPathsForPlugins(list) = H[N] BY DEF SearchPathsForPlugins
<1>5. \A n \in 0..N : n # 0 => n \in 1..N /\ n - 1 \in 0..N BY <1>1
<1> HIDE DEF N, A, step
<1>6. PICK h \in [0..N -> A] : IteratesTo(h, N, <<>>, step)
  BY <1>1, <1>2, BoundedRecursion
<1>7. Paths(h)
  <2>1. ASSUME NEW n \in 0..N
        PROVE  h[n] = IF n = 0 THEN <<>>
                      ELSE IF BinarySearch(h[n - 1], Package[list[n]])
                      THEN h[n - 1]
                      ELSE Append(h[n - 1], Package[list[n]])
    <3>1. h[n] = IF n = 0 THEN <<>> ELSE step[n][h[n - 1]]
      BY <1>6 DEF IteratesTo
    <3>2. n # 0 => h[n - 1] \in A BY <1>5
    <3>3. n # 0 => h[n] = Listed(h[n - 1], Package[list[n]])
      BY <1>3, <1>5, <3>1, <3>2
    <3>4. QED BY <3>1, <3>3 DEF Listed
  <2>2. QED BY <2>1
<1>8. Paths(H) BY <1>7
<1> HIDE DEF H
<1>9. H[0] = <<>> BY <1>1, <1>8
<1>10. ASSUME NEW n \in 0..N, n # 0
       PROVE  H[n] = Listed(H[n - 1], Package[list[n]])
  BY <1>8, <1>10 DEF Listed
<1> DEFINE Good(n) == /\ H[n] \in A
                      /\ \A i \in 1..n : Package[list[i]] \in ToSet(H[n])
           T == {n \in Nat : n <= N => Good(n)}
<1>11. 0 \in T BY <1>1, <1>9
<1>12. ASSUME NEW n \in Nat, n \in T PROVE n + 1 \in T
  <2> SUFFICES ASSUME n + 1 <= N PROVE Good(n + 1) OBVIOUS
  <2>1. /\ n + 1 \in 0..N /\ n + 1 # 0 /\ (n + 1) - 1 = n /\ n <= N
        /\ n + 1 \in 1..N
    BY <1>1
  <2>2. Good(n) BY <1>12, <2>1
  <2> DEFINE x == Package[list[n + 1]]
  <2>3. H[n + 1] = Listed(H[n], x) /\ x \in Packages BY <1>1, <1>10, <2>1
  <2> HIDE DEF x
  <2>4. /\ H[n + 1] \in A /\ x \in ToSet(H[n + 1])
        /\ ToSet(H[n]) \subseteq ToSet(H[n + 1])
    BY <2>2, <2>3, ListedOnce DEF A
  <2>5. ASSUME NEW i \in 1..n + 1 PROVE Package[list[i]] \in ToSet(H[n + 1])
    <3>1. CASE i = n + 1 BY <2>4, <3>1 DEF x
    <3>2. CASE i \in 1..n BY <2>2, <2>4, <3>2
    <3>3. QED BY <3>1, <3>2
  <2>6. QED BY <2>4, <2>5
<1> HIDE DEF T
<1>13. Nat \subseteq T BY <1>11, <1>12, Induction
<1>14. Good(N) BY <1>1, <1>13 DEF T
<1>15. QED BY <1>4, <1>14 DEF N, A

-----------------------------------------------------------------------------
(* The format: the scan, and the requests for instances.                   *)

Answers == (Addresses \cup {NoPlugin}) \X {"", "not found"}

LEMMA AnswerType ==
  ASSUME NEW p \in Addresses \cup {NoPlugin}, NEW e \in {"", "not found"}
  PROVE  <<p, e>> \in Answers
BY DEF Answers

Stages == {"none", "connecting", "creating", "failed", "answered"}

RequestType == [plugin : Catalog \cup {NoPlugin}, at : Stages]

CreationTypeOK ==
  /\ installed \in Seq(Catalog) /\ scanned \in BOOLEAN
  /\ paths \in Seq(Packages) /\ found \subseteq Catalog
  /\ connected \subseteq Packages
  /\ request \in [Requests -> RequestType]
  /\ callbacks \in [Requests -> Seq(Answers)]
  /\ hostAlive \in BOOLEAN

\* A request that waits for its service has found its plugin.
ConnectsFound ==
  \A r \in Requests : request[r].at = "connecting" => request[r].plugin # NoPlugin

\* A callback was called once at most, and then the request is done with.
AnsweredOnce ==
  \A r \in Requests :
    /\ Len(callbacks[r]) <= 1
    /\ callbacks[r] # <<>> => request[r].at = "answered"

\* The scanner has found each installed plugin, or has its package to ask for.
NothingMissed ==
  scanned => \A i \in 1..Len(installed) :
    Package[installed[i]] \in ToSet(paths) \/ installed[i] \in found

FormatInv == /\ CreationTypeOK /\ ConnectsFound /\ AnsweredOnce
             /\ NothingMissed

\* The steps of the format.
FormatChange ==
  \/ StartScan \/ FindAllTypesForFile
  \/ \E r \in Requests :
       \/ CreatePluginInstance(r) \/ Connected(r) \/ ConnectionFailed(r)
       \/ CreationFailed(r) \/ FailureFollowed(r)
       \/ \E a \in Addresses : InstanceCreated(r, a)
  \/ \E p \in Catalog : Uninstall(p)

\* No other step changes what the format keeps.
LEMMA StepOfFormat == [Next]_vars => FormatChange \/ UNCHANGED creationVars
<1> SUFFICES ASSUME [Next]_vars PROVE FormatChange \/ UNCHANGED creationVars
  OBVIOUS
<1>1. CASE Create
  BY <1>1 DEF Create, FormatChange
<1>2. ASSUME NEW r \in Requests, CreateInstance(r) PROVE FormatChange
  <2> DEFINE a == CHOOSE b \in Addresses : wrapper[b] = None
  <2>1. a \in Addresses /\ InstanceCreated(r, a) BY <1>2 DEF CreateInstance
  <2>2. QED BY <2>1 DEF FormatChange
<1>3. ASSUME NEW r \in Requests, HostActivate(r) \/ NativeReleased(r)
      PROVE  UNCHANGED creationVars
  BY <1>3 DEF HostActivate, NativeReleased
<1>4. CASE Begun
  BY <1>4 DEF Begun, HostPrepare, HostCall, HostDeactivate, HostDestroy,
              FormatChange
<1>5. QED BY <1>1, <1>2, <1>3, <1>4 DEF Next, HostStep, vars

\* A request goes a step further, for the same plugin.
LEMMA RequestMoved ==
  ASSUME NEW q \in RequestType, NEW at \in Stages
  PROVE  /\ [q EXCEPT !.at = at] \in RequestType
         /\ [q EXCEPT !.at = at].plugin = q.plugin
         /\ [q EXCEPT !.at = at].at = at
BY DEF RequestType

\* A list without one of its elements has no others.
LEMMA RemovedFrom ==
  ASSUME NEW S, NEW s \in Seq(S), NEW i \in 1..Len(s)
  PROVE  /\ RemoveAt(s, i) \in Seq(S)
         /\ \A j \in 1..Len(RemoveAt(s, i)) :
              \E k \in 1..Len(s) : RemoveAt(s, i)[j] = s[k]
<1> DEFINE front == SubSeq(s, 1, i - 1)
           back  == SubSeq(s, i + 1, Len(s))
<1>1. Len(s) \in Nat /\ \A j \in 1..Len(s) : s[j] \in S BY LenProperties
<1>2. /\ front \in Seq(S) /\ Len(front) = i - 1
      /\ \A j \in 1..i - 1 : front[j] = s[j]
  BY <1>1, SubSeqProperties
<1>3. /\ back \in Seq(S) /\ Len(back) = Len(s) - i
      /\ \A j \in 1..Len(s) - i : back[j] = s[i + j]
  BY <1>1, SubSeqProperties
<1>4. RemoveAt(s, i) = front \o back BY DEF RemoveAt
<1> HIDE DEF front, back
<1> DEFINE t == front \o back
<1>5. /\ t \in Seq(S) /\ Len(t) = (i - 1) + (Len(s) - i)
      /\ \A j \in 1..(i - 1) + (Len(s) - i) :
           t[j] = IF j <= i - 1 THEN front[j] ELSE back[j - (i - 1)]
  <2>1. /\ t \in Seq(S) /\ Len(t) = Len(front) + Len(back)
        /\ \A j \in 1..Len(front) + Len(back) :
             t[j] = IF j <= Len(front) THEN front[j] ELSE back[j - Len(front)]
    BY <1>2, <1>3, ConcatProperties
  <2>2. QED BY <1>2, <1>3, <2>1
<1> HIDE DEF t
<1>6. ASSUME NEW j \in 1..Len(t) PROVE \E k \in 1..Len(s) : t[j] = s[k]
  <2>1. CASE j <= i - 1
    BY <1>1, <1>2, <1>5, <2>1
  <2>2. CASE ~(j <= i - 1)
    <3>1. j - (i - 1) \in 1..Len(s) - i /\ i + (j - (i - 1)) \in 1..Len(s)
      BY <1>1, <1>5, <2>2
    <3>2. QED BY <1>3, <1>5, <2>2, <3>1
  <2>3. QED BY <2>1, <2>2
<1>7. QED BY <1>4, <1>5, <1>6 DEF t

\* Nothing was scanned or asked for.
LEMMA FormatInvInit == Init => FormatInv
<1> SUFFICES ASSUME Init PROVE FormatInv OBVIOUS
<1> USE CreationAssumption DEF Init, CreationInit
<1>1. <<>> \in Seq(Packages) /\ <<>> \in Seq(Answers) /\ Len(<<>>) = 0
  OBVIOUS
<1>2. [plugin |-> NoPlugin, at |-> "none"] \in RequestType
  BY DEF RequestType, Stages
<1>3. /\ installed \in Seq(Catalog) /\ paths \in Seq(Packages)
      /\ found \subseteq Catalog /\ connected \subseteq Packages
      /\ callbacks \in [Requests -> Seq(Answers)]
  BY <1>1
<1>4. request \in [Requests -> RequestType]
  BY <1>2
<1>5. scanned \in BOOLEAN /\ hostAlive \in BOOLEAN
  BY Zenon
<1>6. CreationTypeOK
  BY <1>3, <1>4, <1>5 DEF CreationTypeOK
<1>7. ConnectsFound /\ AnsweredOnce
  BY <1>1 DEF ConnectsFound, AnsweredOnce
<1>8. NothingMissed
  BY Zenon DEF NothingMissed
<1>9. QED BY <1>6, <1>7, <1>8 DEF FormatInv

\* A request that is not answered goes on, and its callback is not called.
LEMMA RequestGoesOn ==
  ASSUME FormatInv, NEW r \in Requests, NEW at \in Stages \ {"connecting"},
         request[r].at # "answered",
         request' = [request EXCEPT ![r].at = at], UNCHANGED callbacks
  PROVE  /\ request' \in [Requests -> RequestType]
         /\ ConnectsFound' /\ AnsweredOnce'
<1> DEFINE q == [request[r] EXCEPT !.at = at]
<1>1. request \in [Requests -> RequestType] /\ request[r] \in RequestType
  BY DEF FormatInv, CreationTypeOK
<1>2. request' = [request EXCEPT ![r] = q] BY <1>1
<1>3. q \in RequestType /\ q.at = at BY <1>1, RequestMoved
<1> HIDE DEF q
<1>4. /\ request' \in [Requests -> RequestType] /\ request'[r] = q
      /\ \A s \in Requests : s # r => request'[s] = request[s]
  BY <1>1, <1>2, <1>3
<1>5. ConnectsFound' BY <1>3, <1>4 DEF FormatInv, ConnectsFound
<1>6. AnsweredOnce' BY <1>4 DEF FormatInv, AnsweredOnce
<1>7. QED BY <1>4, <1>5, <1>6

\* A request is answered for the first time.
LEMMA RequestAnswered ==
  ASSUME FormatInv, NEW r \in Requests, NEW what \in Answers,
         request[r].at # "answered",
         request' = [request EXCEPT ![r].at = "answered"], Answer(r, what)
  PROVE  /\ request' \in [Requests -> RequestType]
         /\ callbacks' \in [Requests -> Seq(Answers)]
         /\ ConnectsFound' /\ AnsweredOnce'
<1> DEFINE q == [request[r] EXCEPT !.at = "answered"]
           c == Append(callbacks[r], what)
<1>1. /\ request \in [Requests -> RequestType] /\ request[r] \in RequestType
      /\ callbacks \in [Requests -> Seq(Answers)]
      /\ callbacks[r] = <<>>
  BY DEF FormatInv, CreationTypeOK, AnsweredOnce
<1>2. request' = [request EXCEPT ![r] = q] BY <1>1
<1>3. q \in RequestType /\ q.at = "answered"
  BY <1>1, RequestMoved DEF Stages
<1>4. callbacks' = [callbacks EXCEPT ![r] = c] BY <1>1 DEF Answer
<1>5. c \in Seq(Answers) /\ Len(c) = 1
  BY <1>1, AppendProperties, EmptySeq
<1> HIDE DEF q, c
<1>6. /\ request' \in [Requests -> RequestType] /\ request'[r] = q
      /\ \A s \in Requests : s # r => request'[s] = request[s]
  BY <1>1, <1>2, <1>3
<1>7. /\ callbacks' \in [Requests -> Seq(Answers)] /\ callbacks'[r] = c
      /\ \A s \in Requests : s # r => callbacks'[s] = callbacks[s]
  BY <1>1, <1>4, <1>5
<1>8. ConnectsFound' BY <1>3, <1>6 DEF FormatInv, ConnectsFound
<1>9. ASSUME NEW s \in Requests
      PROVE  /\ Len(callbacks'[s]) <= 1
             /\ callbacks'[s] # <<>> => request'[s].at = "answered"
  <2>1. CASE s = r
    <3>1. callbacks'[s] = c /\ request'[s] = q BY <1>6, <1>7, <2>1
    <3>2. Len(c) <= 1 BY <1>5
    <3>3. QED BY <1>3, <3>1, <3>2
  <2>2. CASE s # r BY <1>6, <1>7, <2>2 DEF FormatInv, AnsweredOnce
  <2>3. QED BY <2>1, <2>2
<1>10. AnsweredOnce' BY <1>9 DEF AnsweredOnce
<1>11. QED BY <1>6, <1>7, <1>8, <1>10

\* The next package was asked for: its plugins are found.
LEMMA NextPackage ==
  ASSUME FormatInv, FindAllTypesForFile
  PROVE  /\ paths' \in Seq(Packages) /\ found' \subseteq Catalog
         /\ NothingMissed'
<1>1. /\ paths \in Seq(Packages) /\ paths # <<>> /\ paths' = Tail(paths)
      /\ installed \in Seq(Catalog) /\ found \subseteq Catalog
      /\ UNCHANGED <<installed, scanned>>
      /\ found' = found \cup
           {p \in ToSet(installed) : Package[p] = Head(paths)}
  BY DEF FormatInv, CreationTypeOK, FindAllTypesForFile, Description
<1>2. ToSet(installed) \subseteq Catalog
      /\ \A i \in 1..Len(installed) : installed[i] \in ToSet(installed)
  BY <1>1, LenProperties DEF ToSet
<1>3. /\ paths' \in Seq(Packages) /\ Len(paths) \in Nat \ {0}
      /\ Head(paths) = paths[1] /\ Len(paths') = Len(paths) - 1
      /\ \A j \in 1..Len(paths') : paths'[j] = paths[j + 1]
  BY <1>1, HeadTailProperties, EmptySeq, LenProperties
<1>4. ASSUME NEW x \in ToSet(paths), x # Head(paths) PROVE x \in ToSet(paths')
  <2>1. DOMAIN paths = 1..Len(paths) /\ DOMAIN paths' = 1..Len(paths')
    BY <1>1, <1>3, LenProperties
  <2>2. PICK j \in 1..Len(paths) : x = paths[j] BY <2>1 DEF ToSet
  <2>3. j - 1 \in 1..Len(paths') /\ (j - 1) + 1 = j
    BY <1>3, <1>4, <2>2
  <2>4. paths'[j - 1] = x BY <1>3, <2>2, <2>3
  <2>5. QED BY <2>1, <2>3, <2>4 DEF ToSet
<1>5. ASSUME scanned, NEW i \in 1..Len(installed)
      PROVE  \/ Package[installed[i]] \in ToSet(paths')
             \/ installed[i] \in found'
  <2>1. \/ Package[installed[i]] \in ToSet(paths)
        \/ installed[i] \in found
    BY <1>5 DEF FormatInv, NothingMissed
  <2>2. CASE Package[installed[i]] = Head(paths) BY <1>1, <1>2, <2>2
  <2>3. QED BY <1>1, <1>4, <2>1, <2>2
<1>6. QED BY <1>1, <1>2, <1>3, <1>5 DEF NothingMissed

\* A request is made: it is refused, or for the plugin that was asked for.
LEMMA RequestMade ==
  ASSUME FormatInv, NEW r \in Requests, CreatePluginInstance(r)
  PROVE  /\ request' \in [Requests -> RequestType]
         /\ callbacks' \in [Requests -> Seq(Answers)]
         /\ ConnectsFound' /\ AnsweredOnce'
<1> DEFINE p == PluginInformation(Description(Wanted[r]))
<1>1. p \in Catalog \cup {NoPlugin} /\ request[r].at = "none"
  BY CreationAssumption
  DEF CreatePluginInstance, PluginInformation, Description
<1>2. CASE p = NoPlugin
  <2>1. /\ Answer(r, <<NoPlugin, "not found">>)
        /\ request' = [request EXCEPT ![r].at = "answered"]
    BY <1>2 DEF CreatePluginInstance
  <2>2. <<NoPlugin, "not found">> \in Answers
    <3>1. "not found" \in {"", "not found"} OBVIOUS
    <3>2. QED BY <3>1, AnswerType
  <2>3. QED BY <1>1, <2>1, <2>2, RequestAnswered
<1>3. CASE p # NoPlugin
  <2> DEFINE at == IF Package[p] \in connected THEN "creating" ELSE "connecting"
             q  == [plugin |-> p, at |-> at]
  <2>1. request' = [request EXCEPT ![r] = q] /\ UNCHANGED callbacks
    BY <1>3 DEF CreatePluginInstance
  <2>2. q \in RequestType /\ q.plugin # NoPlugin /\ q.at # "answered"
    BY <1>1, <1>3 DEF RequestType, Stages
  <2> HIDE DEF q
  <2>3. /\ request \in [Requests -> RequestType]
        /\ callbacks \in [Requests -> Seq(Answers)]
        /\ callbacks[r] = <<>>
    BY <1>1 DEF FormatInv, CreationTypeOK, AnsweredOnce
  <2>4. /\ request' \in [Requests -> RequestType] /\ request'[r] = q
        /\ \A s \in Requests : s # r => request'[s] = request[s]
    BY <2>1, <2>2, <2>3
  <2>5. ConnectsFound' BY <2>2, <2>4 DEF FormatInv, ConnectsFound
  <2>6. ASSUME NEW s \in Requests
        PROVE  /\ Len(callbacks'[s]) <= 1
               /\ callbacks'[s] # <<>> => request'[s].at = "answered"
    BY <2>1, <2>3, <2>4 DEF FormatInv, AnsweredOnce
  <2>7. AnsweredOnce' BY <2>6 DEF AnsweredOnce
  <2>8. QED BY <2>1, <2>3, <2>4, <2>5, <2>7
<1>4. QED BY <1>2, <1>3

\* The scan and the requests keep their invariant.
LEMMA FormatInvStep == FormatInv /\ [Next]_vars => FormatInv'
<1> SUFFICES ASSUME FormatInv, FormatChange \/ UNCHANGED creationVars
             PROVE  FormatInv'
  BY StepOfFormat
<1>1. CASE UNCHANGED creationVars
  BY <1>1 DEF creationVars, scanVars, FormatInv, CreationTypeOK, ConnectsFound,
              AnsweredOnce, NothingMissed
<1>2. CASE StartScan
  <2>1. /\ installed \in Seq(Catalog) /\ paths' = SearchPathsForPlugins(installed)
        /\ scanned' = TRUE
        /\ UNCHANGED <<installed, found, connected, request, callbacks, hostAlive>>
    BY <1>2 DEF StartScan, FormatInv, CreationTypeOK
  <2>2. /\ paths' \in Seq(Packages)
        /\ \A i \in 1..Len(installed) : Package[installed[i]] \in ToSet(paths')
    BY <2>1, PackagesAreListed
  <2>3. NothingMissed' BY <2>1, <2>2 DEF NothingMissed
  <2>4. CreationTypeOK' BY <2>1, <2>2 DEF FormatInv, CreationTypeOK
  <2>5. QED BY <2>1, <2>3, <2>4 DEF FormatInv, ConnectsFound, AnsweredOnce
<1>3. CASE FindAllTypesForFile
  <2>1. UNCHANGED <<installed, scanned, connected, request, callbacks, hostAlive>>
    BY <1>3 DEF FindAllTypesForFile
  <2>2. /\ paths' \in Seq(Packages) /\ found' \subseteq Catalog
        /\ NothingMissed'
    BY <1>3, NextPackage
  <2>3. CreationTypeOK' BY <2>1, <2>2 DEF FormatInv, CreationTypeOK
  <2>4. QED BY <2>1, <2>2, <2>3 DEF FormatInv, ConnectsFound, AnsweredOnce
<1>4. ASSUME NEW p \in Catalog, Uninstall(p) PROVE FormatInv'
  <2>1. UNCHANGED <<scanVars, connected, request, callbacks, hostAlive>>
    BY <1>4 DEF Uninstall
  <2>2. PICK i \in 1..Len(installed) : installed' = RemoveAt(installed, i)
    BY <1>4 DEF Uninstall
  <2> DEFINE left == RemoveAt(installed, i)
  <2>3. installed \in Seq(Catalog) BY DEF FormatInv, CreationTypeOK
  <2>4. /\ left \in Seq(Catalog)
        /\ \A j \in 1..Len(left) :
             \E k \in 1..Len(installed) : left[j] = installed[k]
    BY <2>3, RemovedFrom
  <2> HIDE DEF left
  <2>5. /\ installed' \in Seq(Catalog)
        /\ \A j \in 1..Len(installed') :
             \E k \in 1..Len(installed) : installed'[j] = installed[k]
    <3>1. installed' = left BY <2>2 DEF left
    <3>2. QED BY <2>4, <3>1, Zenon
  <2>6. CreationTypeOK'
    BY <2>1, <2>5 DEF FormatInv, CreationTypeOK, scanVars
  <2>7. NothingMissed'
    BY <2>1, <2>5 DEF FormatInv, NothingMissed, scanVars
  <2>8. QED BY <2>1, <2>6, <2>7 DEF FormatInv, ConnectsFound, AnsweredOnce
<1>5. ASSUME NEW r \in Requests, CreatePluginInstance(r) PROVE FormatInv'
  <2>1. UNCHANGED <<installed, scanVars, connected, hostAlive>>
    BY <1>5 DEF CreatePluginInstance
  <2>2. /\ request' \in [Requests -> RequestType]
        /\ callbacks' \in [Requests -> Seq(Answers)]
        /\ ConnectsFound' /\ AnsweredOnce'
    BY <1>5, RequestMade
  <2>3. CreationTypeOK'
    BY <2>1, <2>2 DEF FormatInv, CreationTypeOK, scanVars
  <2>4. QED BY <2>1, <2>2, <2>3 DEF FormatInv, NothingMissed, scanVars
<1>6. ASSUME NEW r \in Requests, Connected(r) PROVE FormatInv'
  <2>1. /\ request[r].at = "connecting"
        /\ request' = [request EXCEPT ![r].at = "creating"]
        /\ connected' = connected \cup {Package[request[r].plugin]}
        /\ UNCHANGED <<installed, scanVars, callbacks, hostAlive>>
    BY <1>6 DEF Connected
  <2>2. /\ request' \in [Requests -> RequestType]
        /\ ConnectsFound' /\ AnsweredOnce'
    BY <2>1, RequestGoesOn DEF Stages
  <2>3. connected' \subseteq Packages
    <3>1. request[r] \in RequestType /\ request[r].plugin # NoPlugin
      BY <2>1 DEF FormatInv, CreationTypeOK, ConnectsFound
    <3>2. request[r].plugin \in Catalog BY <3>1 DEF RequestType
    <3>3. QED BY <2>1, <3>2 DEF FormatInv, CreationTypeOK, Packages
  <2>4. CreationTypeOK'
    BY <2>1, <2>2, <2>3 DEF FormatInv, CreationTypeOK, scanVars
  <2>5. QED BY <2>1, <2>2, <2>4 DEF FormatInv, NothingMissed, scanVars
<1>7. ASSUME NEW r \in Requests, ConnectionFailed(r) \/ CreationFailed(r)
      PROVE  FormatInv'
  <2>1. /\ request[r].at # "answered"
        /\ request' = [request EXCEPT ![r].at = "failed"]
        /\ UNCHANGED <<installed, scanVars, connected, callbacks, hostAlive>>
    BY <1>7 DEF ConnectionFailed, CreationFailed
  <2>2. /\ request' \in [Requests -> RequestType]
        /\ ConnectsFound' /\ AnsweredOnce'
    BY <2>1, RequestGoesOn DEF Stages
  <2>3. CreationTypeOK'
    BY <2>1, <2>2 DEF FormatInv, CreationTypeOK, scanVars
  <2>4. QED BY <2>1, <2>2, <2>3 DEF FormatInv, NothingMissed, scanVars
<1>8. ASSUME NEW r \in Requests, FailureFollowed(r) PROVE FormatInv'
  <2>1. /\ hostAlive' = FALSE
        /\ UNCHANGED <<installed, scanVars, connected, request, callbacks>>
    BY <1>8 DEF FailureFollowed
  <2>2. CreationTypeOK'
    BY <2>1 DEF FormatInv, CreationTypeOK, scanVars
  <2>3. QED
    BY <2>1, <2>2
    DEF FormatInv, ConnectsFound, AnsweredOnce, NothingMissed, scanVars
<1>9. ASSUME NEW r \in Requests, NEW a \in Addresses, InstanceCreated(r, a)
      PROVE  FormatInv'
  <2>1. /\ request[r].at # "answered"
        /\ request' = [request EXCEPT ![r].at = "answered"]
        /\ Answer(r, <<a, "">>)
        /\ UNCHANGED <<installed, scanVars, connected, hostAlive>>
    BY <1>9 DEF InstanceCreated
  <2>2. <<a, "">> \in Answers
    <3>1. "" \in {"", "not found"} OBVIOUS
    <3>2. QED BY <3>1, AnswerType
  <2>3. /\ request' \in [Requests -> RequestType]
        /\ callbacks' \in [Requests -> Seq(Answers)]
        /\ ConnectsFound' /\ AnsweredOnce'
    BY <2>1, <2>2, RequestAnswered
  <2>4. CreationTypeOK'
    BY <2>1, <2>3 DEF FormatInv, CreationTypeOK, scanVars
  <2>5. QED BY <2>1, <2>3, <2>4 DEF FormatInv, NothingMissed, scanVars
<1>10. QED
  BY <1>1, <1>2, <1>3, <1>4, <1>5, <1>6, <1>7, <1>8, <1>9 DEF FormatChange

-----------------------------------------------------------------------------
(* The theorems.                                                           *)

IInv == /\ CallInv /\ LoopInv /\ StateInv /\ ExtInv /\ HostInv
        /\ FormatInv

\* Every reachable state satisfies the inductive invariant.
THEOREM HostedInvariance == Spec => []IInv
<1>1. Init => IInv
  BY CallInvInit, LoopInvInit, StateInvInit, ExtInvInit, HostInvInit,
     FormatInvInit
  DEF IInv
<1>2. IInv /\ [Next]_vars => IInv'
  BY CallInvStep, LoopInvStep, StateInvStep, ExtInvStep, HostInvStep,
     FormatInvStep
  DEF IInv
<1>3. QED BY <1>1, <1>2, PTL DEF Spec

\* juceaap_callOnExistingMessageThreadIfNeeded: with any number of Binder
\* threads, state and preset calls run one at a time, on the message thread or
\* instead of it, also when the caller has the MessageManagerLock.
THEOREM CallsRunAlone == Spec => []CallsExclusive
<1>1. IInv => CallsExclusive BY LoopExclusive DEF IInv
<1>2. QED BY HostedInvariance, <1>1, PTL

\* getState's buffer is as large as what is copied into it, for states of any
\* sizes in any order.
THEOREM StatesFit == Spec => []StateFits
<1>1. IInv => StateFits BY DEF IInv, StateInv
<1>2. QED BY HostedInvariance, <1>1, PTL

\* What getState handed out stays as it is until the plugin's next getState.
THEOREM StateStaysReadable == Spec => []StateReadIntact
<1>1. IInv => StateReadIntact BY DEF IInv, StateInv
<1>2. QED BY HostedInvariance, <1>1, PTL

\* The error of the process stops each prepare that was given no buffer.
THEOREM NullBufferNotRead == Spec => []NoNullBufferRead
<1>1. IInv => NoNullBufferRead BY DEF IInv, StateInv
<1>2. QED BY HostedInvariance, <1>1, PTL

\* juceaap_get_extension's pointers are good while their plugin lives, although
\* release leaves an entry in one of the tables.
THEOREM ExtensionsStay == Spec => []ExtensionsLive
<1>1. IInv => ExtensionsLive BY ExtensionsApart DEF IInv
<1>2. QED BY HostedInvariance, <1>1, PTL

\* activate and deactivate keep each plugin's play head true to its host,
\* whatever ports the plugins have.
THEOREM PlayHeadFollowsHost == Spec => []PlayingAsPrepared
<1>1. IInv => PlayingAsPrepared BY DEF IInv, HostInv
<1>2. QED BY HostedInvariance, <1>1, PTL

\* A prepare that the host has waited for was done, or the process has an error.
THEOREM PrepareDoneOrError == Spec => []PreparedUnlessError
<1>1. IInv => PreparedUnlessError BY DEF IInv, HostInv
<1>2. QED BY HostedInvariance, <1>1, PTL

\* The types of what the host and the plugins' process keep; a callback is
\* called once at most.
THEOREM HostedTyping == Spec => []TypeOK
<1>1. IInv => TypeOK
  <2> SUFFICES ASSUME IInv PROVE TypeOK OBVIOUS
  <2>1. /\ installed \in Seq(Catalog) /\ scanned \in BOOLEAN
        /\ paths \in Seq({Package[p] : p \in Catalog}) /\ found \subseteq Catalog
        /\ connected \subseteq {Package[p] : p \in Catalog}
        /\ \A r \in Requests : Len(callbacks[r]) <= 1
        /\ hostAlive \in BOOLEAN
    BY DEF IInv, FormatInv, CreationTypeOK, AnsweredOnce, Packages
  <2>2. /\ lastError \in BOOLEAN
        /\ wrapper \in [Addresses -> Wrappers \cup {None}]
        /\ pc \in [Threads -> Labels]
        /\ queue \in Seq({"call", "lock"} \X Binder)
        /\ serving \in Binder \cup {None} /\ locked \in Binder \cup {None}
    BY DEF IInv, CallInv, WrapperTypeOK
  <2>3. \A u \in Uris : table[u] \in [Addresses -> Cells \cup {None}]
    BY DEF IInv, ExtInv
  <2>4. /\ native \in [Requests -> Addresses \cup {None}]
        /\ hosting \in [Requests -> {"none", "idle", "preparing", "prepared",
                                     "destroyed"}]
    BY DEF IInv, HostInv, HostTypeOK
  <2>5. QED BY <2>1, <2>2, <2>3, <2>4 DEF TypeOK, Labels
<1>2. QED BY HostedInvariance, <1>1, PTL

\* std::binary_search on a list that is not in order may miss a package that is
\* there, but never finds one that is not: a scan finds every installed plugin,
\* however the list is ordered and whatever is removed while it runs.
THEOREM ScanIsComplete == Spec => []ScanFindsInstalled
<1>1. IInv => ScanFindsInstalled
  <2> SUFFICES ASSUME IInv, scanned, paths = <<>>, NEW p \in ToSet(installed)
               PROVE  \E d \in found : PluginInformation(d) = p
    BY DEF ScanFindsInstalled
  <2>1. installed \in Seq(Catalog) BY DEF IInv, FormatInv, CreationTypeOK
  <2>2. PICK i \in 1..Len(installed) : p = installed[i]
    BY <2>1, LenProperties DEF ToSet
  <2>3. ToSet(paths) = {} BY DEF ToSet
  <2>4. p \in found
    BY <2>2, <2>3 DEF IInv, FormatInv, NothingMissed
  <2>5. PluginInformation(p) = p BY DEF PluginInformation
  <2>6. QED BY <2>4, <2>5
<1>2. QED BY HostedInvariance, <1>1, PTL
=============================================================================
