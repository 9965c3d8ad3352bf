--------------------------- MODULE HostedPlugins ---------------------------
(***************************************************************************)
(* A host and the process of its plugins, from the scan to the release.    *)
(* PluginCreation asks for instances, WrapperInstances are what AAP makes  *)
(* of them, and AndroidAudioPluginInstance calls them.                     *)
(***************************************************************************)
EXTENDS PluginCreation, WrapperInstances

CONSTANTS
  NumPorts,     \* ports of each plugin
  MaxOps        \* bound: operations that somebody decides to begin

ASSUME HostedAssumption == NumPorts \in [Catalog -> Nat] /\ MaxOps \in Nat

VARIABLES
  native,       \* `native` of each AndroidAudioPluginInstance
  hosting,      \* how far its life is
  ops           \* operations begun so far

hostVars == <<native, hosting>>
vars == <<creationVars, wrapperVars, hostVars, ops>>

Init ==
  /\ CreationInit /\ WrapperInit
  /\ native = [r \in Requests |-> None]
  /\ hosting = [r \in Requests |-> "none"]
  /\ ops = 0

-----------------------------------------------------------------------------
(* Creation.                                                               *)

\* Steps of the format that no plugin takes part in.
Create ==
  /\ \/ StartScan \/ FindAllTypesForFile
     \/ \E r \in Requests : \/ CreatePluginInstance(r)
                            \/ Connected(r) \/ ConnectionFailed(r)
                            \/ CreationFailed(r) \/ FailureFollowed(r)
  /\ UNCHANGED <<wrapperVars, hostVars>>

\* AAP has the plugin's factory make an instance, which the host then wraps.
\* Any free memory is as good as any other.
CreateInstance(r) ==
  LET a == CHOOSE b \in Addresses : wrapper[b] = None
  IN  /\ \E b \in Addresses : wrapper[b] = None
      /\ InstanceCreated(r, a) /\ Instantiate(a)
      /\ native' = [native EXCEPT ![r] = a]
      /\ hosting' = [hosting EXCEPT ![r] = "idle"]

-----------------------------------------------------------------------------
(* AndroidAudioPluginInstance.                                             *)

Hosted(r) == hostAlive /\ native[r] # None /\ hosting[r] # "destroyed"

\* prepareToPlay: native->prepare, which is a call of the plugin's prepare.
HostPrepare(r, t, buffer) ==
  /\ Hosted(r) /\ hosting[r] = "idle"
  /\ AllocateBuffer(t, native[r], buffer)
  /\ hosting' = [hosting EXCEPT ![r] = "preparing"]
  /\ UNCHANGED <<creationVars, native>>

HasPorts(r) == NumPorts[Wanted[r]] > 0

\* After prepare has returned: native->activate, once per port.
HostActivate(r) ==
  /\ Hosted(r) /\ hosting[r] = "preparing"
  /\ SetPlaying(native[r], wrapper[native[r]].playing \/ HasPorts(r))
  /\ hosting' = [hosting EXCEPT ![r] = "prepared"]
  /\ UNCHANGED <<creationVars, native>>

\* Variant: releaseResources leaves the plugin active.
HostDeactivateNot(r) ==
  /\ Hosted(r) /\ hosting[r] = "prepared"
  /\ hosting' = [hosting EXCEPT ![r] = "idle"]
  /\ UNCHANGED <<creationVars, wrapperVars, native>>

\* releaseResources.
HostDeactivate(r) ==
  /\ Hosted(r) /\ hosting[r] = "prepared"
  /\ SetPlaying(native[r], FALSE)
  /\ hosting' = [hosting EXCEPT ![r] = "idle"]
  /\ UNCHANGED <<creationVars, native>>

\* getStateInformation, setStateInformation and the programs.
HostCall(r, t, op) ==
  /\ Hosted(r) /\ hosting[r] # "preparing"
  /\ Call(t, native[r], op)
  /\ UNCHANGED <<creationVars, hostVars>>

\* The destructor deactivates; it does not dispose of the native instance.
HostDestroy(r) ==
  /\ Hosted(r) /\ hosting[r] # "preparing"
  /\ SetPlaying(native[r], FALSE)
  /\ hosting' = [hosting EXCEPT ![r] = "destroyed"]
  /\ UNCHANGED <<creationVars, native>>

\* Whatever allocated it does, also when the host has died.
NativeReleased(r) ==
  /\ native[r] # None /\ (hosting[r] = "destroyed" \/ ~hostAlive)
  /\ Release(native[r])
  /\ native' = [native EXCEPT ![r] = None]
  /\ hosting' = [hosting EXCEPT ![r] = "destroyed"]
  /\ UNCHANGED creationVars

-----------------------------------------------------------------------------
(* The processes together.                                                 *)

HostStep(r) ==
  CreateInstance(r) \/ HostActivate(r) \/ NativeReleased(r)

\* What happens MaxOps times at most.
Begun ==
  \/ \E r \in Requests, t \in Binder, b \in {"buffer", "null"} : HostPrepare(r, t, b)
  \/ \E r \in Requests, t \in Threads, op \in Ops : HostCall(r, t, op)
  \/ \E r \in Requests : HostDeactivate(r) \/ HostDestroy(r)
  \/ /\ \E t \in Threads : RequestLock(t)
     /\ UNCHANGED <<creationVars, hostVars>>
  \/ /\ \E a \in Addresses, u \in Uris : GetExtension(a, u)
     /\ UNCHANGED <<creationVars, hostVars>>
  \/ /\ \E p \in Catalog : Uninstall(p)
     /\ UNCHANGED <<wrapperVars, hostVars>>

Next ==
  \/ UNCHANGED ops /\ (Create \/ \E r \in Requests : HostStep(r))
  \/ UNCHANGED <<creationVars, hostVars, ops>> /\ WrapperStep
  \/ ops < MaxOps /\ ops' = ops + 1 /\ Begun

Spec == Init /\ [][Next]_vars

\* AAP, or the host's own thread, takes the request a step further.
Answered(r) ==
  /\ \/ /\ Connected(r) \/ ConnectionFailed(r) \/ CreationFailed(r) \/ FailureFollowed(r)
        /\ UNCHANGED <<wrapperVars, hostVars>>
     \/ CreateInstance(r)
  /\ UNCHANGED ops

\* Threads run and message loops turn; a lock is released when its scope ends;
\* AAP answers each request to connect or to create.
Fairness ==
  /\ WF_vars(Dispatch /\ UNCHANGED <<creationVars, hostVars, ops>>)
  /\ \A t \in Threads :
       /\ WF_vars((PrepareToPlay(t) \/ Enter(t) \/ Serialize(t) \/ Publish(t)
                     \/ RunOther(t)) /\ UNCHANGED <<creationVars, hostVars, ops>>)
       /\ SF_vars(ReleaseLock(t) /\ UNCHANGED <<creationVars, hostVars, ops>>)
  /\ \A r \in Requests : WF_vars(Answered(r))

FairSpec == Spec /\ Fairness

-----------------------------------------------------------------------------
(* Properties.                                                             *)

TypeOK ==
  /\ installed \in Seq(Catalog) /\ scanned \in BOOLEAN
  /\ paths \in Seq({Package[p] : p \in Catalog}) /\ found \subseteq Catalog
  /\ connected \subseteq {Package[p] : p \in Catalog}
  /\ \A r \in Requests : Len(callbacks[r]) <= 1
  /\ hostAlive \in BOOLEAN /\ lastError \in BOOLEAN
  /\ wrapper \in [Addresses -> Wrappers \cup {None}]
  /\ \A u \in Uris : table[u] \in [Addresses -> Cells \cup {None}]
  /\ pc \in [Threads -> {"idle", "prepare", "null buffer read", "entering",
                         "posted", "running", "copying", "locking"}]
  /\ queue \in Seq({"call", "lock"} \X Binder)
  /\ serving \in Binder \cup {None} /\ locked \in Binder \cup {None}
  /\ native \in [Requests -> Addresses \cup {None}]
  /\ hosting \in [Requests -> {"none", "idle", "preparing", "prepared", "destroyed"}]

\* Although searchPathsForPlugins searches a list that is not in order, a scan
\* finds every installed plugin, and what it finds leads createPluginInstance
\* back to that plugin (not to its package, which the scan is asked for by).
ScanFindsInstalled ==
  scanned /\ paths = <<>> =>
    \A p \in ToSet(installed) : \E d \in found : PluginInformation(d) = p

\* Every call of createPluginInstance is answered, with an instance or an
\* error, whichever thread the answer comes on; unless the host does not live
\* to give it, because some creation failed.
AnsweredAtLast ==
  \A r \in Requests : request[r].at # "none" ~>
    callbacks[r] # <<>> \/ (~hostAlive /\ \E q \in Requests : request[q].at = "failed")

\* The plugin's play head says "playing" just when its host has prepared it, and
\* it has a port: one without ports is never activated.
PlayingAsPrepared ==
  \A r \in Requests : hostAlive /\ native[r] # None =>
    (wrapper[native[r]].playing <=> hosting[r] = "prepared" /\ HasPorts(r))

\* A plugin that its host has prepared is prepared, unless some prepare in its
\* process was given no buffer: juce_aap_wrapper_last_error_code is never
\* cleared, and stops the other plugins' prepares as well.  Nothing else does.
PreparedUnlessError ==
  \A r \in Requests : Hosted(r) /\ hosting[r] = "prepared" =>
    wrapper[native[r]].prepared \/ lastError

\* prepare never asks a null buffer for its frames, although the error that
\* stops it is in a variable that all plugins' prepares write.
NoNullBufferRead == \A t \in Threads : pc[t] # "null buffer read"

\* The pointers that juceaap_get_extension returned stay good while their plugin
\* lives, whatever is released and whatever comes to a used address.
ExtensionsLive ==
  \A a \in Live : \A e \in given[a] :
    table[e[1]][a] = e[2] /\ \A u \in Uris, b \in Addresses :
                              table[u][b] = e[2] => u = e[1] /\ b = a

\* The memory that getState handed out holds that state until the plugin's next
\* getState, whatever other calls and other plugins do.
StateReadIntact ==
  \A a \in Addresses : answer[a] # None =>
    /\ a \in Live
    /\ wrapper[a].data = answer[a] /\ wrapper[a].size = Size[answer[a]]

\* getState never copies more than it has room for, as states grow and shrink.
StateFits == \A a \in Live : wrapper[a].size <= wrapper[a].capacity

\* State and preset calls run one at a time in the whole process, on the message
\* thread or instead of it.
CallsExclusive ==
  \A t, u \in Threads : {pc[t], pc[u]} \subseteq {"running", "copying"} => t = u

\* Each call returns: a call made on the message thread, or with its lock, does
\* not wait for the message thread.
CallReturns == \A t \in Threads : pc[t] # "idle" ~> pc[t] = "idle"
=============================================================================
