-------------------------- MODULE PluginCreation --------------------------
(***************************************************************************)
(* AndroidAudioPluginFormat in the host: scanning for plugins, and         *)
(* createPluginInstance, which connects to the plugin's service on another *)
(* thread when it is not connected yet.                                    *)
(*                                                                         *)
(* The list of installed plugins is Android's and may change at any time;  *)
(* AAP's client connects, and makes instances, or reports an error.        *)
(***************************************************************************)
EXTENDS Integers, Sequences, SequencesExt

CONSTANTS
  Catalog,        \* the plugins there may be
  Package,        \* the package of each: a number, for the order of names
  Requests,       \* calls of createPluginInstance
  Wanted,         \* the plugin whose description each is given
  Lists,          \* what queryServices() may list first
  NoPlugin        \* a null PluginInformation, a null PluginInstance

ASSUME CreationAssumption ==
  /\ Package \in [Catalog -> Nat]
  /\ Lists \subseteq Seq(Catalog)
  /\ Wanted \in [Requests -> Catalog]
  /\ NoPlugin \notin Catalog

VARIABLES
  installed,      \* PluginListSnapshot::queryServices()
  scanned,        \* the scanner has asked for the paths
  paths,          \* the packages it has still to ask for
  found,          \* the descriptions it has, by their fileOrIdentifier
  connected,      \* packages whose service is connected
  request,        \* each request: the plugin asked for and how far it is
  callbacks,      \* what its PluginCreationCallback was called with
  hostAlive       \* FALSE: the host followed a null pointer

scanVars == <<scanned, paths, found>>
creationVars == <<installed, scanVars, connected, request, callbacks, hostAlive>>

CreationInit ==
  /\ installed \in Lists
  /\ scanned = FALSE /\ paths = <<>> /\ found = {}
  /\ connected = {}
  /\ request = [r \in Requests |-> [plugin |-> NoPlugin, at |-> "none"]]
  /\ callbacks = [r \in Requests |-> <<>>]
  /\ hostAlive = TRUE

-----------------------------------------------------------------------------
(* Scanning.                                                               *)

\* Variant: a description is identified by its package.
DescriptionByPackage(p) == Package[p]

\* fillPluginDescriptionFromNativeCommon: fileOrIdentifier is the plugin ID.
Description(p) == p

\* The list's getPluginInformation(id).
PluginInformation(id) ==
  IF \E p \in ToSet(installed) : p = id THEN id ELSE NoPlugin

\* One step of std::binary_search, which halves the array as if it were in
\* order: of the `len' elements from `first' on.
Halve(seq, x, range) ==
  LET half == range.len \div 2
      mid  == range.first + half
  IN  IF range.len = 0 THEN range
      ELSE IF seq[mid] < x
      THEN [first |-> mid + 1, len |-> range.len - half - 1]
      ELSE [first |-> range.first, len |-> half]

\* Where the search ends: each step leaves fewer elements, if there were any.
LowerBound(seq, x) ==
  LET Halved[n \in 0..Len(seq)] ==
        IF n = 0 THEN [first |-> 1, len |-> Len(seq)]
        ELSE Halve(seq, x, Halved[n - 1])
  IN  Halved[Len(seq)].first

BinarySearch(seq, x) ==
  LET at == LowerBound(seq, x) IN at <= Len(seq) /\ seq[at] <= x

\* searchPathsForPlugins: the packages, in the order of the list.  They are not
\* sorted, so one may be listed twice.
SearchPathsForPlugins(list) ==
  LET Paths[n \in 0..Len(list)] ==
        IF n = 0 THEN <<>>
        ELSE IF BinarySearch(Paths[n - 1], Package[list[n]]) THEN Paths[n - 1]
             ELSE Append(Paths[n - 1], Package[list[n]])
  IN  Paths[Len(list)]

StartScan ==
  /\ hostAlive /\ ~scanned
  /\ scanned' = TRUE
  /\ paths' = SearchPathsForPlugins(installed)
  /\ UNCHANGED <<installed, found, connected, request, callbacks, hostAlive>>

\* findAllTypesForFile, for the next path; the list is asked for again.
FindAllTypesForFile ==
  /\ hostAlive /\ paths # <<>>
  /\ found' = found \cup {Description(p) :
                            p \in {q \in ToSet(installed) : Package[q] = Head(paths)}}
  /\ paths' = Tail(paths)
  /\ UNCHANGED <<installed, scanned, connected, request, callbacks, hostAlive>>

\* Android installs nothing here, but may remove a plugin.
Uninstall(p) ==
  /\ \E i \in 1..Len(installed) :
       installed[i] = p /\ installed' = RemoveAt(installed, i)
  /\ UNCHANGED <<scanVars, connected, request, callbacks, hostAlive>>

-----------------------------------------------------------------------------
(* createPluginInstance.                                                   *)

Answer(r, what) == callbacks' = [callbacks EXCEPT ![r] = Append(@, what)]

\* createPluginInstance: an unknown plugin is answered at once, one whose
\* service is connected is created at once, else a thread is launched.
CreatePluginInstance(r) ==
  LET p == PluginInformation(Description(Wanted[r]))
  IN  /\ hostAlive /\ request[r].at = "none" /\ Description(Wanted[r]) \in found
      /\ IF p = NoPlugin
         THEN /\ Answer(r, <<NoPlugin, "not found">>)
              /\ request' = [request EXCEPT ![r].at = "answered"]
         ELSE /\ UNCHANGED callbacks
              /\ request' = [request EXCEPT ![r] =
                   [plugin |-> p, at |-> IF Package[p] \in connected
                                         THEN "creating" ELSE "connecting"]]
      /\ UNCHANGED <<installed, scanVars, connected, hostAlive>>

\* ensurePluginServiceConnected succeeds and calls cb with no error.
Connected(r) ==
  /\ hostAlive /\ request[r].at = "connecting"
  /\ connected' = connected \cup {Package[request[r].plugin]}
  /\ request' = [request EXCEPT ![r].at = "creating"]
  /\ UNCHANGED <<installed, scanVars, callbacks, hostAlive>>

\* Variant: cb does nothing after an error.
ConnectionFailedSilently(r) ==
  /\ hostAlive /\ request[r].at = "connecting"
  /\ request' = [request EXCEPT ![r].at = "refused"]
  /\ UNCHANGED <<installed, scanVars, connected, callbacks, hostAlive>>

\* It fails: cb goes on with the instance -1.
ConnectionFailed(r) ==
  /\ hostAlive /\ request[r].at = "connecting"
  /\ request' = [request EXCEPT ![r].at = "failed"]
  /\ UNCHANGED <<installed, scanVars, connected, callbacks, hostAlive>>

\* createInstance made an instance; aapCallback wraps it and hands it over.
\* The constructor adds a parameter for each that the instance declares.
InstanceCreated(r, instance) ==
  /\ hostAlive /\ request[r].at = "creating"
  /\ Answer(r, <<instance, "">>)
  /\ request' = [request EXCEPT ![r].at = "answered"]
  /\ UNCHANGED <<installed, scanVars, connected, hostAlive>>

\* createInstance failed.
CreationFailed(r) ==
  /\ hostAlive /\ request[r].at = "creating"
  /\ request' = [request EXCEPT ![r].at = "failed"]
  /\ UNCHANGED <<installed, scanVars, connected, callbacks, hostAlive>>

\* aapCallback after an error: getInstanceById finds nothing, and
\* createJuceBuses asks the null instance for its ports.
FailureFollowed(r) ==
  /\ hostAlive /\ request[r].at = "failed"
  /\ hostAlive' = FALSE
  /\ UNCHANGED <<installed, scanVars, connected, request, callbacks>>
=============================================================================
