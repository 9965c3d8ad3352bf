# A TLA+ project for aap-juce

aap-juce lets a JUCE plugin run as an AAP (Android Audio Plugin) and lets a JUCE
application host AAPs. Two C++ modules carry its logic:

* `aap_audio_processors/juceaap_AAPWrappers.cpp`, in the plugin's process: `JuceAAPWrapper`
  wraps one `juce::AudioProcessor` behind the AAP C interface;
* `aap_audio_plugin_client/juceaap_audio_plugin_format.cpp`, in the host: `AndroidAudioPluginFormat`
  and `AndroidAudioPluginInstance` present an AAP as a `juce::AudioPluginInstance`.

`cmidi2.h` is a vendored MIDI 2.0 library; three small Java classes join the two worlds.
This directory holds the models of that logic, their model checking and their proofs.
`PROJECT.json` names every run, the source lines behind every definition, the hazards and
the findings. Line numbers below are those of the files named; `W` stands for
`juceaap_AAPWrappers.cpp` and `F` for `juceaap_audio_plugin_format.cpp`.

## Inventory

| Component | State | Operations | Shared with | What is hard | What makes it correct |
|---|---|---|---|---|---|
| Parameter change reporting (W 116-122, 262-286, 468-593, 1002-1028) | pending list and its mutex, `last_parameter_values`, output port | listener callbacks, setState, setPresetIndex, process | any plugin thread, message thread, audio thread | try_lock on the audio thread, comparison with a stale list, silent loads | every change reaches the host once, in order, at last; the host's picture converges |
| Host MIDI input port (F 82-195, 253-311, 329-365) | the shared memory and its length word | parameterValueChanged, pre- and postProcessBuffers | UI threads, audio thread, the plugin | no lock, units of length, stale words | an accepted change is read once; a block's events are read |
| Native editor and size query (F 443-563, W 288-359, 1257-1289, Java views) | editor, worker thread, message queues of two processes, cached size | open, close, query, connect, addAndroidView | host message thread, worker, Binder thread, plugin message thread | close during a query, late answers, blocking destructor, captured references | no use after close, one connection, close returns, the editor is shown |
| Wrapper lifecycle and extension tables (W 85, 361-460, 972-974, 1105-1255) | `plugin_specific`, two global maps, global error code, activation | instantiate, prepare, activate, process, deactivate, release, get_extension | Binder threads of all instances | globals shared by instances, reuse of addresses | an extension stays its plugin's, a prepare is stopped by an error only, a plugin plays as its host says |
| State and presets (W 45-83, 976-1028) | the wrapper's state buffer | getStateSize, getState, setState, getPreset... | Binder thread, message thread | blocking hop, the caller reads a buffer the next call frees | the state handed out stays until the next call; calls exclude each other and return |
| Audio port mapping (W 386-444, 867-892, 954-960; F 90-107, 155-169, 197-235) | three port maps, channel pointers | allocateBuffer, resetJuceChannels, copies | host's port list | port order is the host's choice | each channel reads and writes its own port |
| MIDI conversion (W 602-865, F 112-150, 171-188, `cmidi2.h`) | MIDI buffers, sysex reassembly | encode, decode, sysex packets, timestamps | both processes | packet boundaries, broken sysex, time units, two decoders of one format | each sysex whole and once, events in the block, in order, on time, and as the library converts them |
| Parameter registry (W 191-260, 537-565, 1030-1100) | parameter and enum arrays | registerParameter, getters | host queries | ids and indices, enum offsets, ranges | a getter finds what was registered, a change comes back as it was sent |
| Plugin format (F 40-80, 569-700) | cached descriptions, connections | scan, createPluginInstance | connection callbacks on other threads | asynchronous connection, an unsorted list searched as sorted, ownership, error path | a scan finds all, every request is answered once |

What is not modelled, and why, is under "Not modelled".

How they interact: the host's `AndroidAudioPluginInstance` writes parameter changes and MIDI to
the input port, the AAP runtime calls `JuceAAPWrapper::process`, the wrapper applies the changes
to the plugin (which calls the wrapper's listener back, on the audio thread), runs the block and
writes MIDI and pending reports to the output port. State, preset and view calls come on Binder
threads and hop to the plugin's message thread. The editor of the host asks for a size over
Binder from a worker thread and connects the remote view from its message thread.

## Modules

| Module | Role |
|---|---|
| `ParameterReports` | abstract: what the host has read is a prefix of what was reported |
| `ParameterChanges` | the wrapper's reporting, step by step; refines `ParameterReports` |
| `ParameterChangesProofs` | typing, the order of reports, exclusion, refinement, for all constants |
| `ParameterConvergenceProofs` | the host's picture and the wrapper's own follow the plugin, for every plugin that announces what it changes |
| `HostMidiPort` | the host's unsynchronised input port, word by word |
| `HostMidiPortProofs` | typing, and what an undisturbed port delivers, for all constants |
| `NativeUi` | the native editor in the host and the view calls in the plugin's process |
| `NativeUiProofs` | typing, the worker's lifetime and the single connection, for all constants |
| `AudioPorts` | audio from the host's buffer through the ports and the JUCE buffer and back |
| `AudioPortsProofs` | no aliasing, inputs heard, outputs returned, for every list of ports |
| `WrapperInstances` | the plugins' process: wrappers, extension tables, error code, state and preset calls on the message thread |
| `PluginCreation` | the host's scan and `createPluginInstance` |
| `HostedPlugins` | both together, with `AndroidAudioPluginInstance` between them, from scan to release |
| `HostedPluginsProofs` | calls alone, state memory, extensions, prepared and playing, the scan, for any number of plugins, threads and operations |
| `ParameterRegistry` | the list of parameters and enumerations, and what is found by an ID |
| `MidiInput` | `processMidiInputs` on the parameters of `ParameterRegistry`, beside what the host writes and what `cmidi2.h` converts |
| `MidiInputProofs` | numbering, enumerations, values, the events and the sysex of a block, and the agreement with `cmidi2.h`, for every tree and every block |
| `SetInduction` | induction and recursion over the natural numbers, in the form the provers can use |
| `MC*` | values of the constants for TLC, behaviour sets, a state constraint |

Operators whose comment starts with "Variant" are wrong forms of the operator below them. No
action uses them; each shows that a property can fail (see "Mutants" in `PROJECT.json`).

### ParameterChanges

A thread runs a chain of steps. `pc[t]` is where it is, `ret[t]` where
`enqueueParameterChange` returns to, `resume[t]` where the listener callback returns to. Each
access to shared state is one step: lock (`LockPending`), push and unlock (`PushChange`), track
(`Track`), one turn of the comparing loop (`CompareParameter`), snapshot, assignment.

| Code | Actions |
|---|---|
| a parameter is set with notification (W 263) | `Edit`, then `LockPending`, `PushChange`, `Track` |
| `updateHostDisplay` (W 277) | `UpdateHostDisplay`, `CompareParameter`..., `CompareDone`, `SnapshotValues`, `AssignTracked` |
| `setState` (W 1002) | `SetState`, `SilentSet`/`Edit`/`UpdateHostDisplay` by the plugin, `StateLoaded`, then as above |
| `setPresetIndex` (W 1024) | `SetPresetIndex`, `SilentSet`, `ProgramChanged` |
| `process` (W 897) | `ProcessStart`, `ParameterInput`..., `InputDone`, the plugin's block, `WriteMidiOutput`, `TakePending`/`SkipFlush`, `EmitChanges`, `ProcessReturn` |

`Behaviours` says what the plugin and the host of a run do; the plugin's own code is a
nondeterministic choice among them. `reported` and `delivered` are history variables.

Abstractions. Values are model values and `Transport` maps them to what is sent, so different
values may be sent alike. A parameter's position in the tree is its index. The snapshot is taken
in one step. The unsynchronised `last_parameter_values` is modelled by what a reader can get
(`Racing`: any outcome of a comparison while another thread replaces the vector); corruption of
the heap is not. JUCE's lock around listener calls is not modelled: more interleavings are
allowed than happen. The capacity of the port is not modelled. The host reads the port after
each `process`, as AAP asks of it; aap-juce's own host does not (F 173 clears the length before
it reads), which is listed as a hazard.

### HostMidiPort

`mem` maps word indices to words; a word is `<<kind, which, part>>`. `length` counts bytes as
`mbh->length` does. The units are the code's: `PreProcess` takes the byte length as the word
index, `AppendSysex` writes at `length` words behind the header (`sizeof (mbh)` is 8, which as a
word count is the size of the header). Unsynchronised stores of a setter (`StoreLength`,
`StoreWords`) happen in either order; the length that is added to may be re-read. A word of
memory never written reads as a no-op (the memory is zeroed shared memory). Reading from the
middle of a message may give any size. Values and channels of MIDI messages are not modelled.

### NativeUi

Editors are numbered by age, and an editor's view by its editor. `hostQueue` and `pluginQueue`
are the `callAsync` queues. `stopThread(-1)` is `hostMain = "stopThread"` until the worker ended.
The Binder call is the pair `request`/`worker`; it may also fail at any moment (`WorkerRefused`).
The size may become known to any query (`preferred` is written by the Binder thread).
`RunAttachMessage` takes the posted lambda's captured reference as the language defines it: the
view while the posting call runs, and any view or nonsense after it. The web editor has no state.

### AudioPorts

`ports` is the list of the kinds of the plugin's ports, any list at all. Memory and channels hold
sounds, `<<"in" or "out", channel, block>>`, so a property can ask whose sound is where.

| Code | Actions |
|---|---|
| `prepare` (W 386-444) | `Prepare`, `MapPort` for each port (`MapAudioIn`, `MapAudioOut`, `MapMidi`, `MapOther`), `PrepareReturn` |
| `preProcessBuffers`, audio part (F 96-107) | `HostCopyIn` |
| `resetJuceChannels` (W 867-892) | `PointOutputs`, `PointInputs` |
| the plugin's `processBlock` (W 924) | `ProcessBlock`: reads its inputs, then writes its outputs in the same buffer |
| the copy to the output ports (W 954-960) | `CopyOutputs` |
| `postProcessBuffers`, audio part (F 158-169) | `HostCopyOut` |

`Rank(p, kind)` is the number of ports of that kind before `p`. The host's loops count with
`juceInputsAssigned` as they go, which is that number; `prepare` builds its maps one port
at a time, and that they agree with `Rank` is proved, not assumed. `HostChannels` is what
`createJuceBuses` makes of the list: at most stereo, so a third input hears nothing of the host, as the source logs. The
plugin's main buses are taken to have one channel for each audio port (`aap_metadata.xml` is
written from the plugin), and the host to have the plugin info extension. MIDI ports are
only indices here.

A comment (W 92-95) says that the first channels of the JUCE buffer are the output
ports and the inputs come behind them. The code has them share the first channels, as the comment at
W 876 says, and so has the model.

### WrapperInstances, PluginCreation, HostedPlugins

`HostedPlugins` extends the other two and joins their actions: AAP's answer to a creation is the
wrapper's `juceaap_instantiate`, and a call of `AndroidAudioPluginInstance` is the plugin's.

| Code | Actions |
|---|---|
| `searchPathsForPlugins`, `findAllTypesForFile` (F 595-679) | `StartScan`, `FindAllTypesForFile` for each path |
| `createPluginInstance` (F 626-663) | `CreatePluginInstance`, then on the launched thread `Connected` or `ConnectionFailed`, then `CreateInstance`, or `CreationFailed` and `FailureFollowed` |
| `prepareToPlay`, `releaseResources`, destructor (F 294-320) | `HostPrepare`, `HostActivate`, `HostDeactivate`, `HostDestroy` |
| state and programs (H 64-100; H is the format's header) | `HostCall`, the plugin's `Call` |
| `prepare` (W 361-444) | `AllocateBuffer`, `PrepareToPlay`: the error code is read after it was perhaps written, and other plugins prepare in between |
| `juceaap_callOnExistingMessageThreadIfNeeded` (W 44-83) | `Enter`, `Dispatch`, then the function: `Serialize` and `Publish` for `getState`, `RunOther` for the others |
| `juceaap_get_extension`, `juceaap_instantiate`, `juceaap_release` (W 1181-1245) | `GetExtension`, `Instantiate`, `Release` |

A wrapper lives at an address, and a released address is given out again, as is an extension's
memory. Which free memory is taken makes no difference, so `CHOOSE` takes it. A plugin's state is
a model value with a size; the plugin may change it whenever it likes. `FailureFollowed` ends the
host: a creation that failed hands `createJuceBuses` a null pointer (F 639-641).

Assumptions about AAP and JUCE, outside of this code: the calls on one plugin come one at a time,
calls that touch the tables do not overlap (the maps have no lock), no call is made on a released
plugin, the list of installed plugins only shrinks while the host runs. JUCE's message loop takes
one message at a time and stands still while somebody has a `MessageManagerLock`; the plugin's
code, not this one, takes such a lock around calls.

### ParameterRegistry and MidiInput

A plugin is a tree of groups and parameters, or has none and only a number of parameters.
`RegisterNode` is one turn of `registerParameters`' recursion, with the nodes still to visit
in `work`. IDs are cut to a signed integer of `2 * IdLimit` values, as `int16_t` is.
The values of a parameter are few: its range is a bijection of them, and that a transported value
is the plain one is what `aapParameterPlainToTransportUint32` and its inverse make of it.
Steps of a range and the rounding of `float` are not modelled.

A UMP is a record of what the getters of `cmidi2.h` read. `ProcessMidiInputs` is a whole call: the
first pass (`ApplyChange`), then, if the plugin accepts MIDI, the second (`Decode`), each a
recursive function over the UMPs. Nothing else runs between the passes that touches this state. Times are exact
integers; the code's double precision truncates to the same numbers at the usual rates. Of
`cmidi2.h`, `PacketOf` makes the sysex packets and `ConvertUmp` converts UMPs to MIDI 1.0. The host's
items are made by `Timestamps`, `Midi1Message` (with its channel counted from 1) and
`SysexPackets`; where their words go in the port is the matter of `HostMidiPort`, and the items
here are what a host that writes them one after another sends.

## Runs

| Run | Question | Bounds |
|---|---|---|
| `reports_order` | Whatever plugin and host do: order, exclusion, refinement | 2 threads, 2 parameters of which one can be reported, 3 calls, every behaviour |
| `convergence` | Does the host end up with the plugin's values? | 2 threads, 2 parameters, 3 calls, behaviours `Announcing` |
| `delivery` | Is each change delivered at last? | 2 threads, 1 parameter, 3 calls |
| `host_port_clean` | What the port delivers undisturbed, in a system with disturbances | 2 setters, 2 changes, 1 block of at most 2 events, then any number of empty blocks |
| `host_port_replay`, `host_port_loss`, `host_port_sysex` | Three statements of the source that fail | as small as shows them |
| `native_ui` | Open, close, reopen during queries | 2 editors, views built on any thread |
| `native_ui_attach` | Is the JUCE editor put on the view that was given? | the same |
| `audio_ports` | Is each channel its own port, and does sound come through? | every list of 5 ports of 5 kinds, 2 blocks, any number of preparations |
| `hosted_plugins` | Two plugins of a process in any order of calls: are what they share and what they hand out good? | 3 plugins in 2 packages, 2 requests, 2 addresses, 2 Binder threads, 2 states, 3 operations that somebody decides to begin |
| `plugin_input` | Are parameters numbered and found rightly, and is a block of any messages decoded rightly? | 3 trees of 2 to 5 parameters and 2 plugins without; some 280 blocks of up to 3 items: all kinds of messages, sysex of 0 to 13 bytes with room for 8 in the wrapper and for 7 in the library's converter, broken sysex, a sysex with other messages between its packets, any number of blocks |

Why the bounds are enough. Five ports have room for three inputs and two outputs in every order,
with more inputs than outputs, fewer, and more than the host's two channels; a second
block finds the first one's sound in every port, and `AudioPortsProofs` removes the bound. A race over the pending list needs the audio thread and one other
thread; three calls allow a list of more than one change, a skipped flush in between and a
change that arrives during the flush. Two parameters are the least for which a comparing loop
can be interrupted, and with `MaxIndex = 0` one of them is not reportable (standing for indices
beyond 65535). Two editors are the least for a late answer of a closed editor to meet an open one.
A word index is only reached through lengths of up to a few messages: two changes
and two events make every kind of neighbour on the port. `MaxOps`, `MaxOpens`,
`MaxChanges`, `MaxBlocks` and `MaxEvents` bound the number of calls; nothing else is bounded.

In `hosted_plugins` the list of plugins is ordered such that the search misses a package; two
addresses and two requests let a plugin be released and another be made at its address while the
first one's extensions are known; four cells are as many extensions as two plugins have. Only
the operations that a host decides to begin are bounded (`MaxOps`), their steps are not; three are
enough for a getState during another plugin's, a lock around a call, a failing prepare before or
between the steps of another one, and a release between. One of the two plugins that are asked for
has no ports, and is never activated. In `plugin_input` `Capacity`
(the wrapper's `sysex_buffer`, W 465) is 10 instead of 4096, `ConverterRoom` (the `sysex7_buffer` of
`cmidi2_convert_ump_to_midi1`) 7 instead of 1024 and `IdLimit` 4 instead of 32768, so that a sysex that is too
long for one buffer or for both, and an ID that is cut, are there; blocks are 64 frames at 48 kHz, timestamps go beyond the block; values lie on both sides of each shift.
The ticks of a timestamp (31250 a second) are rounded down twice, so an event may be early by a
tick's worth of samples and one more. The host counts each timestamp from the begin of the block, the wrapper
adds them up: a later event comes late, and `EventsOnTime` allows it to be late by the events before
it in the block and nothing else. The
hypotheses of the theorems about `MidiInput` are `ASSUME`s of its MC module (`TreesAssumption`,
`EventsAssumption`, `SysexAssumption`): TLC finds them true of the run's trees and blocks.

`HostPortReplay.cfg` has the constraint `Calm` (no interference so far), to show that the replay
needs no race. `native_ui` and `native_ui_attach` do not check deadlock: when the last editor is
closed nothing has to happen; nor does `hosted_plugins`, where everything may be released. `host_port_clean` declares the setters symmetric.

`convergence` assumes that one thread at a time writes parameters outside of `process`, that a
plugin whose program changes calls `updateHostDisplay`, and that a state loader is silent. Each assumption is needed: see the hazards at W 264, 1006 and 1026.

### Findings

1. `host_port_replay` (F 118): a byte count as a word index makes the plugin read stale words: an
   earlier parameter change is applied again in a later block.
2. `host_port_loss` (F 192): a change accepted while a block runs can be wiped out.
3. `host_port_sysex` (F 84): sysex packets overwrite the block's first events.
4. `native_ui_attach` (W 303): the posted lambda refers to a parameter of a call that returned.

## Fairness

`ParameterChanges.FairSpec`: a thread inside a callback, a load and the audio cycle go on
(weak fairness of each thread's `CallbackStep`, of `LoadStep`, of `ProcessStep`). The code has
no waiting inside them but for the mutex, which is held over one `push_back` only, and the host of a
running plugin keeps calling `process`. Nothing forces an edit, a load or a block to begin. Note
that weak fairness is enough although `try_lock` may fail: calls are finite in number in every
behaviour (`MaxOps`), so from some moment on the mutex is free. A plugin that pushes without
end could starve the audio thread in theory, and `EventuallyDelivered` does not exclude it.

`NativeUi.FairSpec`: both message loops, the worker, the Binder thread and view construction go
on. The user need not open or close, the service need not fail. `WorkerRefused` is not fair:
`CloseReturns` holds without failures coming to help.

`HostedPlugins.FairSpec`: weak fairness of each thread's steps inside a call and of the message loop
(both run), strong fairness of `ReleaseLock` (a scope that holds the lock ends, though its thread may make other
calls before), and weak fairness of AAP's answer to each request: `ensurePluginServiceConnected`
and `createInstance` come back, with or without an error. Nobody need begin anything.
`MidiInput` has no liveness.

## Proofs

`ParameterChangesProofs`, from `ThreadsAssumption` and `DataAssumption` alone (any set of
threads, any number of parameters, any values and behaviours, any bound):

* `Typing`: `Spec => []TypeOK`.
* `Invariance`: `Spec => []IInv`, where `IInv` adds to `TypeOK` and `ReportsInOrder`
  * `PushOwnsLock`: a thread at `push` owns the mutex. Without it `TakePending` could not be
    shown to exclude a push;
  * `SwappedIsLocal`: the local list is empty outside of `emit`. Without it a second swap
    could lose the first one's list;
  * `NoPortNoChanges`: without an output port nothing is ever on the port, since `WriteMidiOutput`
    then clears nothing.
* `ReportsKeepOrder`, `SwapExclusion`, `Refinement`: the properties that `reports_order` checks.
  The order of reports rests on lemmas about `Encode` (length, elements, append); the refinement
  on: `PushChange` is `Report`, `ProcessReturn` is `Deliver`, by the order invariant which makes
  what is delivered a prefix of what is reported, and every other step stutters.

`ParameterConvergenceProofs` proves `TrackedKeepsUp` (`TrackedIsCurrent`) and `Convergence`
(`HostConverges`), under the hypothesis `Announces`: one thread beside the audio thread, and
behaviours out of "edit", "display", "state" and "program". It is what run `convergence` assumes,
for any number of parameters and calls. Without any one of its parts TLC finds a run in which
`HostConverges` fails. The invariant `CInv` joins `TypeOK` with

* `Control`: the audio thread is in its own cycle and in no callback, the other one in one call at
  a time;
* `TrackedFollows`: what `last_parameter_values` lags behind by in the middle of a call;
* `ReportsFollow`: what the host knows in the middle of a comparing loop: the new values below the
  loop's index, those the loop compares with from there on.

`HostMidiPortProofs`, from `SizesAssumption`: `PortTyping`, then

* `ChangesComeFirst` (`CleanChangesFirst`) by `CleanCycle`: while nothing disturbed the port, its
  first words between two blocks are the accepted changes, one after another, with at most one
  setter about to add one (`CleanPort`); in a block they stay there, behind them come only the
  block's events, and the reader has heard a prefix of the changes (`CleanBlock`);
* `BlockNotesArrive` (`CleanBlockNotes`) by `NoteBlock`: in a block without changes the words are
  the block's notes with their timestamps (`NotesAt`), and the reader has heard the notes behind
  which it stands (`NotesRead`).

`NativeUiProofs`, from `UiAssumption`: `UiTyping`, `UiInvariance` with `IInv` (a closing editor
exists, workers have their editor, connected editors are marked), then `WorkerKeepsOwner` and
`ConnectsOnce`. `WorkerHasOwner` is not inductive without `ClosingHasEditor`.

`AudioPortsProofs`, from `PortsAssumption` (any number of ports, any kinds, any number of blocks):
`PortsInvariance` proves an inductive `IInv` of

* `Mapped` and `MappingDone`: the maps number the ports that were seen by `Rank`, and
  `portmap_juce_to_aap_out` is the inverse of `aap_to_juce_portmap_out`;
* `Pointed`: after the first pass a channel is the output of its number, after the second
  the input if there is one;
* `InputsFilled` and `OutputsFilled`: what the memory of the ports holds between the steps.

It rests on lemmas about `Rank` (`RankStep`, `RankMonotone`, `RankInjective`), which are lemmas
about the cardinalities of sets of ports. `NoAliasing` (an input and an output of one
number are different ports, and ports of one kind have different numbers), `PluginHearsHost`,
`HostHearsPlugin` and `PortsTyping` follow.

`HostedPluginsProofs`, from `WrapperAssumption` and `HostedAssumption` (any number of plugins, requests,
Binder threads, states and operations): `StepOfWrapper` shows that every step of the system is a
step of `WrapperInstances` or leaves its variables alone, so that the parts about the plugins' process are
proved by its actions alone. `HostedInvariance` proves an inductive `IInv` of

* `CallInv`: types; a call's plugin lives, and is in no other call (AAP's one call at a time,
  now as an invariant of the threads); a thread waits for at most one message of the queue;
* `LoopInv`: whoever runs a call is the message thread, is served by it, or has its lock, and these
  exclude each other. `CallsExclusive` alone says nothing of the one that is served next;
* `StateInv`: what is copied has room, an empty wrapper has size 0, a `getState` under way has no
  reader, and whoever prepares with a null buffer has left an error. Without the last,
  `NoNullBufferRead` would not follow, for other prepares come between the two halves;
* `ExtInv`: no extension is twice in the tables, and what was given is there;
* `HostInv`: the instances refer to different live plugins, and a prepare that is waited for is
  under way, done or failed.

`CallsRunAlone`, `StatesFit`, `StateStaysReadable`, `NullBufferNotRead`, `ExtensionsStay`,
`PlayHeadFollowsHost` and `PrepareDoneOrError` follow.

`ScanIsComplete` (`ScanFindsInstalled`) and `HostedTyping` rest on `FormatInv`, an invariant of the
format alone: types of the list and of the requests, at most one answer for each request, a connection
only for a plugin that was found, and each installed plugin found or its package still to be asked for. The scan searches a
list that is not sorted as if it were. What saves it is that a search which goes wrong says "not found", and the
package is then added (`SearchIsSound`): a package may be looked at twice, none is left out.
`SearchSteps` proves of the recursive search that it ends and that the index it returns, if any,
holds the package.

`MidiInputProofs`, about any trees, ranges and blocks:

* `NumberedInOrder` (`ParametersNumbered`) and `EnumerationsFound` (`EnumerationsRight`). Their
  hypotheses, which `ChangesRoundTrip` and `InputTyping` share, say what JUCE's order of the
  parameters of a tree is (`JuceOrder`, a function on lists of trees) and that JUCE numbers
  parameters in it (`NumberedBy`); for the enumerations also that IDs fit (`FitsInt16`). `RegistryInv`: the list so far, then the order of the nodes still to visit, is
  the order of the whole tree. `EnumInv`: the enumerations of the parameters so far stand where
  `EnumIndex` looks for them;
* `EventsInBlock` (`SamplesInBlock`) and `InputTyping`: a decoder state stays in `DecoderStates`, in
  which all samples are within the block, in order, and not behind the position;
* `ChangesRoundTrip` (`ChangeRoundTrips`): `ValueInv` says that the value of each parameter is the
  last one sent, and that transport and its reverse give it back;
* `OnTimeInBlock` (`EventsOnTime`), under `EventsPut`: the items with a sample are what
  `preProcessBuffers` writes, in blocks of at most two seconds. Its lemmas follow the ticks through `Timestamps`, the two
  bytes of a JR timestamp and the decoder's position, and bound what the two divisions lose (`Rounded`,
  `Moved`). As long as all items have samples, the last event is where the decoder is; afterwards no UMP
  takes an event back (`DecodedKeeps`);
* `SysexArrives` (`SysexIntact`) and `DecodersGiveTheSame` (`DecodersAgree`), under `SysexCarried`: each
  item has the packets of one payload in their order, perhaps not the last ones, and other messages
  between them, of MIDI 1.0 only voice messages. Payloads may be of any length. The
  invariant of the walk over an item (`Good`) is that `sysex_buffer` is `Filled` with the bytes
  of the packets so far, cut where there is no more room. It does not ask what the buffer held
  before: the first packet starts anew, which is why a sysex that was broken off or is too long leaves nothing
  behind. `PacketIs` says which bytes of the payload a packet has and which of them is the last;
  `DecodedJoin` makes a walk over a block of a walk over each item. For `DecodersAgree` the converter
  is followed at the same time: it has `Held` the same bytes, without 240, has not left its buffer, and has nothing
  when an item ends. Its buffer has a size of its own and is filled with no look at it: the theorem is about payloads that
  have room in both, after an overrun nothing is modelled, and that the caller's `dst` has room for it all is assumed. `OthersAgree` compares the two conversions of each message that is no sysex.

The recursions in these models (`Umps`, `Decoded`, `Applied`, the search) are recursive functions.
Such a function is given by `CHOOSE`, and that it exists is the first thing to prove:
`BoundedRecursion` of `SetInduction` does it for a function on 0..N with values in a set, and
`SendSteps`, `DecodeSteps`, `ConvertSteps`, `GatherSteps`, `ApplySteps`, `SearchSteps` apply it. Inductions are then made with
`Least`, `StaysIn` or `Induction`, over the set of the numbers that have the property.

Only model-checked: liveness (`EventuallyDelivered`, `EditorShown`, `CloseReturns`, `CallReturns`,
`AnsweredAtLast`), which is out of the prover's reach. Every invariant and action property of the
passing runs, and the refinement, is a theorem; where a theorem has a hypothesis on the constants, an
`ASSUME` of the MC module lets TLC confirm it for the run.

## Not modelled

* `processMidiOutputs` (W 813-854): it reads an event's bytes at `data[eventPos]`, which for an event
  that is not at sample 0 lies behind them; what it sends is then other memory. The source says that
  this part is not verified. `WriteMidiOutput` of `ParameterChanges` has its effect on the port's length.
* The host's conversion of the output port (F 171-188): it converts a length that it has
  just set to 0. The conversion itself is in `MidiInput`.
* Who owns a `PluginDescription` (F 605-608), `cached_descs` (never read), and a format that is
  deleted while it connects (F 658): memory corruption, with no state that a property could name.
* What runs of a plugin after its release (W 164): the same.
* `cmidi2.h` beyond the above (vendored; the rest is not called here), the web editor, the Java
  application initialiser, build files, the patches to JUCE, the metadata generator and the
  templates: no behaviour over time.

## Plan

All components with behaviour are modelled as far as the above says. What is left:

1. The composition of `HostMidiPort` and `ParameterChanges` over the port, if the state space allows.
