# Sweetcomb in TLA+

Sweetcomb is a sysrepo plugin that translates YANG configuration
(ietf-interfaces, ietf-ip, ietf-nat, openconfig-interfaces) into configuration
of VPP, through the object library VOM. This directory holds TLA+ modules of the
plugin, TLC configurations that check them, and proofs for TLAPS. Paths below are
relative to the repository.

    sysrepo (datastore, commit vote)            VPP (processes that may crash)
       | VERIFY / APPLY / ABORT                     ^ binary API
       v                                            |
    callbacks of ietf_interface.cpp, ... ---->  VOM (objects owned by keys)
    sc_plugins.c: init, health check, cleanup --^

## 1. Inventory

| Component | State | Operations | What is hard | What makes it correct |
|---|---|---|---|---|
| ietf-interfaces configuration (`src/plugins/ietf/ietf_interface.cpp:50-369`) | locals of the running callback; VOM | create callback, IPv4/IPv6 address callback | changes arrive one node at a time; locals live across iterations; only VERIFY acts and ABORT does not undo; flags are read uninitialised; commands fail | VPP has what running says; an accepted commit was done |
| VOM and VPP (external) | objects, owners by key, outcome of the last push; VPP's interfaces and addresses | `OM::write`, `remove`, `populate`, `interface::find`, `set` | objects shared between keys; failed commands; sweeping | what VOM takes for pushed is in VPP |
| Life cycle (`src/plugins/sc_plugins.c:116-191`) | `vpp_pid_start`, the connection, VOM | init, health check, cleanup | VPP crashes between any two steps; callbacks run on another thread during reconnect and replay | nothing VOM holds is lost; a new VPP is found and configured |
| Registration (`src/plugins/sc_init.[ch]`) | linked list of init functions, `is_called`, subscription context | constructors, destructors, `sc_call_all_init_function`, cleanup | order of constructors, a failing init that is retried, re-init after cleanup with pointers to a freed context | all models subscribed exactly once; all released; nothing is added to a freed context |
| `netmask_to_plen` (`src/plugins/sys_util.h:80-105`) | none (pure) | conversion | byte order, shift to zero, `uint8_t` | the prefix length of the mask |
| ietf-nat (`src/plugins/ietf/ietf_nat.cpp`) | `static_mapping_table`, VOM | mapping callback | index as the only key, `prefix::empty()`, uninitialised flags, one builder per commit | mappings in VPP are the configured ones |
| openconfig-interfaces (`src/plugins/openconfig/openconfig_interfaces.cpp:35-193`) | locals of the running callback; VOM | config callback | null `ne` on deletion; uninitialised flags; same VOM keys as ietf-interfaces; its crash ends the other's commit | an accepted commit was done; ietf-interfaces does not notice |
| Operational data (state callbacks, `src/plugins/vpp-oper/`) | none | dumps of VPP | flags compared with `==`; arrays sized from the dump; a name filter without a length; an empty dump is dereferenced | the admin status reported is the configured one; answers fit their arrays |
| `get_vpp_pid` (`src/plugins/sc_plugins.c:46-113`) | `errno`, directory streams | scan of `/proc` | processes start and exit during the scan, leftover `errno`, a stream that is not closed | an answer that a single look at the processes could give; it ends |

The hazards, each at its line and with the properties that would catch it, are in
`PROJECT.json`.

## 2. Modules

| Module | Models | Actions |
|---|---|---|
| `SysUtil` | `inet_pton` as used, result of `netmask_to_plen` | (operators) |
| `Netmask` | the loop of `netmask_to_plen` | `Shift`, `Return` |
| `Vom` | VOM and VPP, external | operators used inside the actions of `IetfInterfaces` |
| `IetfInterfaces` | both configuration callbacks within a commit | see below |
| `IetfNat` | the NAT mapping callback, its builder and `utils::prefix` within a commit, with its part of VOM | see below |
| `HealthCheck` | init, health check, cleanup, VPP crashes, concurrent callbacks | one per call the code makes |
| `PluginInit` | registration, init functions, retries, cleanup, unloading | one per loop step |
| `PidLookup` | what callers of `get_vpp_pid` rely on: a single look at the processes | `VppChange`, `Call`, `Fail`, `Return` |
| `VppPid` | `get_vpp_pid`, with the processes of the machine | one per system call |
| `OcInterfaces` | `oc_interfaces_config_cb` within a commit; extends `IetfInterfaces` | see below |
| `OperState` | the four callbacks for operational data and `interface_dump`; extends `Vom` | (operators: they change no state) |
| `Agent` | composes `IetfInterfaces`, `OcInterfaces` and `OperState` in one process | see below |
| `NetmaskProofs`, `IetfInterfacesProofs`, `IetfCommitProofs`, `IetfNatProofs`, `HealthCheckProofs`, `PluginInitProofs`, `VppPidProofs`, `AgentProofs` | theorems | |
| `MC...` | constants for TLC | |

### IetfInterfaces and the code

A commit starts with `CommitStart`: a client proposes any datastore content that the
YANG models allow and that differs within the named bounds. The three
subscriptions then run in the order of their priorities (100, 99, 98).

* `CreateCbChange` is the loop of `ietf_interface_create_cb` over the changes of one
  interface, `CreateCbFinish` the code after the loop (build, write or remove,
  return). `builder`, `flags` and `intf` are its locals. A flag that no
  change assigned, and the builder's `m_state`, read as any value in `UninitBool`: the
  code does not initialise them. With `modify` read as true and no instance the
  code dereferences a null pointer: phase `"crashed"`. An error after the loop
  (`FailAfterLoop`) frees the last change a second time, which the process may or may not
  survive.
* `AddrCbNext`, `AddrCbParse`, `AddrCbDel`, `AddrCbAdd`, `AddrCbReturn` are the loop of
  `ietf_interface_ipv46_address_change_cb`, one change at a time, with the locals in
  `loc`. `ipv46_config_add_remove` is the function of that name.
* `CommitApply` and `CommitAbort` end the commit. Neither callback does anything on
  `SR_EV_APPLY`; on `SR_EV_ABORT` the first returns at line 115 and in the second
  `foreach_change` (`sys_util.h:37-39`) makes no iteration.
* `Crash` is the end of the process for a reason outside these callbacks (`MayCrash`), in the
  middle of a commit or not; `ProcessGone` says what is lost with it.
* `PluginRestart` is a new process: VOM is empty and `OM::populate("boot")` fills it.

Abstractions: addresses and names are model values; a subnet is its leaf and its
length; `netmask_to_plen` is the operator that `NetmaskProofs` shows the loop to compute, errors included (the
properties speak of the length that was configured, `PrefixOf`);
the exceptions of `prefix_t` and `sr_get_changes_iter` errors are left out (addresses
passed YANG validation). Every outcome of a command sent to VPP is in
`Outcome`.

What is assumed of sysrepo: a list instance's changes are delivered together and
in schema order, instances in any order; a refusal leads to an abort after this or
after later votes. What is assumed of VOM: see the head of `Vom.tla`; calls are
atomic.

### IetfNat and the code

`CommitStart`, `CommitApply`, `CommitAbort` and `PluginRestart` are as above; the votes of other
subscribers are an input (`OtherVote`). `NatCbChange` is the loop of
`nat_mapping_table_config_cb` over the changes of one entry, `NatCbFinish` the code after it,
which calls `Create` or `Remove`. `builder`, `flags` and `xindex` are the locals, the last two
uninitialised (`UninitBool`, `UninitIndex`); `table` is `static_mapping_table`. `build` is
`nat_static_builder::build`, with `prefix_empty` as the code computes it: never true. An error
after the loop frees the iterator and the last change twice (`FailAfterLoop`). Prefix
lengths are left out, since the code uses the address only; a VOM mapping is identified by
its pair, so two entries that share only their outside address are two objects here.

### OcInterfaces, OperState, Agent and the code

`OcInterfaces` follows `IetfInterfaces`: `OcCbChange` is the loop of `oc_interfaces_config_cb` over the
changes of one interface (`OcCreated`, `OcDeleted`, `OcModified`), `OcCbFinish` the code after it. The callback
reads `ne` before it looks at the operation (line 112). `ne` is null when something is deleted, so
`OcDeleted` ends the process, and the `SR_OP_DELETED` branch is never reached.

`OperState` gives each callback for operational data as the function that yields its answer: how
many values are allocated and which are filled in. The inputs are the state of VOM and VPP, whether
the dump succeeds and which interfaces have a carrier. A dump by name (`DumpsOf`) copies the name into the filter but not
its length (`vpp-oper/interface.cpp:22-27`), and VPP compares with parts of names: it brings the interface, if VPP has it, and any
others, and `oc_interfaces_state_cb` answers with the first. Values that are only copied have no content.

`Agent` puts them over one VOM and one VPP. All subscriptions share one context
(`SR_SUBSCR_CTX_REUSE`), whose thread runs one callback at a time (assumed of sysrepo): a callback that has begun
(`IetfBusy`, `OcBusy`) excludes the others, while the commits to the two YANG modules overlap between
callbacks. A crash in one callback ends both commits; `StateRequestDies` is the crash of `oc_interfaces_state_cb`
on an empty dump (line 235). The instance `Ietf` of `IetfInterfaces` in `Agent` restricts every variable to the
interfaces of ietf-interfaces: that is the refinement mapping of `IetfUndisturbed`.

### VppPid, PidLookup and the code

Entries of `/proc` are integers: the directories that are no processes first, then pids in
order, as the kernel lists them. `readdir` takes entries in batches (`ReadBatch`), so one may be gone when it is
opened. `errno` is kept by calls that succeed; `fopen` sets it, and only a process with a non-empty
`cmdline` that is not VPP resets it (line 102). `lost` counts directory streams the early return of
line 107 leaves open, out of `MaxFd`. `ever`, `exited` and `trouble` are history variables: the VPP processes there
were during the call, whether a process exited, whether a system call failed. At most one VPP
runs at a time, as in `HealthCheck`.

`PidLookup` is the abstract specification: the answer is a pid VPP had at some moment of the call, or an error if at
some moment there was none or a system call failed. `VppPid` implements it (`IsLookup`, model-checked and proved),
which is why `HealthCheck` may take the lookup for one step.

### HealthCheck and the code

Variables `vpp_pid_start` and `vpp_pid_now` are the code's. `conn` is the process VOM is
connected to. Each statement that another thread or a crash can separate
from the next is an action: connecting, populating, the init functions, reading the
pid, disconnecting, reconnecting, each object of the replay, storing the pid.
`NotFound` is what `get_vpp_pid` returns without VPP: `-ESRCH`, or another negative
errno that a failed `fopen` left behind. The module covers one call of init; retried
inits are in `PluginInit`.

### PluginInit and the code

`list` is the linked list, `p` the loop's position, `k` how many subscriptions the running
init function has made. A subscription may fail, which ends init with an error;
sysrepo-plugind calls init again. `Cleanup` is `sr_plugin_cleanup_cb`. `sr_unsubscribe` (external) ends the subscriptions of the
context and frees it; `subscription` and `private_ctx` go on pointing to it, and a second cleanup, after an init that made no new one, uses
the freed context, which does nothing or brings the process down (`"crashed"`).

## 3. Runs

Passing runs:

| Run | Bounds | Shows |
|---|---|---|
| `single_change` | 2 interfaces (1 known to VPP at start), 1 IPv4 and 1 IPv6 address, 3 subnets (a netmask among them), one change of each kind per commit | admin states in VPP are those of running; every configured prefix is bound, and no address that is not configured |
| `address_multi` | 1 interface, 3 addresses, all three changed by a commit | creations and deletions in any order bind and unbind what they say, in spite of the locals kept between iterations |
| `hostile_interface` | 2 interfaces, both changed by a commit, unknown types, failing commands, uninitialised flags, crashes from outside, a restart | types; an accepted creation or change of leaf `enabled` is in VPP |
| `nat_hostile` | 1 instance, 2 indexes, a complete and an incomplete entry, 2 changes per commit, failing commands, refusals by others, uninitialised locals, a restart | types; `static_mapping_table` is true; an accepted new entry is in VPP |
| `health` | 3 VPP processes, 2 objects | nothing is lost; recovery (liveness); a health check never leaves the pid of a VPP it is not connected to |
| `vpp_pid` | 3 pids (the plugin's in the middle), 1 other directory, 3 descriptors | refinement of `PidLookup`; `-ESRCH` and no lost stream unless a process exits or a call fails; every lookup ends (liveness) |
| `agent` | 1 interface, which VPP has at the start, and 1 address of ietf-interfaces, 1 interface of openconfig-interfaces, which it has not, and whose leaf `enabled` may be absent; failing commands, uninitialised flags of the latter, crashes, a restart | types; answers fit; an accepted new address is in VPP, and so is an accepted openconfig creation or change of `enabled`; refinement of `IetfInterfaces` |
| `plugin_init` | the 3 models with their 5, 3 and 2 subscriptions, 3 inits | first init complete; no double subscription, none in a freed context; cleanup releases all |

Four runs end in a violation: a comment in the repository says one thing and the code does another (`PROJECT.json`, "findings").

| Run | Says | The code |
|---|---|---|
| `address_modified` | `ietf_interface.cpp:18`: the file implements modifying a prefix | a prefix length that changes from 16 to 24 is one MODIFIED of leaf `prefix-length`, without leaf `ip`, and is ignored |
| `netmask_plen` | `sys_util.h:77`: netmask to prefix length | the length is rounded up to a whole octet: 24 for 255.255.240.0, 8 for 128.0.0.0 |
| `nat_destination` | `ietf_nat.cpp:75-77`: a pair of destination addresses is valid | `prefix::empty()` is never true, so the source pair that was not given is written: 0.0.0.0 to 0.0.0.0 |
| `admin_status` | `ietf_interface.cpp:413`: admin status is the state required by configuration | the flags are compared with `==`: an interface that was brought up and has a carrier is reported down |

Bounds. One interface needs no more than three addresses: what an iteration
inherits is the address before it, and the third makes "before" and "after" differ for
the middle one. Two interfaces suffice for what one interface inherits from another.
Three VPP processes let a crash happen before and during the recovery from a
crash. Pids below and above the plugin's own let `errno` be set before and after the entry that resets it, and a pid
be reused by another process; three descriptors let a stream be lost and the next lookup fail. Three inits let one fail, and let
one follow a cleanup and precede another. In `agent` the two models
need one interface each for the refinement; `AgentProofs` covers any sets, for types and answers also sets that overlap. The commits are not bounded in
number: TLC explores sequences of any length. The subnets of the passing runs are prefix lengths and a netmask of whole octets, because of
`netmask_plen`, and addresses are created and deleted only, because of `address_modified`.

Deadlock is checked in `single_change`, `address_multi` and `vpp_pid`. It is off where the system really stops: a
crashed plugin with no restart left, a plugin that was unloaded, a function that
returned.

Fairness. In `vpp_pid`: the thread in `get_vpp_pid` is scheduled (`WF` of its steps; none of its calls waits);
none for processes that start and exit. In `health`: sysrepo-plugind calls the health check again and again, the
check's own steps run, and somebody starts VPP again (an external assumption,
without which the connection loop spins forever). No fairness is assumed for
crashes, configuration callbacks or cleanup. The last process of the bound does not
crash.

Other behaviours seen while modelling, which the properties of passing runs allow or their bounds
exclude:

* ietf-interfaces: each address brings a /0 binding besides its prefix, which goes with it in commits of one address, but stays
  when several are deleted in an order or grouping other than that of their creation; after a restart objects belong to `"boot"` and are
  no longer removed (`single_change` and `address_multi` have no restart); `ipv4/enabled` is taken for the
  interface's `enabled` (`IpLeaf` is absent in the runs); an aborted commit is
  not undone (`single_change` has no failing command; `hostile_interface` shows that later accepted commits are right all the same); an address created on one
  interface and deleted on another by one commit is added again to the second (`address_multi` has one interface); of several interfaces created together only the last is
  written (`AcceptedItfReachesVpp` is about commits of one); a failure of an address is hidden by the success of a later one (`AcceptedAddressReachesVpp` is about commits of one); with `create`
  read as true a commit that only changes an address is refused (`UninitBool` is `{FALSE}` in
  `single_change` and `address_multi`); an interface that VPP did not have at the start
  and that is deleted together with its addresses is swept by the removal of the first of them,
  and the removal of the next is refused because `interface::find` fails (line 217; `AtBoot` in `address_multi`).
* ietf-nat: a commit over several entries maps only the last; leaves that complete an entry later are ignored, or written under an uninitialised index.
* openconfig-interfaces: deleting anything, and asking for the state of an interface VPP does not have, crash the process; a leaf `enabled` that is added to
  an interface that is there reaches VPP in no case: depending on the uninitialised flags the commit is accepted without a write, refused, or the
  process crashes (`AcceptedOcReachesVpp` is about creations and changed values). The callback of ietf-interfaces has the same branches.
* Life cycle: after a failed init a second one skips the failed model, because `is_called`
  is set, and succeeds without its subscriptions (`FirstInitComplete` is about the first); when VPP restarts between the connection and the
  reading of the pid in init, `vpp_pid_start` is of a VPP the plugin is not connected to and the restart is never noticed
  (`CheckKeepsPidTrue` says that health checks do not do this); a replay after a spurious
  reconnection only adds; the lookup returns another error than the documented `-ESRCH`, and loses
  the directory stream, when the last processes it visits exit under it (`NotFoundIsESRCH`, `LossNeedsARace`).
* Operational data: oper status has the fault of `admin_status`, too (`ietf_interface.cpp:425`), while openconfig's `enabled` is true for any flag; openconfig may answer
  with the state of another interface whose name contains the one asked for.

Every property of a passing run has a mutant of the code's model that breaks it, defined
next to the definition it replaces.

## 4. Proofs

Every invariant, action property and refinement that a passing run checks is also a theorem, for
all values of the constants under the modules' `ASSUME`s. Some properties are not true of every
environment (section 3 lists what breaks them); their theorems have a named condition on the
constants as hypothesis:

| condition | says | theorems under it | run that satisfies it |
|---|---|---|---|
| `Exact` | netmasks end at an octet (`netmask_plen` shows why) | those about prefixes: `AcceptedAddressReachesVpp`, and below `ConfiguredAreBound`, `DeletedIsUnbound`, `AddressesMirrorRunning` | `agent`, `address_multi`, `single_change` |
| `OneInterface` | one interface, which VPP has at the start; VPP takes every command; types the model knows; an unassigned bool reads as false; no crash from outside; the prefix of an address that stays is not changed (`address_modified` shows why) | `ConfiguredAreBound`; without restarts also `DeletedIsUnbound` | `address_multi` |
| `SingleChanges` | one change per commit, commands succeed, an unassigned bool reads as false, no `ipv4/enabled`, no modified prefix, no restart; finitely many interfaces, not all need be known to VPP | `AdminFollowsRunning`, `AddressesMirrorRunning` | `single_change` |
| `Undisturbed` | `SourcePairs`: each entry has a source pair (`nat_destination` shows why); finitely many entries with distinct indexes; one change per commit; nothing fails, an unassigned bool reads as false, no restart | `MappingsMirrorRunning` | none: it is checked by `nat_destination`, which violates `SourcePairs` |
| `Separate` | no interface belongs to both ietf-interfaces and openconfig-interfaces | `AcceptedOcReachesVpp`, `IetfUndisturbed` | `agent` |
| `IsFiniteSet(Ifs)` | | `AnswerFits` | `agent` |
| `MasksOK` | netmasks have 32 bits | the theorems of `NetmaskProofs` | |

That unassigned bools read as false is an assumption the code does not justify (`ietf_interface.cpp:109`, `ietf_nat.cpp:164`): the theorems under `OneInterface`,
`SingleChanges` and `Undisturbed` describe builds in which it happens to hold. `TypeOK`, `AcceptedItfReachesVpp`, `AcceptedAddressReachesVpp`,
`AcceptedOcReachesVpp`, `TableIsMapped` and `AcceptedEntryIsMapped` are proved for any values they may read as.

What the instances bound and the theorems do not: the number of interfaces, addresses,
subnets, NAT entries, models and their subscriptions, VPP processes, pids and descriptors, and (unless a
condition says so) of changes per commit and of restarts.

* `IetfInterfacesProofs`: `TypeOK`, `AcceptedItfReachesVpp` and, under `Exact`, `AcceptedAddressReachesVpp`. The invariant is `VomInv` (VOM's types, and the
  lemma `BeliefIsSound`: what VOM takes for pushed is in VPP, which the model of VOM keeps whoever calls it) and `Plugin` (types of the callbacks' state and
  `LeftOK`: what is left to visit is part of what the commit changes, without which the change records
  are not typed). One lemma per VOM operation and one per action. The two action properties speak of the
  step that accepts the commit and need its history: `CreateHistory` follows the one created or changed interface from the locals
  of the loop (`SeenItf`) to a push that the address callbacks cannot sweep, because its key owns it; `Walk` says at which of its three
  changes an address is and what the locals hold then, `AddrHistory` that agreeing means the last operation has bound it.
* `IetfCommitProofs`: the properties of whole sequences of commits, which need the conditions of the table. `Calm` (nothing is
  refused) rests on `interface::find` finding every interface and on a builder being complete whenever it is written. `InStep`: VPP has
  the bindings VOM believes it has, and after no restart none is owned by `"boot"`. `Tour` is the counterpart of
  `Walk` for any number of addresses in one callback: an address finds in the locals what those visited before it left and overwrites
  what says of itself (`SaysOf`); what is left over is of an address the commit deletes (old) or creates (new), never of one that
  stays (`LocalsOfCommit`), so repeating the operation does no harm. `Settling` says of every address that it is still
  ahead, in hand, or has what the candidate asks for. With several interfaces `LocalsOfCommit` does not protect an
  address: it may be deleted on one interface and created on another, and the locals do not tell the two apart. `Image`
  describes VPP during a commit of one change, stage by stage, extra bindings of length 0 included.
* `IetfNatProofs`: `TypeOK`, `TableIsMapped`, `AcceptedEntryIsMapped`, `MappingsMirrorRunning`. `TableIsMapped` is not inductive: a sweep takes away what VOM
  believes pushed. `Recorded` adds that a recorded mapping is believed pushed and that beliefs
  are true; a recorded mapping of another index keeps its owner, so it is not swept. The
  proof covers any number of instances and of changes per commit. `History` follows the one new entry from the leaves in the builder to the table;
  `Follows` says that table, VOM and VPP are the image of the running datastore, and of the candidate once the callback agreed.
* `HealthCheckProofs`: `TypeOK`, `NothingLost` and `CheckKeepsPidTrue`. `NothingLost` is not inductive: it needs
  `Covered`, which already holds between the population and the subscriptions, and
  `PidsGrow`: connections and processes are numbered at most `lastPid`, so an old
  connection never becomes live again by a new process. `CheckKeepsPidTrue` needs `PidsRead`: if the process
  whose pid the check has read still runs after the reconnection, the connection is to it.
* `PluginInitProofs`: `TypeOK`, `FirstInitComplete`, `NoDuplicateSubscription`, `ContextIsLive`, `CleanupReleasesAll`. None is inductive: `Registered` (the list holds
  each loaded model once), `Counted` (a model that was not called has no subscription, and the one that
  is being called has exactly those counted so far), `Releasable` (without a subscription context nothing is in force, and init hands the context to the cleanup) and
  `FirstRun` (in the first call of init, every model before the current one in the list is complete), `Passed` and `Freed` (a context is freed only after every init function was called, so none is called again) are proved together.
* `VppPidProofs`: `TypeOK`, `NotFoundIsESRCH`, `LossNeedsARace` and `IsLookup`, the refinement. The invariants: a VPP that has been there since the call began
  and has not been visited is still ahead of the scan (for the refinement); without exits and failures `errno` is 0 from
  the plugin's own entry on, because that entry, which cannot go away, resets it and every process after it
  either resets it or leaves it (for the error).
* `AgentProofs`: `AgentTypeOK` and `AnswerFits` for the composition, for any two sets of interfaces, also
  overlapping ones. The invariant is that of `IetfInterfacesProofs` with `OcInv`, its counterpart for the other callback; the lemmas
  about VOM's operations and about the actions of `IetfInterfaces` are reused. `AnswerFits` needs that a dump holds interfaces of the model only: the values of an
  answer then inject into pairs of an interface and one of the leaves the array was sized for. For disjoint sets: `Own` (each model's state is about its own interfaces
  only) gives `IetfUndisturbed`, the refinement of `IetfInterfaces` by `Agent`, with one lemma per VOM operation saying that it commutes with the restriction to
  the view of ietf-interfaces, and one per action; `OcHistory`, with `Own`, gives `AcceptedOcReachesVpp`. The refinement absorbs the crashes of the other
  callbacks into `Crash`, which `IetfInterfaces` has for a process that ends for reasons of its own (`MayCrash`).
* `NetmaskProofs`: `TypeOK`, `BitLength`, and that the operator `netmask_to_plen` of `SysUtil`, with which `IetfInterfaces` computes, is what the loop returns
  (`SummaryIsRight`), from the loop invariant that after `i` rounds the word is the original shifted by `i`, and not yet zero before the last round.

Only model-checked: the liveness properties `Recovers` and `LookupEnds` (fairness and `ENABLED` are out of the prover's
reach), and that the properties of the four violation runs are violated, which is a matter of one behaviour each. No module uses RECURSIVE operators.

## 5. Not modelled

YANG models (third-party data), tests, scripts, build files and samples (no program
logic of the plugin); `sc_call_init_function` and `sc_call_exit_function`, which nothing uses, and the exit functions, which
are empty; data races inside VOM; what a use of freed memory does besides nothing or a crash; failing system calls of `get_vpp_pid` as seen by the health check (`HealthCheck` assumes they succeed).

## 6. Plan

1. Done: all modules of section 2, their type invariants and main safety invariants, the refinements of `PidLookup` and, between
   `Agent` and `IetfInterfaces`, of the part by the whole.
2. Done: theorems for every safety property, action property and refinement of the passing runs (section 4).
3. An abstract specification of a configuration agent (a commit is atomic; VPP has what running has) and the
   conditions under which `IetfInterfaces` implements it; `SingleChanges` and the invariants `Image` and `Settling` are where to start.
4. Weaker conditions: `ConfiguredAreBound` for several interfaces when no address is configured on two of them, `AddressesMirrorRunning`
   for commits of several changes that delete addresses in the order of their creation.
