# Verification of init

TLA+ models of init in this repository (`src/init`, the Android 12 init with the Innit
policy layer), from the first stage to the reboot, and of ueventd; the TLC runs that check
them; and TLAPS proofs of most of their safety properties for every instance. Paths below are
relative to `src/init/`.

1. [The system](#the-system) - inventory of components, state, operations, interactions
2. [Modules](#modules) - what each module models and how it corresponds to the code
3. [Runs](#runs) - what is checked, on which instances, under which fairness
4. [Proofs](#proofs) - what is proved for every instance, and how
5. [Observations](#observations)
6. [Not modelled](#not-modelled)
7. [Plan](#plan)

## The system

init is process 1. The first stage mounts the partitions of the system, `SetupSelinux`
loads the policy, and `SecondStageMain` reads the property files, parses the `.rc` scripts
and enters a loop that never ends. ueventd is a second program in the same binary.

| Component | State | Operations | Talks to | Module |
|---|---|---|---|---|
| First stage, SELinux setup (`first_stage_*.cpp`, `selinux.cpp`, `snapuserd_transition.cpp`) | mounts, device nodes, environment variables that cross `execv`, the snapuserd processes | `FirstStageMain`, `FirstStageMount`, `SwitchRoot`, `SetupSelinux` | kernel, snapuserd | `FirstStage` |
| Boot properties (`property_service.cpp`) | property area, property contexts | `PropertyInit`, `PropertyLoadBootDefaults` | files of five partitions, kernel command line | `PropertyBoot` |
| Script parsing (`parser.cpp`, `*_parser.cpp`) | the section parsers' current object, imports, late imports | `ParseConfig`, `ParseSection`, `ParseLineSection`, `EndSection`, `EndFile` | service and action lists, policy | `RcParser` |
| Innit policy (`innit/`) | rules, read once | gates for services, files, events, commands and exec paths; failure action | parser, actions, `Service::Reap` | `InnitPolicy` |
| Main loop (`init.cpp`) | eventfd, property wait, shutdown request, control message queue | `CheckShutdown`, `ExecuteOneCommand`, `HandleProcessActions`, `epoll.Wait`, `HandleControlMessages` | everything | `InitLoop` |
| Actions (`action*.cpp`) | event queue, executing queue, current command | `Queue*`, `ExecuteOneCommand`, `ClearQueue` | filled by both threads | `InitLoop` |
| Services (`service*.cpp`, `sigchld_handler.cpp`) | `flags_`, `pid_`, crash counter, cgroup state, start order, delayed names, `is_exec_service_running_` | `Start`, `StopOrReset`, `Restart`, `Timeout`, `Reap`, `ExecStart`, class commands | kernel, properties, shutdown request | `Service` |
| Property service (`property_service.cpp`) | property values, `accept_messages`, the relabelling queue | `HandlePropertySet`, `PropertySet`, `SendControlMessage`, `AsyncRestorecon` | own thread; calls `PropertyChanged`, `QueueControlMessage` of `init.cpp` | `InitLoop`, `Properties` |
| Persistent properties | `/data/property/persistent_properties`, its temporary, the legacy files | load, read-modify-write, migration | property thread | `Properties`, `DurableMap` |
| Subcontext (`subcontext.cpp`) | child process, socket | `Execute`, `ExpandArgs`, `Restart`, child reap | actions of vendor scripts | `Subcontext` |
| Reboot (`reboot*.cpp`) | `shutting_down`, monitor thread, userspace-reboot watchdog process, bootloader message | `HandlePowerctlMessage`, `DoReboot`, `DoUserspaceReboot`, `InitFatalReboot` | queue, services, property service | `Reboot`, `InitLoop` |
| ueventd (`ueventd*.cpp`, `devices.cpp`, `uevent_listener.cpp`, `firmware_handler.cpp`) | rules, event queue, workers, firmware children, `/dev` | cold boot, `HandleUevent` | kernel's netlink socket, `ro.cold_boot_done` | `UeventdRules`, `Ueventd` |
| Mount namespaces, keychords, mount handler, host tools | own programs or straight-line setup | | system calls | see [Not modelled](#not-modelled) |

Two threads matter in the second stage. The **main thread** owns services and runs commands;
the **property thread** serves one client at a time. They call each other: a command that
sets a property blocks until the property thread has answered, and the property thread,
while it holds `accept_messages_lock`, writes the main thread's event queue, property wait,
shutdown request and control queue, each under a mutex of its own, and wakes it through an
eventfd. Outside them, children exit at any time and their pids are recycled.

What is hard, and what correctness means, per component:

* *First stage.* While an update is merged, the blocks of `/system`, init's own code
  included, are served by a process that init has to replace. Correct: init never reads a
  block nobody serves; what wants verification is mounted without it only if verification is
  turned off or `SetupSelinux` mounts late what the boot can do without; every boot that no
  device or system call fails reaches the second stage.
* *Properties at boot.* Many files, two precedence rules. Correct: the first kernel source
  and the last file win, and what is derived fits what it is derived from.
* *Parsers and policy.* Parsers are objects that outlive a section; errors are skipped; files
  are reached in four ways. Correct: sections do not leak into each other, the service list
  is well formed, and with `innit.xml` present none of the gates the code has is gone round,
  and each says what the file says (first match wins). Two things that the file may name have no
  gate (see [Observations](#observations)).
* *Services.* Stop, reset, restart, exec and crash requests arrive in any order while an
  old process is still dying. Correct: init never loses a child, never signals a pid it
  does not own, never starts a second process, honours the last request once the old
  process is reaped, tells the truth in `init.svc.*`, reboots for failures when and only
  when it should, and brings crashed services back.
* *Main loop, actions, property thread.* Lost wake-ups, waits that miss their value,
  property triggers that fall between "look at the values" and "listen to changes", two
  threads waiting for each other. Correct: none of these happen; control messages are
  answered once; an accepted shutdown ends in a reboot whatever init was waiting for, if the
  script's own `on shutdown` actions end.
* *Persistent properties.* Power loss or a failing call at any step. Correct: a load finds a
  whole map, the old or the new one, and what a client was told is stored survives.
* *Subcontext.* Death of the peer with a command outstanding, noticed twice. Correct: one
  process, no command twice, no wait for good.
* *Reboot.* Deadlines, programs that hang, processes that cannot be killed, a crash on the
  way. Correct: the device goes down or boots again, and `fsck` never meets a mounted disk. Two
  ways to get stuck remain, an `fsck` that does not return and a userspace reboot given up before
  it begins (see [Observations](#observations)).
* *ueventd.* A lossy socket, several workers, restarts. Correct: `/dev` ends up as the
  kernel and `ueventd.rc` say, and a firmware request that ueventd receives and can fork a child
  for is answered, with "not found" only if the file is nowhere.

The hazards, at their lines and with the properties aimed at them, are listed in
`PROJECT.json`.

## Modules

### Service

`Service` models `service.cpp`, `service_list.cpp`, `sigchld_handler.cpp`, the periodic
part of the main loop and the builtins and control messages that act on services. The
variables are the members of `Service` and `ServiceList` (the comment beside each gives
the C++ name) plus init's children in the kernel's process table (`proc`): a slot is
free, alive, killed (SIGKILL pending) or a zombie, and is reused after `waitpid`.

All of it runs on the main thread, so an action is one uninterrupted call. Two things in
the code are longer than that because the kernel can act in between: a command that loops
over a class, and a `Reap` that executes `onrestart` commands. Both are the sequence `work`
of calls still to be made; nothing else runs on the main thread until it is empty. `Reap`
keeps its zombie in `reaping` until `work` is done, as the scope guard in
`ReapOneProcess` does.

| Code | Module |
|---|---|
| `Start` with its failure paths | `Start`: `StartFailed` (with the reboot guard), `MustWait`/`DelayService`, `StartRunning`, `StartFails`, `StartForks` |
| `ExecStart`, `exec`, `exec_background` | `ExecStart`, `ExecTemporary`, `SetExec`, `UnSetExec` |
| `StopOrReset`, `Stop`, `Reset`, `Restart`, `Enable`, `StartIf...` | operators of the same name, called through `CallService` |
| `KillProcessGroup` and libprocessgroup | `KillProcessGroup`, `KillOutcomes` (external) |
| `Reap` | `ReapOneProcess`, split by its early returns: `ReapUntracked`, `ReapTemporary`, `ReapStopped`, `ReapFatal`, `ReapRestarting`; `FlagsAfterExit` has the Innit failure rules |
| `HandleProcessActions` | `Timeout`, `RestartDue` |
| `MarkPostData`, `MarkServicesUpdate`, `do_perform_apex_config` | actions of the same name |

Times are abstracted to the comparisons the code makes (`restartDue`, `timeoutDue`,
`inWindow`), which `TimePasses` changes. `crashCount` saturates one above the limit, where the
code goes on counting; nothing tells two such counts apart.

### InitLoop

`InitLoop` models the loop of `SecondStageMain`, the action manager, `PropWaiterState`,
`ShutdownState`, the control message queue, the property thread's path of a set request,
and the entry and exit of shutdowns in `reboot.cpp`. `mpc` and `ppc` are the positions of
the two threads. A critical section that spans several steps appears as a predicate on
the position of its holder (`AcceptLockHeld`, `EventLockHeld`, `WaiterLockHeld`); one that
fits in a step needs no state. `HandleControlMessages` releases its lock around the
handler, so `CtlLockHeld` is constantly false: that is the point of the mutant that holds
it.

| Code | Module |
|---|---|
| one iteration of the loop | `CheckShutdown`, `Commands`, `Dequeue`, `Execute`, `HasMoreCommands`, `EpollWait`, `Callbacks`, `HandleControlMessages`, `ControlReply` |
| `Action::CheckEvent`, `CheckPropertyTriggers` | operators of the same name |
| commands | `Nop`, `DoSetprop`, `DoWaitForProp`/`StartWaiting`, `DoExec`, `DoTrigger`, `DoTriggerShutdown`; the builtins `QueuePropertyTriggers`, `EnablePropertyTriggers`, `DoReboot`, `DoUserspaceReboot` |
| `handle_property_set_fd`, `PropertySet`, `PropertyChanged` | `ServeMain`, `HandlePropertySet`, `HandleControlSet`, `Write`, `SendPropertyChanged`, `QueuePropertyChange`, `CheckAndResetWait`, `SendControlMessage` |
| `HandlePowerctlMessage` | `PowerctlRejected`, `StopSendingMessages`, `Shutdown`, `HandleUserspaceReboot`, `ShutdownDone` |

The scripts are constants: a sequence of actions with their triggers and commands. What a
control message does to a service is `Service`'s subject; here its handler only sets
`init.svc.*`, which is what makes the two threads meet. `owed` is a history variable: the
actions whose property triggers came true by a change and that have not run since. `Matching` is
the loop of `ExecuteOneCommand` over all actions, a recursive function of the index, so that it
can be reasoned about. The constants are assumed to be well formed (`InitLoopConstants`: a script
sets only properties and values there are; `Literals`: the names the module writes out are
strings, which the provers do not know of string literals).

### Reboot

`Reboot` models what follows once the main loop handles `sys.powerctl`. Its actors are the
main thread (`pc`), the monitor thread of a shutdown (`mon`), the watchdog process of a
userspace reboot (`wd`), the child that `InitFatalReboot` forks (`fatal`), the services'
processes, and time (`Tick`).

| Code | Module |
|---|---|
| `HandlePowerctlMessage`, the bootloader message | `PowerctlRefused`, `Powerctl`, `HandleUserspaceReboot`, `UserspaceRebootGivenUp` (not supported, or no watchdog), `BcbOutcomes` |
| `StopServices`, `StopServicesAndLogViolations`, `WaitToBeReaped` | `Signalled`, `StopAndWait`, `StopNow`, `WaitToBeReaped` |
| `DoReboot` | `DoReboot`, `SemInitFails`, `Prepare`, `TermRound`, `KillRound`, then one action per stage to `RebootSystem` |
| `RebootMonitorThread` | `Monitor`; the remaining time is taken modulo `WordSize` (2^32 in the code) |
| `DoUserspaceReboot`, `UserspaceRebootWatchdogThread` | the actions whose `pc` starts with `U`, `Watchdog` |
| `InitFatalReboot` | `InitFatalReboot`, `FatalChildReboots`, `FatalParentReboots` |

vdc, apexd, swapoff and fsck are programs of others: they succeed, fail or hang; `umount2` and
`sync` may block. The monitor is told of the end of a stage by a semaphore and may be scheduled
after its deadline; `spent` and `overrun` count the time it was charged outside and during fsck.

### Properties and DurableMap

`Properties` has the property service as its clients see it. The thread accepts a
connection, receives the parts of a request piece by piece within one time budget (`RecvFully`
for a piece, `PollInterrupted` for a signal, `RecvTimesOut`, `RecvFails`; `left` is the budget in
milliseconds, each `Grain` ticks of the clock, and `held` the ticks really spent), checks name,
value, type and permission (`CheckPermissions`), sets the property
area and, for `persist.*`, rewrites the file before it answers: `ReadForWrite`, `OpenTemp`,
`WriteString`, `Fsync`, `Rename`, `OpenDir`, `FsyncDir`, each of which may fail, and power may
be lost after each. `fileAfter` is the set of files a power loss may leave. `LoadMessage`
starts `load_persist_props`: `/data/local.prop`, then the property file or, if it cannot be
read, the legacy files and their migration (`LoadLegacy`, `RemoveLegacy`). `AsyncRestorecon`
is a thread of its own (`RestoreconThread`, `RestoreconDone`, `RestoreconSet`), started when
a path arrives and none is there.

`DurableMap` is the abstract specification: a map in memory and a map on storage; a store
replaces the whole map, a power loss leaves one stored since the last flush. `Durable` in
`Properties` instantiates it with `memory` the `persist.*` part of the property area, `current`
what a load would find now, and `after` what it may find after a power loss. `sound` turns
false, and the promise ends, when a flush or a read fails at a place where the code has
nothing to fall back on; the code does not notice either.

### PropertyBoot

`PropertyInit` and `PropertyLoadBootDefaults`, source by source: the contexts of the
partitions, the device tree, the command line and bootconfig (the first that sets a
read-only property wins), the files in their order with imports and the legacy places (the
last wins), then what is derived: `ro.product.*`, the build id, both fingerprints, the ABI
lists, `persist.sys.usb.config`. Values are sequences of the strings they were put together
from, so that a derived value says what it was derived from. Reading a file, with the files it
imports, is a recursive function of the line. Three assumptions: `ContentsAssumption` (a file is a
sequence of lines), `ImportsAssumption` (a file imported without a filter imports nothing itself;
in one imported with a filter the code skips such lines) and `KernelsAssumption` (the kernel's
sources set `ro.boot.*` only, as
`property_service.cpp:1227`, `:1236` and `:1245` see to).

### Subcontext

Init sends one command at a time to the process and blocks in `ReadReply`; the process is at
`poll`, `run`, `waiting` (for the answer to a property it sets) or `reply`, and dies anywhere
(`Dies`). Init learns of it from the socket (`ReadFails`), from SIGCHLD (`FindZombie`,
`SubcontextChildReap`) or from both; each calls `Restart`. Pids are recycled by other
processes (`Recycle`), which a kill must not reach. `SubcontextTerminate` is the call of the
shutdown.

### RcParser and InnitPolicy

`InnitPolicy` has the operators: reading `innit.xml` (`LoadFromFile`, from the element tree to
rules: `ParseRoot`, then section by section and element by element), `GlobMatch`, and the
evaluation of each gate. Names and paths are sequences of `Symbols`; `FilesAssumption` says that
what the files, directories and properties hold are such sequences. `RcParser` is the parser with its section
parsers, whose current objects (`service_`, `denied`, `action_`, `imports_`) are variables
because they outlive a section and a file. A line arrives as its tokens; the file being
read is any sequence of lines of an alphabet. `work` holds what the callers (`LoadBootScripts`,
`MountAll`, `ParseApexConfigs`) and the imports have still to parse. Every option of
`service_parser.cpp` is an operator of its own; `Accepted` is `EndSection` with the rules for
overriding services, with `RemoveService` for the one that is replaced. `RunCommand` runs a command
of the lists past the gates of `builtins.cpp`. `PolicyIsEnforced` has two halves: `GatesHold`
compares the lists with the gates of the loaded policy, the other with the text of `innit.xml`,
read by definitions of their own, at the end of `InnitPolicy`: `Covers` is what a pattern stands
for, each of its symbols for a stretch of the subject; `Permits`, `DeclaredFailure` and `Forbids`
are what the elements of the file say, first of them first.

### UeventdRules and Ueventd

`UeventdRules` has `ueventd.rc` as a fold over its lines and what the rules make of a device:
permissions, labels, node path, links. `Ueventd` has the processes: the kernel that adds,
names and removes devices and multicasts events to a socket of bounded size, the cold boot
(`WalkPasses`, `ForkSubProcesses`, `WorkerHandles`, `WorkerRestores`, `WaitForSubProcesses`,
`ColdbootDone`), the main loop (`Poll`), the firmware children (`GetFirmwarePath` to
`LoadFirmware`), and the death and restart of ueventd. `doubtful` is a history variable: the
devices of which ueventd has missed an event, or whose events two workers may have handled in
the wrong order, or whose firmware child was killed with ueventd; nothing can be promised about
these. A drain of the socket may end early (`ENOBUFS`), an external firmware handler may not end,
and a child may not be forked: `Abandoned` names the requests these leave unanswered.

### FirstStage

`FirstStageMain` and `SetupSelinux` are sequences of steps (`pc`); beside them the kernel
announces devices and the snapuserd processes exit and attach. `fsm` is the `FirstStageMount`
object, of which the code makes a second one when the console wants the devices early. The
point of the module is the time between `DetachSnapuserd` and `NewSnapuserdAttaches`: a read
of `/system` without a process waits for ever, so the steps that read it are guarded by
`Served`, and every step of an init whose code is on `/system` and not locked in memory by
`Runs`. A failure outside init is a choice of the step and sets `fault`. A mount records the entry
it is of, whether it is of a verity device or the bare partition (`raw`: also where vbmeta turns
verification off), and whether `MountMissingSystemPartitions` made it (`late`).

The loop over the fstab takes the entries of one mount point together, mounts the first that
works (`AlsoMounted`) and goes on behind them (`EndOf`); `SkipMountingPartitions` removes what
`skip_mount.cfg` names. `FstabsAgree` says of an fstab that the alternatives for a mount point
want the same verification and are optional alike, that the entries of a verified boot are of
one version, also for a dynamic system update, and that `/metadata` is not required.

The `MC` modules give the constants values. The theorems about a module `M` are in `MProofs`:
`ServiceProofs`, `InitLoopProofs`, `RebootProofs`, `PropertiesProofs`, `PropertyBootProofs`,
`SubcontextProofs`, `RcParserProofs` and `FirstStageProofs`.

## Runs

| Run | Instance | Shows |
|---|---|---|
| `service_lifecycle` | a daemon whose `onrestart` restarts a oneshot rc-disabled service; all class commands and start/stop/restart/oneshot control messages, a timeout, failing starts, 3 pids | children are tracked (`LiveChildIsTracked`), a pid is the service's own and a skipped kill harmless (`SignalsHitTheService`), only wanted restarts happen; the shutdown order names every running service, `init.svc.*` tells who has a process and who will be restarted (`SvcPropIsTrue`); stop, reset and restart requests survive the reaping, and a restart request is not dropped (`RequestsSurvive`) |
| `service_boot` | an updatable daemon, an `exec_start`ed oneshot, one temporary service; `perform_apex_config`, post-data commands, reparented orphans | commands are held back exactly while an exec service has a process (`ExecCommands`), updatable services wait for the APEX configs (`UpdatableWaits`), every delayed start is carried out before it is forgotten (`DelayedAreStarted`) |
| `service_failures` | a critical daemon under an Innit restart rule and a console daemon, both with `reboot_on_failure`; all four failures of `Start`, by commands, control messages, post-data starts and restarts | init brings the device down for a failing service only with cause (`RebootIsJustified`), and always does where `reboot_on_failure` asks for it, whichever step of `Start` fails and whoever called it (`FailuresReboot`) |
| `service_live` | as lifecycle, with start/stop messages only | stopped services go down, crashed ones come back (`SupervisionProceeds`) |
| `init_loop` | boot script of five actions using every command, two properties, client sets, `reboot,recovery` and `reboot,userspace`, three control clients and a queue that takes two messages (`CtlLimit` 1) | no lost wake-up, wait, trigger or reply; quiet shutdown; control messages answered once; accepted shutdowns happen |
| `reboot` | an application (from an APEX, possibly unkillable), logd, vold, watchdogd; shutdown with fsck, reboot to recovery, userspace reboot, a bad command; init may crash at the umount or while vdc runs | fsck is safe; the monitor does not fire early, however late it is scheduled; userspace resumes clean; recovery has its command; a shutdown that has begun ends unless fsck hangs |
| `properties` | two stored properties with defaults and legacy files (one insecure), restorecon; stored, relabelling, refused and unknown requests, two requests, two loads, one failing step, one power loss; a client that trickles its request in pieces of a byte, at half and one and a half milliseconds of a budget of two, with signals | refinement of `DurableMap`; acknowledged sets survive; no relabelling is lost; no client holds the thread beyond its budget, but for the fraction of a millisecond `PollIn` drops with each piece (`PropertyThreadIsFree`) |
| `property_boot` | all combinations of a few alternatives for the kernel sources, the files of five partitions and the contexts | precedence; derived identity fits its sources |
| `subcontext` | a vendor action with a command of every kind, two deaths or garbled replies, 5 pids of which `fork` takes any free one | one process, no stray signal, no command twice, no wait for good |
| `rc_parser` | any four lines of an alphabet, for each policy (none, strict, lenient, malformed), API level and group of options that know of each other | no gate of the policy is gone round on any way in, and each says what the file says; sections do not leak; services are well formed |
| `ueventd` | eleven small groups of devices (a shared link, a mapper name, odd subsystems, an unlabelled node, an oversized event, firmware in each kind of directory), two workers, a socket of two events, one fault | `/dev` agrees with the kernel; firmware requests that are not `Abandoned` are answered, and "not found" only if the file is nowhere |
| `first_stage` | dynamic partitions with no, kernel and user-space snapshots, with and without DSU and forced normal boot, console, debug ramdisk; a legacy, an unverifiable and an empty fstab, verification turned off, vbmeta of the device tree; recovery | what is mounted is complete, and verified but for the two exceptions `MountsAreSound` names; boots complete across the hand-over of snapuserd |

**Bounds.** `Service`: two services are enough for one to act on another through `onrestart`,
a class command or a delayed start; no code path relates three. Three pids are one more than
the services (plus temporary service) that can have a process, so that a pid is recycled while
another is held; pids are symmetric. `CrashLimit` stands for the 4 of the code
(`service_failures`, the run with a critical service, uses 1, so that the limit is exceeded); `MaxDelayed` bounds the names
delayed twice. `InitLoop`: `MaxSets` bounds what clients set besides `ro.*`: two, so
that a set can race a reboot request and one request another, and a property can move away from
the value an action asks for and back; `CtlLimit` is 1, and as the code drops a message that finds
*more* than the limit, the queue takes two: with three clients it fills, overflows and has to wake
the loop for a second message.
`Reboot`: time limits of one or two ticks, so that each may expire before or after any other
event; the monitor misses a post for any time and its deadline by one tick; `WordSize` 16 is far
above them, so that a wrapped remaining time is recognised.
`CrashAt` names the points where init may receive a fatal signal. The path that shows an
animation (`BootAnim`, `SurfaceFlinger`, `BlankScreen`) is in the module and not in the
instance, which would grow too large. `Properties`: one power loss and one failing step, at
any point each, with two requests: a second of either meets only states that the first can
already produce, or a map that is no longer `sound`. One client trickles its request (two bytes
in each part, `Waits` 1 and 3 steps of half a millisecond, `Timeout` 2), so that the budget is
spent in several pieces; the others send theirs at once or let it time out, which keeps the
states of a connection from multiplying those of the storage. One path is asked for twice. `Subcontext`: two deaths, the second
during the restart after the first; each restart takes a pid, and one is recycled. `RcParser`:
a leak or an override takes two sections, each with one line; `InitScripts` are the scripts
`ro.boot.init_rc` may name. `Ueventd`: the devices of a
group are those that share a path, a link or a rule; `RcvBuf` 2 lets the socket overflow;
`MaxKids` bounds the children of a firmware request that is announced several times.

**Deadlock** is checked for `service_lifecycle`, `service_boot` and `service_live`. The others
may stop: init may abort (`service_failures`), the device goes down (`init_loop`, `reboot`),
or a behaviour has used up its requests, files or events. There the liveness properties
(`ControlExactlyOnce`, `ShutdownHappens`, `EveryShutdownEnds`, `PropertyThreadIsFree`,
`RestoreconHappens`, `CommandReturns`, `FirmwareServed`, `BootCompletes`) say that nothing stops
with work left.

**Fairness.**

* `Service`: the loop visits every service and reaps every zombie in each iteration, however
  many commands it handles, hence strong fairness for `RestartDue` and `ReapOneProcess`;
  pending calls are made, SIGKILL takes effect, time passes. Nothing makes a live process
  exit by itself.
* `InitLoop`: each thread runs while it can; nothing is assumed of clients, of exec'd processes
  or of the watchdog. Clients are finitely many, so that they cannot keep the property thread
  from the main thread's request; in the code the backlog of the listening socket is served
  in order.
* `Reboot`: init's own steps, the monitor, the watchdog, the fatal child and time proceed;
  vdc, apexd, swapoff, fsck, the services and the system calls `umount2` and `sync` need not.
* `Properties`: the two threads run and relabelling returns. `RestoreconSet` is a
  request to the property thread, which is free again and again and serves its backlog in
  order, hence strong fairness. No client is assumed to send anything: `poll` returns on time, and
  the wait ends by its time-out.
* `Subcontext`: both processes run, and builtins return.
* `Ueventd`: ueventd, its workers and children and the boot proceed; the kernel and an external
  firmware handler need not.
* `FirstStage`: init runs, and a daemon that was started attaches. No device need appear, and the
  daemon may fail to start.

Every property has a mutant in `PROJECT.json`, a plausible bug of the code (a forgotten reset,
a lock not held, a missing fsync, two steps in the wrong order) that breaks it. The mutated
forms stand beside the definitions, named `<definition>_<what is wrong>`.

## Proofs

What the proof modules show holds for every value of the constants: any services, options,
scripts, properties, requests, timeouts, policies, numbers of pids, deaths, faults and power
losses, within the named assumptions of the modules (types, and that the values standing for
"none" are none of the others). Where a theorem needs more, its `ASSUME` says so.

| Theorem | Property | Beyond the types of the constants |
|---|---|---|
| `ServiceProofs`: `TypeCorrect`, `ChildrenAreTracked`, `SignalsAlwaysHitTheService`, `RestartsAreWanted` | `TypeOK`, `LiveChildIsTracked`, `SignalsHitTheService`, `OnlyWantedRestarts` | |
| `ShutdownOrderAlwaysComplete` | `ShutdownOrderIsComplete` | |
| `UpdatablesAlwaysWait` | `UpdatableWaits` | |
| `RequestsAlwaysSurvive` | `RequestsSurvive` | `NoDisablingRule`: no log or ignore rule of the policy, which disables the service that is to be restarted |
| `SvcPropIsAlwaysTrue` | `SvcPropIsTrue` | |
| `RebootsAreJustified` | `RebootIsJustified` | `CrashLimit > 0` (4 in the code) |
| `FailuresAlwaysReboot` | `FailuresReboot` | |
| `ExecAlwaysWaits` | `ExecCommands` | `OneExecAtATime`: exec commands stand alone, as commands of actions do, and not in `onrestart` |
| `InitLoopProofs`: `MainLoopTypes`, `ShutdownIsAlwaysQuiet`, `WaitIsAlwaysWoken`, `NoWakeupIsEverLost`, `NoTriggerIsEverLost`, `ControlAlwaysAnsweredOnce` | `TypeOK`, `ShutdownIsQuiet`, `WaitIsWoken`, `NoLostWakeup`, `TriggersNotLost`, the safety half of `ControlExactlyOnce` | |
| `RebootProofs`: `MonitorIsAlwaysPatient` | `MonitorIsPatient` | |
| `FsckIsAlwaysSafe`, `ResumeIsAlwaysClean`, `RecoveryAlwaysHasCommand` | `FsckIsSafe`, `ResumeIsClean`, `RecoveryHasCommand` | |
| `PropertiesProofs`: `AcknowledgedAlwaysSurvives`, `FileIsDurableMap` | `AcknowledgedSurvives`, `IsDurableMap` | |
| `SubcontextProofs`: `RestartIsAlwaysClean`, `CommandsExecuteAtMostOnce` | `RestartIsClean`, `ExecutedAtMostOnce` | |
| `RcParserProofs`: `SectionsNeverLeak`, `ServicesAlwaysWellFormed`, `GatesAreNeverBypassed`, `PolicyIsAlwaysEnforced` | `SectionsDoNotLeak`, `ServicesAreWellFormed`, `GatesHold` (a conjunct of `PolicyIsEnforced`), `PolicyIsEnforced` | |
| `PropertyBootProofs`: `PrecedenceAlwaysHolds`, `IdentityIsAlwaysConsistent` | `PrecedenceHolds`, `IdentityIsConsistent` | |
| `FirstStageProofs`: `MountsAreAlwaysSound` | `MountsAreSound` | `FstabsAgree` (above) |

The arguments:

* **Service.** None of the properties is inductive. `Start` must know that a service without
  SVC_RUNNING has no pid (else a fork would orphan a child), so `RunningIffPid` is added; the fork
  takes a free slot, which is nobody's pid because pids name unreleased children
  (`PidIsOwnChild`); and the release of the zombie at the end of `Reap` must not free a pid that
  an `onrestart` command has handed to a service meanwhile, which is `ReapingInv`: the zombie is
  kept, and no service holds it. `IInv` is `TypeOK` with these; `Invariance` proves
  `Spec => []IInv`. The proof has one lemma for each thing a step can do to the invariant (a kill,
  a start, a stop, a reap, a change of flags only), each stated on the few variables it concerns.
* **Service, the rest.** Every step has one of a few shapes (a call on one service, a reap, a step
  that touches no service); lemmas say so once, and four small invariants are carried over the
  shapes. `WaitInv`: while the APEX configs are unread an updatable service has no process, and
  once they are read a delayed name still has its `clear_delayed` ahead of it.
  `ExclusiveInv`: a service to be restarted is neither stopped nor reset. `CrashInv`: while init
  lives no critical service has crashed too often. `ExecInv`: at most one service has SVC_EXEC,
  and no exec call is pending meanwhile. `RequestsSurvive`, `RebootIsJustified` and
  `FailuresReboot` are action properties, proved from these for each step; for the last, a start
  that gives no process is one of the four failures or a delay, and each asks for the shutdown.
  `SvcPropIsTrue` is false in the middle of `Reap`, between the flags and the property, so its
  invariant `PropInv` also says that the service being reaped has no process meanwhile, and that
  no call still to be made acts on it.
* **InitLoop.** `Inv` has a part per property and `Types`, which includes the `Handshake` of the
  two threads: while one serves the main thread's request, that one is in `SetProperty`.
  `Waits` also speaks of the moment before the wait is registered, when the main thread has read
  the value and holds the lock; `Wakes` of every position between a request and the handler;
  `Owed` says where the announcement of a change is on its way: in the property thread, in the
  event queue, or in the pass over all property actions at boot, which `BootPass` keeps behind the
  enabling of the triggers. That the loop over all actions finds every action that matches is
  an induction over `Matching`; it is done with a set of numbers and its least counterexample
  (`NatSetInduction`), because induction schemas cannot be used. Beside `Inv`, `Messages` says that
  a control message is with the property thread, in the queue, with the main thread or answered,
  and in only one of these (`InOnePlace`); the queue has no message twice, and the main thread holds one
  only while it handles it.
* **Reboot.** Four invariants. `MonitorInv`: what the monitor has left and what it was charged
  make up at least its budget, a wrapped remainder included, and the semaphore is
  in step with the stage. `Unmounting`: `/data` is mounted
  up to the pass that succeeds. `Stopped`: the stages of the userspace reboot and who is down by
  then. `Message`: the command was written before the target was chosen.
* **Properties.** `Inv` follows one write through its system calls: what the buffer is relative to
  the file (`Buffered`), when its data are flushed, which whole maps a power loss may leave, and
  what the client was told. It is kept while `sound` holds. For the refinement each step is shown
  to be a set, a store, a flush, a loss or a stutter of `DurableMap`; the initial states map to
  initial states.
* **Subcontext.** `Children`: who holds which pid, and that all but `pid_` are dead or signalled.
  `Exchange`: the state of the one outstanding command, needed because a command has been executed
  before its reply is read. `History`: what earlier commands have done.
* **RcParser.** `Consistent` holds of the service being parsed after every option line, accepted
  or refused; one lemma per option. `ListInv` and `ServiceInv` lift it to the lists: the service
  that is added is not in the list and shares no interface with it, or replaces the one it
  overrides (`Removed`). `ActionInv` is the same for actions; `GateInv` adds that the policy does
  not change once anything is parsed, and that the file being read has passed its gate.
* **InnitPolicy.** `GlobMatch` is `Covers` (`GlobMatchIsCovers`, by induction over the pattern; three
  stars in a row are why a cut may be moved). `HasRead` says that the policy has the rules of the
  elements read so far and no others, in their order, a rule for a name in front of every "*"; each
  element keeps it (`ElementRead`), so each section and the file do (`FileRead`). From that each
  gate says what the file says (`GateMeansFile`, `FailureMeansFile`, `CommandMeansFile`). What is
  held against the rules are paths, the expanded imports too (`FilesInv`), no service is called
  "*", and the path `exec` checks is the program it runs (`ProgramIsChecked`).
* **PropertyBoot.** Reading a file into a map gives that map with what the file gives by itself in
  front (`Overrides`); this goes through the imports and is an induction over the lines of both
  files. The invariant then says of every key that the last of the files read so far that sets it
  has won, and that what comes before the files is left of the others. The derivations write keys
  no earlier one of them has written, so what each puts there stands at the end; `KernelsAssumption`
  keeps the kernel's sources away from those keys.
* **FirstStage.** An entry of the fstab that is neither mounted nor optional is still ahead of the
  loop: that is the invariant, and at the end of the loop there is nothing ahead. It needs what the
  loop has behind it, which mount points it covers (an induction, for the alternatives that are
  skipped and for `skip_mount.cfg`), and that a mount has asked for verification of the entry
  that stands for its mount point. `SetupSelinux` mounts late only what is not mounted then, so
  nothing the first stage requires.

**Only model-checked**, and why:

* all liveness (`SupervisionProceeds`, `ControlExactlyOnce`, `ShutdownHappens`,
  `EveryShutdownEnds`, `PropertyThreadIsFree`, `RestoreconHappens`, `CommandReturns`,
  `FirmwareServed`, `BootCompletes`): out of the prover's reach. Of `ControlExactlyOnce` the
  safety half, `ControlAnsweredOnce`, is proved; the safety halves of `PropertyThreadIsFree`
  (`WaitIsBounded`) and `FirmwareServed` (`NoFirmwareMissed`) are left to the runs with the rest;
* `DelayedAreStarted`: it speaks of the moment at which the list is emptied and needs the order of
  all the calls `MarkServicesUpdate` has made by then;
* `NodesMatchKernel`: it compares folds over the lines of `ueventd.rc` and over the events of every
  device with definitions over all of them, and waits for the induction over each.

## Observations

What the modelling showed about the code. The runs do not claim the opposite: where an
observation is an exception to a property, the comment of the property names it. Where a line
of the repository says otherwise than the code does, it is quoted.

*Services.* `perform_apex_config` starts delayed services before the default mount namespace
is ready, and `Start` then marks them for the bootstrap namespace for good
(`builtins.cpp:1492`). With an Innit log or ignore rule, init's own SIGKILL of a requested
restart counts as a failure and disables the service (`service.cpp:286`). A fork failure on
an automatic restart leaves the service down for good (`service.cpp:611`), a `stat` failure
leaves `init.svc.*` at `restarting` (`service.cpp:508`). `exec_start` of a oneshot that is being
stopped releases the exec wait when the old process is reaped (`service.cpp:345`),
before the service has run, where `src/init/README.md:487` has "halt the processing of additional
init commands until it returns". There is one
`is_exec_service_running_` for all: an `exec` among the commands of `onrestart` that runs while
another exec service has its process shares the flag, and whichever is reaped first releases the
wait (`OneExecAtATime` excludes it). `Reap` sets `init.svc.*` to `restarting` after the `onrestart`
commands, also when one of them has started the service itself (`service.cpp:409`). An
updatable service with `reboot_on_failure` that is merely delayed triggers the reboot
(`service.cpp:464`), where `src/init/README.md:344` only says "the execution is delayed". A stopped service whose start was delayed is started
all the same. A
policy that clears `on_failure_reboot_target_` does so for good.

*Main loop.* The full reboot requested when the userspace-reboot watchdog cannot be forked is
cleared by `set_do_shutdown(false)` of the request being handled (`init.cpp:957`)
although the log says "Switching to full reboot" (`reboot.cpp:932`), and messages have been stopped by then (`reboot.cpp:1063`), so that no later
request gets through; a `sys.powerctl` set while an invalid one is handled is lost in the same
way. An action with two
property triggers is compared when its event is dequeued (`action.cpp:199`), so it is skipped
when the other property has changed meanwhile. A userspace reboot before
`queue_property_triggers` has run drops it from the queue, and property triggers stay
disabled (`TriggersNotLost` excludes this case); a userspace reboot, unlike a full one, has
to wait for an exec service or property wait that holds back commands. A `wait_for_prop` in an
`on shutdown` action can no longer be satisfied (`reboot.cpp:1061`). A legacy client is told of
success although its control message was dropped (`property_service.cpp:404`); control
messages queued when a shutdown begins are not answered (`init.cpp:991`).

*Reboot.* The services of class animation are put into `stop_first` before they are made shutdown
critical, so they are stopped all the same (`reboot.cpp:657`, `:688`). When the monitor thread
is scheduled after its deadline, the unsigned remaining time wraps and it waits almost for ever
(`reboot.cpp:398`). fsck is waited for without a limit while the monitor is
paused, and charged to the monitor until the thread notices the pause.

*Properties.* Results of `fsync` are ignored. A transient read error while the file is loaded
makes init write what it has in memory over it. Legacy files that are unreadable or insecure
are removed with the others after the migration. A `persist.*` property set before the load
is overwritten by it. Each piece of a request loses the fraction of a millisecond it was waited
for, so that a client that sends single bytes holds the thread a little longer than its budget
(`WaitIsBounded` has the sum).

*Subcontext.* `SubcontextTerminate` uses `subcontext` without asking whether there is one.

*Parsing and policy.* An overriding service cannot declare the interfaces of the one it
overrides (`service_parser.cpp:208`). A `user` line that fails leaves the service running as
root. `exec_background` does not pass the gate of `exec` (`builtins.cpp:341`),
although `README.innit.md:34` names exec paths and `builtins.cpp:132` has "Innit must gate the real
executable", and a `command-policy` rule for a verb other than the ten of `GatedVerbs`
is never asked, where `innit/innit_policy.h:148` has
"the entire command line is rejected". Files that import each other are
read without bound (`import_parser.cpp:59`). In a build with Innit only `init.rc` is parsed at
boot, so the list of late imports is empty. A trailing `&&` is accepted. In APEX files `on` and
`import` are taken for options of the service above. A malformed `innit.xml` halts the boot.

*ueventd.* Cold-boot workers may handle the events of one device out of order (`Raced`);
events are lost while ueventd is dead or its socket full, and after cold boot a restarted
ueventd does not walk `/sys` again. A device-mapper node may have the owner of one rule and
the mode of another. A link two devices claim stays with the first and goes with it. Two children
may serve one firmware request; a short `sendfile` is reported as a success
(`firmware_handler.cpp:70`); a failed `fork` leaves the request unanswered. `RunExternalHandler`
waits for the handler before it reads its output, and so for ever when that fills the pipe
(`firmware_handler.cpp:163`).

*First stage.* With the console on failure and user-space snapshots, the `FirstStageMount`
object that mounts is not the one that launched snapuserd, and the hand-over ends in
`LOG(FATAL)` (`first_stage_mount.cpp:519`; `SetUpByAnotherObject`). `KillFirstStageSnapuserd`
sends SIGTERM and does not wait, while its comment wants "the process is gone"
(`snapuserd_transition.cpp:210`): the old and the new daemon may overlap, which `FirstStage`
shows to be harmless to the boot. Of the entries for one mount point only the first is asked
whether it is to be verified, so an fstab whose alternatives disagree, or that mixes versions of
verified boot, may have one mounted as it is (`FstabsAgree` excludes them). A `/metadata` that
cannot be mounted leaves the fstab, and the boot goes on without it. `/product` or `/system_ext`
whose verification has failed, and that is `no_fail`, is skipped by the first stage and then mounted
from the bare logical partition by `MountMissingSystemPartitions` (`selinux.cpp:684`;
`MountsAreSound` names the case).

## Not modelled

* Mount namespaces beyond the question whether the default one is ready, keychords, the
  mount handler, file commands (`mkdir`, `chmod`, `write`, `insmod` ...): system calls on state
  that no other component keeps.
* Bootchart, the registration with lmkd, log files, dumps, formatting.
* Host tools (`host_init_verifier`, `foreign/tools/innit_menuconfig.c`, build scripts): not part
  of the running system.
* The tokenizer's quoting and escapes; a line of `RcParser` is its tokens. The length limit
  of names (`PROP_VALUE_MAX`: symbols have no length), and attributes of `innit.xml` that are there
  and empty, which every reader of the code treats like absent ones.
* Property files that import each other through several levels without filters
  (`ImportsAssumption`).
* ueventd: modules loaded by modalias, bind and online events, failures of `mknod`.
* First stage: the console's shell, the order of kernel modules, the compilation of a split
  policy (one choice of its source).
* Within the second stage: `reap_callbacks_` (used only to reboot after a failing vdc,
  `builtins.cpp:1278`), a failing `createProcessGroup` (`service.cpp:631`), what a child does between
  `fork` and `exec`, SIGTERM in containers (`init.cpp:591`), actions added at run time, and the several property reads of one trigger
  check, which `InitLoop` makes in one step.
* Within the shutdown: quota sync, the details of zram, the recorded reboot reason.

`PROJECT.json` gives the reason for each component.

## Plan

The models cover the components of the plan, and the safety of what they cover is proved but for
the properties named above. Left to do:

1. `Ueventd`: `NodesMatchKernel`, from what a rule of `ueventd.rc` makes of a device.
2. `Service`: `DelayedAreStarted`, from the order of the calls of `MarkServicesUpdate`.
3. `Properties`: `WaitIsBounded`, from the budget that is left.
