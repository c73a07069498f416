------------------------------ MODULE Service ------------------------------
(***************************************************************************)
(* Service supervision in init's second stage: service.cpp, the service    *)
(* list (service_list.cpp), child reaping (sigchld_handler.cpp), the       *)
(* periodic actions of the main loop (HandleProcessActions, init.cpp) and  *)
(* the builtin commands and control messages that act on services.         *)
(*                                                                         *)
(* All of this runs on init's main thread.  Only the kernel runs beside    *)
(* it: children exit, pids are recycled and time passes between any two    *)
(* steps.  A command that loops over a class, and the onrestart commands   *)
(* that Service::Reap executes, are a sequence `work' of calls the main    *)
(* thread still has to make; it does nothing else until `work' is empty.   *)
(***************************************************************************)
EXTENDS Naturals, Sequences, FiniteSets

CONSTANTS
  Configured,      \* services defined by the parsed .rc files
  Temps,           \* identities for the services made by exec / exec_background
  Pids,            \* process ids; small, so that they are recycled
  NoPid, NoService,
  RcFlags,         \* [Configured -> SUBSET Flag]: the flags the .rc file sets
  Updatable,       \* services with the `updatable' option
  RebootOnFailure, \* services with a `reboot_on_failure' target
  HasTimeout,      \* services with a `timeout_period'
  Apexd,           \* the services that run /system/bin/apexd
  OnRestart,       \* [Configured -> Seq(Call)]: their onrestart commands
  FailureAction,   \* [Configured -> action]: the Innit policy's failure rules
  PolicyActive,    \* is an Innit policy loaded?
  Commands,        \* set of Seq(Call): the commands actions may execute
  CtlCalls,        \* SUBSET Call: the control messages that may arrive
  StartFailures,   \* which of Start's failure paths the environment exercises
  ApexUpdatable,   \* ro.apex.updatable
  Orphans,         \* are grandchildren reparented to init?
  NoFatal,         \* services with init.svc_debug.no_fatal set
  CrashLimit,      \* 4 in the code: the crash that exceeds it is fatal
  MaxDelayed       \* bound: no command is run while this many starts are delayed

Services == Configured \cup Temps

Flag == {"DISABLED", "ONESHOT", "RUNNING", "RESTARTING", "CONSOLE", "CRITICAL",
         "RESET", "RC_DISABLED", "RESTART", "DISABLED_START", "EXEC", "TEMPORARY"}

\* A call the main thread makes on one service (or on the service list, in
\* which case the svc field is not used).
CallName == {"Start", "StartIfNotDisabled", "StartIfPostData", "Enable",
             "Stop", "Reset", "ResetIfPostData", "Restart", "ExecStart",
             "oneshot_on", "oneshot_off", "exec", "exec_background",
             "MarkPostData", "MarkServicesUpdate", "clear_delayed",
             "SetDefaultMountNamespaceReady"}

Call == [op : CallName, svc : Services]

Failure == {"console", "stat", "context", "fork"}

ASSUME ServiceConstants ==
  /\ Configured \cap Temps = {}
  /\ NoPid \notin Pids
  /\ NoService \notin Services
  /\ RcFlags \in [Configured -> SUBSET {"DISABLED", "RC_DISABLED", "ONESHOT",
                                        "CRITICAL", "CONSOLE"}]
  /\ Updatable \subseteq Configured
  /\ RebootOnFailure \subseteq Configured
  /\ HasTimeout \subseteq Configured
  /\ Apexd \subseteq Configured
  /\ OnRestart \in [Configured -> Seq(Call)]
  /\ FailureAction \in [Configured -> {"reboot", "restart", "log", "ignore"}]
  /\ PolicyActive \in BOOLEAN
  /\ Commands \subseteq Seq(Call)
  /\ CtlCalls \subseteq Call
  /\ StartFailures \subseteq Failure
  /\ ApexUpdatable \in BOOLEAN
  /\ Orphans \in BOOLEAN
  /\ NoFatal \subseteq Configured
  /\ CrashLimit \in Nat
  /\ MaxDelayed \in Nat

VARIABLES
  (* members of Service *)
  flags,           \* flags_
  pid,             \* pid_
  cgroupEmpty,     \* process_cgroup_empty_
  rebootTarget,    \* does on_failure_reboot_target_ hold a target?
  crashCount,      \* crash_count_, saturating at CrashLimit + 1
  inWindow,        \* now < time_crashed_ + fatal_crash_window_
  restartDue,      \* now > time_started_ + restart_period_
  timeoutDue,      \* now > time_started_ + timeout_period_
  postData,        \* post_data_
  runningAtReset,  \* running_at_post_data_reset_
  bootstrapNs,     \* use_bootstrap_ns_
  svcProp,         \* the property init.svc.<name>
  (* members of ServiceList and statics of Service *)
  listed,          \* the services in services_
  startSeq,        \* the running services, in the order of start_order_
  execRunning,     \* Service::is_exec_service_running_
  servicesUpdated, \* services_update_finished_
  delayed,         \* delayed_service_names_
  postDataMark,    \* ServiceList::post_data_
  (* the main thread *)
  work,            \* calls it still has to make before it returns to its loop
  reaping,         \* the Reap it is in the middle of: the service, its pid
  shutdownReq,     \* trigger_shutdown() has been called
  aborted,         \* init died in LOG(FATAL)
  updatableCrash,  \* sys.init.updatable_crashing = 1
  (* the rest of the system *)
  proc,            \* the process table, restricted to init's children
  nsReady,         \* IsDefaultMountNamespaceReady()
  bootCompleted    \* sys.boot_completed

crashVars == <<crashCount, inWindow, updatableCrash, aborted>>
postDataVars == <<postData, runningAtReset, postDataMark>>
updateVars == <<servicesUpdated, delayed>>
timeVars == <<restartDue, timeoutDue>>
envVars == <<nsReady, bootCompleted>>
\* What Start() and its callers write.
startVars == <<flags, pid, cgroupEmpty, svcProp, startSeq, execRunning, listed,
               proc, restartDue, timeoutDue, postData, bootstrapNs, delayed,
               shutdownReq>>

vars == <<flags, pid, cgroupEmpty, rebootTarget, svcProp, startSeq, execRunning,
          listed, proc, work, reaping, shutdownReq, bootstrapNs, crashVars,
          postDataVars, updateVars, timeVars, envVars>>

NotReaping == [svc |-> NoService, pid |-> NoPid]

FreeSlot == [st |-> "free", owner |-> NoService, ok |-> TRUE]

Init ==
  /\ flags = [s \in Services |-> IF s \in Configured THEN RcFlags[s] ELSE {}]
  /\ pid = [s \in Services |-> NoPid]
  /\ cgroupEmpty = [s \in Services |-> FALSE]
  /\ rebootTarget = [s \in Services |-> s \in RebootOnFailure]
  /\ crashCount = [s \in Services |-> 0]
  /\ inWindow = [s \in Services |-> TRUE]
  /\ restartDue = [s \in Services |-> FALSE]
  /\ timeoutDue = [s \in Services |-> FALSE]
  /\ postData = [s \in Services |-> FALSE]
  /\ runningAtReset = [s \in Services |-> FALSE]
  /\ bootstrapNs = [s \in Services |-> FALSE]
  /\ svcProp = [s \in Services |-> ""]
  /\ listed = Configured
  /\ startSeq = <<>>
  /\ execRunning = FALSE
  /\ servicesUpdated = FALSE
  /\ delayed = <<>>
  /\ postDataMark = FALSE
  /\ work = <<>>
  /\ reaping = NotReaping
  /\ shutdownReq = FALSE
  /\ aborted = FALSE
  /\ updatableCrash = FALSE
  /\ proc = [p \in Pids |-> FreeSlot]
  /\ nsReady = FALSE
  /\ bootCompleted = FALSE

-----------------------------------------------------------------------------
(* Service: the pieces its methods share. *)

Has(s, f) == f \in flags[s]

(* An operator named <Definition>_<Fault> is not part of the model: it is the   *)
(* definition as a plausible coding error would have it, which a property is    *)
(* shown to notice.                                                             *)

\* NotifyStateChange: temporary services have no init.svc property.
NotifyStateChange(s, state) ==
  svcProp' = IF s \in Temps THEN svcProp ELSE [svcProp EXCEPT ![s] = state]

\* What killProcessGroup(SIGKILL) leaves of the service's main process: it is
\* gone before the call returns, or it still has to die of the signal.
KillOutcomes(st) == IF st = "zombie" THEN {"zombie"} ELSE {"killed", "zombie"}

\* KillProcessGroup(SIGKILL).  A result of 0 means the whole group is gone.
KillProcessGroup(s) ==
  LET p == pid[s] IN
  IF cgroupEmpty[s]
  THEN UNCHANGED <<proc, cgroupEmpty>>
  ELSE \E st \in KillOutcomes(proc[p].st), empty \in BOOLEAN :
         /\ empty => st = "zombie"
         /\ proc' = [proc EXCEPT ![p].st = st,
                                 ![p].ok = @ /\ proc[p].st = "zombie"]
         /\ cgroupEmpty' = [cgroupEmpty EXCEPT ![s] = empty]

\* A new process has a new, populated process group.
ResetCgroup_Forgotten(s) == UNCHANGED cgroupEmpty
ResetCgroup(s) == cgroupEmpty' = [cgroupEmpty EXCEPT ![s] = FALSE]

\* ExecStart() holds back further commands, UnSetExec() releases them.
SetExec(x) == execRunning' = (execRunning \/ x # {})
UnSetExec_Forgotten(s) == UNCHANGED execRunning
UnSetExec(s) == execRunning' = (execRunning /\ ~Has(s, "EXEC"))

ClearedForStart_RunningToo(f) ==
  f \ {"DISABLED", "RESTARTING", "RESET", "RESTART", "DISABLED_START", "RUNNING"}

\* The flags Start() clears before it looks at anything else.
ClearedForStart(f) ==
  f \ {"DISABLED", "RESTARTING", "RESET", "RESTART", "DISABLED_START"}

\* The scope guard of Start() and ExecStart(): a failed start of a service with
\* a reboot_on_failure target shuts the system down.
StartFailed(s) == shutdownReq' = (shutdownReq \/ rebootTarget[s])

MustWait_Never(s) == FALSE

\* An updatable service is not started before the APEX configs are parsed.
MustWait(s) == s \in Updatable /\ ~servicesUpdated

\* Start() of such a service.
DelayService(s) ==
  /\ MustWait(s)
  /\ delayed' = Append(delayed, s)
  /\ StartFailed(s)
  /\ UNCHANGED <<flags, pid, cgroupEmpty, svcProp, startSeq, execRunning, listed,
                 proc, timeVars, postData, bootstrapNs>>

\* Start() of a service that is still running: f are its flags, x the flags a
\* caller adds on success ({"EXEC"} for ExecStart).
StartRunning(s, f, x) ==
  /\ "RUNNING" \in f
  /\ flags' = [flags EXCEPT ![s] =
       ClearedForStart(f) \cup x \cup
       (IF "ONESHOT" \in f /\ f \cap {"DISABLED", "RESET"} # {}
        THEN {"RESTART"} ELSE {})]
  /\ SetExec(x)
  /\ UNCHANGED <<pid, cgroupEmpty, svcProp, startSeq, listed, proc, timeVars,
                 postData, bootstrapNs, delayed, shutdownReq>>

\* Whatever starts before the APEXes are there keeps to the bootstrap namespace;
\* apexd itself sets up the other one.
PreApexd(s) == ~nsReady /\ s \notin Apexd

\* Start() fails: no console, no executable, no SELinux context, or no process.
StartFails(s, f) ==
  /\ "RUNNING" \notin f
  /\ \E why \in StartFailures
               \cup {w \in {"fork"} : \A p \in Pids : proc[p].st # "free"} :
       /\ why = "console" => "CONSOLE" \in f
       /\ flags' = IF s \in Temps THEN flags  \* the object is destroyed
                   ELSE [flags EXCEPT ![s] = ClearedForStart(f) \cup
                     (IF why \in {"console", "stat"} THEN {"DISABLED"} ELSE {})]
       /\ bootstrapNs' = IF s \in Temps \/ why # "fork" THEN bootstrapNs
                         ELSE [bootstrapNs EXCEPT ![s] = @ \/ PreApexd(s)]
       /\ postData' = IF s \in Temps \/ why # "fork" THEN postData
                      ELSE [postData EXCEPT ![s] = postDataMark]
  /\ StartFailed(s)
  /\ UNCHANGED <<pid, cgroupEmpty, svcProp, startSeq, execRunning, listed, proc,
                 timeVars, delayed>>

\* Start() forks a process.  The caller adds the flags x, and AddService lists
\* a temporary service.  createProcessGroup() is taken to succeed: what the signals
\* reach when it fails, which Start() only logs, is up to libprocessgroup.
StartForks(s, f, x) ==
  /\ "RUNNING" \notin f
  /\ \E p \in Pids :
       /\ proc[p].st = "free"
       /\ proc' = [proc EXCEPT ![p] = [st |-> "alive", owner |-> s, ok |-> TRUE]]
       /\ pid' = [pid EXCEPT ![s] = p]
  /\ flags' = [flags EXCEPT ![s] = ClearedForStart(f) \cup x \cup {"RUNNING"}]
  /\ bootstrapNs' = [bootstrapNs EXCEPT ![s] = @ \/ PreApexd(s)]
  /\ postData' = [postData EXCEPT ![s] = postDataMark]
  /\ startSeq' = Append(startSeq, s)
  /\ ResetCgroup(s)
  /\ restartDue' = [restartDue EXCEPT ![s] = FALSE]
  /\ timeoutDue' = [timeoutDue EXCEPT ![s] = FALSE]
  /\ listed' = listed \cup {s}
  /\ SetExec(x)
  /\ NotifyStateChange(s, "running")
  /\ UNCHANGED <<delayed, shutdownReq>>

\* Start() with the flags f, which ExecStart() may just have changed.
StartWith(s, f, x) ==
  \/ StartRunning(s, f, x)
  \/ StartFails(s, f)
  \/ StartForks(s, f, x)

Start(s) ==
  \/ DelayService(s)
  \/ ~MustWait(s) /\ StartWith(s, flags[s], {})

\* ExecStart() does not delay an updatable service, it fails.
ExecStart(s) ==
  \/ /\ MustWait(s)
     /\ StartFailed(s)
     /\ UNCHANGED <<flags, pid, cgroupEmpty, svcProp, startSeq, execRunning,
                    listed, proc, timeVars, postData, bootstrapNs, delayed>>
  \/ /\ ~MustWait(s)
     /\ StartWith(s, flags[s] \cup {"ONESHOT"}, {"EXEC"})

\* do_exec and do_exec_background: a temporary oneshot service, which is added
\* to the list only when it started.  Bound: at most |Temps| at a time.
ExecTemporary(s, x) ==
  \/ s \notin listed /\ StartWith(s, {"ONESHOT", "TEMPORARY"}, x)
  \/ s \in listed /\ UNCHANGED startVars

StopFlags_KeepsRestarting(f, how) ==
  IF how = "RESTART" THEN (f \cup {how}) \ {"DISABLED", "RESET"}
  ELSE (f \cup {how}) \ {"RESTART"}

\* StopOrReset: the flags for how = DISABLED, RESET or RESTART.
StopFlags(f, how) ==
  LET g == f \ {"RESTARTING", "DISABLED_START"}
      h == IF how = "RESET"
           THEN g \cup (IF "RC_DISABLED" \in g THEN {"DISABLED"} ELSE {"RESET"})
           ELSE g \cup {how}
  IN h \ (IF how = "RESTART" THEN {"DISABLED", "RESET"} ELSE {"RESTART"})

StopOrReset_AlwaysStopping(s, how) ==
  /\ flags' = [flags EXCEPT ![s] = StopFlags(@, how)]
  /\ IF pid[s] # NoPid THEN KillProcessGroup(s) ELSE UNCHANGED <<proc, cgroupEmpty>>
  /\ NotifyStateChange(s, "stopping")
  /\ UNCHANGED <<pid, startSeq, execRunning, listed, timeVars, postData,
                 bootstrapNs, delayed, shutdownReq>>

StopOrReset(s, how) ==
  /\ flags' = [flags EXCEPT ![s] = StopFlags(@, how)]
  /\ IF pid[s] # NoPid
     THEN KillProcessGroup(s) /\ NotifyStateChange(s, "stopping")
     ELSE NotifyStateChange(s, "stopped") /\ UNCHANGED <<proc, cgroupEmpty>>
  /\ UNCHANGED <<pid, startSeq, execRunning, listed, timeVars, postData,
                 bootstrapNs, delayed, shutdownReq>>

\* Restart(): stop a running service and let Reap() restart it.
Restart(s) ==
  \/ Has(s, "RUNNING") /\ StopOrReset(s, "RESTART")
  \/ ~Has(s, "RUNNING") /\ ~Has(s, "RESTARTING") /\ Start(s)
  \/ ~Has(s, "RUNNING") /\ Has(s, "RESTARTING") /\ UNCHANGED startVars

SetFlagsOnly(s, f) ==
  /\ flags' = [flags EXCEPT ![s] = f]
  /\ UNCHANGED <<pid, cgroupEmpty, svcProp, startSeq, execRunning, listed, proc,
                 timeVars, postData, bootstrapNs, delayed, shutdownReq>>

StartIfNotDisabled(s) ==
  \/ ~Has(s, "DISABLED") /\ Start(s)
  \/ Has(s, "DISABLED") /\ SetFlagsOnly(s, flags[s] \cup {"DISABLED_START"})

\* Enable(): Start() then runs on the flags Enable() has cleared.
Enable(s) ==
  LET f == flags[s] \ {"DISABLED", "RC_DISABLED"} IN
  \/ "DISABLED_START" \notin f /\ SetFlagsOnly(s, f)
  \/ /\ "DISABLED_START" \in f /\ MustWait(s)
     /\ flags' = [flags EXCEPT ![s] = f]
     /\ delayed' = Append(delayed, s)
     /\ StartFailed(s)
     /\ UNCHANGED <<pid, cgroupEmpty, svcProp, startSeq, execRunning, listed,
                    proc, timeVars, postData, bootstrapNs>>
  \/ /\ "DISABLED_START" \in f /\ ~MustWait(s)
     /\ StartWith(s, f, {})

StartIfPostData(s) ==
  \/ runningAtReset[s] /\ Start(s)
  \/ ~runningAtReset[s] /\ UNCHANGED startVars

\* ResetIfPostData(): remember what was running, for StartIfPostData().
ResetIfPostData(s) ==
  \/ postData[s] /\ StopOrReset(s, "RESET")
  \/ ~postData[s] /\ UNCHANGED startVars

-----------------------------------------------------------------------------
(* The main thread. *)

MainIdle == work = <<>> /\ reaping = NotReaping /\ ~aborted

\* The calls that go through Start() and StopOrReset() only.
ServiceCall(c) ==
  \/ c.op = "Start" /\ Start(c.svc)
  \/ c.op = "StartIfNotDisabled" /\ StartIfNotDisabled(c.svc)
  \/ c.op = "StartIfPostData" /\ StartIfPostData(c.svc)
  \/ c.op = "Enable" /\ Enable(c.svc)
  \/ c.op = "Stop" /\ StopOrReset(c.svc, "DISABLED")
  \/ c.op = "Reset" /\ StopOrReset(c.svc, "RESET")
  \/ c.op = "ResetIfPostData" /\ ResetIfPostData(c.svc)
  \/ c.op = "Restart" /\ Restart(c.svc)
  \/ c.op = "ExecStart" /\ ExecStart(c.svc)
  \/ c.op = "exec" /\ ExecTemporary(c.svc, {"EXEC"})
  \/ c.op = "exec_background" /\ ExecTemporary(c.svc, {})
  \/ c.op = "oneshot_on" /\ SetFlagsOnly(c.svc, flags[c.svc] \cup {"ONESHOT"})
  \/ c.op = "oneshot_off" /\ SetFlagsOnly(c.svc, flags[c.svc] \ {"ONESHOT"})

ListOps == {"MarkPostData", "MarkServicesUpdate", "clear_delayed",
            "SetDefaultMountNamespaceReady"}

\* Make the next call: on a service ...
CallService ==
  /\ work # <<>> /\ Head(work).op \notin ListOps
  /\ ServiceCall(Head(work))
  /\ work' = Tail(work)
  /\ runningAtReset' =
       IF Head(work).op = "ResetIfPostData" /\ postData[Head(work).svc]
          /\ Has(Head(work).svc, "RUNNING")
       THEN [runningAtReset EXCEPT ![Head(work).svc] = TRUE]
       ELSE runningAtReset
  /\ UNCHANGED <<rebootTarget, reaping, crashVars, postDataMark,
                 servicesUpdated, envVars>>

MarkPostData ==
  /\ work # <<>> /\ Head(work).op = "MarkPostData"
  /\ postDataMark' = TRUE
  /\ work' = Tail(work)
  /\ UNCHANGED <<rebootTarget, reaping, crashVars, runningAtReset,
                 servicesUpdated, envVars, startVars>>

DelayedStarts_SkipFirst ==
  [i \in 1..(Len(delayed) - 1) |-> [op |-> "Start", svc |-> delayed[i + 1]]]
DelayedStarts ==
  [i \in 1..Len(delayed) |-> [op |-> "Start", svc |-> delayed[i]]]

\* MarkServicesUpdate starts the delayed services, then forgets them.
MarkServicesUpdate ==
  /\ work # <<>> /\ Head(work).op = "MarkServicesUpdate"
  /\ servicesUpdated' = TRUE
  /\ work' = DelayedStarts
             \o <<[op |-> "clear_delayed", svc |-> Head(work).svc]>> \o Tail(work)
  /\ UNCHANGED <<rebootTarget, reaping, crashVars, runningAtReset, postDataMark,
                 envVars, startVars>>

ClearDelayed ==
  /\ work # <<>> /\ Head(work).op = "clear_delayed"
  /\ delayed' = <<>>
  /\ work' = Tail(work)
  /\ UNCHANGED <<flags, pid, cgroupEmpty, svcProp, startSeq, execRunning, listed,
                 proc, timeVars, postData, bootstrapNs, shutdownReq>>
  /\ UNCHANGED <<rebootTarget, reaping, crashVars, runningAtReset, postDataMark,
                 servicesUpdated, envVars>>

\* GenerateLinkerConfiguration, the last step of perform_apex_config; it does
\* nothing where APEXes are not updatable.
SetDefaultMountNamespaceReady ==
  /\ work # <<>> /\ Head(work).op = "SetDefaultMountNamespaceReady"
  /\ nsReady' = (nsReady \/ ApexUpdatable)
  /\ work' = Tail(work)
  /\ UNCHANGED <<rebootTarget, reaping, crashVars, runningAtReset, postDataMark,
                 servicesUpdated, bootCompleted, startVars>>

\* The main loop executes a command only while no exec service is running.
ExecuteOneCommand ==
  /\ MainIdle /\ ~execRunning
  /\ \E c \in Commands :
       /\ Len(delayed) < MaxDelayed \/ c[1].op = "MarkServicesUpdate"
       /\ work' = c
  /\ UNCHANGED <<rebootTarget, reaping, crashVars, runningAtReset, postDataMark,
                 servicesUpdated, envVars, startVars>>

\* ... but it handles control messages at any time.
HandleControlMessage ==
  /\ MainIdle /\ Len(delayed) < MaxDelayed
  /\ \E c \in CtlCalls : work' = <<c>>
  /\ UNCHANGED <<rebootTarget, reaping, crashVars, runningAtReset, postDataMark,
                 servicesUpdated, envVars, startVars>>

\* HandleProcessActions: a running service has exceeded its timeout_period ...
Timeout(s) ==
  /\ MainIdle /\ Has(s, "RUNNING") /\ timeoutDue[s]
  /\ KillProcessGroup(s)
  /\ NotifyStateChange(s, "stopping")
  /\ UNCHANGED <<flags, pid, startSeq, execRunning, listed, timeVars, postData,
                 bootstrapNs, delayed, shutdownReq>>
  /\ UNCHANGED <<work, rebootTarget, reaping, crashVars, runningAtReset,
                 postDataMark, servicesUpdated, envVars>>

RestartDue_WrongPeriod(s) ==
  /\ MainIdle /\ Has(s, "RESTARTING") /\ timeoutDue[s]
  /\ Start(s)
  /\ UNCHANGED <<work, rebootTarget, reaping, crashVars, runningAtReset,
                 postDataMark, servicesUpdated, envVars>>

\* ... or a service that exited is due to be started again.
RestartDue(s) ==
  /\ MainIdle /\ Has(s, "RESTARTING") /\ restartDue[s]
  /\ Start(s)
  /\ UNCHANGED <<work, rebootTarget, reaping, crashVars, runningAtReset,
                 postDataMark, servicesUpdated, envVars>>

-----------------------------------------------------------------------------
(* ReapOneProcess and Service::Reap.  waitid(WNOWAIT) finds a zombie; its pid   *)
(* stays taken until waitpid() in the scope guard, after Reap() has returned. *)

Zombie(p) == proc[p].st = "zombie"
WaitPid(p) == proc' = [proc EXCEPT ![p] = FreeSlot]

\* FindService(pid, &Service::pid)
Tracks(s, p) == s \in listed /\ pid[s] = p

\* start_order_ = 0: the service leaves the start order, where it occurs once.
WithoutService_Kept(seq, s) == seq
WithoutService(seq, s) ==
  IF \A i \in DOMAIN seq : seq[i] # s THEN seq
  ELSE LET k == CHOOSE i \in DOMAIN seq : seq[i] = s IN
       [i \in 1..(Len(seq) - 1) |-> IF i < k THEN seq[i] ELSE seq[i + 1]]

ReapUntracked(p) ==
  /\ MainIdle /\ Zombie(p) /\ \A s \in Services : ~Tracks(s, p)
  /\ WaitPid(p)
  /\ UNCHANGED <<flags, pid, cgroupEmpty, svcProp, startSeq, execRunning, listed,
                 timeVars, postData, bootstrapNs, delayed, shutdownReq>>
  /\ UNCHANGED <<work, rebootTarget, reaping, crashVars, runningAtReset,
                 postDataMark, servicesUpdated, envVars>>

\* The Innit policy's verdict on a failed process; without one, the service's
\* own reboot_on_failure and critical options apply.
PolicyAction(s, p) ==
  IF PolicyActive /\ s \in Configured /\ ~proc[p].ok THEN FailureAction[s]
  ELSE "reboot"

\* The flags once the policy has been applied and an exec service released.
FlagsAfterExit(s, p) ==
  LET act == PolicyAction(s, p)
      f == IF act = "reboot" THEN flags[s] ELSE flags[s] \ {"CRITICAL"}
      g == IF act \in {"log", "ignore"} THEN f \cup {"DISABLED"} ELSE f
  IN g \ {"EXEC"}

ReapCommon_ExitForgiven(s, p) ==
  /\ rebootTarget' = [rebootTarget EXCEPT ![s] = @ /\ PolicyAction(s, p) = "reboot"]
  /\ UNCHANGED shutdownReq
  /\ UnSetExec(s)
  /\ startSeq' = WithoutService(startSeq, s)
  /\ UNCHANGED <<timeVars, postDataVars, updateVars, envVars>>

\* The part of Reap() every exit goes through: the policy, reboot_on_failure,
\* UnSetExec().  What killProcessGroup reports of the rest of the process group
\* is not known.
ReapCommon(s, p) ==
  /\ rebootTarget' = [rebootTarget EXCEPT ![s] = @ /\ PolicyAction(s, p) = "reboot"]
  /\ shutdownReq' = (shutdownReq \/ (~proc[p].ok /\ rebootTarget'[s]))
  /\ UnSetExec(s)
  /\ startSeq' = WithoutService(startSeq, s)
  /\ UNCHANGED <<timeVars, postDataVars, updateVars, envVars>>

\* A temporary service leaves the list before its pid is released; its object
\* is destroyed.
ReapTemporary(s, p) ==
  /\ MainIdle /\ Zombie(p) /\ Tracks(s, p) /\ s \in Temps
  /\ ReapCommon(s, p)
  /\ listed' = listed \ {s}
  /\ WaitPid(p)
  /\ flags' = [flags EXCEPT ![s] = {}]
  /\ pid' = [pid EXCEPT ![s] = NoPid]
  /\ cgroupEmpty' = [cgroupEmpty EXCEPT ![s] = FALSE]
  /\ bootstrapNs' = [bootstrapNs EXCEPT ![s] = FALSE]
  /\ UNCHANGED <<svcProp, work, reaping, crashVars>>

FlagsWhenDown_NotIfRestart(s, p) ==
  LET f == FlagsAfterExit(s, p) \ {"RUNNING"} IN
  IF "ONESHOT" \in f /\ "RESET" \notin f THEN f \cup {"DISABLED"} ELSE f


\* Flags of a service whose process is gone; oneshot services become disabled,
\* except when they are being restarted or were reset.
FlagsWhenDown(s, p) ==
  LET f == FlagsAfterExit(s, p) \ {"RUNNING"} IN
  IF "ONESHOT" \in f /\ "RESTART" \notin f /\ "RESET" \notin f
  THEN f \cup {"DISABLED"} ELSE f

ReapCgroup(s) ==
  \E empty \in {cgroupEmpty[s], TRUE} :
    cgroupEmpty' = [cgroupEmpty EXCEPT ![s] = empty]

\* Disabled and reset services stay down.
ReapStopped(s, p) ==
  /\ MainIdle /\ Zombie(p) /\ Tracks(s, p) /\ s \in Configured
  /\ FlagsWhenDown(s, p) \cap {"DISABLED", "RESET"} # {}
  /\ ReapCommon(s, p)
  /\ ReapCgroup(s)
  /\ pid' = [pid EXCEPT ![s] = NoPid]
  /\ flags' = [flags EXCEPT ![s] = FlagsWhenDown(s, p)]
  /\ NotifyStateChange(s, "stopped")
  /\ WaitPid(p)
  /\ UNCHANGED <<listed, bootstrapNs, work, reaping, crashVars>>

CountsCrashes_RestartsToo(s, f) ==
  "CRITICAL" \in f \/ (~bootstrapNs[s] /\ ApexUpdatable)

\* Crash accounting applies to critical services and to those running from
\* updatable APEXes, unless init itself is restarting them.
CountsCrashes(s, f) ==
  /\ "CRITICAL" \in f \/ (~bootstrapNs[s] /\ ApexUpdatable)
  /\ "RESTART" \notin f

CrashedTooOften(s, f) ==
  /\ CountsCrashes(s, f)
  /\ inWindow[s] \/ ~bootCompleted
  /\ crashCount[s] + 1 > CrashLimit

\* crash_count_ and time_crashed_; the counter matters only up to CrashLimit + 1.
CountCrash(s, f) ==
  IF ~CountsCrashes(s, f) THEN UNCHANGED <<crashCount, inWindow>>
  ELSE IF inWindow[s] \/ ~bootCompleted
  THEN /\ crashCount' = [crashCount EXCEPT ![s] =
                           IF @ > CrashLimit THEN @ ELSE @ + 1]
       /\ UNCHANGED inWindow
  ELSE /\ crashCount' = [crashCount EXCEPT ![s] = 1]
       /\ inWindow' = [inWindow EXCEPT ![s] = TRUE]

\* The crash aborts init, unless the service is exempt for tests.
FatalCrash(s, f) == CrashedTooOften(s, f) /\ "CRITICAL" \in f /\ s \notin NoFatal

\* LOG(FATAL): init reboots into fatal_reboot_target_ here and now.
ReapFatal(s, p) ==
  /\ MainIdle /\ Zombie(p) /\ Tracks(s, p) /\ s \in Configured
  /\ FlagsWhenDown(s, p) \cap {"DISABLED", "RESET"} = {}
  /\ FatalCrash(s, FlagsWhenDown(s, p))
  /\ CountCrash(s, FlagsWhenDown(s, p))
  /\ aborted' = TRUE
  /\ flags' = [flags EXCEPT ![s] = FlagsWhenDown(s, p)]
  /\ ReapCommon(s, p)
  /\ ReapCgroup(s)
  /\ pid' = [pid EXCEPT ![s] = NoPid]
  /\ UNCHANGED <<svcProp, listed, bootstrapNs, proc, work, reaping, updatableCrash>>

\* The service is to be restarted: count the crash and go on to the onrestart
\* commands.
ReapRestarting(s, p) ==
  /\ MainIdle /\ Zombie(p) /\ Tracks(s, p) /\ s \in Configured
  /\ LET f == FlagsWhenDown(s, p) IN
     /\ f \cap {"DISABLED", "RESET"} = {}
     /\ ~FatalCrash(s, f)
     /\ CountCrash(s, f)
     /\ updatableCrash' = (updatableCrash
                            \/ (CrashedTooOften(s, f) /\ "CRITICAL" \notin f))
     /\ flags' = [flags EXCEPT ![s] = (f \ {"RESTART"}) \cup {"RESTARTING"}]
  /\ ReapCommon(s, p)
  /\ ReapCgroup(s)
  /\ pid' = [pid EXCEPT ![s] = NoPid]
  /\ reaping' = [svc |-> s, pid |-> p]
  /\ work' = OnRestart[s]
  /\ UNCHANGED <<svcProp, listed, bootstrapNs, proc, aborted>>

\* The onrestart commands are done.
FinishReap ==
  /\ reaping # NotReaping /\ work = <<>> /\ ~aborted
  /\ NotifyStateChange(reaping.svc, "restarting")
  /\ WaitPid(reaping.pid)
  /\ reaping' = NotReaping
  /\ UNCHANGED <<flags, pid, cgroupEmpty, startSeq, execRunning, listed, timeVars,
                 postData, bootstrapNs, delayed, shutdownReq>>
  /\ UNCHANGED <<work, rebootTarget, crashVars, runningAtReset, postDataMark,
                 servicesUpdated, envVars>>

-----------------------------------------------------------------------------
(* The kernel and the rest of the system. *)

\* A child exits: of its own accord with any status, or of a pending SIGKILL.
ProcessExits(p) ==
  /\ \/ proc[p].st = "alive"
        /\ \E ok \in BOOLEAN :
             proc' = [proc EXCEPT ![p].st = "zombie", ![p].ok = ok]
     \/ proc[p].st = "killed"
        /\ proc' = [proc EXCEPT ![p].st = "zombie", ![p].ok = FALSE]
  /\ UNCHANGED <<flags, pid, cgroupEmpty, svcProp, startSeq, execRunning, listed,
                 timeVars, postData, bootstrapNs, delayed, shutdownReq>>
  /\ UNCHANGED <<work, rebootTarget, reaping, crashVars, runningAtReset,
                 postDataMark, servicesUpdated, envVars>>

\* A daemonized grandchild of some service is reparented to init and exits.
\* Bound: one at a time.
OrphanExits(p) ==
  /\ Orphans /\ proc[p].st = "free"
  /\ \A q \in Pids : proc[q].st = "zombie" => proc[q].owner # NoService
  /\ proc' = [proc EXCEPT ![p] = [st |-> "zombie", owner |-> NoService, ok |-> TRUE]]
  /\ UNCHANGED <<flags, pid, cgroupEmpty, svcProp, startSeq, execRunning, listed,
                 timeVars, postData, bootstrapNs, delayed, shutdownReq>>
  /\ UNCHANGED <<work, rebootTarget, reaping, crashVars, runningAtReset,
                 postDataMark, servicesUpdated, envVars>>

\* Time passes.  A period that has elapsed is noticed only where it is read.
TimePasses(s) ==
  /\ \/ /\ Has(s, "RESTARTING") /\ ~restartDue[s]
        /\ restartDue' = [restartDue EXCEPT ![s] = TRUE]
        /\ UNCHANGED <<timeoutDue, inWindow>>
     \/ /\ s \in HasTimeout /\ Has(s, "RUNNING") /\ ~timeoutDue[s]
        /\ timeoutDue' = [timeoutDue EXCEPT ![s] = TRUE]
        /\ UNCHANGED <<restartDue, inWindow>>
     \/ /\ inWindow[s] /\ crashCount[s] > 0
        /\ inWindow' = [inWindow EXCEPT ![s] = FALSE]
        /\ UNCHANGED timeVars
  /\ UNCHANGED <<flags, pid, cgroupEmpty, svcProp, startSeq, execRunning, listed,
                 proc, postData, bootstrapNs, delayed, shutdownReq>>
  /\ UNCHANGED <<work, rebootTarget, reaping, crashCount, updatableCrash, aborted,
                 runningAtReset, postDataMark, servicesUpdated, envVars>>

\* sys.boot_completed is only of interest to the crash accounting.
BootCompletes ==
  /\ ~bootCompleted /\ bootCompleted' = TRUE
  /\ \E s \in Services : crashCount[s] > 0
  /\ UNCHANGED <<rebootTarget, reaping, work, crashVars, runningAtReset,
                 postDataMark, servicesUpdated, nsReady, startVars>>

-----------------------------------------------------------------------------
ReapOneProcess(p) ==
  \/ ReapUntracked(p)
  \/ \E s \in Services :
       \/ ReapTemporary(s, p)
       \/ ReapStopped(s, p)
       \/ ReapFatal(s, p)
       \/ ReapRestarting(s, p)

Next ==
  \/ CallService \/ MarkPostData \/ MarkServicesUpdate \/ ClearDelayed
  \/ SetDefaultMountNamespaceReady
  \/ ExecuteOneCommand \/ HandleControlMessage
  \/ \E s \in Services : Timeout(s) \/ RestartDue(s) \/ TimePasses(s)
  \/ \E p \in Pids : ReapOneProcess(p) \/ ProcessExits(p) \/ OrphanExits(p)
  \/ FinishReap
  \/ BootCompletes

Spec == Init /\ [][Next]_vars

(* Fairness.  The main loop visits every service and reaps every zombie in     *)
(* each iteration, however many commands and messages it has to handle: its    *)
(* periodic actions are strongly fair.  The kernel kills what has SIGKILL      *)
(* pending, and time passes; nothing makes a live process exit.                *)
Fairness ==
  /\ WF_vars(CallService \/ MarkPostData \/ MarkServicesUpdate \/ ClearDelayed
             \/ SetDefaultMountNamespaceReady)
  /\ WF_vars(FinishReap)
  /\ \A p \in Pids : /\ SF_vars(ReapOneProcess(p))
                     /\ WF_vars(ProcessExits(p) /\ proc[p].st = "killed")
  /\ \A s \in Services : /\ SF_vars(RestartDue(s))
                         /\ WF_vars(TimePasses(s))

FairSpec == Spec /\ Fairness

-----------------------------------------------------------------------------
(* Properties. *)

\* The types of the members; crash_count_ saturates in the model.
TypeOK ==
  /\ flags \in [Services -> SUBSET Flag]
  /\ pid \in [Services -> Pids \cup {NoPid}]
  /\ cgroupEmpty \in [Services -> BOOLEAN]
  /\ rebootTarget \in [Services -> BOOLEAN]
  /\ crashCount \in [Services -> 0..(CrashLimit + 1)]
  /\ inWindow \in [Services -> BOOLEAN]
  /\ restartDue \in [Services -> BOOLEAN]
  /\ timeoutDue \in [Services -> BOOLEAN]
  /\ postData \in [Services -> BOOLEAN]
  /\ runningAtReset \in [Services -> BOOLEAN]
  /\ bootstrapNs \in [Services -> BOOLEAN]
  /\ svcProp \in [Services -> {"", "running", "stopping", "stopped", "restarting"}]
  /\ listed \in SUBSET Services
  /\ startSeq \in Seq(Services)
  /\ execRunning \in BOOLEAN
  /\ servicesUpdated \in BOOLEAN
  /\ delayed \in Seq(Services)
  /\ postDataMark \in BOOLEAN
  /\ work \in Seq(Call)
  /\ reaping \in [svc : Services \cup {NoService}, pid : Pids \cup {NoPid}]
  /\ shutdownReq \in BOOLEAN
  /\ aborted \in BOOLEAN
  /\ updatableCrash \in BOOLEAN
  /\ proc \in [Pids -> [st : {"free", "alive", "killed", "zombie"},
                        owner : Services \cup {NoService}, ok : BOOLEAN]]
  /\ nsReady \in BOOLEAN
  /\ bootCompleted \in BOOLEAN

\* Every child that is still alive is the process of a listed service that is
\* marked running with that pid: init never loses track of a child (Start,
\* Reap, RemoveService), so it never starts a second process for a service.
LiveChildIsTracked ==
  \A p \in Pids : proc[p].st \in {"alive", "killed"} =>
    LET s == proc[p].owner IN
    s \in listed /\ pid[s] = p /\ "RUNNING" \in flags[s]

\* The pid a service holds is that of its own child, not yet released by
\* waitpid(): a signal sent to it never reaches a process that has inherited a
\* recycled pid (the order waitid(WNOWAIT), Reap, waitpid of ReapOneProcess).
PidIsOwnChild ==
  \A s \in Services : pid[s] # NoPid =>
    /\ proc[pid[s]].st # "free" /\ proc[pid[s]].owner = s
    /\ "RUNNING" \in flags[s] /\ s \in listed

\* KillProcessGroup() sends nothing once process_cgroup_empty_ is set; it is set
\* only while the service's main process is already dead.
SkippedKillIsHarmless ==
  \A s \in Services : pid[s] # NoPid /\ cgroupEmpty[s] =>
    proc[pid[s]].st = "zombie"

\* A signal for a service reaches its own process, and is left out only when that
\* process is dead.
SignalsHitTheService == PidIsOwnChild /\ SkippedKillIsHarmless

\* Only a service that is down, and that nobody has stopped, reset or disabled
\* since, waits for HandleProcessActions to start it again.
OnlyWantedRestarts ==
  \A s \in Services : "RESTARTING" \in flags[s] =>
    /\ pid[s] = NoPid
    /\ flags[s] \cap {"RUNNING", "DISABLED", "RESET", "RESTART"} = {}

\* services_in_shutdown_order() sees every service that has a process exactly once,
\* and no other: start_order_ is set by a fork and cleared when the process is reaped.
ShutdownOrderIsComplete ==
  /\ {startSeq[i] : i \in DOMAIN startSeq} = {s \in Services : pid[s] # NoPid}
  /\ \A i, j \in DOMAIN startSeq : startSeq[i] = startSeq[j] => i = j

\* Services whose onrestart commands act on the service itself: Reap() writes
\* "restarting" only after they have run (service.cpp:407-409).
RestartsItself(s) ==
  \E i \in DOMAIN OnRestart[s] :
    OnRestart[s][i].svc = s \/ OnRestart[s][i].op = "MarkServicesUpdate"

\* Between two iterations of the main loop, init.svc.<name> says whether the service
\* has a process, through every stop, crash, timeout and failed start, and a service
\* that will be restarted by itself says so.  Two exceptions: a start that fails
\* writes nothing, so "restarting" stays when it was an automatic one (the property
\* does not claim that a service that says "restarting" will be); and services whose
\* onrestart commands act on themselves are left out.
SvcPropIsTrue ==
  MainIdle => \A s \in Configured : RestartsItself(s) \/
    /\ svcProp[s] \in {"running", "stopping"} <=> pid[s] # NoPid
    /\ "RESTARTING" \in flags[s] => svcProp[s] = "restarting"

\* While commands are held back for an exec service there is such a service and
\* it has a process to wait for: init never waits for a child that is gone.
ExecHasProcess ==
  execRunning => \E s \in listed : "EXEC" \in flags[s] /\ pid[s] # NoPid

\* As long as a service started by exec or exec_start runs, no other command is
\* executed (README: "No other commands will be run until this one finishes").
ExecHoldsCommands ==
  (\E s \in Services : "EXEC" \in flags[s]) => execRunning

\* Commands are held back exactly while an exec service has a process, through
\* crashes, stops and reparented orphans.  Exception: exec_start of a oneshot whose old
\* process is still being stopped waits for that process only; the run that Reap() leaves
\* to be started later is not waited for (service.cpp:345).
ExecCommands == ExecHasProcess /\ ExecHoldsCommands

\* Restart() of a running service means "Stop, wait, then start the service"
\* (service.cpp:752): when the old process is reaped the service is restarting.
RestartSurvivesReap ==
  [][\A s \in Configured :
       "RESTART" \in flags[s] /\ pid[s] # NoPid /\ pid'[s] = NoPid =>
         "RESTARTING" \in flags'[s]]_vars

\* Reset() stops a service without disabling it, "so it can be restarted with
\* its class" (service.h:45-46).
ResetKeepsEnabled ==
  [][\A s \in Services :
       "RESET" \in flags[s] /\ "DISABLED" \notin flags[s]
       /\ pid[s] # NoPid /\ pid'[s] = NoPid =>
         "DISABLED" \notin flags'[s]]_vars

\* A service that waits to be restarted is started, or stopped by someone; it is
\* not forgotten (README, restart_period: "it will be restarted"), unless Start()
\* gets no process for it.
RestartIsNotDropped ==
  [][\A s \in Services :
       "RESTARTING" \in flags[s] /\ "RESTARTING" \notin flags'[s] =>
         \/ "RUNNING" \in flags'[s]
         \/ flags'[s] \cap {"DISABLED", "RESET"} # {}
         \/ StartFailures \ {"console", "stat"} # {}
         \/ \A p \in Pids : proc[p].st # "free"]_vars

\* A reset or restart request is still honoured when the old process has been
\* reaped, whatever came between the signal and Reap(), and until it is carried out.
RequestsSurvive == RestartSurvivesReap /\ ResetKeepsEnabled /\ RestartIsNotDropped

\* No updatable service runs before the APEX configs are parsed, and once they
\* are and the main loop is back, no delayed start is left over.
UpdatableWaits ==
  /\ \A s \in Updatable : pid[s] # NoPid => servicesUpdated
  /\ MainIdle /\ servicesUpdated => delayed = <<>>

\* When the delayed starts are forgotten every one of them has been carried out
\* (MarkServicesUpdate starts them all, then clears the list), where Start() does
\* not fail: StartFailures is empty and there is a pid to be had.
DelayedAreStarted ==
  [][delayed # <<>> /\ delayed' = <<>> =>
       \A i \in DOMAIN delayed : \/ "RUNNING" \in flags[delayed[i]]
                                 \/ StartFailures # {}
                                 \/ \A p \in Pids : proc[p].st # "free"]_vars

\* init aborts into the fatal reboot target only for a critical service that
\* died on its own: never because init was told to stop or restart it, and never
\* at its first CrashLimit exits.
AbortOnlyOnCrash ==
  [][~aborted /\ aborted' => \E s \in Configured :
       /\ pid[s] # NoPid /\ pid'[s] = NoPid
       /\ flags[s] \cap {"DISABLED", "RESET", "RESTART"} = {}
       /\ crashCount[s] = CrashLimit]_vars

\* A failure rule other than reboot suppresses both the reboot_on_failure target
\* and the critical reboot when the service fails ("reboot=suppressed").
SuppressedNeverReboots ==
  [][\A s \in Configured :
       /\ PolicyActive /\ FailureAction[s] # "reboot"
       /\ pid[s] # NoPid /\ pid'[s] = NoPid /\ ~proc[pid[s]].ok
       => shutdownReq' = shutdownReq /\ aborted' = aborted]_vars

\* The call c on its service comes to Start().
AsksForStart(c) ==
  \/ c.op \in {"Start", "ExecStart"}
  \/ c.op = "StartIfNotDisabled" /\ ~Has(c.svc, "DISABLED")
  \/ c.op = "StartIfPostData" /\ runningAtReset[c.svc]
  \/ c.op = "Enable" /\ Has(c.svc, "DISABLED_START")
  \/ c.op = "Restart" /\ ~Has(c.svc, "RUNNING") /\ ~Has(c.svc, "RESTARTING")

\* This step starts s: on behalf of a command, a control message or an onrestart
\* command, or of HandleProcessActions.
StartRequested(s) ==
  \/ /\ work # <<>> /\ work' = Tail(work)
     /\ Head(work).svc = s /\ AsksForStart(Head(work))
  \/ /\ MainIdle /\ Has(s, "RESTARTING")
     /\ "RESTARTING" \notin flags'[s] \/ delayed' = Append(delayed, s)

\* ... and s has no process afterwards.
StartDidNotStart(s) == StartRequested(s) /\ pid'[s] = NoPid

\* This step reaps the process of s, which has failed.
ExitFailed(s) == pid[s] # NoPid /\ pid'[s] = NoPid /\ ~proc[pid[s]].ok

\* A shutdown is requested here only for a service that still has its
\* reboot_on_failure target, and only because its start did not give it a process or
\* its process failed.  A start that is merely delayed counts as one that failed
\* (service.cpp:464), although src/init/README.md:344 only says it "is delayed".
ShutdownHasCause ==
  [][~shutdownReq /\ shutdownReq' => \E s \in Configured :
       rebootTarget[s] /\ (StartDidNotStart(s) \/ (ExitFailed(s) /\ rebootTarget'[s]))]_vars

\* init brings the device down for a failing service only when the service's options
\* and the policy say so: no abort but for a critical service beyond its crash limit,
\* no reboot that a failure rule suppresses, no shutdown without a failed start or
\* exit of a service that asks for it.
RebootIsJustified == AbortOnlyOnCrash /\ SuppressedNeverReboots /\ ShutdownHasCause

\* README, reboot_on_failure: "If this process cannot be started", the system is
\* rebooted, whichever step of Start() fails and whoever asked for it (unless the
\* policy has dropped the target at an earlier failure).
FailedStartReboots ==
  [][\A s \in Configured : rebootTarget[s] /\ StartDidNotStart(s) => shutdownReq']_vars

\* "... or if the process terminates with an exit code other than CLD_EXITED or an
\* status other than '0'", unless a failure rule of the policy handles this exit.
FailedExitReboots ==
  [][\A s \in Configured :
       rebootTarget[s] /\ ExitFailed(s) /\ PolicyAction(s, pid[s]) = "reboot"
         => shutdownReq']_vars

\* A service with a reboot_on_failure target that fails, at the start or later, brings
\* the device down.
FailuresReboot == FailedStartReboots /\ FailedExitReboots

\* A service that is being stopped goes down, unless it is started again.
StopTakesEffect ==
  \A s \in Configured :
    ("DISABLED" \in flags[s] /\ pid[s] # NoPid)
      ~> (pid[s] = NoPid \/ "DISABLED" \notin flags[s])

\* A service that exited and is not disabled comes back.
CrashedComesBack ==
  \A s \in Configured :
    "RESTARTING" \in flags[s]
      ~> (pid[s] # NoPid \/ flags[s] \cap {"DISABLED", "RESET"} # {} \/ aborted)

\* Both waits of the supervision end: for a process to die of its signal, and for
\* the restart of one that died.
SupervisionProceeds == StopTakesEffect /\ CrashedComesBack
=============================================================================
