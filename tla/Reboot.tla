------------------------------- MODULE Reboot -------------------------------
(***************************************************************************)
(* What happens after sys.powerctl has been accepted (reboot.cpp,          *)
(* reboot_utils.cpp): HandlePowerctlMessage and the bootloader message,    *)
(* DoReboot stage by stage with its monitor thread, DoUserspaceReboot with *)
(* its watchdog process, and InitFatalReboot.                              *)
(*                                                                         *)
(* Actors: the main thread (pc), the monitor thread (mon), the watchdog    *)
(* process (wd), the child InitFatalReboot forks (fatal), the processes of *)
(* the services, and time.  How the request reaches the main loop is       *)
(* InitLoop's subject, what Start and Reap do besides Service's.           *)
(*                                                                         *)
(* vdc, apexd, swapoff and fsck are other programs, umount and sync may    *)
(* block in the kernel: their steps are actions that may fail, and none of *)
(* them is assumed to return.                                              *)
(***************************************************************************)
EXTENDS Integers, FiniteSets

CONSTANTS
  Services,
  Debugging,       \* kDebuggingServices
  ToStart,         \* to_starts: watchdogd
  RcCritical,      \* services with "shutdown critical" in their .rc file
  Animation,       \* services of class animation
  PostData,        \* services started after /data was mounted
  FromApex,        \* services defined in an APEX
  HoldsData,       \* services whose processes keep files of /data open
  Vold, BlankScreen, BootAnim, SurfaceFlinger,  \* services, or NoService
  NoService,
  Running0,        \* the services that have a process when the request comes
  Stuck,           \* the sets of services that may sit in an uninterruptible sleep
  Commands,        \* the values of sys.powerctl: [verb, arg]
  Bcb0,            \* the bootloader messages there may be
  ShutdownTimeout, MaxThermalTimeout,   \* ro.build.shutdown_timeout and its cap
  MonitorTimeout,  \* ro.build.shutdown.watchdog.timeout
  WordSize,        \* 2^32 in the code: remaining_shutdown_time is unsigned
  SigtermTimeout, SigkillTimeout,       \* init.userspace_reboot.*.timeoutmillis
  StartedTimeout, BootTimeout,          \* of the userspace reboot watchdog
  FatalDelay,      \* the 5 seconds of InitFatalReboot's child
  FatalConfig,     \* androidboot.init_fatal_*: [arg, cmdline, bootconfig, panic]
  DataMounted, ShutdownAnimation, DynamicPartitions, RebootCapable, ThermalWarmReset,
  CrashAt          \* bound: where init may receive a fatal signal

ASSUME RebootConstants ==
  /\ NoService \notin Services
  /\ Debugging \cup ToStart \cup RcCritical \cup Animation \cup PostData \cup FromApex
       \cup HoldsData \cup Running0 \subseteq Services
  /\ Stuck \subseteq SUBSET Services
  /\ {Vold, BlankScreen, BootAnim, SurfaceFlinger} \subseteq Services \cup {NoService}
  /\ \A n \in {ShutdownTimeout, MaxThermalTimeout, MonitorTimeout,
               SigtermTimeout, SigkillTimeout, StartedTimeout, BootTimeout, FatalDelay} :
       n \in Nat
  /\ WordSize \in Nat /\ ShutdownTimeout + MonitorTimeout < WordSize
  /\ {DataMounted, ShutdownAnimation, DynamicPartitions, RebootCapable, ThermalWarmReset}
       \subseteq BOOLEAN

VARIABLES
  pc,          \* where the main thread is
  cmd,         \* ANDROID_RB_*
  target,      \* reboot_target
  runFsck,     \* run_fsck
  bcb,         \* the command in the bootloader message
  (* services *)
  proc,        \* [service -> none, alive, zombie]; pid_ # 0 unless none
  sig,         \* [service -> the strongest signal its process has been sent]
  disabled,    \* services with SVC_DISABLED
  critical,    \* services with SVC_SHUTDOWN_CRITICAL
  listed,      \* services in the ServiceList
  updated,     \* post_data_ and services_update_finished_ of the ServiceList
  stuck,       \* services whose process cannot be killed
  stopFirst,   \* stop_first
  wereEnabled, \* were_enabled
  alivePids,   \* alive_pids in WaitToBeReaped: services whose pid is waited for
  (* file systems *)
  mounts,      \* what is mounted: /data and what lies on it
  stat,        \* UmountStat
  (* time *)
  timeout,     \* shutdown_timeout
  elapsed,     \* the Timer of DoReboot
  waitLeft,    \* time left in WaitToBeReaped
  umountLeft,  \* time left in UmountPartitions
  (* reboot monitor thread *)
  mon, sem, remaining, monLeft, monRun,
  (* userspace reboot watchdog process *)
  wd, wdLeft, inProgress, bootCompleted,
  (* InitFatalReboot's child *)
  fatal, fatalLeft,
  device,      \* up, or how it went down
  spent,       \* history: time the monitor has counted, fsck not included
  overrun      \* history: time of fsck it counted before it noticed the pause

cmdVars == <<cmd, target, runFsck>>
svcVars == <<proc, sig, disabled, critical, listed, updated>>
planVars == <<stopFirst, wereEnabled>>
monVars == <<mon, remaining, monLeft, monRun>>
wdVars == <<wd, wdLeft, inProgress, bootCompleted>>
fatalVars == <<fatal, fatalLeft>>
timeVars == <<elapsed, waitLeft, umountLeft>>
charged == <<spent, overrun>>
bootVars == <<cmdVars, bcb>>

vars == <<pc, bootVars, svcVars, stuck, planVars, alivePids, mounts, stat, timeout,
          timeVars, monVars, sem, wdVars, fatalVars, device, charged>>

\* /data carries the emulated storage, the APEX loop devices and zram's backing file.
OnData == {"emulated", "apex", "zram"}

Signals == {"none", "term", "kill"}
Power == {"poweroff", "thermoff", "restart2"}
Up == [how |-> "up", by |-> "nobody", target |-> ""]
MonitorBudget == timeout + MonitorTimeout

IsRunning(s) == proc[s] # "none"

Init ==
  /\ pc = "Idle"
  /\ cmd = "restart2" /\ target = "" /\ runFsck = FALSE
  /\ bcb \in Bcb0
  /\ proc = [s \in Services |-> IF s \in Running0 THEN "alive" ELSE "none"]
  /\ sig = [s \in Services |-> "none"]
  /\ disabled = {} /\ critical = RcCritical /\ listed = Services /\ updated = TRUE
  /\ stuck \in Stuck
  /\ stopFirst = {} /\ wereEnabled = {} /\ alivePids = {}
  /\ mounts = IF DataMounted THEN {"data"} \cup OnData ELSE {}
  /\ stat = "none"
  /\ timeout = ShutdownTimeout /\ elapsed = 0 /\ waitLeft = 0 /\ umountLeft = 0
  /\ mon = "off" /\ sem = 0 /\ remaining = 0 /\ monLeft = 0 /\ monRun = FALSE
  /\ wd = "off" /\ wdLeft = 0 /\ inProgress = FALSE /\ bootCompleted = TRUE
  /\ fatal = "off" /\ fatalLeft = 0
  /\ device = Up /\ spent = 0 /\ overrun = 0

-----------------------------------------------------------------------------
(* RebootSystem *)

\* How the device goes down on RebootSystem(c, t) called by a thread or process.
RebootSystem(c, t, by) ==
  [how |-> IF ~RebootCapable THEN "exit"
           ELSE IF c = "restart2" \/ (c = "thermoff" /\ ThermalWarmReset) THEN "restart"
           ELSE "off",
   by |-> by,
   target |-> IF ~RebootCapable \/ c = "poweroff" THEN ""
              ELSE IF c = "restart2" THEN t
              ELSE IF ThermalWarmReset THEN "shutdown,thermal" ELSE ""]

\* SysRq 'c': the kernel panics.
Crash(by) == [how |-> "panic", by |-> by, target |-> ""]

DeviceUp == device = Up

-----------------------------------------------------------------------------
(* HandlePowerctlMessage *)

\* adb reboot fastboot without logical partitions goes to the bootloader.
Destination(arg) ==
  IF arg = "fastboot" /\ ~DynamicPartitions THEN "bootloader" ELSE arg

\* CommandIsPresent: a command with a non-printable character counts as absent.
CommandIsPresent(b) == b \notin {"", "broken"}

\* What a read of the bootloader message may give: it fails and leaves it empty.
ReadBcb == {bcb, ""}

BcbOutcomes_IgnoreFailure(arg) ==
  CASE Destination(arg) = "bootloader" -> {"bootonce-bootloader", bcb}
    [] Destination(arg) \in {"recovery", "sideload", "fastboot"} -> {"boot-recovery", bcb}
    [] OTHER -> {bcb}

\* The bootloader message after the request has been prepared, "fails" when the
\* request is given up because the message could not be written.
BcbOutcomes(arg) ==
  CASE Destination(arg) = "bootloader" -> {"bootonce-bootloader", bcb}
    [] Destination(arg) = "recovery" ->
         UNION {IF CommandIsPresent(b) THEN {bcb} ELSE {"boot-recovery", "fails"} : b \in ReadBcb}
    [] Destination(arg) \in {"sideload", "fastboot"} -> {"boot-recovery", "fails"}
    [] OTHER -> {bcb}

\* The arguments RebootSystem will be called with.
TargetOf(c) ==
  IF c.verb # "reboot" THEN ""
  ELSE IF Destination(c.arg) \in {"sideload", "fastboot"} THEN "recovery"
  ELSE Destination(c.arg)

CmdOf(c) == IF c.verb = "reboot" THEN "restart2"
            ELSE IF c.arg = "thermal" THEN "thermoff" ELSE "poweroff"

\* TurnOffBacklight and Start(): a process is forked unless there is one.
Started(p, ss) == [s \in Services |-> IF s \in ss /\ p[s] = "none" THEN "alive" ELSE p[s]]

\* The request is refused: not a command, or the bootloader message failed.
PowerctlRefused(c) ==
  /\ pc = "Idle" /\ DeviceUp /\ wd = "off"
  /\ \/ c.verb \notin {"shutdown", "reboot"}
     \/ c.verb = "reboot" /\ "fails" \in BcbOutcomes(c.arg)
  /\ pc' = "Refused"
  /\ UNCHANGED <<bootVars, svcVars, stuck, planVars, alivePids, mounts, stat, timeout,
                 timeVars, monVars, sem, wdVars, fatalVars, device, charged>>

\* A full reboot or shutdown: DoReboot is queued behind the shutdown trigger.
Powerctl(c) ==
  /\ pc = "Idle" /\ DeviceUp /\ wd = "off"
  /\ c.verb \in {"shutdown", "reboot"} /\ c.arg # "userspace"
  /\ bcb' \in (IF c.verb = "reboot" THEN BcbOutcomes(c.arg) ELSE {bcb}) \ {"fails"}
  /\ cmd' = CmdOf(c) /\ target' = TargetOf(c)
  /\ runFsck' = (c.verb = "shutdown" /\ c.arg = "userrequested")
  /\ proc' = IF c.arg = "thermal" THEN Started(proc, {BlankScreen}) ELSE proc
  /\ pc' = "DoReboot"
  /\ UNCHANGED <<sig, disabled, critical, listed, updated, stuck, planVars, alivePids, mounts, stat,
                 timeout, timeVars, monVars, sem, wdVars, fatalVars, device, charged>>

\* HandleUserspaceReboot forks the watchdog; the actions of the scripts on
\* userspace-reboot-requested, which run before DoUserspaceReboot, reset
\* sys.boot_completed.
HandleUserspaceReboot ==
  /\ pc = "Idle" /\ DeviceUp /\ wd = "off"
  /\ [verb |-> "reboot", arg |-> "userspace"] \in Commands
  /\ wd' = "starting" /\ wdLeft' = StartedTimeout
  /\ bootCompleted' = FALSE
  /\ pc' = "DoUserspaceReboot"
  /\ UNCHANGED <<inProgress, bootVars, svcVars, stuck, planVars, alivePids, mounts, stat,
                 timeout, timeVars, monVars, sem, fatalVars, device, charged>>

\* HandleUserspaceReboot comes to nothing: the device does not support it, or the
\* watchdog cannot be forked.  StopSendingMessages has been called by then, and the full
\* reboot asked for in the second case is cleared by the main loop as it returns.
UserspaceRebootGivenUp ==
  /\ pc = "Idle" /\ DeviceUp /\ wd = "off"
  /\ [verb |-> "reboot", arg |-> "userspace"] \in Commands
  /\ pc' \in {"Unsupported", "NoWatchdog"}
  /\ UNCHANGED <<bootVars, svcVars, stuck, planVars, alivePids, mounts, stat, timeout,
                 timeVars, monVars, sem, wdVars, fatalVars, device, charged>>

-----------------------------------------------------------------------------
(* StopServices, WaitToBeReaped *)

Stronger(a, b) == IF "kill" \in {a, b} THEN "kill" ELSE IF "term" \in {a, b} THEN "term" ELSE "none"

\* services_in_shutdown_order: the running ones among ss are signalled and disabled.
Signalled(ss, how) ==
  LET hit == {s \in ss \cap listed : IsRunning(s)} IN
  /\ sig' = [s \in Services |-> IF s \in hit THEN Stronger(sig[s], how) ELSE sig[s]]
  /\ disabled' = disabled \cup hit

\* ReapOneProcess until there is no zombie.
Reaped(p) == [s \in Services |-> IF p[s] = "zombie" THEN "none" ELSE p[s]]

\* StopServices with a timeout: signal, then wait.
StopAndWait(at, ss, how, limit, wait) ==
  /\ pc = at /\ DeviceUp
  /\ Signalled(ss, how)
  /\ alivePids' = {s \in ss \cap listed : IsRunning(s)}
  /\ waitLeft' = limit
  /\ pc' = wait
  /\ UNCHANGED <<bootVars, proc, critical, listed, updated, stuck, mounts, stat, timeout, elapsed,
                 umountLeft, monVars, sem, wdVars, fatalVars, device, charged>>

\* StopServices without one: whatever is a zombie by now is reaped.
StopNow(at, ss, how, next) ==
  /\ pc = at /\ DeviceUp
  /\ Signalled(ss, how)
  /\ proc' = Reaped(proc)
  /\ pc' = next
  /\ UNCHANGED <<bootVars, critical, listed, updated, stuck, planVars, alivePids, mounts, stat,
                 timeout, timeVars, monVars, sem, wdVars, fatalVars, device, charged>>

AfterWait == [WaitTerm |-> "KillRound", UWaitTerm |-> "UKill", UWaitKill |-> "UCheck",
              UWaitDebug |-> "UCheckDebug"]

\* One round of WaitToBeReaped; at the deadline it leaves without reaping again.
WaitToBeReaped ==
  /\ pc \in DOMAIN AfterWait /\ DeviceUp
  /\ \/ /\ alivePids # {} /\ waitLeft > 0
        /\ \E s \in Services : proc[s] = "zombie"
        /\ proc' = Reaped(proc)
        /\ alivePids' = alivePids \ {s \in Services : proc[s] = "zombie"}
        /\ UNCHANGED <<pc, waitLeft>>
     \/ /\ alivePids = {} \/ waitLeft = 0
        /\ pc' = AfterWait[pc] /\ alivePids' = {} /\ waitLeft' = 0
        /\ UNCHANGED proc
  /\ UNCHANGED <<bootVars, sig, disabled, critical, listed, updated, stuck, planVars, mounts, stat,
                 timeout, elapsed, umountLeft, monVars, sem, wdVars, fatalVars, device, charged>>

-----------------------------------------------------------------------------
(* DoReboot *)

DoReboot_MonitorNotStarted ==
  /\ pc = "DoReboot" /\ DeviceUp
  /\ LET t == IF cmd = "thermoff" /\ ShutdownTimeout > MaxThermalTimeout
              THEN MaxThermalTimeout ELSE ShutdownTimeout IN
     /\ timeout' = t
     /\ remaining' = MonitorTimeout + t
  /\ mon' = "idle" /\ monRun' = TRUE /\ monLeft' = 0 /\ sem' = 0
  /\ elapsed' = 0 /\ spent' = 0 /\ overrun' = 0
  /\ pc' = IF "data" \in mounts THEN "Prepare" ELSE "RebootSystem"
  /\ UNCHANGED <<bootVars, svcVars, stuck, planVars, alivePids, mounts, stat, waitLeft,
                 umountLeft, wdVars, fatalVars, device>>

\* DoReboot up to the first service: the monitor thread is created and started,
\* and without /data there is nothing more to do.
DoReboot ==
  /\ pc = "DoReboot" /\ DeviceUp
  /\ LET t == IF cmd = "thermoff" /\ ShutdownTimeout > MaxThermalTimeout
              THEN MaxThermalTimeout ELSE ShutdownTimeout IN
     /\ timeout' = t
     /\ remaining' = MonitorTimeout + t
  /\ mon' = "idle" /\ monRun' = TRUE /\ monLeft' = 0 /\ sem' = 1
  /\ elapsed' = 0 /\ spent' = 0 /\ overrun' = 0
  /\ pc' = IF "data" \in mounts THEN "Prepare" ELSE "RebootSystem"
  /\ UNCHANGED <<bootVars, svcVars, stuck, planVars, alivePids, mounts, stat, waitLeft,
                 umountLeft, wdVars, fatalVars, device>>

\* Without a semaphore there is no monitor and no graceful reboot.
SemInitFails ==
  /\ pc = "DoReboot" /\ DeviceUp
  /\ device' = RebootSystem(cmd, target, "init")
  /\ pc' = "RebootSystem"
  /\ UNCHANGED <<bootVars, svcVars, stuck, planVars, alivePids, mounts, stat, timeout,
                 timeVars, monVars, sem, wdVars, fatalVars, charged>>

\* Debugging services and watchdogd become shutdown critical, critical ones are
\* started, the others are to be stopped first.  Then the backlight and the
\* animation, whose services become critical as well.
Prepare ==
  LET first == {s \in listed : s \notin Debugging \cup ToStart \cup critical}
      start == {s \in listed : s \in ToStart \/ (s \in critical /\ s \notin Debugging)}
      light == IF cmd # "restart2" THEN {BlankScreen} \cap listed ELSE {}
      up == Started(proc, start \cup light)
      animated == /\ {BootAnim, SurfaceFlinger} \subseteq listed
                  /\ up[SurfaceFlinger] # "none"
      anim == Animation \cap listed
      play == animated /\ ShutdownAnimation
      crit == critical \cup ((Debugging \cup ToStart) \cap listed)
  IN
  /\ pc = "Prepare" /\ DeviceUp
  /\ stopFirst' = first
  /\ proc' = IF play THEN Started(up, anim \cup {BootAnim}) ELSE up
  /\ sig' = IF play /\ up[BootAnim] # "none" THEN [sig EXCEPT ![BootAnim] = "kill"] ELSE sig
  /\ disabled' = (disabled \ (start \cup light))
                   \ (IF play THEN anim \cup {BootAnim} ELSE {})
  /\ critical' = IF play THEN crit \cup anim \cup {BootAnim, SurfaceFlinger}
                 ELSE IF animated THEN crit \cup anim ELSE crit
  /\ pc' = IF timeout > 0 THEN "TermRound" ELSE "KillRound"
  /\ UNCHANGED <<bootVars, listed, updated, stuck, wereEnabled, alivePids, mounts, stat, timeout,
                 timeVars, monVars, sem, wdVars, fatalVars, device, charged>>

TermRound ==
  StopAndWait("TermRound", stopFirst, "term", timeout \div 2, "WaitTerm") /\ UNCHANGED planVars

\* SIGKILL for the ones that did not terminate, then the subcontext.
KillRound == StopNow("KillRound", stopFirst, "kill", "Vold")

\* vdc volume abort_fuse, vdc volume shutdown, Stop(): vdc may fail or hang, and vold
\* unmounts the emulated storage if it is asked to.
VoldShutdown ==
  /\ pc = "Vold" /\ DeviceUp
  /\ \/ /\ Vold \in listed /\ IsRunning(Vold)
        /\ \/ proc[Vold] = "alive" /\ mounts' = mounts \ {"emulated"}
           \/ UNCHANGED mounts
        /\ sig' = [sig EXCEPT ![Vold] = "kill"]
        /\ disabled' = disabled \cup {Vold}
     \/ /\ ~(Vold \in listed /\ IsRunning(Vold))
        /\ UNCHANGED <<mounts, sig, disabled>>
  /\ pc' = "StopDebugging"
  /\ UNCHANGED <<bootVars, proc, critical, listed, updated, stuck, planVars, alivePids, stat, timeout,
                 timeVars, monVars, sem, wdVars, fatalVars, device, charged>>

StopDebugging == StopNow("StopDebugging", Debugging, "kill", "Zram")

\* KillZramBackingDevice succeeds and frees the loop device on /data, or fails.
KillZram(at, next, failed) ==
  /\ pc = at /\ DeviceUp
  /\ \/ mounts' = mounts \ {"zram"} /\ pc' = next
     \/ "zram" \in mounts /\ UNCHANGED mounts /\ pc' = failed
  /\ UNCHANGED <<bootVars, svcVars, stuck, planVars, alivePids, stat, timeout, timeVars,
                 monVars, sem, wdVars, fatalVars, device, charged>>

\* UnmountAllApexes: apexd --unmount-all.
UnmountApexes(at, next, failed) ==
  /\ pc = at /\ DeviceUp
  /\ \/ mounts' = mounts \ {"apex"} /\ pc' = next
     \/ "apex" \in mounts /\ UNCHANGED mounts /\ pc' = failed
  /\ UNCHANGED <<bootVars, svcVars, stuck, planVars, alivePids, stat, timeout, timeVars,
                 monVars, sem, wdVars, fatalVars, device, charged>>

-----------------------------------------------------------------------------
(* TryUmountAndFsck *)

\* A process that has not been reaped yet but is dead holds no file.
Held == \E s \in HoldsData : proc[s] = "alive"

\* One pass of UmountPartitions: the emulated storage first, then /data, which
\* stays busy while something lies on it or a process uses it.
Unmounted(m) ==
  LET noEmulated == IF Held THEN m ELSE m \ {"emulated"} IN
  IF Held \/ noEmulated \cap OnData # {} THEN noEmulated ELSE noEmulated \ {"data"}

\* TryUmountAndFsck: UmountPartitions gets what is left of the timeout.  When fsck is to
\* run, what it is to check is read first; without that nothing is unmounted.
TryUmount ==
  /\ pc = "TryUmount" /\ DeviceUp
  /\ \/ umountLeft' = timeout - elapsed /\ pc' = "Umount" /\ UNCHANGED stat
     \/ runFsck /\ stat' = "error" /\ pc' = "Finish" /\ UNCHANGED umountLeft
  /\ UNCHANGED <<bootVars, svcVars, stuck, planVars, alivePids, mounts, timeout, elapsed,
                 waitLeft, monVars, sem, wdVars, fatalVars, device, charged>>

UmountPass_FsckAnyway ==
  /\ pc \in {"Umount", "UmountForced"} /\ DeviceUp
  /\ mounts' = Unmounted(mounts)
  /\ IF "data" \notin Unmounted(mounts) \/ umountLeft < 0
     THEN /\ stat' = IF "data" \in Unmounted(mounts) THEN "timeout" ELSE "success"
          /\ pc' = IF pc = "Umount" /\ "data" \in Unmounted(mounts) THEN "KillAll"
                   ELSE IF runFsck THEN "PauseMonitor" ELSE "Finish"
     ELSE UNCHANGED <<pc, stat>>
  /\ UNCHANGED <<bootVars, svcVars, stuck, planVars, alivePids, timeout, timeVars, monVars, sem,
                 wdVars, fatalVars, device, charged>>

\* A pass succeeds, finds /proc/mounts unreadable, fails for good when the time is
\* over, or is tried again.  The second call, after KillAllProcesses, does not
\* change the status.
UmountPass ==
  /\ pc \in {"Umount", "UmountForced"} /\ DeviceUp
  /\ \E readable \in BOOLEAN :
       LET result == IF ~readable THEN "error"
                     ELSE IF "data" \notin Unmounted(mounts) THEN "success"
                     ELSE IF umountLeft < 0 THEN "timeout" ELSE "again"
       IN
       /\ mounts' = IF readable THEN Unmounted(mounts) ELSE mounts
       /\ IF result = "again" THEN UNCHANGED <<pc, stat>>
          ELSE IF pc = "Umount"
               THEN /\ stat' = result
                    /\ pc' = IF result # "success" THEN "KillAll"
                             ELSE IF runFsck THEN "PauseMonitor" ELSE "Finish"
               ELSE UNCHANGED stat /\ pc' = "Finish"
  /\ UNCHANGED <<bootVars, svcVars, stuck, planVars, alivePids, timeout, timeVars, monVars, sem,
                 wdVars, fatalVars, device, charged>>

\* SysRq 'i' kills every process but init, the watchdog included.
KillAllProcesses ==
  /\ pc = "KillAll" /\ DeviceUp
  /\ sig' = [s \in Services |-> IF IsRunning(s) THEN "kill" ELSE sig[s]]
  /\ wd' = IF wd = "off" THEN "off" ELSE "done"
  /\ umountLeft' = 0
  /\ pc' = "UmountForced"
  /\ UNCHANGED <<bootVars, proc, disabled, critical, listed, updated, stuck, planVars, alivePids,
                 mounts, stat, timeout, elapsed, waitLeft, monVars, sem, wdLeft, inProgress,
                 bootCompleted, fatalVars, device, charged>>

Post(at, next) ==
  /\ pc = at /\ DeviceUp
  /\ sem' = sem + 1
  /\ pc' = next
  /\ UNCHANGED <<bootVars, svcVars, stuck, planVars, alivePids, mounts, stat, timeout, timeVars,
                 monVars, wdVars, fatalVars, device, charged>>

NoPost(at, next) ==
  /\ pc = at /\ DeviceUp
  /\ pc' = next
  /\ UNCHANGED <<bootVars, svcVars, stuck, planVars, alivePids, mounts, stat, timeout, timeVars,
                 monVars, sem, wdVars, fatalVars, device, charged>>

\* fsck is left out of the monitor's time.
PauseMonitor_Forgotten == NoPost("PauseMonitor", "Fsck")
PauseMonitor == Post("PauseMonitor", "Fsck")
FsckDone == Post("Fsck", "Finish")

\* The monitor is told to stop, then the device goes down whatever umount did.
Finish ==
  /\ pc = "Finish" /\ DeviceUp
  /\ monRun' = FALSE /\ sem' = sem + 1
  /\ pc' = "RebootSystem"
  /\ UNCHANGED <<bootVars, svcVars, stuck, planVars, alivePids, mounts, stat, timeout, timeVars,
                 mon, remaining, monLeft, wdVars, fatalVars, device, charged>>

RebootNow ==
  /\ pc = "RebootSystem" /\ DeviceUp
  /\ device' = RebootSystem(cmd, target, "init")
  /\ UNCHANGED <<pc, bootVars, svcVars, stuck, planVars, alivePids, mounts, stat, timeout,
                 timeVars, monVars, sem, wdVars, fatalVars, charged>>

-----------------------------------------------------------------------------
(* DoUserspaceReboot *)

\* in_progress is set, shutdown mode entered and sys.powerctl cleared; any of it may
\* fail.  What is to be stopped and what is to be enabled again is fixed now.
DoUserspaceReboot ==
  /\ pc = "DoUserspaceReboot" /\ DeviceUp
  /\ LET post == {s \in listed \cap PostData : IsRunning(s)} IN
     \/ /\ pc' = "UFail" /\ inProgress' \in BOOLEAN
        /\ UNCHANGED planVars
     \/ /\ pc' = "UTerm" /\ inProgress' = TRUE
        /\ stopFirst' = post \ Debugging
        /\ wereEnabled' = post \ disabled
  /\ UNCHANGED <<bootVars, svcVars, stuck, alivePids, mounts, stat, timeout, timeVars, monVars,
                 sem, wd, wdLeft, bootCompleted, fatalVars, device, charged>>

UTerm == StopAndWait("UTerm", stopFirst, "term", SigtermTimeout, "UWaitTerm")
         /\ UNCHANGED planVars
UKill == StopAndWait("UKill", stopFirst, "kill", SigkillTimeout, "UWaitKill")
         /\ UNCHANGED planVars
UDebug == StopAndWait("UDebug", Debugging \cap PostData, "kill", SigkillTimeout, "UWaitDebug")
          /\ UNCHANGED planVars

Violators_AliveAndIgnored(ss) == {s \in ss \cap listed : proc[s] = "alive" /\ sig[s] # "kill"}

\* StopServicesAndLogViolations: a service that is still running, a zombie that was
\* not reaped in time included, makes the userspace reboot fail.
Violators(ss) == {s \in ss \cap listed : IsRunning(s)}

CheckStopped(at, ss, next) ==
  /\ pc = at /\ DeviceUp
  /\ pc' = IF Violators(ss) = {} THEN next ELSE "UFail"
  /\ UNCHANGED <<bootVars, svcVars, stuck, planVars, alivePids, mounts, stat, timeout, timeVars,
                 monVars, sem, wdVars, fatalVars, device, charged>>

UCheck == CheckStopped("UCheck", stopFirst, "UZram")
UCheckDebug == CheckStopped("UCheckDebug", Debugging \cap PostData, "UApex")

\* vdc volume reset.
UVdc ==
  /\ pc = "UVdc" /\ DeviceUp
  /\ \/ mounts' = mounts \ {"emulated"} /\ pc' = "UDebug"
     \/ UNCHANGED mounts /\ pc' = "UFail"
  /\ UNCHANGED <<bootVars, svcVars, stuck, planVars, alivePids, stat, timeout, timeVars, monVars,
                 sem, wdVars, fatalVars, device, charged>>

\* Back to the bootstrap namespace, services of APEXes removed, the others enabled
\* again and the ServiceList reset, so that starts are delayed until the APEXes are
\* configured; the scripts then boot userspace once more.
UResume ==
  /\ pc = "UNamespace" /\ DeviceUp
  /\ \/ /\ pc' = "UFail" /\ UNCHANGED <<listed, updated, disabled>>
     \/ /\ listed' = listed \ FromApex
        /\ disabled' = disabled \ (wereEnabled \cap listed')
        /\ updated' = FALSE
        /\ pc' = "Resumed"
  /\ UNCHANGED <<bootVars, proc, sig, critical, stuck, planVars, alivePids, mounts, stat,
                 timeout, timeVars, monVars, sem, wdVars, fatalVars, device, charged>>

\* The scope guard: leave shutdown mode and ask for a full reboot.
UFail ==
  /\ pc = "UFail" /\ DeviceUp
  /\ cmd' = "restart2" /\ target' = "userspace_failed" /\ runFsck' = FALSE
  /\ pc' = "DoReboot"
  /\ UNCHANGED <<bcb, svcVars, stuck, planVars, alivePids, mounts, stat, timeout, timeVars,
                 monVars, sem, wdVars, fatalVars, device, charged>>

\* sys.boot_completed, set by the new userspace.
BootCompletes ==
  /\ pc = "Resumed" /\ DeviceUp /\ ~bootCompleted
  /\ bootCompleted' = TRUE
  /\ UNCHANGED <<pc, bootVars, svcVars, stuck, planVars, alivePids, mounts, stat, timeout,
                 timeVars, monVars, sem, wd, wdLeft, inProgress, fatalVars, device, charged>>

-----------------------------------------------------------------------------
(* RebootMonitorThread *)

\* sem_wait returns: the first time, and after a pause.
MonitorStarts ==
  /\ mon = "idle" /\ sem > 0 /\ DeviceUp
  /\ sem' = sem - 1 /\ mon' = "timed" /\ monLeft' = remaining
  /\ UNCHANGED <<pc, bootVars, svcVars, stuck, planVars, alivePids, mounts, stat, timeout,
                 timeVars, remaining, monRun, wdVars, fatalVars, device, charged>>

\* sem_timedwait returns a post: a pause, or the end.
MonitorPosted ==
  /\ mon = "timed" /\ sem > 0 /\ DeviceUp
  /\ sem' = sem - 1 /\ mon' = IF monRun THEN "idle" ELSE "done"
  /\ remaining' = monLeft % WordSize /\ monLeft' = 0
  /\ UNCHANGED <<pc, bootVars, svcVars, stuck, planVars, alivePids, mounts, stat, timeout,
                 timeVars, monRun, wdVars, fatalVars, device, charged>>

\* The time is over: power off, or crash what will not go down.
MonitorFires ==
  /\ mon = "timed" /\ sem = 0 /\ monLeft <= 0 /\ DeviceUp
  /\ device' = IF cmd \in {"poweroff", "thermoff"} THEN RebootSystem(cmd, target, "monitor")
               ELSE Crash("monitor")
  /\ UNCHANGED <<pc, bootVars, svcVars, stuck, planVars, alivePids, mounts, stat, timeout,
                 timeVars, monVars, sem, wdVars, fatalVars, charged>>

-----------------------------------------------------------------------------
(* UserspaceRebootWatchdogThread, a process of its own *)

\* Init may be wedged: reboot at once.  Without CAP_SYS_BOOT only the watchdog exits.
WatchdogReboots(which) ==
  /\ wd = which /\ wdLeft = 0 /\ DeviceUp
  /\ which = "starting" => ~inProgress
  /\ which = "booting" => ~bootCompleted
  /\ device' = IF RebootCapable THEN RebootSystem("restart2", "userspace_failed", "watchdog")
               ELSE device
  /\ wd' = "done"
  /\ UNCHANGED <<pc, bootVars, svcVars, stuck, planVars, alivePids, mounts, stat, timeout,
                 timeVars, monVars, sem, wdLeft, inProgress, bootCompleted, fatalVars, charged>>

WatchdogAdvances ==
  /\ DeviceUp
  /\ \/ wd = "starting" /\ inProgress /\ wd' = "booting" /\ wdLeft' = BootTimeout
     \/ wd = "booting" /\ bootCompleted /\ wd' = "done" /\ UNCHANGED wdLeft
  /\ UNCHANGED <<pc, bootVars, svcVars, stuck, planVars, alivePids, mounts, stat, timeout,
                 timeVars, monVars, sem, inProgress, bootCompleted, fatalVars, device, charged>>

Watchdog == WatchdogAdvances \/ \E w \in {"starting", "booting"} : WatchdogReboots(w)

-----------------------------------------------------------------------------
(* InitFatalReboot *)

\* SetFatalRebootTarget: the argument, else the kernel command line, else bootconfig.
FatalTarget == IF FatalConfig.arg # "" THEN FatalConfig.arg
               ELSE IF FatalConfig.cmdline # "" THEN FatalConfig.cmdline
               ELSE IF FatalConfig.bootconfig # "" THEN FatalConfig.bootconfig
               ELSE "bootloader"

\* A fatal signal in init: a child is forked that reboots after a delay whatever
\* becomes of the backtrace; without a child the reboot is immediate.
InitFatalReboot ==
  /\ pc \in CrashAt /\ DeviceUp
  /\ pc' = "Fatal"
  /\ \/ fatal' = "sleeping" /\ fatalLeft' = FatalDelay /\ UNCHANGED device
     \/ device' = RebootSystem("restart2", FatalTarget, "fatal") /\ UNCHANGED fatalVars
  /\ UNCHANGED <<bootVars, svcVars, stuck, planVars, alivePids, mounts, stat, timeout, timeVars,
                 monVars, sem, wdVars, charged>>

FatalChildReboots ==
  /\ fatal = "sleeping" /\ fatalLeft = 0 /\ DeviceUp
  /\ fatal' = "done"
  /\ device' = IF RebootCapable THEN RebootSystem("restart2", FatalTarget, "fatal") ELSE device
  /\ UNCHANGED <<pc, bootVars, svcVars, stuck, planVars, alivePids, mounts, stat, timeout,
                 timeVars, monVars, sem, wdVars, fatalLeft, charged>>

\* The backtrace is done; it may hang.
FatalParentReboots ==
  /\ pc = "Fatal" /\ DeviceUp
  /\ device' = IF FatalConfig.panic THEN Crash("fatal")
               ELSE RebootSystem("restart2", FatalTarget, "fatal")
  /\ UNCHANGED <<pc, bootVars, svcVars, stuck, planVars, alivePids, mounts, stat, timeout,
                 timeVars, monVars, sem, wdVars, fatalVars, charged>>

-----------------------------------------------------------------------------
(* Processes and time *)

\* Time passes where init sleeps, waits for a program, a file system or the property
\* service; what it does in between takes none.
Waiting == DOMAIN AfterWait \cup
  {"DoUserspaceReboot", "Vold", "Zram", "Apex", "Umount", "UmountForced", "Fsck", "Finish",
   "UZram", "UVdc", "UApex", "Resumed", "Fatal"}

\* A signalled process exits; SIGTERM may be ignored.  Once init has crashed nobody
\* looks at the services any more.
ProcessExits(s, how) ==
  /\ proc[s] = "alive" /\ sig[s] = how /\ how # "none" /\ s \notin stuck /\ DeviceUp
  /\ pc \in Waiting \ {"Fatal"}
  /\ proc' = [proc EXCEPT ![s] = "zombie"]
  /\ UNCHANGED <<pc, bootVars, sig, disabled, critical, listed, updated, stuck, planVars, alivePids,
                 mounts, stat, timeout, timeVars, monVars, sem, wdVars, fatalVars, device, charged>>

\* The watchdog and the child of a crash react to their deadline before more time passes.
\* The monitor thread may be scheduled late: it may miss a post for any time, its own
\* deadline by a tick.
DeadlineDue ==
  \/ mon = "timed" /\ monLeft < 0
  \/ wd \in {"starting", "booting"} /\ wdLeft = 0
  \/ fatal = "sleeping" /\ fatalLeft = 0

Less(n, least) == IF n > least THEN n - 1 ELSE n

Tick ==
  /\ DeviceUp /\ pc \in Waiting /\ ~DeadlineDue
  /\ elapsed' = IF mon = "off" \/ elapsed > timeout THEN elapsed ELSE elapsed + 1
  /\ waitLeft' = Less(waitLeft, 0)
  /\ umountLeft' = IF pc \in {"Umount", "UmountForced"} THEN Less(umountLeft, -1) ELSE umountLeft
  /\ monLeft' = IF mon = "timed" THEN monLeft - 1 ELSE monLeft
  /\ wdLeft' = Less(wdLeft, 0)
  /\ fatalLeft' = Less(fatalLeft, 0)
  /\ spent' = IF mon = "timed" /\ pc # "Fsck" /\ spent <= MonitorBudget THEN spent + 1 ELSE spent
  /\ overrun' = IF mon = "timed" /\ pc = "Fsck" THEN overrun + 1 ELSE overrun
  /\ UNCHANGED <<pc, bootVars, svcVars, stuck, planVars, alivePids, mounts, stat, timeout, mon,
                 sem, remaining, monRun, wd, inProgress, bootCompleted, fatal, device>>

-----------------------------------------------------------------------------
\* What init does on its own.
InitSteps ==
  \/ WaitToBeReaped
  \/ DoReboot \/ SemInitFails \/ Prepare \/ TermRound \/ KillRound \/ StopDebugging
  \/ TryUmount \/ KillAllProcesses \/ PauseMonitor \/ RebootNow
  \/ DoUserspaceReboot \/ UTerm \/ UKill \/ UCheck \/ UDebug \/ UCheckDebug \/ UResume \/ UFail

\* umount2 and sync, which may block in the kernel.
KernelSteps == UmountPass \/ Finish

\* What init waits for other programs to do.
ExternalSteps ==
  \/ VoldShutdown \/ UVdc
  \/ KillZram("Zram", "Apex", "Apex") \/ KillZram("UZram", "UVdc", "UFail")
  \/ UnmountApexes("Apex", "TryUmount", "TryUmount")
  \/ UnmountApexes("UApex", "UNamespace", "UFail")

Monitor == MonitorStarts \/ MonitorPosted \/ MonitorFires

Next ==
  \/ \E c \in Commands : PowerctlRefused(c) \/ Powerctl(c)
  \/ HandleUserspaceReboot \/ UserspaceRebootGivenUp
  \/ InitSteps \/ KernelSteps \/ ExternalSteps \/ FsckDone
  \/ Monitor \/ Watchdog
  \/ InitFatalReboot \/ FatalChildReboots \/ FatalParentReboots
  \/ BootCompletes
  \/ \E s \in Services, how \in Signals : ProcessExits(s, how)
  \/ Tick

Spec == Init /\ [][Next]_vars

\* Threads, the watchdog and time make progress; vdc, apexd, swapoff, fsck, umount2, sync,
\* a process that ignores SIGTERM and the backtrace may take for ever.
Fairness ==
  /\ WF_vars(InitSteps)
  /\ WF_vars(Monitor) /\ WF_vars(Watchdog) /\ WF_vars(FatalChildReboots)
  /\ WF_vars(Tick)

FairSpec == Spec /\ Fairness

-----------------------------------------------------------------------------
(* Properties *)

\* fsck never runs on a file system that is still mounted, nor after the last resort
\* of killing every process, which would take the checker with it.
FsckIsSafe ==
  pc = "Fsck" => /\ "data" \notin mounts
                 /\ stat = "success"
                 /\ \A s \in HoldsData : proc[s] # "alive"

\* The monitor takes the device down only after the whole of its time, however late its
\* thread is scheduled, and never while fsck is at work: posts and pauses do not get out of
\* step.  Exception: fsck is charged from its start until the thread notices the pause.
\* It may not come at all: noticed after the deadline, the time left wraps (reboot.cpp:398).
MonitorIsPatient ==
  device.by = "monitor" => pc # "Fsck" /\ spent + overrun >= MonitorBudget

\* Userspace comes up again only over a clean base: no process of a post-data service
\* is left, the services of unmounted APEXes are forgotten, starts are delayed again until
\* the APEXes are configured, and what was enabled before is enabled again.
ResumeIsClean ==
  pc = "Resumed" => /\ \A s \in PostData : ~IsRunning(s)
                    /\ "apex" \notin mounts /\ listed \cap FromApex = {}
                    /\ ~updated
                    /\ wereEnabled \cap listed \cap disabled = {}

\* Init reboots into recovery only when the bootloader message holds a command for it
\* (HandlePowerctlMessage gives up when the message cannot be written).
RecoveryHasCommand ==
  device.by = "init" /\ device.target = "recovery" => CommandIsPresent(bcb)

\* Once DoReboot has begun the device goes down, whichever program but fsck hangs, whether
\* or not umount and sync return, whichever process cannot be killed, and also when init
\* itself crashes on the way.  Exception: the monitor is paused for fsck, so an fsck that
\* never returns is waited for for ever; when it returns the device goes down.
ShutdownEnds == /\ (pc = "DoReboot") ~> (~DeviceUp \/ pc = "Fsck")
                /\ (pc = "Finish") ~> ~DeviceUp

\* A userspace reboot that has its watchdog ends with a booted system or a device that goes
\* down: no hang leaves it half stopped.
UserspaceRebootEnds == (pc = "DoUserspaceReboot") ~> (bootCompleted \/ ~DeviceUp)

\* No power control command that reaches DoReboot or DoUserspaceReboot leaves the device
\* half stopped for good.  Exceptions: an fsck that never returns, and the userspace reboot
\* HandleUserspaceReboot gives up before it begins: without a watchdog it asks for a full
\* reboot (reboot.cpp:934), and the main loop clears that request (init.cpp:957).
EveryShutdownEnds == ShutdownEnds /\ UserspaceRebootEnds
=============================================================================
