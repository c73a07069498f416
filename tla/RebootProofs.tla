---------------------------- MODULE RebootProofs ----------------------------
(***************************************************************************)
(* The safety properties of Reboot for every set of services, every        *)
(* timeout, every request and every place at which init may crash.         *)
(*                                                                         *)
(* Four independent inductive invariants: Clock for the reboot monitor     *)
(* (MonitorIsPatient), Unmounting for fsck (FsckIsSafe), Stopped for the   *)
(* userspace reboot (ResumeIsClean) and Message for the bootloader message *)
(* (RecoveryHasCommand).  Each action either is one of the few that the    *)
(* invariant is about, or leaves what it speaks of alone; a lemma for each *)
(* invariant says which.                                                   *)
(***************************************************************************)
EXTENDS Reboot, TLAPS

\* The stages of DoReboot between the monitor's first post and its pause or its end.
Stopping == {"Prepare", "TermRound", "WaitTerm", "KillRound", "Vold", "StopDebugging", "Zram",
             "Apex", "TryUmount", "Umount", "KillAll", "UmountForced", "PauseMonitor"}

Types ==
  /\ timeout \in Nat /\ timeout <= ShutdownTimeout
  /\ spent \in Nat /\ overrun \in Nat /\ sem \in Nat /\ remaining \in Nat /\ monLeft \in Int
  /\ remaining < WordSize /\ monLeft < WordSize
  /\ mon \in {"off", "idle", "timed", "done"}

\* What the monitor has left and what has been charged make up at least its budget, also
\* after the time left has wrapped, and the posts are in step with the stages: while fsck
\* runs the monitor is paused or about to be.
Clock ==
  /\ mon = "idle" => remaining + spent + overrun >= MonitorBudget
  /\ mon = "timed" => monLeft >= -1 /\ monLeft + spent + overrun >= MonitorBudget
  /\ pc \in Stopping => (mon = "idle" /\ sem = 1) \/ (mon = "timed" /\ sem = 0)
  /\ pc = "Fsck" => (mon = "idle" => sem \in {0, 2}) /\ (mon = "timed" => sem = 1)
Patience == device.by = "monitor" => pc # "Fsck" /\ spent + overrun >= MonitorBudget
MonitorInv == Types /\ Clock /\ Patience

\* /data stays mounted up to the pass that succeeds, which finds no process on it; after
\* that none is started.
Quiet == \A s \in HoldsData : proc[s] # "alive"
Unmounting ==
  /\ pc \in Stopping \ {"KillAll", "UmountForced", "PauseMonitor"} => "data" \in mounts
  /\ pc \in {"PauseMonitor", "Fsck"} => "data" \notin mounts /\ stat = "success" /\ Quiet

\* DoUserspaceReboot, in order.
UStopping == {"UTerm", "UWaitTerm", "UKill", "UWaitKill", "UCheck"}
UStopped == {"UZram", "UVdc", "UDebug", "UWaitDebug", "UCheckDebug"}
UDone == {"UApex", "UNamespace", "Resumed"}
Stopped ==
  /\ pc \in UStopping => \A s \in PostData \ Debugging : IsRunning(s) => s \in stopFirst
  /\ pc \in UStopped => \A s \in PostData \ Debugging : ~IsRunning(s)
  /\ pc \in UDone => \A s \in PostData : ~IsRunning(s)
  /\ pc \in {"UNamespace", "Resumed"} => "apex" \notin mounts
  /\ pc # "Resumed" => listed = Services \/ pc = "Fatal"
  /\ pc = "Resumed" => listed \cap FromApex = {} /\ wereEnabled \cap listed \cap disabled = {}
                      /\ ~updated

\* The bootloader message was written before the target was chosen.
Message ==
  /\ target = "recovery" => CommandIsPresent(bcb)
  /\ device.by = "init" /\ device.target = "recovery" => target = "recovery"

\* Where the four waits of StopServices lead.
LEMMA AfterWaitIs ==
  /\ DOMAIN AfterWait = {"WaitTerm", "UWaitTerm", "UWaitKill", "UWaitDebug"}
  /\ AfterWait["WaitTerm"] = "KillRound" /\ AfterWait["UWaitTerm"] = "UKill"
  /\ AfterWait["UWaitKill"] = "UCheck" /\ AfterWait["UWaitDebug"] = "UCheckDebug"
BY DEF AfterWait

-----------------------------------------------------------------------------
(* The reboot monitor                                                         *)

\* The actions that concern the monitor.
MonitorActions ==
  DoReboot \/ PauseMonitor \/ FsckDone \/ Finish \/ Monitor \/ Tick

\* Every other action leaves the monitor alone, enters the stages it watches only from
\* within, and takes the device down, if it does, in its own name.
MonitorIsLeftAlone ==
  /\ UNCHANGED <<timeout, monVars, sem, charged>>
  /\ pc' \in Stopping => pc \in Stopping
  /\ pc' = "Fsck" => pc = "Fsck"
  /\ DeviceUp /\ (device' = device \/ device'.by # "monitor")

\* How the device goes down names who did it.
LEMMA DownBy ==
  ASSUME NEW c, NEW t, NEW by
  PROVE  RebootSystem(c, t, by).by = by /\ Crash(by).by = by
BY DEF RebootSystem, Crash

\* MonitorIsLeftAlone is what every action but MonitorActions does.
LEMMA MonitorFrame == Next /\ ~MonitorActions => MonitorIsLeftAlone
<1> SUFFICES ASSUME Next, ~MonitorActions PROVE MonitorIsLeftAlone
  OBVIOUS
<1> USE DEF MonitorIsLeftAlone, Stopping
<1>1. CASE \E c \in Commands : PowerctlRefused(c) \/ Powerctl(c)
  BY <1>1 DEF PowerctlRefused, Powerctl
<1>2. CASE HandleUserspaceReboot \/ UserspaceRebootGivenUp
  BY <1>2 DEF HandleUserspaceReboot, UserspaceRebootGivenUp
<1>3. CASE WaitToBeReaped
  BY <1>3, AfterWaitIs DEF WaitToBeReaped
<1>4. CASE Prepare \/ TermRound \/ KillRound \/ StopDebugging
  BY <1>4 DEF Prepare, TermRound, KillRound, StopDebugging, StopAndWait, StopNow
<1>5. CASE TryUmount \/ UmountPass \/ KillAllProcesses
  BY <1>5 DEF TryUmount, UmountPass, KillAllProcesses
<1>6. CASE RebootNow \/ SemInitFails
  BY <1>6, DownBy DEF RebootNow, SemInitFails
<1>7. CASE DoUserspaceReboot \/ UTerm \/ UKill \/ UDebug
  BY <1>7 DEF DoUserspaceReboot, UTerm, UKill, UDebug, StopAndWait
<1>8. CASE UCheck \/ UCheckDebug \/ UResume \/ UFail
  BY <1>8 DEF UCheck, UCheckDebug, CheckStopped, UResume, UFail
<1>9. CASE ExternalSteps
  BY <1>9 DEF ExternalSteps, VoldShutdown, UVdc, KillZram, UnmountApexes
<1>10. CASE Watchdog
  BY <1>10, DownBy DEF Watchdog, WatchdogAdvances, WatchdogReboots
<1>11. CASE InitFatalReboot \/ FatalChildReboots \/ FatalParentReboots
  BY <1>11, DownBy DEF InitFatalReboot, FatalChildReboots, FatalParentReboots
<1>12. CASE BootCompletes
  BY <1>12 DEF BootCompletes
<1>13. CASE \E s \in Services, how \in Signals : ProcessExits(s, how)
  BY <1>13 DEF ProcessExits
<1> QED
  BY <1>1, <1>2, <1>3, <1>4, <1>5, <1>6, <1>7, <1>8, <1>9, <1>10, <1>11, <1>12, <1>13
  DEF Next, InitSteps, KernelSteps, MonitorActions

\* A step that leaves the monitor alone keeps its invariant.
LEMMA LeftAloneKeepsMonitor == MonitorInv /\ MonitorIsLeftAlone => MonitorInv'
<1> SUFFICES ASSUME MonitorInv, MonitorIsLeftAlone PROVE MonitorInv'
  OBVIOUS
<1>1. /\ UNCHANGED <<timeout, mon, remaining, monLeft, sem, spent, overrun>>
      /\ MonitorBudget' = MonitorBudget
  BY DEF MonitorIsLeftAlone, monVars, charged, MonitorBudget
<1>2. Types'
  BY <1>1 DEF MonitorInv, Types
<1>3. Clock'
  BY <1>1 DEF MonitorInv, MonitorIsLeftAlone, Clock
<1>4. Patience'
  <2>1. Up.by # "monitor"
    BY DEF Up
  <2>2. device'.by # "monitor"
    BY <2>1 DEF MonitorIsLeftAlone, DeviceUp
  <2> QED
    BY <2>2 DEF Patience
<1> QED
  BY <1>2, <1>3, <1>4 DEF MonitorInv

\* The budget fits into the word the code keeps it in.
LEMMA BudgetFits ==
  Types => MonitorBudget \in Nat /\ MonitorBudget < WordSize /\ WordSize \in Nat
<1>1. /\ ShutdownTimeout \in Nat /\ MonitorTimeout \in Nat /\ WordSize \in Nat
      /\ ShutdownTimeout + MonitorTimeout < WordSize
  BY RebootConstants
<1> QED
  BY <1>1 DEF Types, MonitorBudget

\* The unsigned difference is never less than the signed one, which is never below -1.
LEMMA UnsignedIsNoLess ==
  ASSUME NEW w \in Nat, w > 0, NEW d \in Int, d >= -1, d < w
  PROVE  d % w \in Nat /\ d % w >= d /\ d % w < w
<1>1. CASE d >= 0
  BY <1>1
<1>2. CASE d = -1
  BY <1>2
<1> QED
  BY <1>1, <1>2

\* DoReboot starts the monitor with all of its time.
LEMMA DoRebootKeepsMonitor == MonitorInv /\ DoReboot => MonitorInv'
<1> SUFFICES ASSUME MonitorInv, DoReboot PROVE MonitorInv'
  OBVIOUS
<1>0. /\ ShutdownTimeout \in Nat /\ MaxThermalTimeout \in Nat /\ MonitorTimeout \in Nat
      /\ WordSize \in Nat /\ ShutdownTimeout + MonitorTimeout < WordSize
  BY RebootConstants
<1>1. /\ mon' = "idle" /\ sem' = 1 /\ spent' = 0 /\ overrun' = 0 /\ monLeft' = 0
      /\ pc' \in {"Prepare", "RebootSystem"} /\ device' = device /\ device = Up
  BY DEF DoReboot, DeviceUp
<1>2. PICK t \in Nat : t <= ShutdownTimeout /\ timeout' = t /\ remaining' = MonitorTimeout + t
  BY <1>0 DEF DoReboot
<1>3. Types'
  BY <1>0, <1>1, <1>2 DEF Types
<1>4. Clock'
  <2>1. MonitorBudget' = t + MonitorTimeout
    BY <1>2 DEF MonitorBudget
  <2>2. remaining' + 0 + 0 >= t + MonitorTimeout
    BY <1>0, <1>2
  <2> QED
    BY <1>1, <2>1, <2>2 DEF Clock, Stopping
<1>5. Patience'
  BY <1>1 DEF Patience, Up
<1> QED
  BY <1>3, <1>4, <1>5 DEF MonitorInv

\* PauseMonitor, FsckDone and Finish post the semaphore and keep the posts in step.
LEMMA PostsKeepMonitor == MonitorInv /\ (PauseMonitor \/ FsckDone \/ Finish) => MonitorInv'
<1> SUFFICES ASSUME MonitorInv, PauseMonitor \/ FsckDone \/ Finish PROVE MonitorInv'
  OBVIOUS
<1>1. /\ sem' = sem + 1 /\ UNCHANGED <<timeout, mon, remaining, monLeft, spent, overrun, device>>
      /\ device = Up
      /\ (pc = "PauseMonitor" /\ pc' = "Fsck") \/ pc' \in {"Finish", "RebootSystem"}
  BY DEF PauseMonitor, FsckDone, Finish, Post, DeviceUp, monVars, charged
<1>2. MonitorBudget' = MonitorBudget
  BY <1>1 DEF MonitorBudget
<1>3. Types'
  BY <1>1 DEF MonitorInv, Types
<1>4. Clock'
  BY <1>1, <1>2 DEF MonitorInv, Types, Clock, Stopping
<1>5. Patience'
  BY <1>1 DEF Patience, Up
<1> QED
  BY <1>3, <1>4, <1>5 DEF MonitorInv

\* RebootMonitorThread itself.
LEMMA MonitorKeepsMonitor == MonitorInv /\ Monitor => MonitorInv'
<1> SUFFICES ASSUME MonitorInv, Monitor PROVE MonitorInv'
  OBVIOUS
<1>0. /\ UNCHANGED <<timeout, spent, overrun, pc>> /\ MonitorBudget' = MonitorBudget /\ device = Up
      /\ MonitorBudget \in Nat /\ MonitorBudget < WordSize /\ WordSize \in Nat
      /\ spent \in Nat /\ overrun \in Nat
  BY BudgetFits DEF MonitorInv, Types, Monitor, MonitorStarts, MonitorPosted, MonitorFires,
     MonitorBudget, charged, DeviceUp
<1>1. CASE MonitorStarts
  <2>1. /\ mon = "idle" /\ sem > 0 /\ sem' = sem - 1 /\ mon' = "timed" /\ monLeft' = remaining
        /\ remaining' = remaining /\ device' = device
    BY <1>1 DEF MonitorStarts
  <2>2. Types'
    BY <1>0, <2>1 DEF MonitorInv, Types
  <2>3. Clock'
    BY <1>0, <2>1 DEF MonitorInv, Types, Clock
  <2>4. Patience'
    BY <1>0, <2>1 DEF Patience, Up
  <2> QED
    BY <2>2, <2>3, <2>4 DEF MonitorInv
<1>2. CASE MonitorPosted
  <2>1. /\ mon = "timed" /\ sem > 0 /\ sem' = sem - 1 /\ mon' \in {"idle", "done"}
        /\ remaining' = monLeft % WordSize /\ monLeft' = 0 /\ device' = device
    BY <1>2 DEF MonitorPosted
  <2>2. monLeft \in Int /\ monLeft >= -1 /\ monLeft < WordSize /\ monLeft + spent + overrun >= MonitorBudget
    BY <2>1 DEF MonitorInv, Clock, Types
  <2>3. remaining' \in Nat /\ remaining' >= monLeft /\ remaining' < WordSize
    BY <1>0, <2>1, <2>2, UnsignedIsNoLess
  <2>4. Types'
    BY <1>0, <2>1, <2>3 DEF MonitorInv, Types
  <2>5. mon' = "idle" => remaining' + spent' + overrun' >= MonitorBudget'
    BY <1>0, <2>1, <2>2, <2>3
  <2>6. Clock'
    BY <1>0, <2>1, <2>5 DEF MonitorInv, Types, Clock, MonitorPosted
  <2>7. Patience'
    BY <1>0, <2>1 DEF Patience, Up
  <2> QED
    BY <2>4, <2>6, <2>7 DEF MonitorInv
<1>3. CASE MonitorFires
  <2>1. /\ mon = "timed" /\ sem = 0 /\ monLeft <= 0
        /\ UNCHANGED <<mon, sem, remaining, monLeft>>
    BY <1>3 DEF MonitorFires, monVars
  <2>2. Types' /\ Clock'
    BY <1>0, <2>1 DEF MonitorInv, Types, Clock
  <2>3. pc # "Fsck" /\ spent + overrun >= MonitorBudget
    BY <1>0, <2>1 DEF MonitorInv, Types, Clock
  <2> QED
    BY <1>0, <2>2, <2>3 DEF MonitorInv, Patience
<1> QED
  BY <1>1, <1>2, <1>3 DEF Monitor

\* Time passes until the monitor is a tick late, and every tick that it counts is charged.
LEMMA TickKeepsMonitor == MonitorInv /\ Tick => MonitorInv'
<1> SUFFICES ASSUME MonitorInv, Tick PROVE MonitorInv'
  OBVIOUS
<1>1. /\ UNCHANGED <<timeout, mon, sem, remaining, pc, device>> /\ device = Up
      /\ MonitorBudget' = MonitorBudget
  BY DEF Tick, DeviceUp, MonitorBudget
<1>2. MonitorBudget \in Nat /\ spent \in Nat /\ overrun \in Nat /\ monLeft \in Int
  BY BudgetFits DEF MonitorInv, Types
<1>3. CASE mon # "timed"
  <2>1. UNCHANGED <<monLeft, spent, overrun>>
    BY <1>3 DEF Tick
  <2> QED
    BY <1>1, <1>3, <2>1 DEF MonitorInv, Types, Clock, Patience, Up
<1>4. CASE mon = "timed"
  <2>1. monLeft >= 0 /\ monLeft' = monLeft - 1
    BY <1>2, <1>4 DEF Tick, DeadlineDue
  <2>2. monLeft + spent + overrun >= MonitorBudget
    BY <1>4 DEF MonitorInv, Clock
  <2>3. /\ spent' \in Nat /\ overrun' \in Nat
        /\ monLeft' + spent' + overrun' >= MonitorBudget
    <3>1. CASE pc = "Fsck"
      <4>1. spent' = spent /\ overrun' = overrun + 1
        BY <1>4, <3>1 DEF Tick
      <4> QED
        BY <1>2, <2>1, <2>2, <4>1
    <3>2. CASE pc # "Fsck" /\ spent <= MonitorBudget
      <4>1. spent' = spent + 1 /\ overrun' = overrun
        BY <1>4, <3>2 DEF Tick
      <4> QED
        BY <1>2, <2>1, <2>2, <4>1
    <3>3. CASE pc # "Fsck" /\ ~(spent <= MonitorBudget)
      <4>1. spent' = spent /\ overrun' = overrun
        BY <1>4, <3>3 DEF Tick
      <4> QED
        BY <1>2, <2>1, <3>3, <4>1
    <3> QED
      BY <3>1, <3>2, <3>3
  <2>4. Types'
    <3>1. monLeft' \in Int /\ monLeft' < WordSize
      BY <1>2, <2>1, BudgetFits DEF MonitorInv, Types
    <3> QED
      BY <1>1, <1>2, <2>3, <3>1 DEF MonitorInv, Types
  <2>5. Clock'
    <3>1. monLeft' >= -1
      BY <1>2, <2>1
    <3> QED
      BY <1>1, <1>4, <2>3, <3>1 DEF MonitorInv, Clock
  <2> QED
    BY <1>1, <2>4, <2>5 DEF MonitorInv, Patience, Up
<1> QED
  BY <1>3, <1>4

\* The monitor takes the device down only when its whole time has been spent, fsck not
\* counted but for what it had taken when the thread noticed the pause, and never during
\* fsck (RebootMonitorThread, DoReboot), for all timeouts and however late the thread is.
THEOREM MonitorIsAlwaysPatient == Spec => []MonitorIsPatient
<1>1. Init => MonitorInv
  <2> SUFFICES ASSUME Init PROVE MonitorInv
    OBVIOUS
  <2>1. /\ timeout = ShutdownTimeout /\ spent = 0 /\ overrun = 0 /\ sem = 0 /\ remaining = 0 /\ monLeft = 0
        /\ mon = "off" /\ pc = "Idle" /\ device = Up
    BY DEF Init
  <2>2. /\ ShutdownTimeout \in Nat /\ MonitorTimeout \in Nat /\ WordSize \in Nat
        /\ ShutdownTimeout + MonitorTimeout < WordSize
    BY RebootConstants
  <2>3. Types
    BY <2>1, <2>2 DEF Types
  <2>4. Clock
    BY <2>1, <2>2 DEF Clock, MonitorBudget, Stopping
  <2> QED
    BY <2>1, <2>3, <2>4 DEF MonitorInv, Patience, Up
<1>2. MonitorInv /\ [Next]_vars => MonitorInv'
  <2> SUFFICES ASSUME MonitorInv, [Next]_vars PROVE MonitorInv'
    OBVIOUS
  <2>1. CASE MonitorActions
    BY <2>1, DoRebootKeepsMonitor, PostsKeepMonitor, MonitorKeepsMonitor, TickKeepsMonitor
    DEF MonitorActions
  <2>2. CASE Next /\ ~MonitorActions
    BY <2>2, MonitorFrame, LeftAloneKeepsMonitor
  <2>3. CASE UNCHANGED vars
    BY <2>3 DEF vars, monVars, charged, MonitorInv, Types, Clock, Patience, MonitorBudget
  <2> QED
    BY <2>1, <2>2, <2>3
<1>3. MonitorInv => MonitorIsPatient
  BY DEF MonitorInv, Clock, Patience, MonitorIsPatient
<1> QED
  BY <1>1, <1>2, <1>3, PTL DEF Spec

-----------------------------------------------------------------------------
(* Processes                                                                  *)

\* The states of the services' processes.
ProcOK == proc \in [Services -> {"none", "alive", "zombie"}]

\* Processes come to life only when the request arrives and in Prepare; everywhere else
\* they only end.
OnlyEnd ==
  \A s \in Services : /\ proc'[s] = "alive" => proc[s] = "alive"
                      /\ proc'[s] # "none" => proc[s] # "none"
ProcessStep == ProcOK' /\ (pc \in {"Idle", "Prepare"} \/ OnlyEnd)

\* Started (Service::Start) gives a process table again.
LEMMA StartedIs ==
  ASSUME NEW p \in [Services -> {"none", "alive", "zombie"}], NEW ss
  PROVE  Started(p, ss) \in [Services -> {"none", "alive", "zombie"}]
BY DEF Started

\* Reaped (ReapAnyOutstandingChildren) only takes processes away.
LEMMA ReapedIs ==
  ASSUME ProcOK
  PROVE  /\ Reaped(proc) \in [Services -> {"none", "alive", "zombie"}]
         /\ \A s \in Services : Reaped(proc)[s] # "none" => Reaped(proc)[s] = proc[s]
BY DEF Reaped, ProcOK

\* Every action is such a step.
LEMMA ProcessesOnlyEnd == ProcOK /\ [Next]_vars => ProcessStep
<1> SUFFICES ASSUME ProcOK, [Next]_vars PROVE ProcessStep
  OBVIOUS
<1>0. UNCHANGED proc => ProcessStep
  BY DEF ProcOK, ProcessStep, OnlyEnd
<1>1. proc' = Reaped(proc) => ProcessStep
  BY ReapedIs DEF ProcOK, ProcessStep, OnlyEnd
<1>2. CASE \E c \in Commands : PowerctlRefused(c) \/ Powerctl(c)
  <2> PICK c \in Commands : PowerctlRefused(c) \/ Powerctl(c)
    BY <1>2
  <2>1. CASE PowerctlRefused(c)
    BY <1>0, <2>1 DEF PowerctlRefused, svcVars
  <2>2. CASE Powerctl(c)
    <3>1. pc = "Idle" /\ (proc' = Started(proc, {BlankScreen}) \/ proc' = proc)
      BY <2>2 DEF Powerctl
    <3> QED
      BY <3>1, StartedIs DEF ProcessStep, ProcOK
  <2> QED
    BY <2>1, <2>2
<1>3. CASE WaitToBeReaped
  BY <1>0, <1>1, <1>3 DEF WaitToBeReaped
<1>4. CASE Prepare
  <2>1. PICK s1, s2 : pc = "Prepare" /\ (proc' = Started(Started(proc, s1), s2)
                                          \/ proc' = Started(proc, s1))
    BY <1>4 DEF Prepare
  <2>2. Started(proc, s1) \in [Services -> {"none", "alive", "zombie"}]
    BY StartedIs DEF ProcOK
  <2> HIDE DEF Started
  <2>3. Started(Started(proc, s1), s2) \in [Services -> {"none", "alive", "zombie"}]
    BY <2>2, StartedIs
  <2> QED
    BY <2>1, <2>2, <2>3 DEF ProcessStep, ProcOK
<1>5. CASE KillRound \/ StopDebugging
  BY <1>1, <1>5 DEF KillRound, StopDebugging, StopNow
<1>6. CASE \E s \in Services, how \in Signals : ProcessExits(s, how)
  <2> PICK s \in Services, how \in Signals : ProcessExits(s, how)
    BY <1>6
  <2>1. proc[s] = "alive" /\ proc' = [proc EXCEPT ![s] = "zombie"]
    BY DEF ProcessExits
  <2> QED
    BY <2>1 DEF ProcessStep, ProcOK, OnlyEnd
<1>7. CASE HandleUserspaceReboot \/ UserspaceRebootGivenUp \/ Watchdog \/ BootCompletes \/ Tick \/ Monitor
  BY <1>0, <1>7 DEF HandleUserspaceReboot, UserspaceRebootGivenUp, Watchdog, WatchdogAdvances, WatchdogReboots,
     BootCompletes, Tick, Monitor, MonitorStarts, MonitorPosted, MonitorFires, svcVars
<1>8. CASE InitFatalReboot \/ FatalChildReboots \/ FatalParentReboots
  BY <1>0, <1>8 DEF InitFatalReboot, FatalChildReboots, FatalParentReboots, svcVars
<1>9. CASE DoReboot \/ TermRound \/ TryUmount \/ UmountPass \/ KillAllProcesses
           \/ PauseMonitor \/ FsckDone \/ Finish \/ RebootNow \/ SemInitFails
  BY <1>0, <1>9 DEF DoReboot, TermRound, StopAndWait, TryUmount, UmountPass,
     KillAllProcesses, PauseMonitor, FsckDone, Post, Finish, RebootNow, SemInitFails, svcVars
<1>10. CASE DoUserspaceReboot \/ UTerm \/ UKill \/ UCheck \/ UDebug \/ UCheckDebug
            \/ UResume \/ UFail
  BY <1>0, <1>10 DEF DoUserspaceReboot, UTerm, UKill, UDebug, StopAndWait, UCheck, UCheckDebug,
     CheckStopped, UResume, UFail, svcVars
<1>11. CASE ExternalSteps
  BY <1>0, <1>11 DEF ExternalSteps, VoldShutdown, UVdc, KillZram, UnmountApexes, svcVars
<1>12. CASE UNCHANGED vars
  BY <1>0, <1>12 DEF vars, svcVars
<1> QED
  BY <1>2, <1>3, <1>4, <1>5, <1>6, <1>7, <1>8, <1>9, <1>10, <1>11, <1>12
  DEF Next, InitSteps, KernelSteps

\* The process table holds.
LEMMA ProcTypes == Spec => []ProcOK
<1>1. Init => ProcOK
  BY DEF Init, ProcOK
<1>2. ProcOK /\ [Next]_vars => ProcOK'
  BY ProcessesOnlyEnd DEF ProcessStep
<1> QED
  BY <1>1, <1>2, PTL DEF Spec

-----------------------------------------------------------------------------
(* fsck                                                                       *)

\* The stages before /data is unmounted, and those after.
WithData == Stopping \ {"KillAll", "UmountForced", "PauseMonitor"}
WithoutData == {"PauseMonitor", "Fsck"}

\* Every action but DoReboot and UmountPass leaves /data where it is, and enters those
\* stages only from within.
DataIsLeftAlone ==
  /\ pc' \in WithData => pc \in WithData
  /\ pc' \in WithoutData => pc \in WithoutData /\ UNCHANGED <<mounts, stat>>
  /\ "data" \in mounts => "data" \in mounts'

\* DataIsLeftAlone is what every action but DoReboot and UmountPass does.
LEMMA DataFrame == [Next]_vars /\ ~DoReboot /\ ~UmountPass => DataIsLeftAlone
<1> SUFFICES ASSUME [Next]_vars, ~DoReboot, ~UmountPass PROVE DataIsLeftAlone
  OBVIOUS
<1> USE DEF DataIsLeftAlone, WithData, WithoutData, Stopping
<1>1. CASE \E c \in Commands : PowerctlRefused(c) \/ Powerctl(c)
  BY <1>1 DEF PowerctlRefused, Powerctl
<1>2. CASE HandleUserspaceReboot \/ UserspaceRebootGivenUp \/ BootCompletes \/ Tick \/ Monitor
  BY <1>2 DEF HandleUserspaceReboot, UserspaceRebootGivenUp, BootCompletes, Tick, Monitor, MonitorStarts,
     MonitorPosted, MonitorFires
<1>3. CASE WaitToBeReaped
  BY <1>3, AfterWaitIs DEF WaitToBeReaped
<1>4. CASE Prepare \/ TermRound \/ KillRound \/ StopDebugging
  BY <1>4 DEF Prepare, TermRound, KillRound, StopDebugging, StopAndWait, StopNow
<1>5. CASE TryUmount \/ KillAllProcesses \/ PauseMonitor \/ FsckDone \/ Finish \/ RebootNow
           \/ SemInitFails
  BY <1>5 DEF TryUmount, KillAllProcesses, PauseMonitor, FsckDone, Post, Finish, RebootNow,
     SemInitFails
<1>6. CASE DoUserspaceReboot \/ UTerm \/ UKill \/ UDebug
  BY <1>6 DEF DoUserspaceReboot, UTerm, UKill, UDebug, StopAndWait
<1>7. CASE UCheck \/ UCheckDebug \/ UResume \/ UFail
  BY <1>7 DEF UCheck, UCheckDebug, CheckStopped, UResume, UFail
<1>8. CASE ExternalSteps
  BY <1>8 DEF ExternalSteps, VoldShutdown, UVdc, KillZram, UnmountApexes
<1>9. CASE Watchdog
  BY <1>9 DEF Watchdog, WatchdogAdvances, WatchdogReboots
<1>10. CASE InitFatalReboot \/ FatalChildReboots \/ FatalParentReboots
  BY <1>10 DEF InitFatalReboot, FatalChildReboots, FatalParentReboots
<1>11. CASE \E s \in Services, how \in Signals : ProcessExits(s, how)
  BY <1>11 DEF ProcessExits
<1>12. CASE UNCHANGED vars
  BY <1>12 DEF vars
<1> QED
  BY <1>1, <1>2, <1>3, <1>4, <1>5, <1>6, <1>7, <1>8, <1>9, <1>10, <1>11, <1>12
  DEF Next, InitSteps, KernelSteps

\* A pass of UmountPartitions that finds /data mounted takes it away only when no process
\* holds it.
LEMMA UmountPassKeepsData == Unmounting /\ UmountPass => Unmounting'
<1> SUFFICES ASSUME Unmounting, UmountPass PROVE Unmounting'
  OBVIOUS
<1>1. PICK readable \in BOOLEAN :
        LET result == IF ~readable THEN "error"
                      ELSE IF "data" \notin Unmounted(mounts) THEN "success"
                      ELSE IF umountLeft < 0 THEN "timeout" ELSE "again"
        IN
        /\ mounts' = IF readable THEN Unmounted(mounts) ELSE mounts
        /\ IF result = "again" THEN UNCHANGED <<pc, stat>>
           ELSE IF pc = "Umount"
                THEN /\ stat' = result
                     /\ pc' = IF result # "success" THEN "KillAll"
                              ELSE IF runFsck THEN "PauseMonitor" ELSE "Finish"
                ELSE UNCHANGED stat /\ pc' = "Finish"
  BY DEF UmountPass
<1>2. pc \in {"Umount", "UmountForced"} /\ proc' = proc
  BY DEF UmountPass, svcVars
<1>3. pc' \in WithoutData =>
        pc = "Umount" /\ readable /\ "data" \notin Unmounted(mounts) /\ stat' = "success"
  BY <1>1, <1>2 DEF WithoutData
<1>4. pc' \in WithData => pc' = "Umount" /\ pc = "Umount" /\ "data" \in mounts'
  <2>1. pc' \in WithData => pc' = pc
    BY <1>1, <1>2 DEF WithData, Stopping
  <2>2. pc' = pc /\ pc = "Umount" => readable /\ "data" \in Unmounted(mounts)
    BY <1>1
  <2> QED
    BY <1>1, <1>2, <2>1, <2>2 DEF WithData, Stopping
<1>5. "data" \in mounts /\ "data" \notin Unmounted(mounts) => ~Held
  BY DEF Unmounted
<1>6. pc = "Umount" => "data" \in mounts
  BY DEF Unmounting, Stopping
<1>7. ~Held => Quiet'
  BY <1>2 DEF Held, Quiet
<1> QED
  BY <1>1, <1>3, <1>4, <1>5, <1>6, <1>7 DEF Unmounting, WithData, WithoutData

\* fsck never runs on a mounted or busy /data, nor after the last resort
\* (TryUmountAndFsck, UmountPartitions), whatever the services do.
THEOREM FsckIsAlwaysSafe == Spec => []FsckIsSafe
<1>1. Init => Unmounting
  BY DEF Init, Unmounting, Stopping
<1>2. ProcOK /\ Unmounting /\ [Next]_vars => Unmounting'
  <2> SUFFICES ASSUME ProcOK, Unmounting, [Next]_vars PROVE Unmounting'
    OBVIOUS
  <2>1. CASE UmountPass
    BY <2>1, UmountPassKeepsData
  <2>2. CASE DoReboot
    BY <2>2 DEF DoReboot, Unmounting, Stopping
  <2>3. CASE ~DoReboot /\ ~UmountPass
    <3>1. DataIsLeftAlone
      BY <2>3, DataFrame
    <3>2. pc \in WithoutData /\ Quiet => Quiet'
      <4>1. pc \in WithoutData => OnlyEnd
        BY ProcessesOnlyEnd DEF ProcessStep, WithoutData
      <4>2. HoldsData \subseteq Services
        BY RebootConstants
      <4> QED
        BY <4>1, <4>2 DEF OnlyEnd, Quiet
    <3> QED
      BY <3>1, <3>2 DEF DataIsLeftAlone, Unmounting, WithData, WithoutData
  <2> QED
    BY <2>1, <2>2, <2>3
<1>3. Unmounting => FsckIsSafe
  BY DEF Unmounting, FsckIsSafe, Quiet
<1> QED
  BY <1>1, <1>2, <1>3, ProcTypes, PTL DEF Spec

-----------------------------------------------------------------------------
(* Userspace reboot                                                           *)

\* The actions that carry the userspace reboot on.
UActions ==
  \/ WaitToBeReaped \/ DoUserspaceReboot \/ UTerm \/ UKill \/ UCheck \/ UDebug \/ UCheckDebug
  \/ UVdc \/ KillZram("UZram", "UVdc", "UFail") \/ UnmountApexes("UApex", "UNamespace", "UFail")
  \/ UResume

\* Every other action enters its stages only from within, and leaves the plan, the
\* services and the APEXes as they are.
UStages == UStopping \cup UStopped \cup UDone
PlanIsLeftAlone ==
  /\ pc' \in UStages => pc' = pc /\ UNCHANGED <<stopFirst, wereEnabled, disabled, updated>>
  /\ UNCHANGED listed /\ mounts' \subseteq mounts
  /\ pc = "Resumed" => pc' \in {"Resumed", "Fatal"}
  /\ pc = "Fatal" => pc' = "Fatal"

\* PlanIsLeftAlone is what every action but UActions does.
LEMMA PlanFrame == [Next]_vars /\ ~UActions => PlanIsLeftAlone
<1> SUFFICES ASSUME [Next]_vars, ~UActions PROVE PlanIsLeftAlone
  OBVIOUS
<1> USE DEF PlanIsLeftAlone, UStages, UStopping, UStopped, UDone, svcVars, planVars
<1>1. CASE \E c \in Commands : PowerctlRefused(c) \/ Powerctl(c)
  BY <1>1 DEF PowerctlRefused, Powerctl
<1>2. CASE HandleUserspaceReboot \/ UserspaceRebootGivenUp \/ BootCompletes \/ Tick \/ Monitor
  BY <1>2 DEF HandleUserspaceReboot, UserspaceRebootGivenUp, BootCompletes, Tick, Monitor, MonitorStarts,
     MonitorPosted, MonitorFires
<1>3. CASE DoReboot \/ Prepare \/ TermRound \/ KillRound \/ StopDebugging
  BY <1>3 DEF DoReboot, Prepare, TermRound, KillRound, StopDebugging, StopAndWait, StopNow
<1>4. CASE TryUmount \/ KillAllProcesses \/ PauseMonitor \/ FsckDone \/ Finish \/ RebootNow
           \/ SemInitFails
  BY <1>4 DEF TryUmount, KillAllProcesses, PauseMonitor, FsckDone, Post, Finish, RebootNow,
     SemInitFails
<1>5. CASE UmountPass
  <2>1. mounts' \subseteq mounts
    BY <1>5 DEF UmountPass, Unmounted
  <2> QED
    BY <1>5, <2>1 DEF UmountPass
<1>6. CASE UFail
  BY <1>6 DEF UFail
<1>7. CASE VoldShutdown \/ KillZram("Zram", "Apex", "Apex")
           \/ UnmountApexes("Apex", "TryUmount", "TryUmount")
  BY <1>7 DEF VoldShutdown, KillZram, UnmountApexes
<1>8. CASE Watchdog
  BY <1>8 DEF Watchdog, WatchdogAdvances, WatchdogReboots
<1>9. CASE InitFatalReboot \/ FatalChildReboots \/ FatalParentReboots
  BY <1>9 DEF InitFatalReboot, FatalChildReboots, FatalParentReboots
<1>10. CASE \E s \in Services, how \in Signals : ProcessExits(s, how)
  BY <1>10 DEF ProcessExits
<1>11. CASE UNCHANGED vars
  BY <1>11 DEF vars
<1> QED
  BY <1>1, <1>2, <1>3, <1>4, <1>5, <1>6, <1>7, <1>8, <1>9, <1>10, <1>11
  DEF Next, InitSteps, KernelSteps, ExternalSteps, UActions

\* While processes only end, the services that are stopped stay so.
LEMMA StoppedStays ==
  ASSUME OnlyEnd
  PROVE  \A s \in Services : IsRunning(s)' => IsRunning(s)
BY DEF OnlyEnd, IsRunning

\* The userspace reboot keeps its invariant stage by stage.
LEMMA UActionsKeepStopped == ProcOK /\ Stopped /\ UActions => Stopped'
<1> SUFFICES ASSUME ProcOK, Stopped, UActions PROVE Stopped'
  OBVIOUS
<1> USE DEF UStopping, UStopped, UDone
<1>0. pc \notin {"Idle", "Prepare", "Fatal"} /\ (\A s \in Services : IsRunning(s)' => IsRunning(s))
  <2>1. pc \notin {"Idle", "Prepare", "Fatal"}
    BY AfterWaitIs DEF UActions, WaitToBeReaped, DoUserspaceReboot, UTerm, UKill, UDebug,
       StopAndWait, UCheck, UCheckDebug, CheckStopped, UVdc, KillZram, UnmountApexes, UResume
  <2>2. Next
    BY DEF UActions, Next, InitSteps, ExternalSteps
  <2> QED
    BY <2>1, <2>2, ProcessesOnlyEnd, StoppedStays DEF ProcessStep
<1>1. PostData \subseteq Services /\ Debugging \subseteq Services
  BY RebootConstants
<1>2. CASE WaitToBeReaped
  <2>1. /\ UNCHANGED <<stopFirst, wereEnabled, disabled, listed, mounts>>
        /\ pc \in DOMAIN AfterWait /\ (pc' = pc \/ pc' = AfterWait[pc])
    BY <1>2 DEF WaitToBeReaped, planVars
  <2>2. /\ pc' \in UStopping => pc \in UStopping
        /\ pc' \in UStopped => pc \in UStopped
        /\ pc' \notin UDone /\ pc # "Resumed"
    BY <2>1, AfterWaitIs
  <2> HIDE DEF UStopping, UStopped, UDone
  <2>3. pc' # "Resumed" /\ pc' # "UNamespace"
    BY <2>2 DEF UDone
  <2> QED
    BY <1>0, <1>1, <2>1, <2>2, <2>3 DEF Stopped
<1>3. CASE DoUserspaceReboot
  <2>1. UNCHANGED <<proc, listed>> /\ pc = "DoUserspaceReboot" /\ pc' \in {"UFail", "UTerm"}
    BY <1>3 DEF DoUserspaceReboot, svcVars
  <2>2. listed = Services
    BY <2>1 DEF Stopped
  <2>3. pc' = "UTerm" =>
          \A s \in PostData \ Debugging : IsRunning(s)' => s \in stopFirst'
    BY <1>0, <1>1, <1>3, <2>1, <2>2 DEF DoUserspaceReboot
  <2> QED
    BY <2>1, <2>2, <2>3 DEF Stopped
<1>4. CASE UTerm \/ UKill \/ UDebug
  <2>1. /\ UNCHANGED <<stopFirst, wereEnabled, listed, mounts>>
        /\ \/ pc = "UTerm" /\ pc' = "UWaitTerm"
           \/ pc = "UKill" /\ pc' = "UWaitKill"
           \/ pc = "UDebug" /\ pc' = "UWaitDebug"
    BY <1>4 DEF UTerm, UKill, UDebug, StopAndWait, planVars
  <2> QED
    BY <1>0, <1>1, <2>1 DEF Stopped
<1>5. CASE UCheck
  <2>1. /\ UNCHANGED <<proc, stopFirst, listed, mounts>> /\ pc = "UCheck"
        /\ pc' = IF Violators(stopFirst) = {} THEN "UZram" ELSE "UFail"
    BY <1>5 DEF UCheck, CheckStopped, svcVars, planVars
  <2>2. listed = Services
    BY <2>1 DEF Stopped
  <2>3. Violators(stopFirst) = {} => \A s \in PostData \ Debugging : ~IsRunning(s)
    BY <1>1, <2>1, <2>2 DEF Violators, Stopped
  <2>4. pc' = "UZram" => \A s \in PostData \ Debugging : ~IsRunning(s)'
    BY <1>0, <1>1, <2>1, <2>3
  <2> QED
    BY <2>1, <2>2, <2>4 DEF Stopped
<1>6. CASE UCheckDebug
  <2>1. /\ UNCHANGED <<proc, stopFirst, listed, mounts>> /\ pc = "UCheckDebug"
        /\ pc' = IF Violators(Debugging \cap PostData) = {} THEN "UApex" ELSE "UFail"
    BY <1>6 DEF UCheckDebug, CheckStopped, svcVars, planVars
  <2>2. listed = Services
    BY <2>1 DEF Stopped
  <2>3. Violators(Debugging \cap PostData) = {} => \A s \in PostData : ~IsRunning(s)
    BY <1>1, <2>1, <2>2 DEF Violators, Stopped
  <2>4. pc' = "UApex" => \A s \in PostData : ~IsRunning(s)'
    BY <1>0, <1>1, <2>1, <2>3
  <2> QED
    BY <2>1, <2>2, <2>4 DEF Stopped
<1>7. CASE UVdc \/ KillZram("UZram", "UVdc", "UFail")
  <2>1. /\ UNCHANGED <<stopFirst, listed>> /\ pc \in UStopped
        /\ pc' \in {"UDebug", "UVdc", "UFail"}
    BY <1>7 DEF UVdc, KillZram, svcVars, planVars
  <2> QED
    BY <1>0, <1>1, <2>1 DEF Stopped
<1>8. CASE UnmountApexes("UApex", "UNamespace", "UFail")
  <2>1. /\ UNCHANGED <<stopFirst, listed>> /\ pc = "UApex"
        /\ pc' = "UFail" \/ (pc' = "UNamespace" /\ "apex" \notin mounts')
    BY <1>8 DEF UnmountApexes, svcVars, planVars
  <2> QED
    BY <1>0, <1>1, <2>1 DEF Stopped
<1>9. CASE UResume
  <2>1. /\ pc = "UNamespace" /\ UNCHANGED <<mounts, wereEnabled>>
        /\ \/ pc' = "UFail" /\ UNCHANGED listed
           \/ /\ listed' = listed \ FromApex /\ pc' = "Resumed"
              /\ disabled' = disabled \ (wereEnabled \cap listed') /\ updated' = FALSE
    BY <1>9 DEF UResume, planVars
  <2> QED
    BY <1>0, <1>1, <2>1 DEF Stopped
<1> QED
  BY <1>2, <1>3, <1>4, <1>5, <1>6, <1>7, <1>8, <1>9 DEF UActions

\* Userspace comes up again only over a clean base (DoUserspaceReboot,
\* StopServicesAndLogViolations), whichever services there are, were running or hang.
THEOREM ResumeIsAlwaysClean == Spec => []ResumeIsClean
<1>1. Init => Stopped
  BY DEF Init, Stopped, UStopping, UStopped, UDone
<1>2. ProcOK /\ Stopped /\ [Next]_vars => Stopped'
  <2> SUFFICES ASSUME ProcOK, Stopped, [Next]_vars, ~UActions PROVE Stopped'
    BY UActionsKeepStopped
  <2>1. PlanIsLeftAlone
    BY PlanFrame
  <2>2. pc \in UStages => \A s \in Services : IsRunning(s)' => IsRunning(s)
    BY ProcessesOnlyEnd, StoppedStays DEF ProcessStep, UStages, UStopping, UStopped, UDone
  <2>3. PostData \subseteq Services
    BY RebootConstants
  <2>4. UNCHANGED listed /\ mounts' \subseteq mounts
    BY <2>1 DEF PlanIsLeftAlone
  <2>5. CASE pc' \in UStages
    BY <2>1, <2>2, <2>3, <2>4, <2>5 DEF PlanIsLeftAlone, Stopped, UStages
  <2>6. CASE pc' \notin UStages
    BY <2>1, <2>4, <2>6
    DEF PlanIsLeftAlone, Stopped, UStages, UStopping, UStopped, UDone
  <2> QED
    BY <2>5, <2>6
<1>3. Stopped => ResumeIsClean
  BY DEF Stopped, ResumeIsClean, UDone
<1> QED
  BY <1>1, <1>2, <1>3, ProcTypes, PTL DEF Spec

-----------------------------------------------------------------------------
(* The bootloader message                                                     *)

\* Every action but Powerctl, UFail, RebootNow and SemInitFails leaves the message and the target alone,
\* and takes the device down, if it does, in its own name.
LEMMA MessageFrame ==
  ASSUME Next, ~(\E c \in Commands : Powerctl(c)), ~UFail, ~RebootNow, ~SemInitFails
  PROVE  UNCHANGED <<target, bcb>> /\ DeviceUp /\ (device' = device \/ device'.by # "init")
<1> USE DEF bootVars, cmdVars
<1>1. CASE \E c \in Commands : PowerctlRefused(c)
  BY <1>1 DEF PowerctlRefused
<1>2. CASE HandleUserspaceReboot \/ UserspaceRebootGivenUp \/ BootCompletes \/ Tick
  BY <1>2 DEF HandleUserspaceReboot, UserspaceRebootGivenUp, BootCompletes, Tick
<1>3. CASE Monitor
  BY <1>3, DownBy DEF Monitor, MonitorStarts, MonitorPosted, MonitorFires
<1>4. CASE DoReboot \/ Prepare \/ TermRound \/ KillRound \/ StopDebugging \/ WaitToBeReaped
  BY <1>4 DEF DoReboot, Prepare, TermRound, KillRound, StopDebugging, StopAndWait, StopNow,
     WaitToBeReaped
<1>5. CASE TryUmount \/ UmountPass \/ KillAllProcesses \/ PauseMonitor \/ FsckDone \/ Finish
  BY <1>5 DEF TryUmount, UmountPass, KillAllProcesses, PauseMonitor, FsckDone, Post, Finish
<1>6. CASE DoUserspaceReboot \/ UTerm \/ UKill \/ UDebug \/ UCheck \/ UCheckDebug \/ UResume
  BY <1>6 DEF DoUserspaceReboot, UTerm, UKill, UDebug, StopAndWait, UCheck, UCheckDebug,
     CheckStopped, UResume
<1>7. CASE ExternalSteps
  BY <1>7 DEF ExternalSteps, VoldShutdown, UVdc, KillZram, UnmountApexes
<1>8. CASE Watchdog
  BY <1>8, DownBy DEF Watchdog, WatchdogAdvances, WatchdogReboots
<1>9. CASE InitFatalReboot \/ FatalChildReboots \/ FatalParentReboots
  BY <1>9, DownBy DEF InitFatalReboot, FatalChildReboots, FatalParentReboots
<1>10. CASE \E s \in Services, how \in Signals : ProcessExits(s, how)
  BY <1>10 DEF ProcessExits
<1> QED
  BY <1>1, <1>2, <1>3, <1>4, <1>5, <1>6, <1>7, <1>8, <1>9, <1>10
  DEF Next, InitSteps, KernelSteps

\* A request whose target is recovery leaves a command in the bootloader message.
LEMMA RequestLeavesCommand ==
  ASSUME NEW c \in Commands, Powerctl(c), target' = "recovery"
  PROVE  CommandIsPresent(bcb')
<1>1. /\ c.verb = "reboot" /\ Destination(c.arg) \in {"sideload", "fastboot", "recovery"}
  BY DEF Powerctl, TargetOf
<1>2. bcb' \in BcbOutcomes(c.arg) /\ bcb' # "fails"
  BY <1>1 DEF Powerctl
<1>3. CASE Destination(c.arg) = "recovery"
  <2>1. bcb' \in UNION {IF CommandIsPresent(b) THEN {bcb} ELSE {"boot-recovery", "fails"} :
                      b \in ReadBcb}
    BY <1>2, <1>3 DEF BcbOutcomes
  <2>2. PICK b \in ReadBcb :
          bcb' \in (IF CommandIsPresent(b) THEN {bcb} ELSE {"boot-recovery", "fails"})
    BY <2>1
  <2> QED
    BY <1>2, <2>2 DEF ReadBcb, CommandIsPresent
<1>4. CASE Destination(c.arg) \in {"sideload", "fastboot"}
  BY <1>2, <1>4 DEF BcbOutcomes, CommandIsPresent
<1> QED
  BY <1>1, <1>3, <1>4

\* Init reboots into recovery only with a command in the bootloader message
\* (HandlePowerctlMessage, RebootSystem), for every request and whatever the message held.
THEOREM RecoveryAlwaysHasCommand == Spec => []RecoveryHasCommand
<1>1. Init => Message
  <2> SUFFICES ASSUME Init PROVE Message
    OBVIOUS
  <2>1. target = "" /\ device = Up
    BY DEF Init
  <2> QED
    BY <2>1 DEF Message, Up
<1>2. Message /\ [Next]_vars => Message'
  <2> SUFFICES ASSUME Message, [Next]_vars PROVE Message'
    OBVIOUS
  <2>0. Up.by # "init"
    BY DEF Up
  <2>1. CASE \E c \in Commands : Powerctl(c)
    <3> PICK c \in Commands : Powerctl(c)
      BY <2>1
    <3>1. device' = Up
      BY DEF Powerctl, DeviceUp
    <3> QED
      BY <2>0, <3>1, RequestLeavesCommand DEF Message, CommandIsPresent
  <2>2. CASE UFail
    <3>1. device' = Up /\ target' = "userspace_failed"
      BY <2>2 DEF UFail, DeviceUp
    <3> QED
      BY <2>0, <3>1 DEF Message
  <2>3. CASE RebootNow \/ SemInitFails
    <3>1. device' = RebootSystem(cmd, target, "init") /\ UNCHANGED <<target, bcb>>
      BY <2>3 DEF RebootNow, SemInitFails, bootVars, cmdVars
    <3>2. device'.target = "recovery" => target = "recovery"
      BY <3>1 DEF RebootSystem
    <3> QED
      BY <3>1, <3>2 DEF Message, CommandIsPresent
  <2>4. CASE Next /\ ~(\E c \in Commands : Powerctl(c)) /\ ~UFail /\ ~RebootNow /\ ~SemInitFails
    <3>1. /\ UNCHANGED <<target, bcb>> /\ device = Up
          /\ device' = device \/ device'.by # "init"
      BY <2>4, MessageFrame DEF DeviceUp
    <3> QED
      BY <2>0, <3>1 DEF Message, CommandIsPresent
  <2>5. CASE UNCHANGED vars
    BY <2>5 DEF vars, bootVars, cmdVars, Message, CommandIsPresent
  <2> QED
    BY <2>1, <2>2, <2>3, <2>4, <2>5
<1>3. Message => RecoveryHasCommand
  BY DEF Message, RecoveryHasCommand
<1> QED
  BY <1>1, <1>2, <1>3, PTL DEF Spec
=============================================================================
