----------------------------- MODULE MCService -----------------------------
(***************************************************************************)
(* Instances of Service for TLC: two services and the commands that make   *)
(* them interact; each configuration file exercises one part.              *)
(***************************************************************************)
EXTENDS Service, TLC

CONSTANTS a, b, t, p1, p2, p3

On(op, s) == [op |-> op, svc |-> s]
Each(op, seq) == [i \in 1..Len(seq) |-> On(op, seq[i])]
Main == <<a, b>>  \* the class both services belong to

\* Pids are interchangeable: the code only compares them for equality.
PidSymmetry == Permutations(Pids)

NoOnRestart == [s \in {a, b} |-> <<>>]
RebootRules == [s \in {a, b} |-> "reboot"]

(* Lifecycle: a daemon whose restart also restarts a oneshot, rc-disabled     *)
(* service, driven through every class command and control message.           *)
LifecycleFlags == (a :> {}) @@ (b :> {"ONESHOT", "DISABLED", "RC_DISABLED"})
LifecycleOnRestart == (a :> <<On("Restart", b)>>) @@ (b :> <<>>)
LifecycleCommands ==
  {Each("StartIfNotDisabled", Main), Each("Stop", Main), Each("Reset", Main),
   Each("Restart", Main), <<On("Enable", b)>>}
LifecycleCtl ==
  {On(op, s) : op \in {"Start", "Stop", "Restart"}, s \in {a, b}}
  \cup {On("oneshot_on", a), On("oneshot_off", a)}

(* Boot: an updatable daemon, a oneshot that is exec_started, a temporary     *)
(* service; perform_apex_config, the post-data commands and reparented        *)
(* orphans.                                                                   *)
BootFlags == (a :> {}) @@ (b :> {"ONESHOT"})
PerformApexConfig ==
  <<On("MarkServicesUpdate", a), On("SetDefaultMountNamespaceReady", a)>>
BootCommands ==
  {<<On("StartIfNotDisabled", a)>>, PerformApexConfig, <<On("MarkPostData", a)>>,
   <<On("ResetIfPostData", a)>>, <<On("StartIfPostData", a)>>,
   <<On("ExecStart", b)>>, <<On("exec", t)>>, <<On("exec_background", t)>>}

(* Failures: a critical daemon whose failures the Innit policy only restarts,  *)
(* and one with a console, both with a reboot_on_failure target; every way    *)
(* Start() can fail, by every call that leads to it.                          *)
FailureFlags == (a :> {"CRITICAL"}) @@ (b :> {"CONSOLE", "DISABLED"})
FailureRules == (a :> "restart") @@ (b :> "reboot")
FailureCommands ==
  {<<On("Start", a)>>, <<On("StartIfNotDisabled", b)>>, <<On("Enable", b)>>,
   <<On("MarkPostData", a)>>, <<On("ResetIfPostData", a)>>, <<On("StartIfPostData", a)>>}
FailureCtl == {On("Restart", a), On("Stop", a), On("Start", b)}

(* Liveness: a daemon whose restart restarts another, stopped and started at  *)
(* any time.                                                                  *)
LiveFlags == (a :> {}) @@ (b :> {"ONESHOT"})
LiveOnRestart == (a :> <<On("Restart", b)>>) @@ (b :> <<>>)
LiveCtl == {On("Start", a), On("Stop", a), On("Stop", b)}
=============================================================================
