------------------------------ MODULE InitLoop ------------------------------
(***************************************************************************)
(* The second-stage main loop (init.cpp), the action queue it drains       *)
(* (action.cpp, action_manager.cpp) and the property service thread that   *)
(* feeds it (property_service.cpp), with the shutdown requests of          *)
(* reboot.cpp.                                                             *)
(*                                                                         *)
(* Two threads of one process.  The property thread serves one client at a *)
(* time; the main thread is one of its clients: SetProperty() in a command *)
(* blocks until the property thread has answered.  The property thread in  *)
(* turn writes the event queue, the control message queue, the property    *)
(* wait and the shutdown request of the main thread, each under a mutex,   *)
(* and wakes it through an eventfd.                                        *)
(*                                                                         *)
(* What a control message, a service restart or DoReboot() does to the     *)
(* services is the subject of module Service.                              *)
(***************************************************************************)
EXTENDS Naturals, Sequences, FiniteSets

CONSTANTS
  Props,          \* property names other than sys.powerctl and ctl.*
  Values,         \* their values, "" included: the property is not set
  ReadOnly,       \* the ro.* properties, which are written once
  RcActions,      \* Seq of the actions of the .rc files, in parsing order
  EventTrigger,   \* [action -> event name, "" for none]
  PropTriggers,   \* [action -> [some Props -> Values and "*"]]
  CommandsOf,     \* [action -> Seq(Command)]
  AllowedEvents,  \* the event triggers the Innit policy admits
  ClientSets,     \* the (name, value) pairs clients may set
  CtlClients,     \* clients that send one control message each
  PowerCommands,  \* the values clients may give sys.powerctl
  MaxSets,        \* bound: property sets by clients, ro.* not counted
  CtlLimit,       \* 100 in the code: a message finding more than this is dropped
  UserspaceReboot \* is_userspace_reboot_supported

ColdBootDone == "ro.cold_boot_done"

Builtins == {"wait_for_coldboot_done", "queue_property_triggers",
             "enable_property_trigger", "shutdown_done", "userspace-reboot"}

ActionIds == {RcActions[i] : i \in DOMAIN RcActions}

\* Commands of an action: the event is the name of a trigger, the shutdown command
\* the value of a trigger_shutdown (any command that fails badly enough).
Command == [op : {"nop", "setprop", "wait_for_prop", "exec", "trigger",
                  "trigger_shutdown"}, name : STRING, value : STRING]

\* The shutdown commands HandlePowerctlMessage tells apart: one it does not
\* recognise, a reboot, a reboot whose bootloader message may fail to be written,
\* a userspace reboot.
Power == {"invalid", "reboot", "reboot,recovery", "reboot,userspace"}

\* A set that is not a control message, and a command with the arguments it takes.
Settable(name, value) ==
  (name \in Props /\ value \in Values) \/ (name = "sys.powerctl" /\ value \in Power)
WellFormed(c) ==
  /\ c.op = "setprop" => Settable(c.name, c.value)
  /\ c.op = "wait_for_prop" => c.name \in Props /\ c.value \in Values
  /\ c.op = "trigger_shutdown" => c.value \in Power

Event == [kind : {"event", "property"}, name : STRING, value : STRING]
           \cup [kind : {"builtin"}, name : Builtins, value : {""}]

NoWait == [name |-> "", value |-> ""]
NoReq == [from |-> "none", name |-> "", value |-> ""]

Ev(name) == [kind |-> "event", name |-> name, value |-> ""]
PropChange(name, value) == [kind |-> "property", name |-> name, value |-> value]
Builtin(name) == [kind |-> "builtin", name |-> name, value |-> ""]

ASSUME InitLoopConstants ==
  /\ {"", "true"} \subseteq Values /\ Props \cup Values \subseteq STRING
  /\ ColdBootDone \in ReadOnly /\ ReadOnly \subseteq Props
  /\ Props \cap {"", "ctl", "sys.powerctl"} = {}
  /\ CtlClients \cap {"none", "client", "command", "ctl"} = {}
  /\ \A a \in ActionIds : /\ EventTrigger[a] \in STRING
                          /\ DOMAIN PropTriggers[a] \subseteq Props
                          /\ CommandsOf[a] \in Seq(Command) \ {<<>>}
                          /\ \A i \in DOMAIN CommandsOf[a] : WellFormed(CommandsOf[a][i])
  /\ RcActions \in Seq(STRING)
  /\ \A i, j \in DOMAIN RcActions : RcActions[i] = RcActions[j] => i = j
  /\ ActionIds \cap Builtins = {}
  /\ ClientSets \subseteq Props \X Values
  /\ PowerCommands \subseteq Power
  /\ MaxSets \in Nat /\ CtlLimit \in Nat
  /\ UserspaceReboot \in BOOLEAN

\* The names the code itself uses are strings like those of the scripts.
ASSUME Literals ==
  Builtins \cup Power
    \cup {"", "sys.powerctl", "init.svc", "early-init", "init", "late-init", "shutdown",
          "userspace-reboot-requested", "userspace-reboot-resume"} \subseteq STRING

VARIABLES
  props,           \* the property values
  (* ActionManager *)
  eventQueue,      \* event_queue_
  executing,       \* current_executing_actions_
  command,         \* current_command_
  triggersEnabled, \* property_triggers_enabled
  (* PropWaiterState, ShutdownState, reboot.cpp *)
  waitFor,         \* wait_prop_name_ and wait_prop_value_
  doShutdown,      \* do_shutdown_
  shutdownCommand, \* shutdown_command_
  shuttingDown,    \* shutting_down
  (* main thread *)
  mpc,             \* where it is in the main loop
  todo,            \* its request to the property thread, or its shutdown command
  serving,         \* the sender of the control message it is handling
  woken,           \* what epoll_wait reported
  wake,            \* the eventfd's counter is not zero
  execService,     \* the exec service: none, running or a zombie
  (* property thread *)
  ppc,             \* where it is in PropertySet
  req,             \* the request it is serving
  acceptMessages,  \* accept_messages; its mutex is held while ppc is in PropertyChanged
  ctlQueue,        \* pending_control_messages
  (* the outside *)
  answered,        \* number of replies each control client has got
  asked,           \* control clients that have sent their message
  sets,            \* property sets by clients so far
  rebooted,        \* RebootSystem() has been called
  watchdog,        \* the userspace reboot watchdog process
  owed             \* history: actions whose triggers came true and that have not been
                   \* executed since

amVars == <<eventQueue, executing, command, triggersEnabled, owed>>
stateVars == <<waitFor, doShutdown, shutdownCommand, shuttingDown>>
mainVars == <<mpc, todo, serving, woken>>
propVars == <<ppc, req, ctlQueue>>
clientVars == <<answered, asked, sets>>
envVars == <<execService, rebooted, watchdog>>

vars == <<props, amVars, stateVars, mainVars, wake, propVars, acceptMessages,
          clientVars, envVars>>

\* QueueEventTrigger, subject to the Innit policy.
WithEvent(q, name) == IF name \in AllowedEvents THEN Append(q, Ev(name)) ELSE q

\* What SecondStageMain queues before the loop; builtins that touch no state of
\* this module are left out.
BootQueue ==
  LET q1 == Append(WithEvent(<<>>, "early-init"), Builtin("wait_for_coldboot_done"))
      q2 == WithEvent(WithEvent(q1, "init"), "late-init") IN
  Append(q2, Builtin("queue_property_triggers"))

Init ==
  /\ props = [n \in Props |-> ""]
  /\ eventQueue = BootQueue
  /\ executing = <<>> /\ command = 1 /\ owed = {}
  /\ triggersEnabled = FALSE
  /\ waitFor = NoWait
  /\ doShutdown = FALSE /\ shutdownCommand = "" /\ shuttingDown = FALSE
  /\ mpc = "CheckShutdown" /\ todo = NoReq /\ serving = "none" /\ woken = {} /\ wake = FALSE
  /\ execService = "none"
  /\ ppc = "Idle" /\ req = NoReq /\ acceptMessages = TRUE
  /\ ctlQueue = <<>>
  /\ answered = [c \in CtlClients |-> 0] /\ asked = {} /\ sets = 0
  /\ rebooted = FALSE /\ watchdog = "none"

-----------------------------------------------------------------------------
(* Mutexes.  A critical section of one step needs no state; these span steps.   *)

\* PropertySet and SendControlMessage hold accept_messages_lock while they pass
\* a message to the main thread.
AcceptLockHeld_Unlocked == FALSE
AcceptLockHeld == ppc \in {"Queue", "CheckWait"}
\* ExecuteOneCommand holds event_queue_lock_ while it matches events, and only then.
EventLockHeld == mpc = "Dequeue"
\* StartWaiting reads the property under lock_, so that CheckAndResetWait comes
\* either before the read or after the wait is recorded.
WaiterLockHeld_Unlocked == FALSE
WaiterLockHeld == mpc = "StartWaiting"
\* HandleControlMessages releases pending_control_messages_lock around the handler.
CtlLockHeld_WhileHandling == serving # "none"
CtlLockHeld == FALSE

-----------------------------------------------------------------------------
(* Action *)

\* Action::CheckPropertyTriggers: the pair (name, value), if given, must be one of
\* the triggers; the others are compared with the current property values.
CheckPropertyTriggers(a, name, value) ==
  LET T == PropTriggers[a] IN
  \/ DOMAIN T = {}
  \/ /\ name = "" \/ (name \in DOMAIN T /\ T[name] \in {"*", value})
     /\ \A n \in DOMAIN T \ {name} :
          T[n] = props[n] \/ (T[n] = "*" /\ props[n] # "")

\* Action::CheckEvent
CheckEvent(a, e) ==
  CASE e.kind = "event"    -> EventTrigger[a] = e.name /\ CheckPropertyTriggers(a, "", "")
    [] e.kind = "property" -> EventTrigger[a] = ""
                              /\ CheckPropertyTriggers(a, e.name, e.value)
    [] e.kind = "builtin"  -> FALSE

\* The actions an event adds to the execution queue: the loop over all of them.
Matching(e) ==
  LET Queued[i \in 0..Len(RcActions)] ==
        IF i = 0 THEN <<>>
        ELSE IF CheckEvent(RcActions[i], e) THEN Append(Queued[i - 1], RcActions[i])
        ELSE Queued[i - 1] IN
  IF e.kind = "builtin" THEN <<e.name>> ELSE Queued[Len(RcActions)]

\* ++current_command_, and on to the next action after the last one.
NumCommands(a) == IF a \in Builtins THEN 1 ELSE Len(CommandsOf[a])
NextCommand ==
  IF command = NumCommands(Head(executing))
  THEN command' = 1 /\ executing' = Tail(executing)
  ELSE command' = command + 1 /\ UNCHANGED executing

\* ShutdownState::TriggerShutdown
TriggerShutdown(cmd) ==
  /\ shutdownCommand' = cmd
  /\ doShutdown' = TRUE
  /\ wake' = TRUE

-----------------------------------------------------------------------------
(* The property service thread. *)

\* It takes the next request: that of the main thread, ...
Accept(r) ==
  /\ ppc = "Idle" /\ ~rebooted
  /\ req' = r
  /\ ppc' = IF r.name = "ctl" THEN "Control" ELSE "Write"
  /\ UNCHANGED <<props, amVars, stateVars, mainVars, wake, ctlQueue, acceptMessages,
                 answered, envVars>>

ServeMain == mpc = "SetProperty" /\ Accept(todo) /\ UNCHANGED <<asked, sets>>

\* ... that of a client setting a property, ...
HandlePropertySet ==
  /\ \E s \in ClientSets \cup ({"sys.powerctl"} \X PowerCommands) :
       /\ IF s[1] \in ReadOnly /\ props[s[1]] = "" THEN UNCHANGED sets
          ELSE sets < MaxSets /\ sets' = sets + 1
       /\ s[2] = "reboot,userspace" => UserspaceReboot
       /\ Accept([from |-> "client", name |-> s[1], value |-> s[2]])
  /\ UNCHANGED asked

\* ... or a control message.  Its senders are alike: any order will do.
HandleControlSet ==
  LET c == CHOOSE x \in CtlClients \ asked : TRUE IN
  /\ CtlClients # asked
  /\ asked' = asked \cup {c}
  /\ Accept([from |-> c, name |-> "ctl", value |-> ""])
  /\ UNCHANGED sets

\* The answer to the main thread, which goes on with what it was doing.
Reply ==
  /\ ppc' = "Idle" /\ req' = NoReq
  /\ mpc' = CASE req.from = "command" -> "Timeout"
              [] req.from = "ctl"     -> "CtlReply"
              [] OTHER                -> mpc
  /\ todo' = IF req.from \in {"command", "ctl"} THEN NoReq ELSE todo

\* The actions that a change of n to v, with the other properties as they are,
\* makes due.
Due(n, v) ==
  {a \in ActionIds : /\ EventTrigger[a] = "" /\ n \in DOMAIN PropTriggers[a]
                     /\ CheckPropertyTriggers(a, n, v)}

\* PropertySet: the new value is visible before anyone is told.
Write ==
  /\ ppc = "Write"
  /\ LET known == req.name \in Props
         rejected == known /\ req.name \in ReadOnly /\ props[req.name] # "" IN
     \/ rejected /\ Reply /\ UNCHANGED <<props, owed>>
     \/ /\ ~rejected
        /\ props' = IF known THEN [props EXCEPT ![req.name] = req.value] ELSE props
        /\ owed' = IF known /\ props'[req.name] # props[req.name] /\ acceptMessages
                   THEN owed \cup Due(req.name, req.value) ELSE owed
        /\ ppc' = "Lock"
        /\ UNCHANGED <<mpc, todo, req>>
  /\ UNCHANGED <<eventQueue, executing, command, triggersEnabled, stateVars, serving, woken,
                 wake, ctlQueue, acceptMessages, clientVars, envVars>>

\* accept_messages_lock; the first part of PropertyChanged.
SendPropertyChanged ==
  /\ ppc = "Lock"
  /\ \/ /\ ~acceptMessages
        /\ Reply
        /\ UNCHANGED <<stateVars, wake>>
     \/ /\ acceptMessages
        /\ IF req.name = "sys.powerctl"
           THEN TriggerShutdown(req.value) /\ UNCHANGED <<waitFor, shuttingDown>>
           ELSE UNCHANGED <<stateVars, wake>>
        /\ ppc' = "Queue"
        /\ UNCHANGED <<mpc, todo, req>>
  /\ UNCHANGED <<props, amVars, serving, woken, ctlQueue, acceptMessages, clientVars,
                 envVars>>

\* QueuePropertyChange
QueuePropertyChange ==
  /\ ppc = "Queue" /\ (triggersEnabled => ~EventLockHeld)
  /\ IF triggersEnabled
     THEN eventQueue' = Append(eventQueue, PropChange(req.name, req.value)) /\ wake' = TRUE
     ELSE UNCHANGED <<eventQueue, wake>>
  /\ ppc' = "CheckWait"
  /\ UNCHANGED <<props, executing, command, triggersEnabled, owed, stateVars,
                 mainVars, req, ctlQueue, acceptMessages, clientVars, envVars>>

\* PropWaiterState::CheckAndResetWait, then the reply.
CheckAndResetWait ==
  /\ ppc = "CheckWait" /\ ~WaiterLockHeld
  /\ IF waitFor = [name |-> req.name, value |-> req.value]
     THEN waitFor' = NoWait /\ wake' = TRUE
     ELSE UNCHANGED <<waitFor, wake>>
  /\ Reply
  /\ UNCHANGED <<props, amVars, doShutdown, shutdownCommand, shuttingDown, serving, woken,
                 ctlQueue, acceptMessages, clientVars, envVars>>

QueueControlMessage_Unlimited(c) ==
  ctlQueue' = Append(ctlQueue, c) /\ wake' = TRUE /\ UNCHANGED answered

\* QueueControlMessage; a message that does not fit is answered with an error.
QueueControlMessage(c) ==
  IF Len(ctlQueue) > CtlLimit
  THEN UNCHANGED <<ctlQueue, wake>> /\ answered' = [answered EXCEPT ![c] = @ + 1]
  ELSE ctlQueue' = Append(ctlQueue, c) /\ wake' = TRUE /\ UNCHANGED answered

\* SendControlMessage.  The connection is handed over to the main thread.
SendControlMessage ==
  /\ ppc = "Control" /\ ~CtlLockHeld
  /\ \/ /\ ~acceptMessages
        /\ answered' = [answered EXCEPT ![req.from] = @ + 1]
        /\ UNCHANGED <<ctlQueue, wake>>
     \/ acceptMessages /\ QueueControlMessage(req.from)
  /\ ppc' = "Idle" /\ req' = NoReq
  /\ UNCHANGED <<props, amVars, stateVars, mainVars, acceptMessages, asked, sets, envVars>>

-----------------------------------------------------------------------------
(* The main thread: one iteration of its loop, in the order of the code. *)

Waiting == waitFor # NoWait
ExecServiceRunning == execService # "none"
Blocked == Waiting \/ ExecServiceRunning

\* ShutdownState::CheckShutdown
CheckShutdown ==
  /\ mpc = "CheckShutdown" /\ ~rebooted
  /\ IF doShutdown /\ ~shuttingDown
     THEN /\ todo' = [from |-> "powerctl", name |-> "", value |-> shutdownCommand]
          /\ mpc' = "Powerctl"
     ELSE mpc' = "Commands" /\ UNCHANGED todo
  /\ UNCHANGED <<props, amVars, stateVars, serving, woken, wake, propVars,
                 acceptMessages, clientVars, envVars>>

\* HandlePowerctlMessage returns early for a command it does not recognise and
\* when the bootloader message cannot be written ...
PowerctlRejected ==
  /\ mpc = "Powerctl" /\ todo.value \in {"invalid", "reboot,recovery"}
  /\ mpc' = "ShutdownDone"
  /\ UNCHANGED <<props, amVars, stateVars, todo, serving, woken, wake, propVars,
                 acceptMessages, clientVars, envVars>>

\* ... and otherwise first waits for the property thread to be out of PropertyChanged.
StopSendingMessages ==
  /\ mpc = "Powerctl" /\ todo.value # "invalid"
  /\ ~AcceptLockHeld
  /\ acceptMessages' = FALSE
  /\ mpc' = IF todo.value = "reboot,userspace" THEN "UserspaceReboot" ELSE "Shutdown"
  /\ UNCHANGED <<props, amVars, stateVars, todo, serving, woken, wake, propVars,
                 clientVars, envVars>>

EnterShutdown_KeepsWait == shuttingDown' = TRUE /\ UNCHANGED <<waitFor, execService>>
\* EnterShutdown ends the waits that hold back commands.  (The exec process itself
\* lives on; nobody waits for it any more.)
EnterShutdown ==
  /\ shuttingDown' = TRUE
  /\ waitFor' = NoWait
  /\ execService' = "none"

\* The rest of HandlePowerctlMessage.
Shutdown ==
  /\ mpc = "Shutdown"
  /\ eventQueue' = Append(WithEvent(<<>>, "shutdown"), Builtin("shutdown_done"))
  /\ executing' = <<>> /\ command' = 1 /\ owed' = {}
  /\ EnterShutdown
  /\ mpc' = "ShutdownDone"
  /\ UNCHANGED <<props, triggersEnabled, doShutdown, shutdownCommand, todo,
                 serving, woken, wake, propVars, acceptMessages, clientVars, rebooted,
                 watchdog>>

\* HandleUserspaceReboot: the fork of the watchdog fails, or the queue is replaced.
\* (Where it is not supported, a request that did not come from sys.powerctl stops here.)
HandleUserspaceReboot ==
  /\ mpc = "UserspaceReboot"
  /\ \/ /\ IF UserspaceReboot THEN TriggerShutdown("reboot")
                              ELSE UNCHANGED <<doShutdown, shutdownCommand, wake>>
        /\ UNCHANGED <<eventQueue, executing, command, owed, watchdog>>
     \/ /\ UserspaceReboot
        /\ watchdog' = "start"
        /\ eventQueue' = Append(WithEvent(<<>>, "userspace-reboot-requested"),
                                Builtin("userspace-reboot"))
        /\ executing' = <<>> /\ command' = 1 /\ owed' = {}
        /\ UNCHANGED <<doShutdown, shutdownCommand, wake>>
  /\ mpc' = "ShutdownDone"
  /\ UNCHANGED <<props, triggersEnabled, waitFor, shuttingDown, todo, serving,
                 woken, propVars, acceptMessages, clientVars, execService, rebooted>>

\* set_do_shutdown(false), without the lock and whatever has been requested since.
ShutdownDone ==
  /\ mpc = "ShutdownDone"
  /\ doShutdown' = FALSE
  /\ mpc' = "Commands" /\ todo' = NoReq
  /\ UNCHANGED <<props, amVars, waitFor, shutdownCommand, shuttingDown, serving, woken,
                 wake, propVars, acceptMessages, clientVars, envVars>>

\* No command is run while init waits for a property or an exec service.
Commands ==
  /\ mpc = "Commands"
  /\ mpc' = IF Blocked THEN "Timeout" ELSE "Dequeue"
  /\ UNCHANGED <<props, amVars, stateVars, todo, serving, woken, wake, propVars,
                 acceptMessages, clientVars, envVars>>

\* ExecuteOneCommand takes events until one of them has actions to execute.
Dequeue ==
  /\ mpc = "Dequeue"
  /\ IF executing = <<>> /\ eventQueue # <<>>
     THEN /\ executing' = Matching(Head(eventQueue))
          /\ eventQueue' = Tail(eventQueue)
          /\ owed' = {a \in owed : \A i \in DOMAIN executing' : a # executing'[i]}
          /\ UNCHANGED mpc
     ELSE /\ mpc' = IF executing = <<>> THEN "Timeout" ELSE "Execute"
          /\ UNCHANGED <<executing, eventQueue, owed>>
  /\ UNCHANGED <<props, command, triggersEnabled, stateVars, todo, serving, woken, wake,
                 propVars, acceptMessages, clientVars, envVars>>

\* The command at the head of the queue.  None but these touches the loop's state.
Cmd ==
  LET a == Head(executing) IN
  IF a \in Builtins THEN [op |-> a, name |-> "", value |-> ""] ELSE CommandsOf[a][command]

Nop ==
  /\ Cmd.op = "nop"
  /\ mpc' = "Timeout"
  /\ UNCHANGED <<eventQueue, triggersEnabled, stateVars, todo, wake, envVars>>

\* do_setprop sends the request to the property thread and waits for its answer.
DoSetprop ==
  /\ Cmd.op = "setprop"
  /\ todo' = [from |-> "command", name |-> Cmd.name, value |-> Cmd.value]
  /\ mpc' = "SetProperty"
  /\ UNCHANGED <<eventQueue, triggersEnabled, stateVars, wake, envVars>>

\* StartWaiting, first half: lock_ is taken and the property read.
DoWaitForProp ==
  LET w == IF Cmd.op = "wait_for_prop" THEN [name |-> Cmd.name, value |-> Cmd.value]
           ELSE [name |-> ColdBootDone, value |-> "true"] IN
  /\ Cmd.op \in {"wait_for_prop", "wait_for_coldboot_done"}
  /\ IF Waiting \/ props[w.name] = w.value
     THEN mpc' = "Timeout" /\ UNCHANGED todo
     ELSE /\ mpc' = "StartWaiting"
          /\ todo' = [from |-> "wait", name |-> w.name, value |-> w.value]
  /\ UNCHANGED <<eventQueue, triggersEnabled, stateVars, wake, envVars>>

\* do_exec; the service may fail to start.
DoExec ==
  /\ Cmd.op = "exec"
  /\ execService' \in {"running", "none"}
  /\ mpc' = "Timeout"
  /\ UNCHANGED <<eventQueue, triggersEnabled, stateVars, todo, wake, rebooted, watchdog>>

DoTrigger ==
  /\ Cmd.op = "trigger"
  /\ eventQueue' = WithEvent(eventQueue, Cmd.name)
  /\ mpc' = "Timeout"
  /\ UNCHANGED <<triggersEnabled, stateVars, todo, wake, envVars>>

\* A command whose failure asks for a reboot (reboot_on_failure, vdc, fs_mgr).
DoTriggerShutdown ==
  /\ Cmd.op = "trigger_shutdown"
  /\ TriggerShutdown(Cmd.value)
  /\ mpc' = "Timeout"
  /\ UNCHANGED <<eventQueue, triggersEnabled, waitFor, shuttingDown, todo, envVars>>

\* The order is what keeps a property that is set meanwhile from being missed.
AllPropertyActions_Swapped == <<PropChange("", ""), Builtin("enable_property_trigger")>>
AllPropertyActions == <<Builtin("enable_property_trigger"), PropChange("", "")>>

QueuePropertyTriggers ==
  /\ Cmd.op = "queue_property_triggers"
  /\ eventQueue' = eventQueue \o AllPropertyActions
  /\ mpc' = "Timeout"
  /\ UNCHANGED <<triggersEnabled, stateVars, todo, wake, envVars>>

EnablePropertyTriggers ==
  /\ Cmd.op = "enable_property_trigger"
  /\ triggersEnabled' = TRUE
  /\ mpc' = "Timeout"
  /\ UNCHANGED <<eventQueue, stateVars, todo, wake, envVars>>

\* DoReboot does not return.
DoReboot ==
  /\ Cmd.op = "shutdown_done"
  /\ rebooted' = TRUE
  /\ mpc' = "Halted"
  /\ UNCHANGED <<eventQueue, triggersEnabled, stateVars, todo, wake, execService, watchdog>>

\* DoUserspaceReboot up to EnterShutdown.  The two properties it sets itself are
\* seen by the watchdog process only: accept_messages is false.
DoUserspaceReboot ==
  /\ Cmd.op = "userspace-reboot"
  /\ watchdog' = IF watchdog = "start" THEN "boot" ELSE watchdog
  /\ EnterShutdown
  /\ mpc' = "StopUserspace"
  /\ UNCHANGED <<eventQueue, triggersEnabled, doShutdown, shutdownCommand, todo, wake,
                 rebooted>>

\* ExecuteOneCommand, the rest.
Execute ==
  /\ mpc = "Execute" /\ ~rebooted
  /\ \/ Nop \/ DoSetprop \/ DoWaitForProp \/ DoExec \/ DoTrigger \/ DoTriggerShutdown
     \/ QueuePropertyTriggers \/ EnablePropertyTriggers \/ DoReboot \/ DoUserspaceReboot
  /\ NextCommand
  /\ UNCHANGED <<props, owed, serving, woken, propVars, acceptMessages, clientVars>>

\* StartWaiting, second half.
StartWaiting ==
  /\ mpc = "StartWaiting"
  /\ waitFor' = [name |-> todo.name, value |-> todo.value]
  /\ mpc' = "Timeout" /\ todo' = NoReq
  /\ UNCHANGED <<props, amVars, doShutdown, shutdownCommand, shuttingDown, serving, woken,
                 wake, propVars, acceptMessages, clientVars, envVars>>

\* The rest of DoUserspaceReboot: whatever goes wrong while the services are stopped
\* makes the scope guard ask for a full reboot instead.
StopUserspace ==
  /\ mpc = "StopUserspace"
  /\ shuttingDown' = FALSE /\ acceptMessages' = TRUE
  /\ \/ eventQueue' = WithEvent(eventQueue, "userspace-reboot-resume")
        /\ UNCHANGED <<doShutdown, shutdownCommand, wake>>
     \/ TriggerShutdown("reboot") /\ UNCHANGED eventQueue
  /\ mpc' = "Timeout"
  /\ UNCHANGED <<props, executing, command, triggersEnabled, owed, waitFor, todo, serving,
                 woken, propVars, clientVars, envVars>>

\* The timeout for epoll_wait.  (HandleProcessActions may shorten it as well: that
\* would only end a sleep earlier.)
HasMoreCommands ==
  /\ mpc = "Timeout"
  /\ mpc' = IF ~Blocked /\ (executing # <<>> \/ eventQueue # <<>>) THEN "Poll" ELSE "Sleep"
  /\ UNCHANGED <<props, amVars, stateVars, todo, serving, woken, wake, propVars,
                 acceptMessages, clientVars, envVars>>

Ready == (IF wake THEN {"eventfd"} ELSE {})
         \cup (IF execService = "zombie" THEN {"signal_fd"} ELSE {})

EpollWait ==
  /\ mpc \in {"Poll", "Sleep"} /\ ~rebooted
  /\ mpc = "Sleep" => Ready # {}
  /\ woken' = Ready
  /\ mpc' = "Callbacks"
  /\ UNCHANGED <<props, amVars, stateVars, todo, serving, wake, propVars, acceptMessages,
                 clientVars, envVars>>

\* Children are reaped before anything else, then the eventfd is read.
Callbacks ==
  /\ mpc = "Callbacks"
  /\ execService' = IF woken # {} /\ execService = "zombie" THEN "none" ELSE execService
  /\ wake' = (wake /\ "eventfd" \notin woken)
  /\ woken' = {}
  /\ mpc' = "Ctl"
  /\ UNCHANGED <<props, amVars, stateVars, todo, serving, propVars, acceptMessages,
                 clientVars, rebooted, watchdog>>

\* HandleControlMessages takes one message; its handler fails, or sets init.svc.*,
\* which sends the main thread to the property thread.
HandleControlMessages ==
  /\ mpc = "Ctl"
  /\ IF shuttingDown \/ ctlQueue = <<>>
     THEN mpc' = "CheckShutdown" /\ UNCHANGED <<ctlQueue, serving, todo>>
     ELSE /\ serving' = Head(ctlQueue) /\ ctlQueue' = Tail(ctlQueue)
          /\ \/ mpc' = "SetProperty" /\ todo' = [from |-> "ctl", name |-> "init.svc", value |-> ""]
             \/ mpc' = "CtlReply" /\ UNCHANGED todo
  /\ UNCHANGED <<props, amVars, stateVars, woken, wake, ppc, req, acceptMessages, clientVars,
                 envVars>>

MustWakeAgain_Never == FALSE
MustWakeAgain == ctlQueue # <<>>

\* The reply to the sender, and the wake-up for the messages left.
ControlReply ==
  /\ mpc = "CtlReply"
  /\ answered' = [answered EXCEPT ![serving] = @ + 1]
  /\ serving' = "none"
  /\ wake' = (wake \/ MustWakeAgain)
  /\ mpc' = "CheckShutdown"
  /\ UNCHANGED <<props, amVars, stateVars, todo, woken, propVars, acceptMessages, asked, sets,
                 envVars>>

-----------------------------------------------------------------------------
(* Other processes. *)

\* The process of the exec service exits.
ExecExits ==
  /\ execService = "running" /\ ~rebooted
  /\ execService' = "zombie"
  /\ UNCHANGED <<props, amVars, stateVars, mainVars, wake, propVars, acceptMessages,
                 clientVars, rebooted, watchdog>>

\* UserspaceRebootWatchdogThread: the reboot has not begun, or the device has not
\* booted, in time; or it has booted.
WatchdogExpires ==
  /\ watchdog \in {"start", "boot"} /\ ~rebooted
  /\ watchdog' = "none"
  /\ \/ rebooted' = TRUE
     \/ watchdog = "boot" /\ UNCHANGED rebooted
  /\ UNCHANGED <<props, amVars, stateVars, mainVars, wake, propVars, acceptMessages,
                 clientVars, execService>>

-----------------------------------------------------------------------------
MainThread ==
  \/ CheckShutdown \/ PowerctlRejected \/ StopSendingMessages \/ Shutdown
  \/ HandleUserspaceReboot \/ ShutdownDone \/ Commands \/ Dequeue \/ Execute
  \/ StartWaiting \/ StopUserspace \/ HasMoreCommands \/ EpollWait \/ Callbacks
  \/ HandleControlMessages \/ ControlReply

PropertyThread ==
  \/ ServeMain \/ Write \/ SendPropertyChanged \/ QueuePropertyChange
  \/ CheckAndResetWait \/ SendControlMessage

Environment == HandlePropertySet \/ HandleControlSet \/ ExecExits \/ WatchdogExpires

Next == MainThread \/ PropertyThread \/ Environment

Spec == Init /\ [][Next]_vars

\* Each thread is scheduled while it can run.  Nothing is assumed of clients, of the
\* exec service's process or of the watchdog.
FairSpec == Spec /\ WF_vars(MainThread) /\ WF_vars(PropertyThread)

-----------------------------------------------------------------------------
(* Properties *)

\* The types of the queues and flags, the position current_command_ keeps within the
\* executing action, and the bound of QueueControlMessage() on its queue.
TypeOK ==
  /\ props \in [Props -> Values]
  /\ eventQueue \in Seq(Event) /\ executing \in Seq(ActionIds \cup Builtins)
  /\ executing # <<>> => command \in 1..NumCommands(Head(executing))
  /\ executing = <<>> => command = 1
  /\ waitFor = NoWait \/ waitFor \in [name : Props, value : Values]
  /\ doShutdown \in BOOLEAN /\ shutdownCommand \in Power \cup {""}
  /\ shuttingDown \in BOOLEAN /\ triggersEnabled \in BOOLEAN
  /\ wake \in BOOLEAN /\ acceptMessages \in BOOLEAN /\ rebooted \in BOOLEAN
  /\ execService \in {"none", "running", "zombie"}
  /\ watchdog \in {"none", "start", "boot"}
  /\ ppc \in {"Idle", "Write", "Lock", "Queue", "CheckWait", "Control"}
  /\ ctlQueue \in Seq(CtlClients) /\ Len(ctlQueue) <= CtlLimit + 1
  /\ serving \in CtlClients \cup {"none"}
  /\ owed \subseteq ActionIds

\* The main thread never sleeps in epoll_wait() over work it has been given: what is
\* put into its queues, and what ends a wait, always comes with a wake-up
\* (WakeMainInitThread, init.cpp:125-130).
NoLostWakeup ==
  mpc = "Sleep" /\ ~wake /\ execService # "zombie" =>
    /\ ctlQueue = <<>> \/ shuttingDown
    /\ ~doShutdown \/ shuttingDown
    /\ Blocked \/ (executing = <<>> /\ eventQueue = <<>>)

\* A property wait never misses the value it waits for: when the property has it, the
\* property thread is still on its way to CheckAndResetWait() (init.cpp:154-196).
WaitIsWoken ==
  Waiting /\ props[waitFor.name] = waitFor.value /\ acceptMessages =>
    /\ req.name = waitFor.name /\ req.value = waitFor.value
    /\ ppc \in {"Lock", "Queue", "CheckWait"}

InQueue(e) == \E i \in DOMAIN eventQueue : eventQueue[i] = e
Running(a) == \E i \in DOMAIN executing : executing[i] = a

\* a will be executed for a property change that is queued or on its way, or by
\* the pass over all property actions at boot.
Pending(a) ==
  \/ /\ ppc \in {"Lock", "Queue"}
     /\ req.name \in DOMAIN PropTriggers[a] /\ CheckPropertyTriggers(a, req.name, req.value)
  \/ \E i \in DOMAIN eventQueue : CheckEvent(a, eventQueue[i])
  \/ InQueue(Builtin("queue_property_triggers")) \/ Running("queue_property_triggers")

\* The pass at boot is still ahead.  A userspace reboot that comes this early drops it
\* with the rest of the queue, and property triggers then stay disabled.
BootPassAhead ==
  \E b \in {"queue_property_triggers", "enable_property_trigger"} :
    InQueue(Builtin(b)) \/ Running(b)

\* An action whose property triggers have come true, and still are, is executed.  The other
\* properties are compared only when the change is dequeued (action.cpp:199), when they may have
\* moved away, or away and back; and no change falls between the values already looked at and
\* the events not yet enabled
\* (queue_property_triggers_action, init.cpp:553-563; README.md:399-404).
TriggersNotLost ==
  \A a \in owed : /\ acceptMessages /\ (triggersEnabled \/ BootPassAhead)
                  /\ CheckPropertyTriggers(a, "", "")
                  => Pending(a)

\* A control message is in one place until it is answered, and is answered once:
\* the socket handed from the property thread to the main thread is neither leaked
\* nor closed twice (SendControlMessage, HandleControlMessages).
ControlAnsweredOnce ==
  \A c \in CtlClients :
    Cardinality({i \in DOMAIN ctlQueue : ctlQueue[i] = c}) + answered[c]
      + (IF req.from = c THEN 1 ELSE 0) + (IF serving = c THEN 1 ELSE 0)
    = (IF c \in asked THEN 1 ELSE 0)

\* During a shutdown no property change is in the queue, nor on its way to it, however
\* the property thread and HandlePowerctlMessage() interleave (reboot.cpp:1061-1063).
ShutdownIsQuiet ==
  shuttingDown =>
    /\ ~acceptMessages /\ ppc \notin {"Queue", "CheckWait"}
    /\ \A i \in DOMAIN eventQueue : eventQueue[i].kind # "property"

\* Every control message is answered, unless the device reboots first, which drops the
\* messages still queued when the shutdown begins: the threads never
\* wait for each other, and an exec service or property wait does not hold it back.
\* (There are finitely many, so all of them are answered in the end.)
ControlIsAnswered == []<>(rebooted \/ \A c \in asked : answered[c] = 1)

\* Every control message gets one answer: none is lost between the two threads, none
\* is answered twice.  Two kinds are outside it: those still queued when the device goes
\* down, and those of the older protocol, whose senders expect no answer.
ControlExactlyOnce == []ControlAnsweredOnce /\ ControlIsAnswered

\* A shutdown that HandlePowerctlMessage() accepts ends in RebootSystem(), whatever
\* init was waiting for when it came (init.cpp:357-362, EnterShutdown).  The exception is a
\* script whose own "on shutdown" action waits for a property or runs a program that does not
\* end: the queue stops there once more, before shutdown_done (reboot.cpp:1061).  The script of
\* the instance has an action of this kind that does neither.
ShutdownHappens == mpc = "Shutdown" ~> rebooted

=============================================================================
