----------------------------- MODULE Subcontext -----------------------------
(***************************************************************************)
(* The vendor_init process that runs the commands of vendor .rc files      *)
(* (subcontext.cpp) and the main thread that waits for it.                 *)
(*                                                                         *)
(* Init sends one command at a time over a socket pair and blocks until    *)
(* the reply.  The process may die at any point: before it has read the    *)
(* command, half-way through, or after it has answered.  Init notices by   *)
(* the broken socket, by SIGCHLD, or by both, in either order.             *)
(***************************************************************************)
EXTENDS Naturals, Sequences, FiniteSets

CONSTANTS
  Pids,        \* process ids, recycled by the kernel
  Script,      \* Seq of [where, op]: the commands init executes
  MaxDeaths    \* bound: deaths that init did not cause

Where == {"subcontext",  \* run_in_subcontext
          "init"}        \* ExpandArgs in the subcontext, then the builtin in init
Op == {"nop", "fail", "long", "setprop", "setprop ctl", "shutdown"}

ASSUME SubcontextConstants ==
  /\ Script \in Seq([where : Where, op : Op])
  /\ MaxDeaths \in Nat /\ Pids \subseteq Nat /\ 1 \in Pids

Commands == DOMAIN Script

VARIABLES
  proc,        \* [Pids -> process]
  pid,         \* pid_
  mpc,         \* the main thread: loop, read, builtin, reap, stop
  current,     \* the command being executed or the next one
  reaping,     \* the zombie ReapOneProcess is looking at
  terminated,  \* subcontext_terminated_by_shutdown
  shutdown,    \* trigger_shutdown() has been called in init
  result,      \* [Commands -> what Command::InvokeFunc returned]
  executed,    \* history: [Commands -> times the builtin ran]
  deaths,      \* bound
  stray        \* history: a signal went to a process that is not init's child

mainVars == <<mpc, current, reaping, terminated, shutdown, result>>
vars == <<proc, pid, mainVars, executed, deaths, stray>>

\* in and out are the messages in the socket pair, connected says that init has not
\* closed its end; a process has closed its own when it is no longer alive.
Message == [kind : {"none", "execute", "expand", "ok", "failed", "garbled"}, shut : BOOLEAN]
Msg(k) == [kind |-> k, shut |-> FALSE]
NoMsg == Msg("none")
Process == [st : {"none", "alive", "zombie", "other"}, at : {"poll", "run", "waiting", "reply"},
            in : Message, out : Message, connected : BOOLEAN, killed : BOOLEAN, shut : BOOLEAN]
NoProcess == [st |-> "none", at |-> "poll", in |-> NoMsg, out |-> NoMsg, connected |-> FALSE,
              killed |-> FALSE, shut |-> FALSE]
Forked == [NoProcess EXCEPT !.st = "alive", !.connected = TRUE]

Init ==
  /\ pid = 1 /\ proc = [q \in Pids |-> IF q = 1 THEN Forked ELSE NoProcess]
  /\ mpc = "loop" /\ current = 1 /\ reaping = pid
  /\ terminated = FALSE /\ shutdown = FALSE
  /\ result = [c \in Commands |-> "none"]
  /\ executed = [c \in Commands |-> 0]
  /\ deaths = 0 /\ stray = FALSE

-----------------------------------------------------------------------------
(* Restart: kill what pid_ names, close the socket, fork.                    *)

Killed(p) == [proc EXCEPT ![p] = [proc[p] EXCEPT !.killed = (proc[p].st = "alive"),
                                                  !.connected = FALSE, !.out = NoMsg]]

\* Whichever pid is free; fork() does not fail (LOG(FATAL)).
Restart ==
  /\ stray' = (stray \/ proc[pid].st = "other")
  /\ \E q \in Pids :
       /\ proc[q].st = "none"
       /\ pid' = q /\ proc' = [Killed(pid) EXCEPT ![q] = Forked]

-----------------------------------------------------------------------------
(* The main thread: Command::InvokeFunc.                                     *)

\* A command has returned; the next one is executed whatever the result was.
Returned(r) ==
  /\ result' = [result EXCEPT ![current] = r]
  /\ current' = current + 1 /\ mpc' = "loop"

\* TransmitMessage: a message that is too long, or a peer that is gone, is a reason to
\* start over with a new process; the command fails.
SendCommand ==
  /\ mpc = "loop" /\ current \in Commands /\ ~shutdown
  /\ LET c == Script[current] IN
     IF proc[pid].st # "alive" \/ c.op = "long"
     THEN Restart /\ Returned("failed")
     ELSE /\ proc' = [proc EXCEPT ![pid].in =
                        Msg(IF c.where = "subcontext" THEN "execute" ELSE "expand")]
          /\ mpc' = "read" /\ UNCHANGED <<pid, stray, result, current>>
  /\ UNCHANGED <<reaping, terminated, shutdown, executed, deaths>>

\* The reply: garbled, a failure, or what was asked for; with it the shutdown that the
\* command may have asked for.
ReadReply ==
  LET reply == proc[pid].out IN
  /\ mpc = "read" /\ reply # NoMsg
  /\ IF reply.kind = "garbled"
     THEN Restart /\ Returned("failed") /\ UNCHANGED shutdown
     ELSE /\ proc' = [proc EXCEPT ![pid].out = NoMsg]
          /\ shutdown' = (shutdown \/ reply.shut)
          /\ IF reply.kind = "ok" /\ Script[current].where = "init"
             THEN mpc' = "builtin" /\ UNCHANGED <<result, current>>
             ELSE Returned(reply.kind)
          /\ UNCHANGED <<pid, stray>>
  /\ UNCHANGED <<reaping, terminated, executed, deaths>>

\* The process closed its end without an answer.
ReadFails_SendsAgain ==
  /\ mpc = "read" /\ proc[pid].out = NoMsg /\ proc[pid].st # "alive"
  /\ Restart /\ mpc' = "loop"
  /\ UNCHANGED <<current, result, reaping, terminated, shutdown, executed, deaths>>
ReadFails ==
  /\ mpc = "read" /\ proc[pid].out = NoMsg /\ proc[pid].st # "alive"
  /\ Restart /\ Returned("failed")
  /\ UNCHANGED <<reaping, terminated, shutdown, executed, deaths>>

\* Whom a builtin waits for.  do_setprop refuses the ctl. properties: their answer is for
\* init's main loop to give.
Answerer_RefusesNothing(op) ==
  CASE op = "setprop" -> "property thread"
    [] op = "setprop ctl" -> "main loop"
    [] OTHER -> "nobody"
Answerer(op) == IF op = "setprop" THEN "property thread" ELSE "nobody"
Outcome(op) == IF op \in {"fail", "setprop ctl"} THEN "failed" ELSE "ok"

\* The builtin runs in init with the expanded arguments.
RunBuiltin ==
  /\ mpc = "builtin" /\ Answerer(Script[current].op) # "main loop"
  /\ executed' = [executed EXCEPT ![current] = @ + 1]
  /\ shutdown' = (shutdown \/ Script[current].op = "shutdown")
  /\ Returned(Outcome(Script[current].op))
  /\ UNCHANGED <<proc, pid, reaping, terminated, deaths, stray>>

-----------------------------------------------------------------------------
(* The subcontext process: MainLoop.                                         *)

\* What is left of a process that has ended: the reply that init has not read.
Zombie(p) == [NoProcess EXCEPT !.st = "zombie", !.out = proc[p].out,
                               !.connected = proc[p].connected]

Alive(p) == proc[p].st = "alive"

\* A message, or init has closed its end: exit quietly.
Poll(p) ==
  /\ Alive(p) /\ proc[p].at = "poll"
  /\ \/ proc[p].in # NoMsg /\ proc' = [proc EXCEPT ![p].at = "run"]
     \/ /\ proc[p].in = NoMsg /\ ~proc[p].connected
        /\ proc' = [proc EXCEPT ![p] = Zombie(p)]
  /\ UNCHANGED <<pid, mainVars, executed, deaths, stray>>

\* RunCommand and ExpandArgs.  A set of a property waits for its answer.
Run(p) ==
  LET op == Script[current].op IN
  /\ Alive(p) /\ proc[p].at = "run"
  /\ IF proc[p].in.kind = "execute"
     THEN /\ executed' = [executed EXCEPT ![current] = @ + 1]
          /\ proc' = [proc EXCEPT ![p] = [proc[p] EXCEPT
               !.at = IF Answerer(op) = "nobody" THEN "reply" ELSE "waiting",
               !.in = Msg(Outcome(op)),
               !.shut = (op = "shutdown")]]
     ELSE /\ proc' = [proc EXCEPT ![p] = [proc[p] EXCEPT
               !.at = "reply", !.in = Msg(IF op = "fail" THEN "failed" ELSE "ok")]]
          /\ UNCHANGED executed
  /\ UNCHANGED <<pid, mainVars, deaths, stray>>

\* The property service answers, for control messages once the main loop has handled them.
SetAnswered(p) ==
  /\ Alive(p) /\ proc[p].at = "waiting"
  /\ Answerer(Script[current].op) = "main loop" => mpc = "loop"
  /\ proc' = [proc EXCEPT ![p].at = "reply"]
  /\ UNCHANGED <<pid, mainVars, executed, deaths, stray>>

\* The reply goes out with the shutdown command; without a peer it is fatal.
SendReply(p) ==
  /\ Alive(p) /\ proc[p].at = "reply"
  /\ IF proc[p].connected
     THEN \E m \in {[proc[p].in EXCEPT !.shut = proc[p].shut], Msg("garbled")} :
            /\ m.kind = "garbled" => deaths < MaxDeaths
            /\ deaths' = IF m.kind = "garbled" THEN deaths + 1 ELSE deaths
            /\ proc' = [proc EXCEPT ![p] = [proc[p] EXCEPT
                 !.at = "poll", !.in = NoMsg, !.out = m, !.shut = FALSE]]
     ELSE proc' = [proc EXCEPT ![p] = Zombie(p)] /\ UNCHANGED deaths
  /\ UNCHANGED <<pid, mainVars, executed, stray>>

\* A crash, or the signal that init sent.
Dies(p) ==
  /\ Alive(p)
  /\ proc[p].killed \/ deaths < MaxDeaths
  /\ proc' = [proc EXCEPT ![p] = Zombie(p)]
  /\ deaths' = IF proc[p].killed THEN deaths ELSE deaths + 1
  /\ UNCHANGED <<pid, mainVars, executed, stray>>

-----------------------------------------------------------------------------
(* SIGCHLD, the end of a process id, shutdown.                               *)

\* ReapOneProcess finds a zombie, and releases it when everything is done.
FindZombie(p) ==
  /\ mpc \in {"loop", "stop"} /\ proc[p].st = "zombie"
  /\ mpc' = (IF mpc = "loop" THEN "reap" ELSE "reap at shutdown")
  /\ reaping' = p
  /\ UNCHANGED <<proc, pid, current, terminated, shutdown, result, executed, deaths, stray>>

\* SubcontextChildReap, then waitpid().
SubcontextChildReap_ReleasesFirst ==
  /\ mpc \in {"reap", "reap at shutdown"}
  /\ IF proc[reaping].st = "zombie"
     THEN proc' = [proc EXCEPT ![reaping] = NoProcess] /\ UNCHANGED <<pid, stray, mpc>>
     ELSE /\ IF reaping = pid /\ ~terminated THEN Restart ELSE UNCHANGED <<proc, pid, stray>>
          /\ mpc' = IF mpc = "reap" THEN "loop" ELSE "stop"
  /\ UNCHANGED <<current, reaping, terminated, shutdown, result, executed, deaths>>
SubcontextChildReap ==
  /\ mpc \in {"reap", "reap at shutdown"}
  /\ IF reaping = pid /\ ~terminated
     THEN Restart /\ UNCHANGED mpc
     ELSE /\ proc' = [proc EXCEPT ![reaping] = NoProcess] /\ UNCHANGED <<pid, stray>>
          /\ mpc' = IF mpc = "reap" THEN "loop" ELSE "stop"
  /\ UNCHANGED <<current, reaping, terminated, shutdown, result, executed, deaths>>

\* The kernel gives a released pid to somebody else.
Recycle(p) ==
  /\ proc[p].st = "none" /\ \A q \in Pids : proc[q].st # "other"
  /\ proc' = [proc EXCEPT ![p].st = "other"]
  /\ UNCHANGED <<pid, mainVars, executed, deaths, stray>>

\* DoReboot: the subcontext is told to go and is not started again.
SubcontextTerminate ==
  /\ mpc = "loop" /\ shutdown
  /\ terminated' = TRUE /\ mpc' = "stop"
  /\ stray' = (stray \/ proc[pid].st = "other")
  /\ proc' = [proc EXCEPT ![pid].killed = proc[pid].st = "alive"]
  /\ UNCHANGED <<pid, current, reaping, shutdown, result, executed, deaths>>

-----------------------------------------------------------------------------

MainThread ==
  \/ SendCommand \/ ReadReply \/ ReadFails \/ RunBuiltin
  \/ \E p \in Pids : FindZombie(p)
  \/ SubcontextChildReap \/ SubcontextTerminate

Works(p) == Poll(p) \/ Run(p) \/ SetAnswered(p) \/ SendReply(p)

Next ==
  \/ MainThread
  \/ \E p \in Pids : Works(p) \/ Dies(p) \/ Recycle(p)

\* Both processes are scheduled, and builtins return.
Spec == Init /\ [][Next]_vars /\ WF_vars(MainThread) /\ \A p \in Pids : WF_vars(Works(p))

-----------------------------------------------------------------------------

\* Init never waits for the subcontext for good: not for a process that is gone, and
\* not for one that waits for init in turn.
CommandReturns == mpc = "read" ~> mpc # "read"

\* However a death is noticed, there is one subcontext: every other one is dead or on
\* its way out, a signal never goes to a process that merely has the old pid, and
\* after the shutdown has begun none is left or started.
RestartIsClean ==
  /\ ~stray
  /\ \A p \in Pids : Alive(p) /\ p # pid => proc[p].killed
  /\ terminated /\ Alive(pid) => proc[pid].killed

\* A command whose process died is not sent again: it may have had its effect.  One
\* that is reported to have succeeded has run, and with it the shutdown it asked for.
ExecutedAtMostOnce ==
  \A c \in Commands :
    /\ executed[c] <= 1
    /\ result[c] = "ok" => executed[c] = 1 /\ (Script[c].op = "shutdown" => shutdown)
=============================================================================
