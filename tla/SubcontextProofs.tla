--------------------------- MODULE SubcontextProofs ---------------------------
(***************************************************************************)
(* RestartIsClean and ExecutedAtMostOnce hold for every script, every set  *)
(* of process ids and every number of deaths.                              *)
(*                                                                         *)
(* RestartIsClean follows from Children: who holds which pid.              *)
(* ExecutedAtMostOnce needs in addition the state of the one exchange that *)
(* is in progress (Exchange), because a command has been executed before   *)
(* its reply is read.                                                      *)
(***************************************************************************)
EXTENDS Subcontext, TLAPS

\* The values the variables range over.
TypeOK ==
  /\ proc \in [Pids -> Process] /\ pid \in Pids /\ reaping \in Pids
  /\ mpc \in {"loop", "read", "builtin", "reap", "reap at shutdown", "stop"}
  /\ current \in Nat \ {0}
  /\ terminated \in BOOLEAN /\ shutdown \in BOOLEAN /\ stray \in BOOLEAN
  /\ result \in [Commands -> {"none", "ok", "failed"}]
  /\ executed \in [Commands -> Nat] /\ deaths \in Nat

\* pid_ names a child of init's until the shutdown has taken it away, and what is
\* being reaped still is one; only pid_ can have work.
Idle(p) == proc[p].at = "poll" /\ proc[p].in = NoMsg /\ proc[p].out = NoMsg
Children ==
  /\ ~stray
  /\ terminated <=> mpc \in {"stop", "reap at shutdown"}
  /\ ~terminated => proc[pid].st \in {"alive", "zombie"}
  /\ mpc \in {"reap", "reap at shutdown"} => proc[reaping].st = "zombie"
  /\ \A p \in Pids : p # pid => Idle(p) /\ (Alive(p) => proc[p].killed)
  /\ terminated /\ Alive(pid) => proc[pid].killed
  /\ mpc # "read" => Idle(pid)

\* Where the process stands with the command that init waits for.
Asked(kind) == Alive(pid) /\ proc[pid].at \in {"poll", "run"} /\ proc[pid].in = Msg(kind)
                 /\ proc[pid].out = NoMsg
Answered == proc[pid].at = "poll" /\ proc[pid].in = NoMsg
              /\ proc[pid].out.kind \in {"ok", "failed", "garbled"}
Ended == proc[pid].st = "zombie" /\ Idle(pid)

ExecuteExchange ==
  LET op == Script[current].op IN
  \/ Asked("execute") /\ executed[current] = 0
  \/ /\ Alive(pid) /\ proc[pid].at \in {"waiting", "reply"} /\ proc[pid].in = Msg(Outcome(op))
     /\ proc[pid].out = NoMsg /\ proc[pid].shut = (op = "shutdown")
     /\ executed[current] = 1
  \/ /\ Answered /\ executed[current] = 1
     /\ proc[pid].out.kind = "ok" => proc[pid].out.shut = (op = "shutdown")
  \/ Ended /\ executed[current] \in {0, 1}

ExpandExchange ==
  /\ executed[current] = 0
  /\ \/ Asked("expand")
     \/ /\ Alive(pid) /\ proc[pid].at = "reply" /\ proc[pid].out = NoMsg
        /\ proc[pid].in.kind \in {"ok", "failed"}
     \/ Answered
     \/ Ended

Exchange ==
  /\ mpc = "read" =>
       /\ current \in Commands
       /\ Script[current].where = "subcontext" => ExecuteExchange
       /\ Script[current].where = "init" => ExpandExchange
  /\ mpc = "builtin" => current \in Commands /\ Script[current].where = "init"
  /\ mpc # "read" /\ current \in Commands => executed[current] = 0

\* What the commands up to the current one have come to.
Success(c) == executed[c] = 1 /\ (Script[c].op = "shutdown" => shutdown)
Past(c) ==
  /\ c >= current => result[c] = "none"
  /\ c > current => executed[c] = 0
  /\ c < current => executed[c] <= 1
  /\ result[c] = "ok" => Success(c)
History == \A c \in Commands : Past(c)

Inv == TypeOK /\ Children /\ Exchange /\ History

-----------------------------------------------------------------------------
(* Restart                                                                    *)

\* A process as it is right after fork() is idle.
LEMMA ForkedIsIdle ==
  /\ Forked \in Process /\ Forked.st = "alive" /\ Forked.at = "poll"
  /\ Forked.in = NoMsg /\ Forked.out = NoMsg
BY DEF Forked, NoProcess, NoMsg, Msg, Process, Message

\* Restart (Subcontext::Restart): the new child is idle, the old one keeps only what it
\* was, without the socket and, if it still runs, with a signal on its way; nobody else
\* is touched, and the signal did not go to a stranger.
LEMMA RestartEffect ==
  ASSUME TypeOK, Children, ~terminated, Restart,
         proc[pid].at = "poll", proc[pid].in = NoMsg
  PROVE  /\ proc' \in [Pids -> Process] /\ pid' \in Pids /\ pid' # pid /\ ~stray'
         /\ proc[pid'].st = "none" /\ proc'[pid'] = Forked
         /\ proc'[pid].st = proc[pid].st /\ proc'[pid].at = "poll"
         /\ proc'[pid].in = NoMsg /\ proc'[pid].out = NoMsg
         /\ proc'[pid].st = "alive" => proc'[pid].killed
         /\ \A p \in Pids : p # pid /\ p # pid' => proc'[p] = proc[p]
<1>1. PICK q \in Pids : /\ proc[q].st = "none" /\ pid' = q
                        /\ proc' = [Killed(pid) EXCEPT ![q] = Forked]
  BY DEF Restart
<1>2. q # pid
  BY <1>1 DEF Children
<1>3. ~stray'
  BY DEF Restart, Children, TypeOK
<1> DEFINE old == [proc[pid] EXCEPT !.killed = (proc[pid].st = "alive"),
                                    !.connected = FALSE, !.out = NoMsg]
<1>a. proc[pid] \in Process /\ NoMsg \in Message
  BY DEF TypeOK, NoMsg, Msg, Message
<1>b. old \in Process
  BY <1>a DEF Process
<1>c. /\ old.st = proc[pid].st /\ old.at = proc[pid].at
      /\ old.in = proc[pid].in /\ old.out = NoMsg
  BY <1>a DEF Process
<1>d. old.st = "alive" => old.killed
  BY <1>a DEF Process
<1> HIDE DEF old
<1>4. /\ Killed(pid) \in [Pids -> Process] /\ Killed(pid)[pid] = old
      /\ \A p \in Pids : p # pid => Killed(pid)[p] = proc[p]
  BY <1>b DEF Killed, TypeOK, old
<1> HIDE DEF Killed
<1>5. proc' \in [Pids -> Process] /\ proc'[pid'] = Forked
  BY <1>1, <1>4, ForkedIsIdle
<1>6. \A p \in Pids : p # q => proc'[p] = Killed(pid)[p]
  BY <1>1, <1>4
<1>7. proc'[pid] = old
  BY <1>2, <1>4, <1>6 DEF TypeOK
<1>8. \A p \in Pids : p # pid /\ p # pid' => proc'[p] = proc[p]
  BY <1>1, <1>4, <1>6
<1> QED
  BY <1>1, <1>2, <1>3, <1>5, <1>7, <1>8, <1>c, <1>d

\* After a Restart outside of the shutdown, Children holds whatever init does next,
\* except wait for a reply.
LEMMA RestartKeepsChildren ==
  ASSUME TypeOK, Children, ~terminated, ~terminated', Restart,
         proc[pid].at = "poll", proc[pid].in = NoMsg,
         mpc' \in {"loop", "reap"}, mpc' = "reap" => mpc = "reap" /\ reaping' = reaping
  PROVE  Children' /\ Idle(pid)'
<1> USE RestartEffect, ForkedIsIdle
<1>1. Idle(pid)'
  BY DEF Idle
<1>2. \A p \in Pids : p # pid' => Idle(p)' /\ (Alive(p)' => proc'[p].killed)
  <2> TAKE p \in Pids
  <2>1. CASE p = pid
    BY <2>1 DEF Idle, Alive
  <2>2. CASE p # pid /\ p # pid'
    BY <2>2 DEF Idle, Alive, Children
  <2> QED
    BY <2>1, <2>2
<1>3. mpc' = "reap" => proc'[reaping'].st = "zombie"
  BY DEF Children, TypeOK
<1>4. proc'[pid'].st \in {"alive", "zombie"}
  OBVIOUS
<1> QED
  BY <1>1, <1>2, <1>3, <1>4 DEF Children

-----------------------------------------------------------------------------
(* The main thread                                                            *)

\* The script's commands are numbered from one.
LEMMA CommandsAreNumbered ==
  /\ Commands = 1 .. Len(Script) /\ Len(Script) \in Nat
  /\ \A c \in Commands : Script[c] \in [where : Where, op : Op]
<1> DEFINE S == [where : Where, op : Op]
<1>1. Script \in Seq(S)
  BY SubcontextConstants
<1> HIDE DEF S
<1>2. DOMAIN Script = 1 .. Len(Script) /\ Len(Script) \in Nat
  BY <1>1
<1>3. \A c \in DOMAIN Script : Script[c] \in S
  BY <1>1, <1>2
<1> QED
  BY <1>2, <1>3 DEF Commands, S

\* Returned (Action::ExecuteCommand): a command that has run at most once and, if it
\* succeeded, has had its effect, leaves the history and the exchange as they must be.
LEMMA ReturnedKeepsHistory ==
  ASSUME NEW r \in {"ok", "failed"}, TypeOK, History, current \in Commands, Returned(r),
         \A c \in Commands : c # current => executed'[c] = executed[c],
         executed'[current] \in {0, 1}, shutdown => shutdown',
         r = "ok" => /\ executed'[current] = 1
                     /\ Script[current].op = "shutdown" => shutdown'
  PROVE  /\ History' /\ current' \in Nat \ {0} /\ mpc' = "loop"
         /\ result' \in [Commands -> {"none", "ok", "failed"}]
         /\ current' \in Commands => executed'[current'] = 0
<1> USE CommandsAreNumbered
<1>1. /\ current' = current + 1 /\ mpc' = "loop" /\ current \in Nat \ {0}
      /\ result' \in [Commands -> {"none", "ok", "failed"}]
      /\ result'[current] = r
      /\ \A c \in Commands : c # current => result'[c] = result[c]
  BY DEF Returned, TypeOK
<1>2. ASSUME NEW c \in Commands PROVE Past(c)'
  <2>0. c \in Nat
    OBVIOUS
  <2>1. CASE c = current
    BY <1>1, <2>0, <2>1 DEF Past, Success
  <2>2. CASE c # current
    <3>1. Past(c) /\ executed'[c] = executed[c] /\ result'[c] = result[c]
      BY <1>1, <2>2 DEF History
    <3>2. Success(c) => Success(c)'
      BY <3>1 DEF Success
    <3>3. c >= current' => c > current
      BY <1>1, <2>0
    <3>4. c > current' => c > current
      BY <1>1, <2>0
    <3>5. c < current' => c < current
      BY <1>1, <2>0, <2>2
    <3> QED
      BY <3>1, <3>2, <3>3, <3>4, <3>5, <1>1, <2>0 DEF Past
  <2> QED
    BY <2>1, <2>2
<1>3. History'
  BY <1>2 DEF History
<1>4. current' \in Commands => executed[current'] = 0 /\ current' # current
  BY <1>1 DEF History, Past
<1> QED
  BY <1>1, <1>3, <1>4

\* TransmitMessage gives up: the process is replaced and the command has failed.
LEMMA GivesUp ==
  ASSUME Inv, mpc \in {"loop", "read"}, current \in Commands, executed[current] \in {0, 1},
         proc[pid].at = "poll", proc[pid].in = NoMsg, Restart, Returned("failed"),
         UNCHANGED <<reaping, terminated, shutdown, executed, deaths>>
  PROVE  Inv'
<1> USE DEF Inv
<1>1. ~terminated /\ ~terminated'
  BY DEF Children
<1>2. /\ History' /\ current' \in Nat \ {0} /\ mpc' = "loop"
      /\ result' \in [Commands -> {"none", "ok", "failed"}]
      /\ current' \in Commands => executed'[current'] = 0
  BY ReturnedKeepsHistory
<1>3. Children'
  BY <1>1, <1>2, RestartKeepsChildren
<1>4. proc' \in [Pids -> Process] /\ pid' \in Pids /\ ~stray'
  BY <1>1, RestartEffect
<1>5. TypeOK'
  <2>1. stray' \in BOOLEAN
    BY <1>3, <1>4 DEF Restart, TypeOK
  <2> QED
    BY <1>2, <1>4, <2>1 DEF TypeOK
<1> QED
  BY <1>2, <1>3, <1>5 DEF Exchange

\* SendCommand (TransmitMessage) keeps the invariant.
LEMMA SendCommandStep == Inv /\ SendCommand => Inv'
<1> SUFFICES ASSUME Inv, SendCommand PROVE Inv'
  OBVIOUS
<1> USE DEF Inv
<1>0. /\ mpc = "loop" /\ current \in Commands /\ executed[current] = 0 /\ ~terminated
      /\ proc[pid].at = "poll" /\ proc[pid].in = NoMsg /\ proc[pid].out = NoMsg
  BY DEF SendCommand, Children, Exchange, Idle
<1>1. CASE proc[pid].st # "alive" \/ Script[current].op = "long"
  <2>1. Restart /\ Returned("failed")
    BY <1>1 DEF SendCommand
  <2> QED
    BY <1>0, <2>1, GivesUp DEF SendCommand
<1>2. CASE ~(proc[pid].st # "alive" \/ Script[current].op = "long")
  <2> DEFINE kind == IF Script[current].where = "subcontext" THEN "execute" ELSE "expand"
  <2>1. /\ proc' = [proc EXCEPT ![pid].in = Msg(kind)] /\ mpc' = "read"
        /\ UNCHANGED <<pid, stray, result, current>>
        /\ UNCHANGED <<reaping, terminated, shutdown, executed, deaths>>
    BY <1>2 DEF SendCommand
  <2>2. Msg(kind) \in Message
    BY DEF Msg, Message
  <2>3. /\ proc' \in [Pids -> Process] /\ proc'[pid].in = Msg(kind)
        /\ proc'[pid].at = "poll" /\ proc'[pid].out = NoMsg
        /\ proc'[pid].st = "alive"
        /\ \A p \in Pids : p # pid => proc'[p] = proc[p]
    BY <1>0, <1>2, <2>1, <2>2 DEF TypeOK, Process
  <2>4. TypeOK'
    BY <2>1, <2>3 DEF TypeOK
  <2>5. Children'
    BY <1>0, <2>1, <2>3 DEF Children, Idle, Alive
  <2>6. Asked(kind)'
    BY <2>1, <2>3 DEF Asked, Alive
  <2>7. Exchange'
    <3>1. Script[current].where = "subcontext" => ExecuteExchange'
      BY <2>1, <2>6, <1>0 DEF ExecuteExchange
    <3>2. Script[current].where = "init" => ExpandExchange'
      BY <2>1, <2>6, <1>0 DEF ExpandExchange
    <3> QED
      BY <3>1, <3>2, <2>1, <1>0 DEF Exchange
  <2>8. History'
    BY <2>1 DEF History, Past, Success
  <2> QED
    BY <2>4, <2>5, <2>7, <2>8
<1> QED
  BY <1>1, <1>2

\* ReadReply (TransmitMessage, Execute, ExpandArgs) keeps the invariant.
LEMMA ReadReplyStep == Inv /\ ReadReply => Inv'
<1> SUFFICES ASSUME Inv, ReadReply PROVE Inv'
  OBVIOUS
<1> USE DEF Inv
<1> DEFINE reply == proc[pid].out
<1>0. /\ mpc = "read" /\ reply # NoMsg /\ ~terminated /\ current \in Commands
  BY DEF ReadReply, Children, Exchange
<1>1. Script[current].where = "subcontext" \/ Script[current].where = "init"
  BY <1>0, CommandsAreNumbered DEF Where
<1>2. /\ proc[pid].at = "poll" /\ proc[pid].in = NoMsg
      /\ reply.kind \in {"ok", "failed", "garbled"} /\ executed[current] \in {0, 1}
      /\ Script[current].where = "init" => executed[current] = 0
      /\ Script[current].where = "subcontext" /\ reply.kind = "ok" =>
           executed[current] = 1 /\ (Script[current].op = "shutdown" => reply.shut)
  <2>1. CASE Script[current].where = "subcontext"
    <3>1. ExecuteExchange
      BY <1>0, <2>1 DEF Exchange
    <3> QED
      BY <1>0, <2>1, <3>1 DEF ExecuteExchange, Asked, Answered, Ended, Idle
  <2>2. CASE Script[current].where = "init"
    <3>1. ExpandExchange
      BY <1>0, <2>2 DEF Exchange
    <3> QED
      BY <1>0, <2>2, <3>1 DEF ExpandExchange, Asked, Answered, Ended, Idle
  <2> QED
    BY <1>1, <2>1, <2>2
<1>3. CASE reply.kind = "garbled"
  <2>1. Restart /\ Returned("failed") /\ UNCHANGED shutdown
    BY <1>3 DEF ReadReply
  <2> QED
    BY <1>0, <1>2, <2>1, GivesUp DEF ReadReply
<1>4. CASE reply.kind # "garbled"
  <2>1. /\ proc' = [proc EXCEPT ![pid].out = NoMsg]
        /\ shutdown' = (shutdown \/ reply.shut)
        /\ UNCHANGED <<pid, stray>>
        /\ UNCHANGED <<reaping, terminated, executed, deaths>>
    BY <1>4 DEF ReadReply
  <2>2. /\ proc' \in [Pids -> Process] /\ proc'[pid].st = proc[pid].st
        /\ proc'[pid].at = "poll" /\ proc'[pid].in = NoMsg /\ proc'[pid].out = NoMsg
        /\ \A p \in Pids : p # pid => proc'[p] = proc[p]
    <3>1. NoMsg \in Message
      BY DEF NoMsg, Msg, Message
    <3>2. proc[pid].at = "poll" /\ proc[pid].in = NoMsg
      BY <1>2
    <3> HIDE DEF reply
    <3> QED
      BY <2>1, <3>1, <3>2 DEF TypeOK, Process
  <2>3. shutdown' \in BOOLEAN /\ (shutdown => shutdown') /\ (reply.shut => shutdown')
    BY <2>1 DEF TypeOK, Process, Message
  <2>4. mpc' \in {"loop", "builtin"} => Children'
    BY <1>0, <2>1, <2>2 DEF Children, Idle, Alive
  <2>5. CASE reply.kind = "ok" /\ Script[current].where = "init"
    <3>1. mpc' = "builtin" /\ UNCHANGED <<result, current>>
      BY <1>4, <2>5 DEF ReadReply
    <3>2. TypeOK'
      BY <2>1, <2>2, <2>3, <3>1 DEF TypeOK
    <3>3. Exchange'
      BY <1>0, <1>2, <2>1, <2>5, <3>1 DEF Exchange
    <3>4. ASSUME NEW c \in Commands PROVE Past(c)'
      <4>1. Past(c)
        BY DEF History
      <4>2. Success(c) => Success(c)'
        BY <2>1, <2>3 DEF Success
      <4> QED
        BY <4>1, <4>2, <2>1, <3>1 DEF Past
    <3> QED
      BY <2>4, <3>1, <3>2, <3>3, <3>4 DEF History
  <2>6. CASE ~(reply.kind = "ok" /\ Script[current].where = "init")
    <3>1. Returned(reply.kind) /\ reply.kind \in {"ok", "failed"}
      BY <1>2, <1>4, <2>6 DEF ReadReply
    <3>2. reply.kind = "ok" => /\ executed'[current] = 1
                               /\ Script[current].op = "shutdown" => shutdown'
      BY <1>1, <1>2, <2>1, <2>3, <2>6
    <3> HIDE DEF reply
    <3>3. /\ History' /\ current' \in Nat \ {0} /\ mpc' = "loop"
          /\ result' \in [Commands -> {"none", "ok", "failed"}]
          /\ current' \in Commands => executed'[current'] = 0
      BY <1>0, <1>2, <2>1, <2>3, <3>1, <3>2, ReturnedKeepsHistory
    <3>4. TypeOK'
      BY <2>1, <2>2, <2>3, <3>3 DEF TypeOK
    <3> QED
      BY <2>4, <3>3, <3>4 DEF Exchange
  <2> QED
    BY <2>5, <2>6
<1> QED
  BY <1>3, <1>4

\* ReadFails (TransmitMessage) keeps the invariant.
LEMMA ReadFailsStep == Inv /\ ReadFails => Inv'
<1> SUFFICES ASSUME Inv, ReadFails PROVE Inv'
  OBVIOUS
<1> USE DEF Inv
<1>0. /\ mpc = "read" /\ proc[pid].out = NoMsg /\ proc[pid].st = "zombie"
      /\ current \in Commands
  BY DEF ReadFails, Children, Exchange
<1>1. Ended /\ executed[current] \in {0, 1}
  <2>1. CASE Script[current].where = "subcontext"
    <3>1. ExecuteExchange
      BY <1>0, <2>1 DEF Exchange
    <3> QED
      BY <1>0, <3>1 DEF ExecuteExchange, Asked, Answered, Ended, Idle, Alive, NoMsg, Msg
  <2>2. CASE Script[current].where = "init"
    <3>1. ExpandExchange
      BY <1>0, <2>2 DEF Exchange
    <3> QED
      BY <1>0, <3>1 DEF ExpandExchange, Asked, Answered, Ended, Idle, Alive, NoMsg, Msg
  <2> QED
    BY <1>0, <2>1, <2>2, CommandsAreNumbered DEF Where
<1> QED
  BY <1>0, <1>1, GivesUp DEF ReadFails, Ended, Idle

\* RunBuiltin (Command::InvokeFunc in init itself) keeps the invariant.
LEMMA RunBuiltinStep == Inv /\ RunBuiltin => Inv'
<1> SUFFICES ASSUME Inv, RunBuiltin PROVE Inv'
  OBVIOUS
<1> USE DEF Inv
<1> DEFINE op == Script[current].op
<1>0. /\ mpc = "builtin" /\ current \in Commands /\ executed[current] = 0 /\ ~terminated
      /\ executed' = [executed EXCEPT ![current] = @ + 1]
      /\ shutdown' = (shutdown \/ op = "shutdown") /\ Returned(Outcome(op))
      /\ UNCHANGED <<proc, pid, reaping, terminated, deaths, stray>>
  BY DEF RunBuiltin, Exchange, Children
<1>1. /\ executed' \in [Commands -> Nat] /\ executed'[current] = 1
      /\ \A c \in Commands : c # current => executed'[c] = executed[c]
  BY <1>0 DEF TypeOK
<1>2. shutdown' \in BOOLEAN /\ (shutdown => shutdown') /\ (op = "shutdown" => shutdown')
  BY <1>0 DEF TypeOK
<1>3. Outcome(op) \in {"ok", "failed"}
  BY DEF Outcome
<1>4. /\ History' /\ current' \in Nat \ {0} /\ mpc' = "loop"
      /\ result' \in [Commands -> {"none", "ok", "failed"}]
      /\ current' \in Commands => executed'[current'] = 0
  BY <1>0, <1>1, <1>2, <1>3, ReturnedKeepsHistory
<1>5. TypeOK'
  BY <1>0, <1>1, <1>2, <1>4 DEF TypeOK
<1>6. Children'
  BY <1>0, <1>4 DEF Children, Idle, Alive
<1> QED
  BY <1>4, <1>5, <1>6 DEF Exchange

\* FindZombie (ReapOneProcess) keeps the invariant.
LEMMA FindZombieStep == ASSUME NEW p \in Pids PROVE Inv /\ FindZombie(p) => Inv'
<1> SUFFICES ASSUME Inv, FindZombie(p) PROVE Inv'
  OBVIOUS
<1> USE DEF Inv
<1>1. TypeOK'
  BY DEF FindZombie, TypeOK
<1>2. Children'
  BY DEF FindZombie, Children, Idle, Alive
<1>3. Exchange'
  BY DEF FindZombie, Exchange
<1>4. History'
  BY DEF FindZombie, History, Past, Success
<1> QED
  BY <1>1, <1>2, <1>3, <1>4

\* SubcontextChildReap keeps the invariant: pid_ is replaced before its zombie is released.
LEMMA ReapStep == Inv /\ SubcontextChildReap => Inv'
<1> SUFFICES ASSUME Inv, SubcontextChildReap PROVE Inv'
  OBVIOUS
<1> USE DEF Inv
<1>0. /\ mpc \in {"reap", "reap at shutdown"} /\ proc[reaping].st = "zombie" /\ Idle(pid)
      /\ mpc # "read" /\ mpc' \in {"loop", "reap", "stop", "reap at shutdown"}
      /\ UNCHANGED <<current, reaping, terminated, shutdown, result, executed, deaths>>
  BY DEF SubcontextChildReap, Children
<1>1. Exchange'
  BY <1>0 DEF Exchange
<1>2. History'
  BY <1>0 DEF History, Past, Success
<1>3. CASE reaping = pid /\ ~terminated
  <2>1. Restart /\ mpc' = mpc /\ mpc = "reap"
    BY <1>0, <1>3 DEF SubcontextChildReap, Children
  <2>2. Children'
    BY <1>0, <1>3, <2>1, RestartKeepsChildren DEF Idle
  <2>3. proc' \in [Pids -> Process] /\ pid' \in Pids
    BY <1>0, <1>3, <2>1, RestartEffect DEF Idle
  <2>4. stray' \in BOOLEAN
    BY <2>1 DEF Restart, TypeOK
  <2>5. TypeOK'
    BY <1>0, <2>1, <2>3, <2>4 DEF TypeOK
  <2> QED
    BY <1>1, <1>2, <2>2, <2>5
<1>4. CASE ~(reaping = pid /\ ~terminated)
  <2>1. /\ proc' = [proc EXCEPT ![reaping] = NoProcess] /\ UNCHANGED <<pid, stray>>
        /\ mpc' = IF mpc = "reap" THEN "loop" ELSE "stop"
    BY <1>4 DEF SubcontextChildReap
  <2>2. NoProcess \in Process /\ NoProcess.at = "poll" /\ NoProcess.in = NoMsg
        /\ NoProcess.out = NoMsg /\ NoProcess.st = "none"
    BY DEF NoProcess, Process, NoMsg, Msg, Message
  <2>3. /\ proc' \in [Pids -> Process] /\ proc'[reaping] = NoProcess
        /\ \A p \in Pids : p # reaping => proc'[p] = proc[p]
    BY <2>1, <2>2 DEF TypeOK
  <2>4. TypeOK'
    BY <1>0, <2>1, <2>3 DEF TypeOK
  <2>5. Idle(pid)' /\ (Alive(pid)' => Alive(pid) /\ proc'[pid] = proc[pid])
    BY <1>0, <2>1, <2>2, <2>3 DEF Idle, Alive, TypeOK
  <2>6. \A p \in Pids : p # pid => Idle(p)' /\ (Alive(p)' => proc'[p].killed)
    BY <2>2, <2>3 DEF Children, Idle, Alive
  <2>7. ~terminated' => proc'[pid'].st \in {"alive", "zombie"}
    BY <1>0, <1>4, <2>1, <2>3 DEF Children, TypeOK
  <2>8. Children'
    BY <1>0, <2>1, <2>5, <2>6, <2>7 DEF Children
  <2> QED
    BY <1>1, <1>2, <2>4, <2>8
<1> QED
  BY <1>3, <1>4

\* SubcontextTerminate keeps the invariant.
LEMMA TerminateStep == Inv /\ SubcontextTerminate => Inv'
<1> SUFFICES ASSUME Inv, SubcontextTerminate PROVE Inv'
  OBVIOUS
<1> USE DEF Inv
<1>0. /\ mpc = "loop" /\ ~terminated /\ terminated' = TRUE /\ mpc' = "stop"
      /\ stray' = (stray \/ proc[pid].st = "other")
      /\ UNCHANGED <<pid, current, reaping, shutdown, result, executed, deaths>>
      /\ Idle(pid)
  BY DEF SubcontextTerminate, Children
<1> DEFINE k == proc[pid].st = "alive"
<1>1. proc' = [proc EXCEPT ![pid] = [proc[pid] EXCEPT !.killed = k]]
  BY DEF SubcontextTerminate, TypeOK
<1>2. k \in BOOLEAN /\ proc[pid] \in Process
  BY DEF TypeOK
<1>3. k = Alive(pid)
  BY DEF Alive
<1> HIDE DEF k
<1>4. [proc[pid] EXCEPT !.killed = k] \in Process
  BY <1>2 DEF Process
<1>5. /\ proc' \in [Pids -> Process] /\ proc'[pid].at = proc[pid].at
      /\ proc'[pid].in = proc[pid].in /\ proc'[pid].out = proc[pid].out
      /\ proc'[pid].st = proc[pid].st
      /\ \A p \in Pids : p # pid => proc'[p] = proc[p]
  BY <1>1, <1>2, <1>4 DEF TypeOK, Process
<1>6. proc'[pid].killed = k
  BY <1>1, <1>2 DEF TypeOK, Process
<1>7. ~stray'
  BY <1>0 DEF Children
<1>8. TypeOK'
  BY <1>0, <1>5 DEF TypeOK
<1>9. Children'
  BY <1>0, <1>3, <1>5, <1>6, <1>7 DEF Children, Idle, Alive
<1>10. Exchange' /\ History'
  BY <1>0 DEF Exchange, History, Past, Success
<1> QED
  BY <1>8, <1>9, <1>10

-----------------------------------------------------------------------------
(* The subcontext process                                                     *)

\* Only pid_ has anything to do, and only while init waits for it.
LEMMA OnlyPidWorks ==
  ASSUME NEW p \in Pids, Inv, Alive(p), proc[p].at # "poll" \/ proc[p].in # NoMsg
  PROVE  p = pid /\ mpc = "read" /\ ~terminated /\ current \in Commands
BY DEF Inv, Children, Exchange, Idle

\* A process ends, whatever it was doing.
LEMMA EndKeepsInv ==
  ASSUME NEW p \in Pids, Inv, Alive(p), proc' = [proc EXCEPT ![p] = Zombie(p)],
         UNCHANGED <<pid, mainVars, executed, stray>>, deaths' \in Nat
  PROVE  Inv'
<1> USE DEF Inv, mainVars
<1>1. /\ Zombie(p) \in Process /\ Zombie(p).st = "zombie" /\ Zombie(p).at = "poll"
      /\ Zombie(p).in = NoMsg /\ Zombie(p).out = proc[p].out
  <2>1. proc[p] \in Process
    BY DEF TypeOK
  <2> QED
    BY <2>1 DEF Zombie, NoProcess, Process, NoMsg, Msg, Message
<1> HIDE DEF Zombie
<1>2. /\ proc' \in [Pids -> Process] /\ proc'[p] = Zombie(p)
      /\ \A q \in Pids : q # p => proc'[q] = proc[q]
  BY <1>1 DEF TypeOK
<1>3. TypeOK'
  BY <1>2 DEF TypeOK
<1>4. Children'
  <2>1. ~terminated' => proc'[pid'].st \in {"alive", "zombie"}
    BY <1>1, <1>2 DEF Children, TypeOK
  <2>2. mpc' \in {"reap", "reap at shutdown"} => proc'[reaping'].st = "zombie"
    BY <1>1, <1>2 DEF Children, TypeOK
  <2>3. \A q \in Pids : (Idle(q) => Idle(q)') /\ (Alive(q)' => proc'[q] = proc[q])
    BY <1>1, <1>2 DEF Idle, Alive
  <2> QED
    BY <2>1, <2>2, <2>3 DEF Children, Alive, TypeOK
<1>5. Exchange'
  <2>1. CASE mpc # "read" \/ p # pid
    <3>1. mpc = "read" => proc'[pid] = proc[pid]
      BY <1>2, <2>1 DEF TypeOK
    <3> QED
      BY <3>1 DEF Exchange, ExecuteExchange, ExpandExchange, Asked, Answered, Ended, Idle, Alive
  <2>2. CASE mpc = "read" /\ p = pid
    <3>1. proc'[pid].out = NoMsg => Ended'
      BY <1>1, <1>2, <2>2 DEF Ended, Idle
    <3>2. Answered => Answered' /\ proc'[pid].out = proc[pid].out
      BY <1>1, <1>2, <2>2 DEF Answered
    <3>3. ExecuteExchange => ExecuteExchange'
      <4>1. ASSUME Asked("execute"), executed[current] = 0 PROVE ExecuteExchange'
        BY <1>1, <1>2, <2>2, <3>1, <4>1 DEF ExecuteExchange, Asked
      <4>2. ASSUME proc[pid].out = NoMsg, executed[current] = 1 PROVE ExecuteExchange'
        BY <1>1, <1>2, <2>2, <3>1, <4>2 DEF ExecuteExchange
      <4>3. ASSUME Answered, executed[current] = 1,
                   proc[pid].out.kind = "ok" =>
                     proc[pid].out.shut = (Script[current].op = "shutdown")
            PROVE  ExecuteExchange'
        BY <1>1, <1>2, <2>2, <3>2, <4>3 DEF ExecuteExchange
      <4>4. ASSUME Ended PROVE FALSE
        BY <2>2, <4>4 DEF Ended, Alive
      <4> QED
        BY <4>1, <4>2, <4>3, <4>4 DEF ExecuteExchange
    <3>4. ExpandExchange => ExpandExchange'
      <4>1. ExpandExchange => Answered \/ proc[pid].out = NoMsg
        BY DEF ExpandExchange, Asked, Ended, Idle
      <4>2. proc'[pid].out = proc[pid].out
        BY <1>1, <1>2, <2>2
      <4>3. ASSUME ExpandExchange PROVE executed'[current'] = 0 /\ (Answered' \/ Ended')
        BY <3>1, <3>2, <4>1, <4>2, <4>3 DEF ExpandExchange
      <4> QED
        BY <4>3 DEF ExpandExchange
    <3> QED
      BY <2>2, <3>3, <3>4 DEF Exchange
  <2> QED
    BY <2>1, <2>2
<1>6. History'
  BY DEF History, Past, Success
<1> QED
  BY <1>3, <1>4, <1>5, <1>6

\* The process takes one step of the exchange.
LEMMA WorkKeepsInv ==
  ASSUME Inv, mpc = "read", current \in Commands, ~terminated,
         NEW q \in Process, q.st = "alive", proc' = [proc EXCEPT ![pid] = q],
         UNCHANGED <<pid, mainVars, stray>>, deaths' \in Nat,
         executed' \in [Commands -> Nat],
         \A c \in Commands : c # current => executed'[c] = executed[c],
         Script[current].where = "subcontext" => ExecuteExchange',
         Script[current].where = "init" => ExpandExchange'
  PROVE  Inv'
<1> USE DEF Inv, mainVars
<1>1. /\ proc' \in [Pids -> Process] /\ proc'[pid] = q
      /\ \A p \in Pids : p # pid => proc'[p] = proc[p]
  BY DEF TypeOK
<1>2. TypeOK'
  BY <1>1 DEF TypeOK
<1>3. Children'
  BY <1>1 DEF Children, Idle, Alive
<1>4. Exchange'
  BY DEF Exchange
<1>5. ASSUME NEW c \in Commands PROVE Past(c)'
  <2>1. Past(c)
    BY DEF History
  <2>2. CASE c # current
    BY <2>1, <2>2 DEF Past, Success
  <2>3. CASE c = current
    <3>1. c \in Nat /\ current \in Nat /\ result'[c] = "none"
      BY <2>1, <2>3, CommandsAreNumbered DEF Past
    <3> QED
      BY <2>3, <3>1 DEF Past
  <2> QED
    BY <2>2, <2>3
<1> QED
  BY <1>2, <1>3, <1>4, <1>5 DEF History

\* Poll (MainLoop) keeps the invariant.
LEMMA PollStep == ASSUME NEW p \in Pids PROVE Inv /\ Poll(p) => Inv'
<1> SUFFICES ASSUME Inv, Poll(p) PROVE Inv'
  OBVIOUS
<1>0. Alive(p) /\ proc[p].at = "poll" /\ UNCHANGED <<pid, mainVars, executed, deaths, stray>>
      /\ deaths' \in Nat
  BY DEF Poll, Inv, TypeOK
<1>1. CASE proc' = [proc EXCEPT ![p] = Zombie(p)]
  BY <1>0, <1>1, EndKeepsInv
<1>2. CASE proc[p].in # NoMsg /\ proc' = [proc EXCEPT ![p].at = "run"]
  <2>1. p = pid /\ mpc = "read" /\ ~terminated /\ current \in Commands
    BY <1>0, <1>2, OnlyPidWorks
  <2> DEFINE q == [proc[pid] EXCEPT !.at = "run"]
  <2>2. /\ q \in Process /\ q.st = "alive" /\ q.at = "run" /\ q.in = proc[pid].in
        /\ q.out = proc[pid].out /\ pid \in Pids /\ executed' \in [Commands -> Nat]
    BY <1>0, <2>1 DEF Inv, TypeOK, Process, Alive
  <2>3. proc' = [proc EXCEPT ![pid] = q] /\ proc'[pid] = q
    BY <1>2, <2>1 DEF Inv, TypeOK
  <2> HIDE DEF q
  <2>4. ExecuteExchange => ExecuteExchange'
    BY <1>0, <1>2, <2>1, <2>2, <2>3
    DEF ExecuteExchange, Asked, Answered, Ended, Idle, Alive, mainVars
  <2>5. ExpandExchange => ExpandExchange'
    BY <1>0, <1>2, <2>1, <2>2, <2>3
    DEF ExpandExchange, Asked, Answered, Ended, Idle, Alive, mainVars
  <2> QED
    BY <1>0, <2>1, <2>2, <2>3, <2>4, <2>5, WorkKeepsInv DEF Exchange, Inv
<1> QED
  BY <1>1, <1>2 DEF Poll

\* Run (RunCommand, ExpandArgs) keeps the invariant: this is where a command takes effect.
LEMMA RunStep == ASSUME NEW p \in Pids PROVE Inv /\ Run(p) => Inv'
<1> SUFFICES ASSUME Inv, Run(p) PROVE Inv'
  OBVIOUS
<1> DEFINE op == Script[current].op
<1>0. /\ Alive(p) /\ proc[p].at = "run" /\ UNCHANGED <<pid, mainVars, deaths, stray>>
      /\ deaths' \in Nat
  BY DEF Run, Inv, TypeOK
<1>1. p = pid /\ mpc = "read" /\ ~terminated /\ current \in Commands /\ pid \in Pids
  BY <1>0, OnlyPidWorks DEF Inv, TypeOK
<1>2. /\ Script[current].where = "subcontext" =>
           Asked("execute") /\ executed[current] = 0
      /\ Script[current].where = "init" => Asked("expand") /\ executed[current] = 0
  BY <1>0, <1>1 DEF Inv, Exchange, ExecuteExchange, ExpandExchange, Answered, Ended, Idle
<1>3. CASE Script[current].where = "subcontext"
  <2>1. proc[p].in.kind = "execute"
    BY <1>1, <1>2, <1>3 DEF Asked, Msg
  <2> DEFINE q == [proc[pid] EXCEPT
                     !.at = IF Answerer(op) = "nobody" THEN "reply" ELSE "waiting",
                     !.in = Msg(Outcome(op)), !.shut = (op = "shutdown")]
  <2>2. /\ proc' = [proc EXCEPT ![pid] = q] /\ proc'[pid] = q
        /\ executed' = [executed EXCEPT ![current] = @ + 1]
    BY <1>1, <2>1 DEF Run, Inv, TypeOK
  <2>3. /\ executed' \in [Commands -> Nat] /\ executed'[current] = 1
        /\ \A c \in Commands : c # current => executed'[c] = executed[c]
    BY <1>1, <1>2, <1>3, <2>2 DEF Inv, TypeOK
  <2>4. Msg(Outcome(op)) \in Message
    BY DEF Msg, Message, Outcome
  <2>5. /\ q \in Process /\ q.st = "alive" /\ q.at \in {"waiting", "reply"}
        /\ q.in = Msg(Outcome(op)) /\ q.out = proc[pid].out
    BY <1>0, <1>1, <2>4 DEF Inv, TypeOK, Process, Alive
  <2>6. q.shut = (op = "shutdown")
    BY <1>1 DEF Inv, TypeOK, Process
  <2> HIDE DEF q
  <2>7. ExecuteExchange'
    BY <1>0, <1>1, <1>2, <1>3, <2>2, <2>3, <2>5, <2>6
    DEF ExecuteExchange, Asked, Alive, mainVars
  <2> QED
    BY <1>0, <1>1, <1>3, <2>2, <2>3, <2>5, <2>7, WorkKeepsInv
<1>4. CASE Script[current].where = "init"
  <2>1. proc[p].in.kind # "execute"
    BY <1>1, <1>2, <1>4 DEF Asked, Msg
  <2> DEFINE kind == IF op = "fail" THEN "failed" ELSE "ok"
             q == [proc[pid] EXCEPT !.at = "reply", !.in = Msg(kind)]
  <2>2. proc' = [proc EXCEPT ![pid] = q] /\ proc'[pid] = q /\ executed' = executed
    BY <1>1, <2>1 DEF Run, Inv, TypeOK
  <2>3. Msg(kind) \in Message /\ Msg(kind).kind \in {"ok", "failed"}
    BY DEF Msg, Message
  <2>4. /\ q \in Process /\ q.st = "alive" /\ q.at = "reply"
        /\ q.in = Msg(kind) /\ q.out = proc[pid].out
    BY <1>0, <1>1, <2>3 DEF Inv, TypeOK, Process, Alive
  <2> HIDE DEF q
  <2>5. ExpandExchange'
    BY <1>0, <1>1, <1>2, <1>4, <2>2, <2>3, <2>4 DEF ExpandExchange, Asked, Alive, mainVars
  <2>6. executed' \in [Commands -> Nat]
    BY <2>2 DEF Inv, TypeOK
  <2> QED
    BY <1>0, <1>1, <1>4, <2>2, <2>4, <2>5, <2>6, WorkKeepsInv
<1> QED
  BY <1>1, <1>3, <1>4, CommandsAreNumbered DEF Where

\* SetAnswered (handle_property_set_fd) keeps the invariant.
LEMMA SetAnsweredStep == ASSUME NEW p \in Pids PROVE Inv /\ SetAnswered(p) => Inv'
<1> SUFFICES ASSUME Inv, SetAnswered(p) PROVE Inv'
  OBVIOUS
<1>0. /\ Alive(p) /\ proc[p].at = "waiting" /\ deaths' \in Nat
      /\ UNCHANGED <<pid, mainVars, executed, deaths, stray>>
  BY DEF SetAnswered, Inv, TypeOK
<1>1. p = pid /\ mpc = "read" /\ ~terminated /\ current \in Commands /\ pid \in Pids
  BY <1>0, OnlyPidWorks DEF Inv, TypeOK
<1> DEFINE q == [proc[pid] EXCEPT !.at = "reply"]
<1>2. /\ q \in Process /\ q.st = "alive" /\ q.at = "reply" /\ q.in = proc[pid].in
      /\ q.out = proc[pid].out /\ q.shut = proc[pid].shut
      /\ executed' \in [Commands -> Nat]
  BY <1>0, <1>1 DEF Inv, TypeOK, Process, Alive
<1>3. proc' = [proc EXCEPT ![pid] = q] /\ proc'[pid] = q
  BY <1>1 DEF SetAnswered, Inv, TypeOK
<1> HIDE DEF q
<1>4. ExecuteExchange => ExecuteExchange'
  BY <1>0, <1>1, <1>2, <1>3 DEF ExecuteExchange, Asked, Answered, Ended, Idle, Alive, mainVars
<1>5. ~ExpandExchange
  BY <1>0, <1>1 DEF ExpandExchange, Asked, Answered, Ended, Idle
<1> QED
  BY <1>0, <1>1, <1>2, <1>3, <1>4, <1>5, WorkKeepsInv DEF Exchange, Inv

\* SendReply (MainLoop) keeps the invariant.
LEMMA SendReplyStep == ASSUME NEW p \in Pids PROVE Inv /\ SendReply(p) => Inv'
<1> SUFFICES ASSUME Inv, SendReply(p) PROVE Inv'
  OBVIOUS
<1>0. Alive(p) /\ proc[p].at = "reply" /\ UNCHANGED <<pid, mainVars, executed, stray>>
  BY DEF SendReply
<1>1. p = pid /\ mpc = "read" /\ ~terminated /\ current \in Commands /\ pid \in Pids
  BY <1>0, OnlyPidWorks DEF Inv, TypeOK
<1>2. CASE ~proc[p].connected
  BY <1>0, <1>2, EndKeepsInv DEF SendReply, Inv, TypeOK
<1>3. CASE proc[p].connected
  <2>1. PICK m \in {[proc[p].in EXCEPT !.shut = proc[p].shut], Msg("garbled")} :
          /\ deaths' = IF m.kind = "garbled" THEN deaths + 1 ELSE deaths
          /\ proc' = [proc EXCEPT ![p] = [proc[p] EXCEPT
               !.at = "poll", !.in = NoMsg, !.out = m, !.shut = FALSE]]
    BY <1>3 DEF SendReply
  <2>2. deaths' \in Nat /\ executed' \in [Commands -> Nat]
    <3>1. deaths \in Nat /\ executed \in [Commands -> Nat]
      BY DEF Inv, TypeOK
    <3>2. deaths' = deaths \/ deaths' = deaths + 1
      BY <2>1
    <3> QED
      BY <1>0, <3>1, <3>2
  <2>3. proc[pid] \in Process /\ proc[pid].in \in Message /\ NoMsg \in Message
        /\ proc[pid].shut \in BOOLEAN
    BY <1>1 DEF Inv, TypeOK, Process, NoMsg, Msg, Message
  <2>4. m \in Message
    <3>1. Msg("garbled") \in Message
      BY DEF Msg, Message
    <3>2. [proc[p].in EXCEPT !.shut = proc[p].shut] \in Message
      BY <1>1, <2>3 DEF Message
    <3> QED
      BY <2>1, <3>1, <3>2
  <2> DEFINE q == [proc[pid] EXCEPT !.at = "poll", !.in = NoMsg, !.out = m, !.shut = FALSE]
  <2>5. /\ q \in Process /\ q.st = "alive" /\ q.at = "poll" /\ q.in = NoMsg /\ q.out = m
    BY <1>0, <1>1, <2>3, <2>4 DEF Process, Alive
  <2>6. proc' = [proc EXCEPT ![pid] = q] /\ proc'[pid] = q
    BY <1>1, <2>1 DEF Inv, TypeOK
  <2> HIDE DEF q
  <2>7. m.kind \in {proc[pid].in.kind, "garbled"}
    BY <1>1, <2>1, <2>3 DEF Message, Msg
  <2>8. m.kind # "garbled" => m.shut = proc[pid].shut
    BY <1>1, <2>1, <2>3 DEF Message, Msg
  <2>9. ExecuteExchange => ExecuteExchange'
    <3> SUFFICES ASSUME ExecuteExchange PROVE ExecuteExchange'
      OBVIOUS
    <3> DEFINE op == Script[current].op
    <3>1. /\ proc[pid].in = Msg(Outcome(op)) /\ proc[pid].shut = (op = "shutdown")
          /\ executed[current] = 1
      BY <1>0, <1>1 DEF ExecuteExchange, Asked, Answered, Ended, Idle
    <3>2. proc[pid].in.kind \in {"ok", "failed"}
      <4>1. Outcome(op) \in {"ok", "failed"}
        BY DEF Outcome
      <4>2. Msg(Outcome(op)).kind = Outcome(op)
        BY DEF Msg
      <4> QED
        BY <3>1, <4>1, <4>2
    <3>3. Answered'
      BY <1>0, <2>5, <2>6, <2>7, <3>2 DEF Answered
    <3>4. proc'[pid'].out.kind = "ok" => proc'[pid'].out.shut = (op = "shutdown")
      BY <1>0, <2>5, <2>6, <2>8, <3>1
    <3> QED
      BY <1>0, <3>1, <3>3, <3>4 DEF ExecuteExchange, mainVars
  <2>10. ExpandExchange => ExpandExchange'
    <3> SUFFICES ASSUME ExpandExchange PROVE ExpandExchange'
      OBVIOUS
    <3>1. proc[pid].in.kind \in {"ok", "failed"} /\ executed[current] = 0
      BY <1>0, <1>1 DEF ExpandExchange, Asked, Answered, Ended, Idle
    <3>2. Answered'
      BY <1>0, <2>5, <2>6, <2>7, <3>1 DEF Answered
    <3> QED
      BY <1>0, <3>1, <3>2 DEF ExpandExchange, mainVars
  <2> QED
    BY <1>0, <1>1, <2>2, <2>5, <2>6, <2>9, <2>10, WorkKeepsInv DEF Exchange, Inv
<1> QED
  BY <1>2, <1>3

\* Dies keeps the invariant.
LEMMA DiesStep == ASSUME NEW p \in Pids PROVE Inv /\ Dies(p) => Inv'
<1> SUFFICES ASSUME Inv, Dies(p) PROVE Inv'
  OBVIOUS
<1>1. deaths' \in Nat
  <2>1. deaths \in Nat
    BY DEF Inv, TypeOK
  <2>2. deaths' = deaths \/ deaths' = deaths + 1
    BY DEF Dies
  <2> QED
    BY <2>1, <2>2
<1> QED
  BY <1>1, EndKeepsInv DEF Dies

\* Recycle keeps the invariant: pid_ is not free while init may still signal it.
LEMMA RecycleStep == ASSUME NEW p \in Pids PROVE Inv /\ Recycle(p) => Inv'
<1> SUFFICES ASSUME Inv, Recycle(p) PROVE Inv'
  OBVIOUS
<1> USE DEF Inv, mainVars
<1>1. /\ proc[p].st = "none" /\ UNCHANGED <<pid, mainVars, executed, deaths, stray>>
      /\ proc' = [proc EXCEPT ![p].st = "other"]
  BY DEF Recycle
<1>2. /\ proc' \in [Pids -> Process] /\ proc'[p].st = "other"
      /\ proc'[p].at = proc[p].at /\ proc'[p].in = proc[p].in /\ proc'[p].out = proc[p].out
      /\ \A q \in Pids : q # p => proc'[q] = proc[q]
  BY <1>1 DEF TypeOK, Process
<1>3. TypeOK'
  BY <1>1, <1>2 DEF TypeOK
<1>4. \A q \in Pids : (Idle(q) => Idle(q)') /\ (Alive(q)' => proc'[q] = proc[q])
  BY <1>2 DEF Idle, Alive
<1>5. mpc = "read" => p # pid
  BY <1>1 DEF Children
<1>6. Children'
  BY <1>1, <1>2, <1>4 DEF Children, Alive, TypeOK
<1>7. mpc = "read" => proc'[pid] = proc[pid]
  BY <1>2, <1>5 DEF TypeOK
<1>8. Exchange'
  BY <1>1, <1>7 DEF Exchange, ExecuteExchange, ExpandExchange, Asked, Answered, Ended, Idle, Alive
<1>9. History'
  BY <1>1 DEF History, Past, Success
<1> QED
  BY <1>3, <1>6, <1>8, <1>9

-----------------------------------------------------------------------------
(* The theorems                                                               *)

\* The forked vendor_init with nothing to do satisfies the invariant.
LEMMA InitInv == Init => Inv
<1> SUFFICES ASSUME Init PROVE Inv
  OBVIOUS
<1>1. /\ 1 \in Pids /\ NoProcess \in Process /\ NoProcess.at = "poll"
      /\ NoProcess.in = NoMsg /\ NoProcess.out = NoMsg /\ NoProcess.st = "none"
  BY SubcontextConstants DEF NoProcess, Process, NoMsg, Msg, Message
<1>2. /\ proc \in [Pids -> Process] /\ proc[1] = Forked
      /\ \A p \in Pids : p # 1 => proc[p] = NoProcess
  BY <1>1, ForkedIsIdle DEF Init
<1>3. TypeOK
  <2>1. /\ result \in [Commands -> {"none", "ok", "failed"}]
        /\ executed \in [Commands -> Nat]
    BY DEF Init
  <2>2. pid \in Pids /\ reaping \in Pids
    BY <1>1 DEF Init
  <2>3. mpc = "loop" /\ current \in Nat \ {0} /\ deaths \in Nat
    BY DEF Init
  <2>4. terminated \in BOOLEAN /\ shutdown \in BOOLEAN /\ stray \in BOOLEAN
    BY Zenon DEF Init
  <2> QED
    BY <1>2, <2>1, <2>2, <2>3, <2>4 DEF TypeOK
<1>4. Children
  BY <1>1, <1>2, ForkedIsIdle DEF Init, Children, Idle, Alive
<1>5. Exchange /\ History
  BY DEF Init, Exchange, History, Past, Success
<1> QED
  BY <1>3, <1>4, <1>5 DEF Inv

\* Every step of init, of its children and of the kernel keeps the invariant.
LEMMA InvIsInductive == Inv /\ [Next]_vars => Inv'
<1> SUFFICES ASSUME Inv, [Next]_vars PROVE Inv'
  OBVIOUS
<1>1. CASE MainThread
  BY <1>1, SendCommandStep, ReadReplyStep, ReadFailsStep, RunBuiltinStep, FindZombieStep,
     ReapStep, TerminateStep DEF MainThread
<1>2. CASE \E p \in Pids : Works(p) \/ Dies(p) \/ Recycle(p)
  BY <1>2, PollStep, RunStep, SetAnsweredStep, SendReplyStep, DiesStep, RecycleStep DEF Works
<1>3. CASE UNCHANGED vars
  BY <1>3 DEF vars, mainVars, Inv, TypeOK, Children, Idle, Alive, Exchange, ExecuteExchange,
     ExpandExchange, Asked, Answered, Ended, History, Past, Success
<1> QED
  BY <1>1, <1>2, <1>3 DEF Next

\* The invariant holds throughout.
LEMMA InvHolds == Spec => []Inv
<1> QED
  BY InitInv, InvIsInductive, PTL DEF Spec

\* One subcontext at a time, and no signal to a process that merely has its old pid
\* (Subcontext::Restart, SubcontextChildReap, SubcontextTerminate), however many processes
\* die, whenever they do and however the kernel hands out pids.
THEOREM RestartIsAlwaysClean == Spec => []RestartIsClean
<1>1. Inv => RestartIsClean
  BY DEF Inv, Children, RestartIsClean
<1> QED
  BY <1>1, InvHolds, PTL

\* No vendor command takes effect twice, and one that is reported to have succeeded has
\* taken effect, its shutdown included (TransmitMessage, Execute), for every script.
THEOREM CommandsExecuteAtMostOnce == Spec => []ExecutedAtMostOnce
<1>1. ASSUME Inv PROVE ExecutedAtMostOnce
  <2>1. ASSUME NEW c \in Commands PROVE executed[c] <= 1
    <3>0. c \in Nat
      BY CommandsAreNumbered
    <3>1. Past(c) /\ c \in Nat /\ current \in Nat /\ executed[c] \in Nat
      BY <1>1, <3>0 DEF Inv, History, TypeOK
    <3>2. c < current \/ c > current \/ c = current
      BY <3>1
    <3>3. CASE c = current
      BY <1>1, <3>1, <3>3, CommandsAreNumbered
      DEF Inv, Exchange, ExecuteExchange, ExpandExchange, Where
    <3> QED
      BY <3>1, <3>2, <3>3 DEF Past
  <2>2. ASSUME NEW c \in Commands, result[c] = "ok" PROVE Success(c)
    BY <1>1, <2>2 DEF Inv, History, Past
  <2> QED
    BY <2>1, <2>2 DEF ExecutedAtMostOnce, Success
<1> QED
  BY <1>1, InvHolds, PTL
==============================================================================
