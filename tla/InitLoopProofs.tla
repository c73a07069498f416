--------------------------- MODULE InitLoopProofs ---------------------------
(***************************************************************************)
(* The safety properties of the main loop, for every set of actions,       *)
(* properties and clients: the types and the bound of the control queue,   *)
(* quiet shutdowns, property waits and wake-ups that are not missed,       *)
(* property triggers that are not lost and control messages that are       *)
(* answered once.                                                          *)
(*                                                                         *)
(* The invariant has one part for each.  They share what the two threads   *)
(* know of each other: while the property thread serves a request of the   *)
(* main thread, that one is in SetProperty() (Handshake).                  *)
(***************************************************************************)
EXTENDS InitLoop, SequenceTheorems, FiniteSetTheorems, WellFoundedInduction, TLAPS

\* TypeOK in two halves: the flags and the rest.
Flags ==
  /\ doShutdown \in BOOLEAN /\ shuttingDown \in BOOLEAN /\ triggersEnabled \in BOOLEAN
  /\ wake \in BOOLEAN /\ acceptMessages \in BOOLEAN /\ rebooted \in BOOLEAN
Data ==
  /\ props \in [Props -> Values]
  /\ eventQueue \in Seq(Event) /\ executing \in Seq(ActionIds \cup Builtins)
  /\ executing # <<>> => command \in 1..NumCommands(Head(executing))
  /\ executing = <<>> => command = 1
  /\ waitFor = NoWait \/ waitFor \in [name : Props, value : Values]
  /\ shutdownCommand \in Power \cup {""}
  /\ execService \in {"none", "running", "zombie"}
  /\ watchdog \in {"none", "start", "boot"}
  /\ ppc \in {"Idle", "Write", "Lock", "Queue", "CheckWait", "Control"}
  /\ ctlQueue \in Seq(CtlClients) /\ Len(ctlQueue) <= CtlLimit + 1
  /\ serving \in CtlClients \cup {"none"}
  /\ owed \subseteq ActionIds
flagVars == <<doShutdown, shuttingDown, triggersEnabled, wake, acceptMessages, rebooted>>
dataVars == <<props, eventQueue, executing, command, waitFor, shutdownCommand, execService,
              watchdog, ctlQueue, serving, owed>>

\* A request of the main thread or of a client that is not a control message.
Sets(r) == Settable(r.name, r.value) \/ (r.name = "init.svc" /\ r.value = "")

Handshake ==
  /\ asked \subseteq CtlClients
  /\ ppc = "Idle" => req = NoReq
  /\ ppc = "Control" => req.from \in CtlClients
  /\ ppc \in {"Write", "Lock", "Queue", "CheckWait"} =>
       req.from \in {"client", "command", "ctl"} /\ Sets(req)
  /\ req.from \in {"command", "ctl"} => mpc = "SetProperty" /\ todo.from = req.from
  /\ mpc = "SetProperty" => todo.from \in {"command", "ctl"} /\ Sets(todo)
  /\ mpc = "StartWaiting" => todo.name \in Props /\ todo.value \in Values
  /\ mpc = "Execute" => executing # <<>>
  /\ mpc = "CtlReply" \/ (mpc = "SetProperty" /\ todo.from = "ctl") => serving \in CtlClients

Types == Flags /\ Data /\ Handshake

\* The events that are queued and the actions that are executing.
Elems(q) == {q[i] : i \in DOMAIN q}
Events == Elems(eventQueue)
Chosen == Elems(executing)

\* A userspace reboot is queued or about to run.
Rebooting == Builtin("userspace-reboot") \in Events \/ "userspace-reboot" \in Chosen
\* No property change is queued, and neither is what queues the pass over all of them.
Calm ==
  /\ \A e \in Events : e.kind # "property"
  /\ Builtin("queue_property_triggers") \notin Events /\ "queue_property_triggers" \notin Chosen
Once(q, e) == \A i, j \in DOMAIN q : q[i] = e /\ q[j] = e => i = j

Quiet ==
  /\ ~acceptMessages => ppc \notin {"Queue", "CheckWait"}
  /\ mpc \in {"Shutdown", "UserspaceReboot", "StopUserspace"} => ~acceptMessages
  /\ mpc \in {"Powerctl", "Shutdown", "UserspaceReboot"} => ~shuttingDown
  /\ shuttingDown \/ Rebooting => ~acceptMessages /\ Calm
  /\ Rebooting => ~shuttingDown /\ owed = {}
  /\ Once(eventQueue, Builtin("userspace-reboot"))
  /\ "userspace-reboot" \in Chosen => Builtin("userspace-reboot") \notin Events
  /\ \A b \in Builtins : b \in Chosen => executing = <<b>>
  /\ mpc = "StopUserspace" => shuttingDown /\ owed = {} /\ waitFor = NoWait

\* The property has the value, and the property thread is on its way to say so.
Announced(w) ==
  props[w.name] = w.value /\ acceptMessages =>
    /\ req.name = w.name /\ req.value = w.value
    /\ ppc \in {"Lock", "Queue", "CheckWait"}
Waits ==
  /\ Waiting => Announced(waitFor)
  /\ mpc = "StartWaiting" => Announced(todo)

\* Where the main thread will come to HandleControlMessages or CheckShutdown.
BeforeReply == mpc \in {"Ctl", "CtlReply"} \/ (mpc = "SetProperty" /\ todo.from = "ctl")
BeforeShutdown ==
  BeforeReply \/ mpc \in {"CheckShutdown", "Powerctl", "Shutdown", "UserspaceReboot",
                          "ShutdownDone"}
Listening == ~shuttingDown \/ mpc = "StopUserspace"
Wakes ==
  /\ Listening /\ ctlQueue # <<>> => wake \/ BeforeReply
  /\ Listening /\ doShutdown => wake \/ BeforeShutdown
  /\ mpc = "Sleep" /\ ~wake /\ execService # "zombie" =>
       Blocked \/ (executing = <<>> /\ eventQueue = <<>>)

\* Enabling the triggers is always followed by the pass over all property actions.
AllPass == PropChange("", "")
Followed(q, b, p) == \A i \in DOMAIN q : q[i] = b => \E j \in DOMAIN q : i < j /\ q[j] = p
BootPass ==
  /\ "enable_property_trigger" \in Chosen => AllPass \in Events
  /\ Followed(eventQueue, Builtin("enable_property_trigger"), AllPass)

\* The change of n to v is one that a waits for; n is "" for the pass over all actions.
Triggers(a, n, v) ==
  n = "" \/ (n \in DOMAIN PropTriggers[a] /\ PropTriggers[a][n] \in {"*", v})
Announcing(a) == ppc \in {"Lock", "Queue"} /\ Triggers(a, req.name, req.value)
InEvents(a) ==
  \/ \E e \in Events : e.kind = "property" /\ Triggers(a, e.name, e.value)
  \/ Builtin("queue_property_triggers") \in Events \/ "queue_property_triggers" \in Chosen
Seen == acceptMessages /\ (triggersEnabled \/ BootPassAhead)
Owed ==
  \A a \in owed :
    /\ EventTrigger[a] = "" /\ DOMAIN PropTriggers[a] # {}
    /\ Seen /\ CheckPropertyTriggers(a, "", "") => Announcing(a) \/ InEvents(a)

Inv == Types /\ Quiet /\ Waits /\ Wakes /\ BootPass /\ Owed

-----------------------------------------------------------------------------
(* The loop over all actions.                                                *)

\* Induction over the natural numbers, by a least counterexample.
LEMMA NatSetInduction ==
  ASSUME NEW S \in SUBSET Nat, 0 \in S, \A n \in S : n + 1 \in S
  PROVE  S = Nat
<1> DEFINE T == Nat \ S
           R == {ss \in Nat \X Nat : ss[1] < ss[2]}
<1>1. SUFFICES ASSUME T # {} PROVE FALSE
  OBVIOUS
<1>2. IsWellFoundedOn(R, Nat)
  BY NatLessThanWellFounded DEF OpToRel
<1>3. PICK x \in T : \A y \in T : <<y, x>> \notin R
  <2>1. T \subseteq Nat
    OBVIOUS
  <2> HIDE DEF T, R
  <2> QED BY <1>1, <1>2, <2>1, WFMin
<1>4. x \in Nat /\ x # 0 /\ x - 1 \in Nat /\ x - 1 < x
  OBVIOUS
<1>5. <<x - 1, x>> \in R
  BY <1>4
<1>6. x - 1 \in S
  BY <1>3, <1>4, <1>5
<1> QED BY <1>4, <1>6

\* Actions are in a sequence without repetitions.
LEMMA Actions ==
  /\ RcActions \in Seq(ActionIds) /\ Len(RcActions) \in Nat
  /\ \A i \in 1..Len(RcActions) : RcActions[i] \in ActionIds
<1>1. RcActions \in Seq(STRING)
  BY InitLoopConstants
<1>2. Len(RcActions) \in Nat /\ RcActions \in [1..Len(RcActions) -> STRING]
  BY <1>1
<1>3. \A i \in 1..Len(RcActions) : RcActions[i] \in ActionIds
  BY <1>2 DEF ActionIds
<1>4. RcActions \in [1..Len(RcActions) -> ActionIds]
  BY <1>2, <1>3
<1> QED BY <1>2, <1>3, <1>4

\* The loop queues actions only, and every action that the event triggers.
LEMMA MatchingActions ==
  ASSUME NEW e, e.kind # "builtin"
  PROVE  /\ Matching(e) \in Seq(ActionIds)
         /\ \A a \in ActionIds : CheckEvent(a, e) =>
              \E j \in DOMAIN Matching(e) : Matching(e)[j] = a
<1> DEFINE N == Len(RcActions)
           Selected(i) == CheckEvent(RcActions[i], e)
           Loop(f, n) == [i \in 0..n |->
                            IF i = 0 THEN <<>>
                            ELSE IF Selected(i) THEN Append(f[i - 1], RcActions[i])
                            ELSE f[i - 1]]
           F == CHOOSE f : f = Loop(f, N)
<1>1. Matching(e) = F[N]
  BY DEF Matching
<1>2. N \in Nat /\ \A i \in 1..N : RcActions[i] \in ActionIds
  BY Actions
<1>3. \A a \in ActionIds : \E i \in 1..N : RcActions[i] = a
  BY Actions DEF ActionIds
<1> HIDE DEF Selected, N
<1>4. \A n \in Nat : \E f : f = Loop(f, n)
  <2> DEFINE S == {n \in Nat : \E f : f = Loop(f, n)}
  <2>1. 0 \in S
    <3> DEFINE f0 == [i \in 0..0 |-> <<>>]
    <3>1. f0 = Loop(f0, 0)
      OBVIOUS
    <3> QED BY <3>1
  <2>2. ASSUME NEW n \in S PROVE n + 1 \in S
    <3>1. PICK f : f = Loop(f, n)
      OBVIOUS
    <3> DEFINE new == IF Selected(n + 1) THEN Append(f[n], RcActions[n + 1]) ELSE f[n]
               g == [i \in 0..(n + 1) |-> IF i = n + 1 THEN new ELSE f[i]]
    <3> HIDE DEF new
    <3>2. \A i \in 0..(n + 1) : g[i] = Loop(g, n + 1)[i]
      <4> SUFFICES ASSUME NEW i \in 0..(n + 1) PROVE g[i] = Loop(g, n + 1)[i]
        OBVIOUS
      <4>1. CASE i = n + 1
        <5>1. i # 0 /\ i - 1 = n /\ g[n] = f[n] /\ g[i] = new
          BY <4>1
        <5>2. Loop(g, n + 1)[i] = IF Selected(i) THEN Append(g[i - 1], RcActions[i]) ELSE g[i - 1]
          BY <5>1
        <5> QED BY <4>1, <5>1, <5>2 DEF new
      <4>2. CASE i # n + 1
        <5>1. i \in 0..n /\ g[i] = f[i]
          BY <4>2
        <5>2. f[i] = IF i = 0 THEN <<>>
                     ELSE IF Selected(i) THEN Append(f[i - 1], RcActions[i]) ELSE f[i - 1]
          BY <3>1, <5>1
        <5>3. i # 0 => g[i - 1] = f[i - 1]
          BY <5>1
        <5> QED BY <5>1, <5>2, <5>3
      <4> QED BY <4>1, <4>2
    <3>3. g = Loop(g, n + 1)
      BY <3>2
    <3>4. n + 1 \in Nat
      OBVIOUS
    <3>5. \E h : h = Loop(h, n + 1)
      <4> HIDE DEF g
      <4> QED BY <3>3
    <3> QED BY <3>4, <3>5
  <2> HIDE DEF S
  <2>3. S \in SUBSET Nat
    BY DEF S
  <2>4. S = Nat
    BY <2>1, <2>2, <2>3, NatSetInduction
  <2> QED BY <2>4 DEF S
<1>5. F = Loop(F, N)
  BY <1>2, <1>4
<1>6. \A i \in 0..N : F[i] = IF i = 0 THEN <<>>
                            ELSE IF Selected(i) THEN Append(F[i - 1], RcActions[i])
                            ELSE F[i - 1]
  BY <1>5
<1> HIDE DEF F
<1> DEFINE Good(n) == /\ F[n] \in Seq(ActionIds)
                      /\ \A k \in 1..n : Selected(k) =>
                           \E j \in 1..Len(F[n]) : F[n][j] = RcActions[k]
<1>7. \A n \in Nat : n \leq N => Good(n)
  <2> DEFINE S == {n \in Nat : n \leq N => Good(n)}
  <2>1. 0 \in S
    <3>1. 0 \in 0..N
      BY <1>2
    <3>2. F[0] = <<>>
      <4> HIDE DEF S, Good, Loop
      <4> QED BY <1>6, <3>1
    <3>3. Good(0)
      <4>1. <<>> \in Seq(ActionIds) /\ 1..0 = {}
        OBVIOUS
      <4> QED BY <3>2, <4>1
    <3> QED BY <3>3
  <2>2. ASSUME NEW n \in S PROVE n + 1 \in S
    <3> SUFFICES ASSUME n + 1 \leq N PROVE Good(n + 1)
      OBVIOUS
    <3>1. n \in Nat /\ n + 1 \in 1..N /\ n \leq N
      BY <1>2
    <3>2. Good(n)
      BY <3>1
    <3>3. F[n + 1] = IF Selected(n + 1) THEN Append(F[n], RcActions[n + 1]) ELSE F[n]
      BY <1>2, <1>6, <3>1
    <3>4. RcActions[n + 1] \in ActionIds
      BY <1>2, <3>1
    <3>5. CASE ~Selected(n + 1)
      BY <3>1, <3>2, <3>3, <3>5
    <3>6. CASE Selected(n + 1)
      <4>1. F[n] \in Seq(ActionIds) /\ F[n + 1] = Append(F[n], RcActions[n + 1])
        BY <3>2, <3>3, <3>6
      <4>2. /\ F[n + 1] \in Seq(ActionIds) /\ Len(F[n + 1]) = Len(F[n]) + 1 /\ Len(F[n]) \in Nat
            /\ \A j \in 1..Len(F[n]) : F[n + 1][j] = F[n][j]
            /\ F[n + 1][Len(F[n]) + 1] = RcActions[n + 1]
        BY <3>4, <4>1
      <4>3. ASSUME NEW k \in 1..(n + 1), Selected(k)
            PROVE  \E j \in 1..Len(F[n + 1]) : F[n + 1][j] = RcActions[k]
        <5>1. CASE k = n + 1
          BY <4>2, <5>1
        <5>2. CASE k # n + 1
          <6>1. k \in 1..n
            BY <3>1, <5>2
          <6>2. PICK j \in 1..Len(F[n]) : F[n][j] = RcActions[k]
            BY <3>2, <4>3, <6>1
          <6>3. j \in 1..Len(F[n + 1]) /\ F[n + 1][j] = RcActions[k]
            BY <4>2, <6>2
          <6> QED BY <6>3
        <5> QED BY <5>1, <5>2
      <4> QED BY <4>2, <4>3
    <3> QED BY <3>5, <3>6
  <2>3. S \in SUBSET Nat
    OBVIOUS
  <2> HIDE DEF S
  <2>4. S = Nat
    BY <2>1, <2>2, <2>3, NatSetInduction
  <2> QED BY <2>4 DEF S
<1>8. Good(N)
  BY <1>2, <1>7
<1>9. F[N] \in Seq(ActionIds)
  BY <1>8
<1>10. ASSUME NEW a \in ActionIds, CheckEvent(a, e)
       PROVE  \E j \in DOMAIN F[N] : F[N][j] = a
  <2>1. PICK i \in 1..N : RcActions[i] = a
    BY <1>3
  <2>2. Selected(i)
    BY <1>10, <2>1 DEF Selected
  <2>3. PICK j \in 1..Len(F[N]) : F[N][j] = RcActions[i]
    BY <1>8, <2>1, <2>2
  <2> QED BY <1>9, <2>1, <2>3
<1> QED BY <1>1, <1>9, <1>10

-----------------------------------------------------------------------------
(* Types.                                                                    *)

\* Sequences of one and of two elements.
LEMMA ShortSeq ==
  ASSUME NEW A, NEW x \in A, NEW y \in A
  PROVE  <<x>> \in Seq(A) /\ <<x, y>> \in Seq(A)
OBVIOUS

\* The first element of a queue and the others.
LEMMA FirstAndRest ==
  ASSUME NEW A, NEW q \in Seq(A), q # <<>>
  PROVE  /\ Head(q) \in A /\ Tail(q) \in Seq(A) /\ Head(q) = q[1]
         /\ Len(q) \in Nat \ {0} /\ Len(Tail(q)) = Len(q) - 1
         /\ \A i \in 1..Len(Tail(q)) : Tail(q)[i] = q[i + 1]
OBVIOUS

\* An action has commands, and so has a builtin.
LEMMA NumCommandsPositive ==
  ASSUME NEW a \in ActionIds \cup Builtins
  PROVE  NumCommands(a) \in Nat \ {0}
<1>1. CASE a \in Builtins
  BY <1>1 DEF NumCommands
<1>2. CASE a \notin Builtins
  <2>1. CommandsOf[a] \in Seq(Command) /\ CommandsOf[a] # <<>>
    BY <1>2, InitLoopConstants
  <2> HIDE DEF Command
  <2>2. Len(CommandsOf[a]) \in Nat \ {0}
    BY <2>1
  <2> QED BY <1>2, <2>2 DEF NumCommands
<1> QED BY <1>1, <1>2

\* Events of all kinds.
LEMMA EventTypes ==
  /\ \A n \in STRING : Ev(n) \in Event
  /\ \A b \in Builtins : Builtin(b) \in Event
  /\ \A n, v \in STRING : PropChange(n, v) \in Event
<1>1. "" \in STRING
  BY Literals
<1> QED BY <1>1 DEF Ev, Builtin, PropChange, Event

\* Queueing an event subject to the policy.
LEMMA WithEventType ==
  ASSUME NEW q \in Seq(Event), NEW n \in STRING
  PROVE  WithEvent(q, n) \in Seq(Event)
<1>1. Ev(n) \in Event
  BY EventTypes
<1>2. Append(q, Ev(n)) \in Seq(Event)
  BY <1>1, AppendProperties
<1> QED BY <1>2 DEF WithEvent

\* Going on to the next command or action keeps the position within the action.
LEMMA NextCommandType ==
  ASSUME Data, executing # <<>>, NextCommand
  PROVE  /\ executing' \in Seq(ActionIds \cup Builtins)
         /\ executing' # <<>> => command' \in 1..NumCommands(Head(executing'))
         /\ executing' = <<>> => command' = 1
         /\ executing' \in {executing, Tail(executing)}
<1> DEFINE A == ActionIds \cup Builtins
<1>1. executing \in Seq(A) /\ command \in 1..NumCommands(Head(executing))
  BY DEF Data
<1>2. Head(executing) \in A /\ Tail(executing) \in Seq(A)
      /\ (Tail(executing) # <<>> => Head(Tail(executing)) \in A)
  <2> HIDE DEF A
  <2> QED BY <1>1
<1>3. CASE command = NumCommands(Head(executing))
  <2>1. command' = 1 /\ executing' = Tail(executing)
    BY <1>3 DEF NextCommand
  <2>2. Tail(executing) # <<>> => 1 \in 1..NumCommands(Head(Tail(executing)))
    BY <1>2, NumCommandsPositive
  <2> QED BY <1>2, <2>1, <2>2
<1>4. CASE command # NumCommands(Head(executing))
  <2>1. command' = command + 1 /\ executing' = executing
    BY <1>4 DEF NextCommand
  <2>2. NumCommands(Head(executing)) \in Nat
    BY <1>2, NumCommandsPositive
  <2>3. command + 1 \in 1..NumCommands(Head(executing))
    BY <1>1, <1>4, <2>2
  <2> QED BY <1>1, <2>1, <2>3
<1> QED BY <1>3, <1>4

\* The command that is executed has the arguments it takes.
LEMMA CmdType ==
  ASSUME Data, executing # <<>>
  PROVE  /\ Cmd.name \in STRING /\ Cmd.value \in STRING /\ WellFormed(Cmd)
         /\ \A b \in Builtins : Cmd.op = b <=> Head(executing) = b
<1> DEFINE a == Head(executing)
<1>1. a \in ActionIds \cup Builtins /\ command \in 1..NumCommands(a)
  <2> DEFINE A == ActionIds \cup Builtins
  <2>1. executing \in Seq(A) /\ command \in 1..NumCommands(a)
    BY DEF Data
  <2> HIDE DEF A
  <2>2. a \in A
    BY <2>1
  <2> QED BY <2>1, <2>2 DEF A
<1>2. CASE a \in Builtins
  <2>1. Cmd = [op |-> a, name |-> "", value |-> ""]
    BY <1>2 DEF Cmd
  <2>2. Cmd.op = a /\ Cmd.name = "" /\ Cmd.value = "" /\ "" \in STRING
    BY <2>1, Literals
  <2>3. WellFormed(Cmd)
    BY <1>2, <2>2 DEF WellFormed, Builtins
  <2> QED BY <2>2, <2>3
<1>3. CASE a \notin Builtins
  <2>1. /\ Cmd = CommandsOf[a][command] /\ CommandsOf[a] \in Seq(Command)
        /\ \A i \in DOMAIN CommandsOf[a] : WellFormed(CommandsOf[a][i])
    BY <1>1, <1>3, InitLoopConstants DEF Cmd
  <2>2. command \in DOMAIN CommandsOf[a]
    <3> HIDE DEF Command
    <3> QED BY <1>1, <1>3, <2>1 DEF NumCommands
  <2>3. Cmd \in Command
    <3> HIDE DEF Command
    <3> QED BY <2>1, <2>2
  <2>4. Cmd.name \in STRING /\ Cmd.value \in STRING /\ Cmd.op \notin Builtins
    BY <2>3 DEF Command, Builtins
  <2> QED BY <1>3, <2>1, <2>2, <2>4
<1> QED BY <1>2, <1>3

\* Flags that keep their values.
LEMMA FlagsFrame == ASSUME Flags, UNCHANGED flagVars PROVE Flags'
<1>1. /\ doShutdown' = doShutdown /\ shuttingDown' = shuttingDown
      /\ triggersEnabled' = triggersEnabled /\ wake' = wake
      /\ acceptMessages' = acceptMessages /\ rebooted' = rebooted
  BY DEF flagVars
<1> QED BY <1>1, Zenon DEF Flags

\* A request is taken.
LEMMA AcceptTypes ==
  ASSUME Types, NEW r, Accept(r), asked' \subseteq CtlClients,
         \/ r.from \in {"client", "command", "ctl"} /\ Sets(r) /\ r.name # "ctl"
            /\ (r.from \in {"command", "ctl"} => mpc = "SetProperty" /\ todo.from = r.from)
         \/ r.from \in CtlClients /\ r.name = "ctl"
  PROVE  Types'
<1>1. /\ UNCHANGED dataVars /\ UNCHANGED flagVars /\ UNCHANGED <<mpc, todo>>
      /\ req' = r /\ ppc' \in {"Control", "Write"}
  BY DEF Accept, dataVars, flagVars, amVars, stateVars, mainVars, envVars
<1>2. Flags' /\ Data'
  BY <1>1, FlagsFrame DEF Types, Data, dataVars
<1>3. ppc' = IF r.name = "ctl" THEN "Control" ELSE "Write"
  BY DEF Accept
<1>4. CtlClients \cap {"none", "client", "command", "ctl"} = {}
  BY InitLoopConstants
<1>5. Handshake'
  BY <1>1, <1>3, <1>4 DEF Types, Handshake, dataVars, Sets
<1> QED BY <1>2, <1>5 DEF Types

\* None of the names that may be set is that of a control message.
LEMMA SetsIsNotControl ==
  ASSUME NEW r, Sets(r) PROVE r.name # "ctl"
BY InitLoopConstants DEF Sets, Settable

\* A request of the main thread, of a client or a control message is taken.
LEMMA ServeTypes ==
  ASSUME Types, ServeMain \/ HandlePropertySet \/ HandleControlSet
  PROVE  Types'
<1>1. CASE ServeMain
  <2>1. mpc = "SetProperty" /\ Accept(todo) /\ UNCHANGED asked
    BY <1>1 DEF ServeMain
  <2>2. todo.from \in {"command", "ctl"} /\ Sets(todo) /\ asked' \subseteq CtlClients
    BY <2>1 DEF Types, Handshake
  <2> QED BY <2>1, <2>2, AcceptTypes, SetsIsNotControl
<1>2. CASE HandlePropertySet
  <2>1. PICK s \in ClientSets \cup ({"sys.powerctl"} \X PowerCommands) :
          Accept([from |-> "client", name |-> s[1], value |-> s[2]])
    BY <1>2 DEF HandlePropertySet
  <2> DEFINE r == [from |-> "client", name |-> s[1], value |-> s[2]]
  <2>2. Settable(s[1], s[2])
    BY InitLoopConstants DEF Settable
  <2>3. r.from = "client" /\ Sets(r) /\ asked' \subseteq CtlClients
    BY <1>2, <2>2 DEF HandlePropertySet, Types, Handshake, Sets
  <2> QED BY <2>1, <2>3, AcceptTypes, SetsIsNotControl
<1>3. CASE HandleControlSet
  <2> DEFINE c == CHOOSE x \in CtlClients \ asked : TRUE
             r == [from |-> c, name |-> "ctl", value |-> ""]
  <2>1. CtlClients # asked /\ asked' = asked \cup {c} /\ Accept(r)
    BY <1>3 DEF HandleControlSet
  <2>2. asked \subseteq CtlClients
    BY DEF Types, Handshake
  <2>3. c \in CtlClients
    BY <2>1, <2>2
  <2>4. r.from \in CtlClients /\ r.name = "ctl" /\ asked' \subseteq CtlClients
    BY <2>1, <2>2, <2>3
  <2> HIDE DEF r
  <2> QED BY <2>1, <2>4, AcceptTypes
<1> QED BY <1>1, <1>2, <1>3

\* The answer to a request sets the main thread going again if it was its own.
LEMMA ReplyHandshake ==
  ASSUME Types, Reply, UNCHANGED <<asked, executing, serving>>,
         ppc \in {"Write", "Lock", "Queue", "CheckWait"}
  PROVE  /\ Handshake' /\ ppc' = "Idle" /\ req'.from = "none"
         /\ \/ mpc' = mpc /\ todo' = todo /\ req.from = "client"
            \/ mpc = "SetProperty" /\ mpc' = "Timeout" /\ req.from = "command"
            \/ mpc = "SetProperty" /\ mpc' = "CtlReply" /\ req.from = "ctl" /\ todo.from = "ctl"
<1>1. /\ ppc' = "Idle" /\ req' = NoReq /\ req'.from = "none"
      /\ mpc' = CASE req.from = "command" -> "Timeout"
                  [] req.from = "ctl" -> "CtlReply"
                  [] OTHER -> mpc
      /\ todo' = IF req.from \in {"command", "ctl"} THEN NoReq ELSE todo
  BY DEF Reply, NoReq
<1>2. req.from \in {"client", "command", "ctl"}
  BY DEF Types, Handshake
<1>3. \/ mpc' = mpc /\ todo' = todo /\ req.from = "client"
      \/ mpc = "SetProperty" /\ mpc' = "Timeout" /\ req.from = "command"
      \/ mpc = "SetProperty" /\ mpc' = "CtlReply" /\ req.from = "ctl" /\ todo.from = "ctl"
  BY <1>1, <1>2 DEF Types, Handshake
<1>4. Handshake'
  BY <1>1, <1>3 DEF Types, Handshake
<1> QED BY <1>1, <1>3, <1>4

\* The property area is written, or the set refused.
LEMMA WriteTypes ==
  ASSUME Types, Write PROVE Types'
<1>1. /\ UNCHANGED flagVars /\ ppc = "Write"
      /\ UNCHANGED <<eventQueue, executing, command, waitFor, shutdownCommand, execService,
                     watchdog, ctlQueue, serving, asked>>
  BY DEF Write, flagVars, stateVars, envVars, clientVars
<1>2. Sets(req) /\ props \in [Props -> Values] /\ owed \subseteq ActionIds
  BY <1>1 DEF Types, Data, Handshake
<1>3. req.name \in Props => req.value \in Values
  BY <1>2, InitLoopConstants DEF Sets, Settable
<1>4. props' \in [Props -> Values]
  BY <1>2, <1>3 DEF Write
<1>5. owed' \subseteq ActionIds
  BY <1>2 DEF Write, Due
<1>6. Handshake' /\ ppc' \in {"Idle", "Lock"}
  <2>1. CASE Reply
    BY <1>1, <2>1, ReplyHandshake
  <2>2. CASE ppc' = "Lock" /\ UNCHANGED <<mpc, todo, req>>
    BY <1>1, <2>2 DEF Types, Handshake
  <2> QED BY <2>1, <2>2 DEF Write
<1>7. Data'
  BY <1>1, <1>4, <1>5, <1>6 DEF Types, Data
<1> QED BY <1>1, <1>6, <1>7, FlagsFrame DEF Types

\* PropertyChanged and the end of the set.
LEMMA SendTypes ==
  ASSUME Types, SendPropertyChanged \/ QueuePropertyChange \/ CheckAndResetWait
  PROVE  Types'
<1> USE DEF Types
<1>0. /\ UNCHANGED <<props, executing, command, execService, watchdog, ctlQueue, serving, owed>>
      /\ UNCHANGED <<asked, shuttingDown, triggersEnabled, acceptMessages, rebooted>>
      /\ ppc \in {"Lock", "Queue", "CheckWait"}
  BY DEF SendPropertyChanged, QueuePropertyChange, CheckAndResetWait, amVars, stateVars, mainVars,
         envVars, clientVars, TriggerShutdown
<1>1. /\ doShutdown' = doShutdown \/ doShutdown' = TRUE
      /\ wake' = wake \/ wake' = TRUE
  BY DEF SendPropertyChanged, QueuePropertyChange, CheckAndResetWait, stateVars, TriggerShutdown
<1>2. Flags'
  <2>1. doShutdown' \in BOOLEAN
    <3>1. CASE doShutdown' = doShutdown
      BY <3>1, Zenon DEF Flags
    <3> QED BY <1>1, <3>1
  <2>2. wake' \in BOOLEAN
    <3>1. CASE wake' = wake
      BY <3>1, Zenon DEF Flags
    <3> QED BY <1>1, <3>1
  <2>3. /\ shuttingDown' = shuttingDown /\ triggersEnabled' = triggersEnabled
        /\ acceptMessages' = acceptMessages /\ rebooted' = rebooted
    BY <1>0
  <2> QED BY <2>1, <2>2, <2>3, Zenon DEF Flags
<1>3. Sets(req)
  BY <1>0 DEF Handshake
<1>4. Handshake' /\ ppc' \in {"Idle", "Queue", "CheckWait"}
  <2>1. CASE Reply
    BY <1>0, <2>1, ReplyHandshake
  <2>2. CASE ppc' \in {"Queue", "CheckWait"} /\ UNCHANGED <<mpc, todo, req>>
    BY <1>0, <2>2 DEF Handshake
  <2> QED BY <2>1, <2>2 DEF SendPropertyChanged, QueuePropertyChange, CheckAndResetWait, mainVars
<1>5. CASE SendPropertyChanged
  <2>1. UNCHANGED <<eventQueue, waitFor>>
    BY <1>5 DEF SendPropertyChanged, amVars, stateVars
  <2>2. \/ UNCHANGED shutdownCommand
        \/ req.name = "sys.powerctl" /\ shutdownCommand' = req.value
    BY <1>5 DEF SendPropertyChanged, stateVars, TriggerShutdown
  <2>3. req.name = "sys.powerctl" => req.value \in Power
    BY <1>3, InitLoopConstants DEF Sets, Settable
  <2>4. Data'
    BY <1>0, <1>4, <2>1, <2>2, <2>3 DEF Data
  <2> QED BY <1>2, <1>4, <2>4
<1>6. CASE QueuePropertyChange
  <2>1. UNCHANGED <<waitFor, shutdownCommand>>
    BY <1>6 DEF QueuePropertyChange, stateVars
  <2>2. req.name \in STRING /\ req.value \in STRING
    BY <1>3, InitLoopConstants, Literals DEF Sets, Settable
  <2>3. PropChange(req.name, req.value) \in Event /\ eventQueue \in Seq(Event)
    BY <2>2, EventTypes DEF Data
  <2>4. Append(eventQueue, PropChange(req.name, req.value)) \in Seq(Event)
    BY <2>3, AppendProperties
  <2>5. eventQueue' \in Seq(Event)
    BY <1>6, <2>3, <2>4 DEF QueuePropertyChange
  <2>6. Data'
    BY <1>0, <1>4, <2>1, <2>5 DEF Data
  <2> QED BY <1>2, <1>4, <2>6
<1>7. CASE CheckAndResetWait
  <2>1. UNCHANGED <<eventQueue, shutdownCommand>> /\ (waitFor' = NoWait \/ waitFor' = waitFor)
    BY <1>7 DEF CheckAndResetWait, amVars
  <2>2. Data'
    BY <1>0, <1>4, <2>1 DEF Data
  <2> QED BY <1>2, <1>4, <2>2
<1> QED BY <1>5, <1>6, <1>7

\* A control message is queued, or answered when there is no room for it.
LEMMA ControlTypes ==
  ASSUME Types, SendControlMessage PROVE Types'
<1> USE DEF Types
<1>0. /\ UNCHANGED <<props, eventQueue, executing, command, waitFor, shutdownCommand, execService,
                     watchdog, serving, owed, asked, mpc, todo>>
      /\ UNCHANGED <<doShutdown, shuttingDown, triggersEnabled, acceptMessages, rebooted>>
      /\ ppc = "Control" /\ ppc' = "Idle" /\ req' = NoReq
      /\ wake' = wake \/ wake' = TRUE
      /\ \/ UNCHANGED ctlQueue
         \/ ~(Len(ctlQueue) > CtlLimit) /\ ctlQueue' = Append(ctlQueue, req.from)
  BY DEF SendControlMessage, QueueControlMessage, amVars, stateVars, mainVars, envVars
<1>1. req.from \in CtlClients /\ ctlQueue \in Seq(CtlClients) /\ Len(ctlQueue) <= CtlLimit + 1
  BY <1>0 DEF Handshake, Data
<1>2. ctlQueue' \in Seq(CtlClients) /\ Len(ctlQueue') <= CtlLimit + 1
  <2>1. CASE UNCHANGED ctlQueue
    BY <1>1, <2>1
  <2>2. CASE ~(Len(ctlQueue) > CtlLimit) /\ ctlQueue' = Append(ctlQueue, req.from)
    <3>0. CtlLimit \in Nat
      BY InitLoopConstants
    <3>1. CtlLimit \in Nat /\ Len(ctlQueue) \in Nat
      BY <1>1, <3>0
    <3>2. ctlQueue' \in Seq(CtlClients) /\ Len(ctlQueue') = Len(ctlQueue) + 1
      BY <1>1, <2>2
    <3>3. Len(ctlQueue) <= CtlLimit
      BY <2>2, <3>1
    <3> QED BY <3>1, <3>2, <3>3
  <2> QED BY <1>0, <2>1, <2>2
<1>3. Data'
  BY <1>0, <1>2 DEF Data
<1>4. Flags'
  <2>1. wake' \in BOOLEAN
    <3>1. CASE wake' = wake
      BY <3>1, Zenon DEF Flags
    <3> QED BY <1>0, <3>1
  <2>2. /\ doShutdown' = doShutdown /\ shuttingDown' = shuttingDown
        /\ triggersEnabled' = triggersEnabled
        /\ acceptMessages' = acceptMessages /\ rebooted' = rebooted
    BY <1>0
  <2> QED BY <2>1, <2>2, Zenon DEF Flags
<1>5. Handshake'
  BY <1>0 DEF Handshake, NoReq
<1> QED BY <1>3, <1>4, <1>5

\* A step of the main thread, which is not waiting for the property thread.
LEMMA MainHandshake ==
  ASSUME Types, mpc # "SetProperty", UNCHANGED <<ppc, req, asked>>,
         mpc' = "SetProperty" => todo'.from \in {"command", "ctl"} /\ Sets(todo'),
         mpc' = "StartWaiting" => todo'.name \in Props /\ todo'.value \in Values,
         mpc' = "Execute" => executing' # <<>>,
         mpc' = "CtlReply" \/ (mpc' = "SetProperty" /\ todo'.from = "ctl") =>
           serving' \in CtlClients
  PROVE  Handshake'
<1>1. req.from \notin {"command", "ctl"}
  BY DEF Types, Handshake
<1>2. Sets(req) => Sets(req')
  OBVIOUS
<1> QED BY <1>1, <1>2 DEF Types, Handshake

\* One flag, kept or given a value.
LEMMA Kept == ASSUME NEW x, NEW y, x \in BOOLEAN, y = x \/ y = TRUE \/ y = FALSE PROVE y \in BOOLEAN
<1>1. CASE y = x
  BY <1>1
<1> QED BY <1>1

\* The steps that only move the main thread on.
LEMMA MoveTypes ==
  ASSUME Types,
         CheckShutdown \/ PowerctlRejected \/ Commands \/ HasMoreCommands \/ EpollWait
  PROVE  Types'
<1>1. /\ UNCHANGED dataVars /\ UNCHANGED flagVars /\ UNCHANGED <<ppc, req, asked>>
      /\ mpc \notin {"SetProperty"}
      /\ mpc' \in {"Powerctl", "Commands", "ShutdownDone", "Timeout", "Dequeue", "Poll", "Sleep",
                   "Callbacks"}
  BY DEF CheckShutdown, PowerctlRejected, Commands, HasMoreCommands, EpollWait, dataVars, flagVars,
         amVars, stateVars, envVars, propVars, clientVars
<1>2. Data'
  BY <1>1 DEF Types, Data, dataVars
<1>3. Handshake'
  BY <1>1, MainHandshake
<1> QED BY <1>1, <1>2, <1>3, FlagsFrame DEF Types

\* The shutdown request.
LEMMA ShutdownTypes ==
  ASSUME Types, StopSendingMessages \/ Shutdown \/ HandleUserspaceReboot \/ ShutdownDone
  PROVE  Types'
<1> USE DEF Types
<1>1. /\ UNCHANGED <<ppc, req, asked, props, ctlQueue, serving, triggersEnabled, rebooted>>
      /\ mpc \notin {"SetProperty"}
      /\ mpc' \in {"UserspaceReboot", "Shutdown", "ShutdownDone", "Commands"}
  BY DEF StopSendingMessages, Shutdown, HandleUserspaceReboot, ShutdownDone, amVars, stateVars,
         envVars, propVars, clientVars
<1>2. Handshake'
  BY <1>1, MainHandshake
<1>3. /\ doShutdown' = doShutdown \/ doShutdown' = TRUE \/ doShutdown' = FALSE
      /\ shuttingDown' = shuttingDown \/ shuttingDown' = TRUE
      /\ wake' = wake \/ wake' = TRUE
      /\ acceptMessages' = acceptMessages \/ acceptMessages' = FALSE
  BY DEF StopSendingMessages, Shutdown, HandleUserspaceReboot, ShutdownDone, stateVars,
         EnterShutdown, TriggerShutdown
<1>4. Flags'
  <2>1. triggersEnabled' = triggersEnabled /\ rebooted' = rebooted
    BY <1>1
  <2> QED BY <1>3, <2>1, Kept, Zenon DEF Flags
<1>5. /\ shutdownCommand' \in {shutdownCommand, "reboot"}
      /\ execService' \in {execService, "none"} /\ watchdog' \in {watchdog, "start"}
      /\ waitFor' \in {waitFor, NoWait} /\ owed' \in {owed, {}}
      /\ \/ UNCHANGED <<eventQueue, executing, command>>
         \/ /\ executing' = <<>> /\ command' = 1
            /\ eventQueue' \in {Append(WithEvent(<<>>, "shutdown"), Builtin("shutdown_done")),
                                Append(WithEvent(<<>>, "userspace-reboot-requested"),
                                       Builtin("userspace-reboot"))}
  BY DEF StopSendingMessages, Shutdown, HandleUserspaceReboot, ShutdownDone, amVars, stateVars,
         envVars, EnterShutdown, TriggerShutdown
<1>6. eventQueue' \in Seq(Event)
  <2>1. /\ "shutdown" \in STRING /\ "shutdown_done" \in Builtins
        /\ "userspace-reboot-requested" \in STRING /\ "userspace-reboot" \in Builtins
    BY Literals DEF Builtins
  <2>2. <<>> \in Seq(Event)
    BY EmptySeq
  <2>3. WithEvent(<<>>, "shutdown") \in Seq(Event) /\ Builtin("shutdown_done") \in Event
        /\ WithEvent(<<>>, "userspace-reboot-requested") \in Seq(Event)
        /\ Builtin("userspace-reboot") \in Event
    BY <2>1, <2>2, WithEventType, EventTypes
  <2>4. /\ Append(WithEvent(<<>>, "shutdown"), Builtin("shutdown_done")) \in Seq(Event)
        /\ Append(WithEvent(<<>>, "userspace-reboot-requested"), Builtin("userspace-reboot"))
             \in Seq(Event)
    BY <2>3, AppendProperties
  <2>5. eventQueue \in Seq(Event)
    BY DEF Data
  <2> QED BY <1>5, <2>4, <2>5
<1>7. executing' \in Seq(ActionIds \cup Builtins)
  <2>1. <<>> \in Seq(ActionIds \cup Builtins)
    BY EmptySeq
  <2> QED BY <1>5, <2>1 DEF Data
<1>8. /\ executing' # <<>> => command' \in 1..NumCommands(Head(executing'))
      /\ executing' = <<>> => command' = 1
  BY <1>5 DEF Data
<1>9. shutdownCommand' \in Power \cup {""}
  BY <1>5 DEF Data, Power
<1>10. Data'
  BY <1>1, <1>5, <1>6, <1>7, <1>8, <1>9 DEF Data
<1> QED BY <1>2, <1>4, <1>10

\* An event is taken, and its actions queued.
LEMMA DequeueTypes ==
  ASSUME Types, Dequeue
  PROVE  Types'
<1> USE DEF Types
<1>1. /\ UNCHANGED <<ppc, req, asked, props, ctlQueue, serving, command, waitFor, shutdownCommand,
                     execService, watchdog>>
      /\ UNCHANGED flagVars /\ mpc = "Dequeue" /\ mpc' \in {"Dequeue", "Timeout", "Execute"}
      /\ mpc' = "Execute" => executing' # <<>>
  BY DEF Dequeue, flagVars, stateVars, envVars, propVars, clientVars
<1>2. Handshake'
  BY <1>1, MainHandshake
<1>3. /\ eventQueue' \in Seq(Event) /\ owed' \subseteq ActionIds
      /\ executing' \in Seq(ActionIds \cup Builtins)
      /\ executing' # <<>> => command' \in 1..NumCommands(Head(executing'))
      /\ executing' = <<>> => command' = 1
  <2>0. eventQueue \in Seq(Event) /\ owed \subseteq ActionIds
    BY DEF Data
  <2>1. CASE executing = <<>> /\ eventQueue # <<>>
    <3>1. executing' = Matching(Head(eventQueue)) /\ eventQueue' = Tail(eventQueue)
      BY <2>1 DEF Dequeue
    <3>2. Head(eventQueue) \in Event /\ eventQueue' \in Seq(Event)
      BY <2>0, <2>1, <3>1
    <3>3. executing' \in Seq(ActionIds \cup Builtins)
      <4>1. CASE Head(eventQueue).kind = "builtin"
        <5>1. Matching(Head(eventQueue)) = <<Head(eventQueue).name>>
          BY <4>1 DEF Matching
        <5>2. Head(eventQueue).name \in Builtins
          BY <3>2, <4>1 DEF Event
        <5>3. Head(eventQueue).name \in ActionIds \cup Builtins
          BY <5>2
        <5>4. <<Head(eventQueue).name>> \in Seq(ActionIds \cup Builtins)
          BY <5>3, ShortSeq
        <5> QED BY <3>1, <5>1, <5>4
      <4>2. CASE Head(eventQueue).kind # "builtin"
        <5>1. executing' \in Seq(ActionIds)
          BY <3>1, <4>2, MatchingActions
        <5> QED BY <5>1
      <4> QED BY <4>1, <4>2
    <3>4. command' = 1
      BY <1>1, <2>1 DEF Data
    <3>5. executing' # <<>> => Head(executing') \in ActionIds \cup Builtins
      <4> DEFINE A == ActionIds \cup Builtins
      <4>1. executing' \in Seq(A)
        BY <3>3
      <4> HIDE DEF A
      <4>2. executing' # <<>> => Head(executing') \in A
        BY <4>1
      <4> QED BY <4>2 DEF A
    <3>6. executing' # <<>> => 1 \in 1..NumCommands(Head(executing'))
      BY <3>5, NumCommandsPositive
    <3>7. owed' \subseteq ActionIds
      BY <2>0, <2>1 DEF Dequeue
    <3> QED BY <3>2, <3>3, <3>4, <3>6, <3>7
  <2>2. CASE ~(executing = <<>> /\ eventQueue # <<>>)
    <3>1. UNCHANGED <<executing, eventQueue, owed>>
      BY <2>2 DEF Dequeue
    <3> QED BY <1>1, <3>1 DEF Data
  <2> QED BY <2>1, <2>2
<1>4. Data'
  BY <1>1, <1>3 DEF Data
<1> QED BY <1>1, <1>2, <1>4, FlagsFrame

\* Any command is executed, and the next one becomes due.
LEMMA ExecuteTypes ==
  ASSUME Types, Execute
  PROVE  Types'
<1> USE DEF Types
<1>1. /\ UNCHANGED <<props, owed, ppc, req, asked, ctlQueue, serving, acceptMessages>>
      /\ mpc = "Execute" /\ NextCommand
  BY DEF Execute, propVars, clientVars
<1>2. executing # <<>>
  BY <1>1 DEF Handshake
<1>3. /\ executing' \in Seq(ActionIds \cup Builtins)
      /\ executing' # <<>> => command' \in 1..NumCommands(Head(executing'))
      /\ executing' = <<>> => command' = 1
  BY <1>1, <1>2, NextCommandType
<1>4. Cmd.name \in STRING /\ Cmd.value \in STRING /\ WellFormed(Cmd)
  BY <1>2, CmdType
<1> HIDE DEF Types
<1> DEFINE Rest == UNCHANGED <<doShutdown, shuttingDown, triggersEnabled, wake, rebooted>>
<1>5. /\ doShutdown' = doShutdown \/ doShutdown' = TRUE
      /\ shuttingDown' = shuttingDown \/ shuttingDown' = TRUE
      /\ triggersEnabled' = triggersEnabled \/ triggersEnabled' = TRUE
      /\ wake' = wake \/ wake' = TRUE
      /\ rebooted' = rebooted \/ rebooted' = TRUE
  <2>1. CASE Nop \/ DoSetprop \/ DoWaitForProp \/ DoExec \/ DoTrigger \/ QueuePropertyTriggers
    BY <2>1 DEF Nop, DoSetprop, DoWaitForProp, DoExec, DoTrigger, QueuePropertyTriggers, stateVars,
                envVars
  <2>2. CASE DoTriggerShutdown \/ EnablePropertyTriggers \/ DoReboot \/ DoUserspaceReboot
    BY <2>2 DEF DoTriggerShutdown, EnablePropertyTriggers, DoReboot, DoUserspaceReboot, stateVars,
                envVars, TriggerShutdown, EnterShutdown
  <2> QED BY <2>1, <2>2 DEF Execute
<1>6. Flags'
  <2>1. acceptMessages' = acceptMessages
    BY <1>1
  <2> QED BY <1>5, <2>1, Kept, Zenon DEF Types, Flags
<1>7. /\ shutdownCommand' \in {shutdownCommand, Cmd.value}
      /\ shutdownCommand' # shutdownCommand => Cmd.op = "trigger_shutdown"
      /\ execService' \in {execService, "running", "none"} /\ watchdog' \in {watchdog, "boot"}
      /\ waitFor' \in {waitFor, NoWait}
      /\ mpc' \in {"Timeout", "SetProperty", "StartWaiting", "Halted", "StopUserspace"}
  <2>1. CASE Nop \/ DoSetprop \/ DoWaitForProp \/ DoExec \/ DoTrigger \/ QueuePropertyTriggers
    BY <2>1 DEF Nop, DoSetprop, DoWaitForProp, DoExec, DoTrigger, QueuePropertyTriggers, stateVars,
                envVars
  <2>2. CASE DoTriggerShutdown \/ EnablePropertyTriggers \/ DoReboot \/ DoUserspaceReboot
    BY <2>2 DEF DoTriggerShutdown, EnablePropertyTriggers, DoReboot, DoUserspaceReboot, stateVars,
                envVars, TriggerShutdown, EnterShutdown
  <2> QED BY <2>1, <2>2 DEF Execute
<1>8. shutdownCommand' \in Power \cup {""}
  BY <1>4, <1>7 DEF WellFormed, Types, Data
<1>9. eventQueue' \in {eventQueue, WithEvent(eventQueue, Cmd.name),
                      eventQueue \o AllPropertyActions}
  BY DEF Execute, Nop, DoSetprop, DoWaitForProp, DoExec, DoTrigger, QueuePropertyTriggers,
         DoTriggerShutdown, EnablePropertyTriggers, DoReboot, DoUserspaceReboot
<1>10. eventQueue' \in Seq(Event)
  <2>1. eventQueue \in Seq(Event)
    BY DEF Types, Data
  <2>2. WithEvent(eventQueue, Cmd.name) \in Seq(Event)
    BY <1>4, <2>1, WithEventType
  <2>3. Builtin("enable_property_trigger") \in Event /\ PropChange("", "") \in Event
    BY EventTypes, Literals DEF Builtins
  <2>4. AllPropertyActions \in Seq(Event)
    BY <2>3, ShortSeq DEF AllPropertyActions
  <2>5. eventQueue \o AllPropertyActions \in Seq(Event)
    BY <2>1, <2>4, ConcatProperties
  <2> QED BY <1>9, <2>1, <2>2, <2>5
<1>11. Data'
  BY <1>1, <1>3, <1>7, <1>8, <1>10 DEF Types, Data
<1>12. Handshake'
  <2>1. mpc' = "SetProperty" =>
          Cmd.op = "setprop" /\ todo' = [from |-> "command", name |-> Cmd.name, value |-> Cmd.value]
    BY DEF Execute, Nop, DoSetprop, DoWaitForProp, DoExec, DoTrigger, QueuePropertyTriggers,
           DoTriggerShutdown, EnablePropertyTriggers, DoReboot, DoUserspaceReboot
  <2>2. mpc' = "SetProperty" => todo'.from = "command" /\ Sets(todo')
    <3> SUFFICES ASSUME mpc' = "SetProperty" PROVE todo'.from = "command" /\ Sets(todo')
      OBVIOUS
    <3>1. Settable(Cmd.name, Cmd.value)
      BY <1>4, <2>1 DEF WellFormed
    <3>2. todo'.from = "command" /\ todo'.name = Cmd.name /\ todo'.value = Cmd.value
      BY <2>1
    <3> QED BY <3>1, <3>2 DEF Sets
  <2>3. mpc' = "StartWaiting" =>
          \/ /\ Cmd.op = "wait_for_prop"
             /\ todo' = [from |-> "wait", name |-> Cmd.name, value |-> Cmd.value]
          \/ todo' = [from |-> "wait", name |-> ColdBootDone, value |-> "true"]
    BY DEF Execute, Nop, DoSetprop, DoWaitForProp, DoExec, DoTrigger, QueuePropertyTriggers,
           DoTriggerShutdown, EnablePropertyTriggers, DoReboot, DoUserspaceReboot
  <2>4. ColdBootDone \in Props /\ "true" \in Values
    BY InitLoopConstants
  <2>5. mpc' = "StartWaiting" => todo'.name \in Props /\ todo'.value \in Values
    BY <1>4, <2>3, <2>4 DEF WellFormed
  <2>6. mpc # "SetProperty" /\ mpc' # "Execute" /\ mpc' # "CtlReply"
    BY <1>1, <1>7
  <2> QED BY <1>1, <2>2, <2>5, <2>6, MainHandshake
<1> QED BY <1>6, <1>11, <1>12 DEF Types

\* The rest of the loop.
LEMMA LoopTypes ==
  ASSUME Types, StartWaiting \/ StopUserspace \/ Callbacks
  PROVE  Types'
<1> USE DEF Types
<1>1. /\ UNCHANGED <<ppc, req, asked, props, ctlQueue, serving, executing, command, owed, watchdog>>
      /\ UNCHANGED <<triggersEnabled, rebooted>>
      /\ mpc \in {"StartWaiting", "StopUserspace", "Callbacks"} /\ mpc' \in {"Timeout", "Ctl"}
  BY DEF StartWaiting, StopUserspace, Callbacks, amVars, stateVars, envVars, propVars, clientVars
<1>2. Handshake'
  BY <1>1, MainHandshake
<1>3. /\ doShutdown' = doShutdown \/ doShutdown' = TRUE
      /\ shuttingDown' = shuttingDown \/ shuttingDown' = FALSE
      /\ wake' = wake \/ wake' = TRUE \/ wake' = (wake /\ "eventfd" \notin woken)
      /\ acceptMessages' = acceptMessages \/ acceptMessages' = TRUE
  BY DEF StartWaiting, StopUserspace, Callbacks, stateVars, TriggerShutdown
<1>4. Flags'
  <2>1. triggersEnabled' = triggersEnabled /\ rebooted' = rebooted
    BY <1>1
  <2>2. wake' \in BOOLEAN
    <3>1. CASE wake' = wake \/ wake' = TRUE
      BY <3>1, Kept DEF Flags
    <3>2. CASE wake' = (wake /\ "eventfd" \notin woken)
      BY <3>2, Zenon
    <3> QED BY <1>3, <3>1, <3>2
  <2> QED BY <1>3, <2>1, <2>2, Kept, Zenon DEF Flags
<1>5. /\ shutdownCommand' \in {shutdownCommand, "reboot"} /\ execService' \in {execService, "none"}
      /\ waitFor' = waitFor
         \/ (mpc = "StartWaiting" /\ waitFor' = [name |-> todo.name, value |-> todo.value])
      /\ eventQueue' \in {eventQueue, WithEvent(eventQueue, "userspace-reboot-resume")}
  BY DEF StartWaiting, StopUserspace, Callbacks, stateVars, amVars, envVars, TriggerShutdown
<1>6. eventQueue' \in Seq(Event)
  <2>1. "userspace-reboot-resume" \in STRING
    BY Literals
  <2>2. eventQueue \in Seq(Event)
    BY DEF Data
  <2>3. WithEvent(eventQueue, "userspace-reboot-resume") \in Seq(Event)
    BY <2>1, <2>2, WithEventType
  <2> QED BY <1>5, <2>2, <2>3
<1>7. waitFor' = NoWait \/ waitFor' \in [name : Props, value : Values]
  <2>1. CASE waitFor' = waitFor
    BY <2>1 DEF Data
  <2>2. CASE mpc = "StartWaiting" /\ waitFor' = [name |-> todo.name, value |-> todo.value]
    <3>1. todo.name \in Props /\ todo.value \in Values
      BY <2>2 DEF Handshake
    <3> QED BY <2>2, <3>1
  <2> QED BY <1>5, <2>1, <2>2
<1>8. shutdownCommand' \in Power \cup {""}
  BY <1>5 DEF Data, Power
<1>9. Data'
  BY <1>1, <1>5, <1>6, <1>7, <1>8 DEF Data
<1> QED BY <1>2, <1>4, <1>9

\* Control messages.
LEMMA MessageTypes ==
  ASSUME Types, HandleControlMessages \/ ControlReply
  PROVE  Types'
<1> USE DEF Types
<1>1. /\ UNCHANGED <<ppc, req, asked, props, eventQueue, executing, command, owed, watchdog,
                     waitFor,
                     shutdownCommand, execService>>
      /\ UNCHANGED <<doShutdown, shuttingDown, triggersEnabled, acceptMessages, rebooted>>
      /\ mpc \in {"Ctl", "CtlReply"}
  BY DEF HandleControlMessages, ControlReply, amVars, stateVars, envVars, propVars, clientVars
<1>2. ctlQueue \in Seq(CtlClients) /\ Len(ctlQueue) <= CtlLimit + 1
  BY DEF Data
<1>3. CASE HandleControlMessages
  <2>1. UNCHANGED wake
    BY <1>3 DEF HandleControlMessages
  <2>2. Flags'
    <3>1. UNCHANGED flagVars
      BY <1>1, <2>1 DEF flagVars
    <3> QED BY <3>1, FlagsFrame
  <2>3. CASE mpc' = "CheckShutdown" /\ UNCHANGED <<ctlQueue, serving, todo>>
    <3>1. Data'
      BY <1>1, <2>3 DEF Data
    <3>2. Handshake'
      BY <1>1, <2>3, MainHandshake
    <3> QED BY <2>2, <3>1, <3>2
  <2>4. CASE /\ ctlQueue # <<>> /\ serving' = Head(ctlQueue) /\ ctlQueue' = Tail(ctlQueue)
             /\ \/ /\ mpc' = "SetProperty"
                   /\ todo' = [from |-> "ctl", name |-> "init.svc", value |-> ""]
                \/ mpc' = "CtlReply" /\ UNCHANGED todo
    <3>0. CtlLimit \in Nat
      BY InitLoopConstants
    <3>1. /\ Head(ctlQueue) \in CtlClients /\ Tail(ctlQueue) \in Seq(CtlClients)
          /\ Len(ctlQueue) \in Nat /\ Len(Tail(ctlQueue)) = Len(ctlQueue) - 1
      <4>1. ctlQueue # <<>>
        BY <2>4
      <4> QED BY <1>2, <4>1, FirstAndRest
    <3>2. serving' \in CtlClients /\ ctlQueue' \in Seq(CtlClients)
      BY <2>4, <3>1
    <3>3. Len(ctlQueue') <= CtlLimit + 1
      <4>1. Len(ctlQueue') = Len(ctlQueue) - 1
        BY <2>4, <3>1
      <4>2. Len(ctlQueue) \in Nat
        BY <3>1
      <4> QED BY <1>2, <3>0, <4>1, <4>2
    <3>4. Data'
      BY <1>1, <3>2, <3>3 DEF Data
    <3>5. mpc' = "SetProperty" => todo'.from = "ctl" /\ Sets(todo')
      <4> DEFINE r == [from |-> "ctl", name |-> "init.svc", value |-> ""]
      <4>1. mpc' = "SetProperty" => todo' = r
        BY <2>4
      <4>2. r.from = "ctl" /\ r.name = "init.svc" /\ r.value = ""
        OBVIOUS
      <4> HIDE DEF r
      <4> QED BY <4>1, <4>2 DEF Sets
    <3>6. Handshake'
      BY <1>1, <2>4, <3>2, <3>5, MainHandshake
    <3> QED BY <2>2, <3>4, <3>6
  <2> QED BY <1>3, <2>3, <2>4 DEF HandleControlMessages
<1>4. CASE ControlReply
  <2>1. /\ UNCHANGED ctlQueue /\ serving' = "none" /\ wake' = (wake \/ MustWakeAgain)
        /\ mpc' = "CheckShutdown"
    BY <1>4 DEF ControlReply, propVars
  <2>2. Data'
    BY <1>1, <2>1 DEF Data
  <2>3. Flags'
    <3>1. wake' \in BOOLEAN
      BY <2>1, Zenon
    <3>2. /\ doShutdown' = doShutdown /\ shuttingDown' = shuttingDown
          /\ triggersEnabled' = triggersEnabled
          /\ acceptMessages' = acceptMessages /\ rebooted' = rebooted
      BY <1>1
    <3> QED BY <3>1, <3>2, Zenon DEF Flags
  <2>4. Handshake'
    BY <1>1, <2>1, MainHandshake
  <2> QED BY <2>2, <2>3, <2>4
<1> QED BY <1>3, <1>4

\* The exec service's process exits, the watchdog expires.
LEMMA OutsideTypes ==
  ASSUME Types, ExecExits \/ WatchdogExpires
  PROVE  Types'
<1> USE DEF Types
<1>1. /\ UNCHANGED <<ppc, req, asked, mpc, todo, props, eventQueue, executing, command, owed,
                     waitFor,
                     shutdownCommand, ctlQueue, serving>>
      /\ UNCHANGED <<doShutdown, shuttingDown, triggersEnabled, wake, acceptMessages>>
      /\ rebooted' = rebooted \/ rebooted' = TRUE
      /\ execService' \in {execService, "zombie"} /\ watchdog' \in {watchdog, "none"}
  BY DEF ExecExits, WatchdogExpires, amVars, stateVars, mainVars, envVars, propVars, clientVars
<1>2. Data'
  BY <1>1 DEF Data
<1>3. Flags'
  <2>1. /\ doShutdown' = doShutdown /\ shuttingDown' = shuttingDown
        /\ triggersEnabled' = triggersEnabled /\ wake' = wake /\ acceptMessages' = acceptMessages
    BY <1>1
  <2> QED BY <1>1, <2>1, Kept, Zenon DEF Flags
<1>4. Handshake'
  BY <1>1 DEF Handshake
<1> QED BY <1>2, <1>3, <1>4

\* The next-state relation keeps the types.
LEMMA StepTypes == ASSUME Types, [Next]_vars PROVE Types'
<1>1. CASE ServeMain \/ HandlePropertySet \/ HandleControlSet
  BY <1>1, ServeTypes
<1>2. CASE Write
  BY <1>2, WriteTypes
<1>3. CASE SendPropertyChanged \/ QueuePropertyChange \/ CheckAndResetWait
  BY <1>3, SendTypes
<1>4. CASE SendControlMessage
  BY <1>4, ControlTypes
<1>5. CASE CheckShutdown \/ PowerctlRejected \/ Commands \/ HasMoreCommands \/ EpollWait
  BY <1>5, MoveTypes
<1>6. CASE StopSendingMessages \/ Shutdown \/ HandleUserspaceReboot \/ ShutdownDone
  BY <1>6, ShutdownTypes
<1>7. CASE Dequeue
  BY <1>7, DequeueTypes
<1>8. CASE Execute
  BY <1>8, ExecuteTypes
<1>9. CASE StartWaiting \/ StopUserspace \/ Callbacks
  BY <1>9, LoopTypes
<1>10. CASE HandleControlMessages \/ ControlReply
  BY <1>10, MessageTypes
<1>11. CASE ExecExits \/ WatchdogExpires
  BY <1>11, OutsideTypes
<1>12. CASE UNCHANGED vars
  <2>1. UNCHANGED flagVars /\ UNCHANGED dataVars /\ UNCHANGED <<ppc, req, mpc, todo, asked>>
    BY <1>12 DEF vars, flagVars, dataVars, amVars, stateVars, mainVars, propVars, clientVars,
             envVars
  <2>2. Flags'
    BY <2>1, FlagsFrame DEF Types
  <2>3. Data'
    BY <2>1 DEF Types, Data, dataVars
  <2>4. Handshake'
    BY <2>1 DEF Types, Handshake, dataVars
  <2> QED BY <2>2, <2>3, <2>4 DEF Types
<1> QED BY <1>1, <1>2, <1>3, <1>4, <1>5, <1>6, <1>7, <1>8, <1>9, <1>10, <1>11, <1>12
        DEF Next, MainThread, PropertyThread, Environment

-----------------------------------------------------------------------------
(* Queues and what is in them.                                               *)

\* What is in a queue after an element is added to it or taken from it.
LEMMA AppendElems ==
  ASSUME NEW A, NEW q \in Seq(A), NEW x \in A
  PROVE  Elems(Append(q, x)) = Elems(q) \cup {x}
<1>1. /\ Len(q) \in Nat /\ DOMAIN q = 1..Len(q) /\ DOMAIN Append(q, x) = 1..(Len(q) + 1)
      /\ \A i \in 1..Len(q) : Append(q, x)[i] = q[i]
      /\ Append(q, x)[Len(q) + 1] = x
  OBVIOUS
<1>2. ASSUME NEW e \in Elems(Append(q, x)) PROVE e \in Elems(q) \cup {x}
  <2>1. PICK i \in 1..(Len(q) + 1) : e = Append(q, x)[i]
    BY <1>1 DEF Elems
  <2>2. CASE i = Len(q) + 1
    BY <1>1, <2>1, <2>2
  <2>3. CASE i # Len(q) + 1
    <3>1. i \in 1..Len(q)
      BY <1>1, <2>3
    <3> QED BY <1>1, <2>1, <3>1 DEF Elems
  <2> QED BY <2>2, <2>3
<1>3. ASSUME NEW e \in Elems(q) PROVE e \in Elems(Append(q, x))
  <2>1. PICK i \in 1..Len(q) : e = q[i]
    BY <1>1 DEF Elems
  <2>2. i \in 1..(Len(q) + 1) /\ Append(q, x)[i] = e
    BY <1>1, <2>1
  <2> QED BY <1>1, <2>2 DEF Elems
<1>4. x \in Elems(Append(q, x))
  BY <1>1 DEF Elems
<1> QED BY <1>2, <1>3, <1>4

\* The elements of a sequence are its head and those of its tail.
LEMMA TailElems ==
  ASSUME NEW A, NEW q \in Seq(A), q # <<>>
  PROVE  Elems(q) = {Head(q)} \cup Elems(Tail(q))
<1>1. /\ Len(q) \in Nat \ {0} /\ DOMAIN q = 1..Len(q) /\ DOMAIN Tail(q) = 1..(Len(q) - 1)
      /\ Head(q) = q[1] /\ \A i \in 1..(Len(q) - 1) : Tail(q)[i] = q[i + 1]
  <2>1. Tail(q) \in Seq(A)
    OBVIOUS
  <2> QED BY <2>1, FirstAndRest
<1>2. ASSUME NEW e \in Elems(q) PROVE e \in {Head(q)} \cup Elems(Tail(q))
  <2>1. PICK i \in 1..Len(q) : e = q[i]
    BY <1>1 DEF Elems
  <2>2. CASE i = 1
    BY <1>1, <2>1, <2>2
  <2>3. CASE i # 1
    <3>1. i - 1 \in 1..(Len(q) - 1) /\ (i - 1) + 1 = i
      BY <1>1, <2>3
    <3>2. Tail(q)[i - 1] = e
      BY <1>1, <2>1, <3>1
    <3> QED BY <1>1, <3>1, <3>2 DEF Elems
  <2> QED BY <2>2, <2>3
<1>3. ASSUME NEW e \in Elems(Tail(q)) PROVE e \in Elems(q)
  <2>1. PICK i \in 1..(Len(q) - 1) : e = Tail(q)[i]
    BY <1>1 DEF Elems
  <2>2. i + 1 \in 1..Len(q) /\ e = q[i + 1]
    BY <1>1, <2>1
  <2> QED BY <1>1, <2>2 DEF Elems
<1>4. Head(q) \in Elems(q)
  BY <1>1 DEF Elems
<1> QED BY <1>2, <1>3, <1>4

\* The elements of short sequences, and the type of elements.
LEMMA ShortElems ==
  /\ Elems(<<>>) = {}
  /\ \A x : Elems(<<x>>) = {x}
  /\ \A A : \A q \in Seq(A) : Elems(q) \subseteq A
<1>1. Elems(<<>>) = {}
  BY DEF Elems
<1>2. ASSUME NEW x PROVE Elems(<<x>>) = {x}
  BY DEF Elems
<1>3. ASSUME NEW A, NEW q \in Seq(A) PROVE Elems(q) \subseteq A
  BY DEF Elems
<1> QED BY <1>1, <1>2, <1>3

\* An element that is in a queue once stays so, and is gone when it is taken.
LEMMA OnceKept ==
  ASSUME NEW A, NEW q \in Seq(A), NEW e, Once(q, e)
  PROVE  /\ \A x \in A : x # e => Once(Append(q, x), e)
         /\ q # <<>> => Once(Tail(q), e) /\ (Head(q) = e => e \notin Elems(Tail(q)))
<1>1. ASSUME NEW x \in A, x # e PROVE Once(Append(q, x), e)
  <2>1. /\ Len(q) \in Nat /\ DOMAIN q = 1..Len(q) /\ DOMAIN Append(q, x) = 1..(Len(q) + 1)
        /\ \A i \in 1..Len(q) : Append(q, x)[i] = q[i]
        /\ Append(q, x)[Len(q) + 1] = x
    OBVIOUS
  <2>2. \A i \in 1..(Len(q) + 1) : Append(q, x)[i] = e => i \in 1..Len(q) /\ q[i] = e
    BY <1>1, <2>1
  <2> QED BY <2>1, <2>2 DEF Once
<1>2. ASSUME q # <<>> PROVE Once(Tail(q), e) /\ (Head(q) = e => e \notin Elems(Tail(q)))
  <2>1. /\ Len(q) \in Nat \ {0} /\ DOMAIN q = 1..Len(q) /\ DOMAIN Tail(q) = 1..(Len(q) - 1)
        /\ Head(q) = q[1] /\ \A i \in 1..(Len(q) - 1) : Tail(q)[i] = q[i + 1]
    <3>1. Tail(q) \in Seq(A)
      BY <1>2
    <3> QED BY <1>2, <3>1, FirstAndRest
  <2>2. \A i \in 1..(Len(q) - 1) : Tail(q)[i] = e => i + 1 \in 1..Len(q) /\ q[i + 1] = e
    BY <2>1
  <2>3. \A i, j \in 1..(Len(q) - 1) : i + 1 = j + 1 => i = j
    BY <2>1
  <2>4. Once(Tail(q), e)
    BY <2>1, <2>2, <2>3 DEF Once
  <2>5. ASSUME Head(q) = e, e \in Elems(Tail(q)) PROVE FALSE
    <3>1. PICK i \in 1..(Len(q) - 1) : e = Tail(q)[i]
      BY <2>1, <2>5 DEF Elems
    <3>2. i + 1 \in 1..Len(q) /\ q[i + 1] = e /\ 1 \in 1..Len(q) /\ q[1] = e /\ i + 1 # 1
      BY <2>1, <2>2, <2>5, <3>1
    <3> QED BY <2>1, <3>2 DEF Once
  <2> QED BY <2>4, <2>5
<1> QED BY <1>1, <1>2

\* What follows every b in a queue still does, and is there when b has been taken.
LEMMA FollowedKept ==
  ASSUME NEW A, NEW q \in Seq(A), NEW b, NEW p \in A, Followed(q, b, p)
  PROVE  /\ \A x \in A : x # b => Followed(Append(q, x), b, p)
         /\ \A x \in A : b # p => Followed(Append(Append(q, x), p), b, p)
         /\ b \in Elems(q) => p \in Elems(q)
         /\ q # <<>> => Followed(Tail(q), b, p) /\ (Head(q) = b => p \in Elems(Tail(q)))
<1>0. Len(q) \in Nat /\ DOMAIN q = 1..Len(q)
  OBVIOUS
<1>1. ASSUME NEW x \in A, x # b PROVE Followed(Append(q, x), b, p)
  <2>1. /\ Len(q) \in Nat /\ DOMAIN q = 1..Len(q) /\ DOMAIN Append(q, x) = 1..(Len(q) + 1)
        /\ \A i \in 1..Len(q) : Append(q, x)[i] = q[i]
        /\ Append(q, x)[Len(q) + 1] = x
    OBVIOUS
  <2>2. SUFFICES ASSUME NEW i \in 1..(Len(q) + 1), Append(q, x)[i] = b
                 PROVE  \E j \in 1..(Len(q) + 1) : i < j /\ Append(q, x)[j] = p
    BY <2>1 DEF Followed
  <2>3. i \in 1..Len(q) /\ q[i] = b
    BY <1>1, <2>1, <2>2
  <2>4. PICK j \in 1..Len(q) : i < j /\ q[j] = p
    BY <2>1, <2>3 DEF Followed
  <2>5. j \in 1..(Len(q) + 1) /\ Append(q, x)[j] = p
    BY <2>1, <2>4
  <2> QED BY <2>4, <2>5
<1>2. ASSUME NEW x \in A, b # p PROVE Followed(Append(Append(q, x), p), b, p)
  <2> DEFINE r == Append(q, x)
  <2>1. r \in Seq(A)
    OBVIOUS
  <2> HIDE DEF r
  <2>2. /\ Len(r) \in Nat /\ DOMAIN r = 1..Len(r) /\ DOMAIN Append(r, p) = 1..(Len(r) + 1)
        /\ \A i \in 1..Len(r) : Append(r, p)[i] = r[i]
        /\ Append(r, p)[Len(r) + 1] = p
    BY <2>1
  <2>3. SUFFICES ASSUME NEW i \in 1..(Len(r) + 1), Append(r, p)[i] = b
                 PROVE  \E j \in 1..(Len(r) + 1) : i < j /\ Append(r, p)[j] = p
    BY <2>2 DEF Followed, r
  <2>4. i < Len(r) + 1 /\ Len(r) + 1 \in 1..(Len(r) + 1)
    BY <1>2, <2>2, <2>3
  <2> QED BY <2>2, <2>4
<1>3. ASSUME b \in Elems(q) PROVE p \in Elems(q)
  BY <1>0, <1>3 DEF Followed, Elems
<1>4. ASSUME q # <<>> PROVE Followed(Tail(q), b, p) /\ (Head(q) = b => p \in Elems(Tail(q)))
  <2>1. /\ Len(q) \in Nat \ {0} /\ DOMAIN q = 1..Len(q) /\ DOMAIN Tail(q) = 1..(Len(q) - 1)
        /\ Head(q) = q[1] /\ \A i \in 1..(Len(q) - 1) : Tail(q)[i] = q[i + 1]
    <3>1. Tail(q) \in Seq(A)
      BY <1>4
    <3> QED BY <1>4, <3>1, FirstAndRest
  <2>2. ASSUME NEW i \in 1..(Len(q) - 1), Tail(q)[i] = b
        PROVE  \E j \in 1..(Len(q) - 1) : i < j /\ Tail(q)[j] = p
    <3>1. i + 1 \in 1..Len(q) /\ q[i + 1] = b
      BY <2>1, <2>2
    <3>2. PICK k \in 1..Len(q) : i + 1 < k /\ q[k] = p
      BY <2>1, <3>1 DEF Followed
    <3>3. k - 1 \in 1..(Len(q) - 1) /\ (k - 1) + 1 = k /\ i < k - 1
      BY <2>1, <3>2
    <3>4. Tail(q)[k - 1] = p
      BY <2>1, <3>2, <3>3
    <3> QED BY <3>3, <3>4
  <2>3. Followed(Tail(q), b, p)
    BY <2>1, <2>2 DEF Followed
  <2>4. ASSUME Head(q) = b PROVE p \in Elems(Tail(q))
    <3>1. 1 \in 1..Len(q) /\ q[1] = b
      BY <2>1, <2>4
    <3>2. PICK k \in 1..Len(q) : 1 < k /\ q[k] = p
      BY <2>1, <3>1 DEF Followed
    <3>3. k - 1 \in 1..(Len(q) - 1) /\ (k - 1) + 1 = k
      BY <2>1, <3>2
    <3>4. Tail(q)[k - 1] = p
      BY <2>1, <3>2, <3>3
    <3> QED BY <2>1, <3>3, <3>4 DEF Elems
  <2> QED BY <2>3, <2>4
<1> QED BY <1>1, <1>2, <1>3, <1>4

\* Events of different kinds differ.
LEMMA EventKinds ==
  /\ \A n : Ev(n).kind = "event"
  /\ \A n, v : PropChange(n, v).kind = "property" /\ PropChange(n, v).name = n
               /\ PropChange(n, v).value = v
  /\ \A b : Builtin(b).kind = "builtin" /\ Builtin(b).name = b
  /\ \A n, b : Ev(n) # Builtin(b)
  /\ \A n, v, b : PropChange(n, v) # Builtin(b)
  /\ \A b, c : Builtin(b) = Builtin(c) => b = c
<1>1. \A n : Ev(n).kind = "event"
  BY DEF Ev
<1>2. \A n, v : PropChange(n, v).kind = "property" /\ PropChange(n, v).name = n
                /\ PropChange(n, v).value = v
  BY DEF PropChange
<1>3. \A b : Builtin(b).kind = "builtin" /\ Builtin(b).name = b
  BY DEF Builtin
<1> QED BY <1>1, <1>2, <1>3

\* A queue to which an event is added that is not b.
LEMMA Appended ==
  ASSUME NEW q \in Seq(Event), NEW x \in Event
  PROVE  /\ Append(q, x) \in Seq(Event)
         /\ Elems(Append(q, x)) = Elems(q) \cup {x}
         /\ \A e : Once(q, e) /\ (x # e \/ e \notin Elems(q)) => Once(Append(q, x), e)
         /\ \A b : Followed(q, b, AllPass) /\ x # b => Followed(Append(q, x), b, AllPass)
<1>1. AllPass \in Event
  BY EventTypes, Literals DEF AllPass
<1>2. Append(q, x) \in Seq(Event)
  BY AppendProperties
<1>3. ASSUME NEW e, Once(q, e), x # e \/ e \notin Elems(q) PROVE Once(Append(q, x), e)
  <2>1. CASE x # e
    BY <1>3, <2>1, OnceKept
  <2>2. CASE e \notin Elems(q)
    <3>1. /\ Len(q) \in Nat /\ DOMAIN q = 1..Len(q) /\ DOMAIN Append(q, x) = 1..(Len(q) + 1)
          /\ \A i \in 1..Len(q) : Append(q, x)[i] = q[i]
      <4> HIDE DEF Event
      <4> QED OBVIOUS
    <3>2. \A i \in 1..(Len(q) + 1) : Append(q, x)[i] = e => i = Len(q) + 1
      BY <2>2, <3>1 DEF Elems
    <3> QED BY <3>1, <3>2 DEF Once
  <2> QED BY <1>3, <2>1, <2>2
<1> HIDE DEF Event
<1> QED BY <1>1, <1>2, <1>3, AppendElems, FollowedKept

\* A queue to which an event trigger is added.
LEMMA Triggered ==
  ASSUME NEW q \in Seq(Event), NEW n \in STRING
  PROVE  /\ Elems(q) \subseteq Elems(WithEvent(q, n))
         /\ Elems(WithEvent(q, n)) \subseteq Elems(q) \cup {Ev(n)}
         /\ \A b : Once(q, Builtin(b)) => Once(WithEvent(q, n), Builtin(b))
         /\ \A b : Followed(q, Builtin(b), AllPass) =>
                    Followed(WithEvent(q, n), Builtin(b), AllPass)
<1>1. Ev(n) \in Event /\ \A b : Ev(n) # Builtin(b)
  BY EventTypes, EventKinds
<1>2. CASE n \in AllowedEvents
  <2>1. WithEvent(q, n) = Append(q, Ev(n))
    BY <1>2 DEF WithEvent
  <2>2. /\ Elems(Append(q, Ev(n))) = Elems(q) \cup {Ev(n)}
        /\ \A e : Once(q, e) /\ Ev(n) # e => Once(Append(q, Ev(n)), e)
        /\ \A e : Followed(q, e, AllPass) /\ Ev(n) # e => Followed(Append(q, Ev(n)), e, AllPass)
    BY <1>1, Appended
  <2>3. Elems(q) \subseteq Elems(WithEvent(q, n))
        /\ Elems(WithEvent(q, n)) \subseteq Elems(q) \cup {Ev(n)}
    BY <2>1, <2>2
  <2>4. ASSUME NEW b
        PROVE  /\ Once(q, Builtin(b)) => Once(WithEvent(q, n), Builtin(b))
               /\ Followed(q, Builtin(b), AllPass) => Followed(WithEvent(q, n), Builtin(b), AllPass)
    <3>1. Ev(n) # Builtin(b)
      BY <1>1
    <3>2. /\ Once(q, Builtin(b)) => Once(Append(q, Ev(n)), Builtin(b))
          /\ Followed(q, Builtin(b), AllPass) => Followed(Append(q, Ev(n)), Builtin(b), AllPass)
      BY <2>2, <3>1
    <3> QED BY <2>1, <3>2
  <2> QED BY <2>3, <2>4
<1>3. CASE n \notin AllowedEvents
  <2>1. WithEvent(q, n) = q
    BY <1>3 DEF WithEvent
  <2> QED BY <2>1
<1> QED BY <1>2, <1>3

\* The queue that replaces the old one in a shutdown.
LEMMA Replaced ==
  ASSUME NEW n \in STRING, NEW b \in Builtins,
         NEW q, q = Append(WithEvent(<<>>, n), Builtin(b))
  PROVE  /\ Builtin(b) \in Elems(q) /\ Elems(q) \subseteq {Ev(n), Builtin(b)}
         /\ \A c : Once(q, Builtin(c))
         /\ \A c : c # b => Followed(q, Builtin(c), AllPass)
<1> DEFINE r == WithEvent(<<>>, n)
<1>1. /\ <<>> \in Seq(Event) /\ Elems(<<>>) = {} /\ \A e : Once(<<>>, e)
      /\ \A e : Followed(<<>>, e, AllPass)
  BY EmptySeq, ShortElems DEF Once, Followed
<1>2. /\ r \in Seq(Event) /\ Elems(r) \subseteq {Ev(n)} /\ \A c : Once(r, Builtin(c))
      /\ \A c : Followed(r, Builtin(c), AllPass)
  BY <1>1, Triggered, WithEventType
<1>3. Builtin(b) \in Event /\ \A c : Builtin(c) \notin Elems(r)
  BY <1>2, EventTypes, EventKinds
<1>4. q = Append(r, Builtin(b))
  OBVIOUS
<1> DEFINE x == Builtin(b)
<1> HIDE DEF r, x
<1>5. /\ Elems(q) = Elems(r) \cup {x}
      /\ \A e : Once(r, e) /\ e \notin Elems(r) => Once(q, e)
      /\ \A e : Followed(r, e, AllPass) /\ x # e => Followed(q, e, AllPass)
  <2>1. x \in Event /\ q = Append(r, x) /\ r \in Seq(Event)
    BY <1>2, <1>3, <1>4 DEF x
  <2>2. /\ Elems(Append(r, x)) = Elems(r) \cup {x}
        /\ \A e : Once(r, e) /\ e \notin Elems(r) => Once(Append(r, x), e)
        /\ \A e : Followed(r, e, AllPass) /\ x # e => Followed(Append(r, x), e, AllPass)
    BY <2>1, Appended
  <2> QED BY <2>1, <2>2
<1>6. \A c : c # b => Builtin(b) # Builtin(c)
  BY EventKinds
<1> QED BY <1>2, <1>3, <1>5, <1>6 DEF x

\* What the pass over all property actions adds.
LEMMA AllPassQueued ==
  ASSUME NEW q \in Seq(Event), NEW r, r = q \o AllPropertyActions
  PROVE  /\ Elems(r) = Elems(q) \cup {Builtin("enable_property_trigger"), AllPass}
         /\ Once(q, Builtin("userspace-reboot")) => Once(r, Builtin("userspace-reboot"))
         /\ Followed(q, Builtin("enable_property_trigger"), AllPass) =>
              Followed(r, Builtin("enable_property_trigger"), AllPass)
<1> DEFINE x == Builtin("enable_property_trigger")
           u == Builtin("userspace-reboot")
<1>1. x \in Event /\ AllPass \in Event /\ x # AllPass /\ x # u /\ AllPass # u
  <2>1. x \in Event /\ AllPass \in Event
    BY EventTypes, Literals DEF AllPass, Builtins
  <2>2. x # AllPass /\ AllPass # u /\ x # u
    <3>1. x.kind = "builtin" /\ u.kind = "builtin" /\ x.name # u.name /\ AllPass.kind = "property"
      BY EventKinds DEF AllPass
    <3> QED BY <3>1
  <2> QED BY <2>1, <2>2
<1>2. AllPropertyActions = <<x, AllPass>>
  BY DEF AllPropertyActions, AllPass
<1> HIDE DEF x, u, Event
<1>3. r = Append(Append(q, x), AllPass)
  BY <1>1, <1>2
<1>4. Append(q, x) \in Seq(Event) /\ Elems(Append(q, x)) = Elems(q) \cup {x}
      /\ (Once(q, u) => Once(Append(q, x), u))
  BY <1>1, Appended
<1>5. Elems(r) = Elems(q) \cup {x, AllPass} /\ (Once(q, u) => Once(r, u))
  <2>1. /\ Elems(r) = Elems(Append(q, x)) \cup {AllPass}
        /\ \A e : Once(Append(q, x), e) /\ AllPass # e => Once(r, e)
    BY <1>1, <1>3, <1>4, Appended
  <2> QED BY <1>1, <1>4, <2>1
<1>6. Followed(q, x, AllPass) => Followed(r, x, AllPass)
  BY <1>1, <1>3, FollowedKept
<1> QED BY <1>5, <1>6 DEF x, u

\* The actions that are executing after one command, or one event, more.
LEMMA Executed ==
  ASSUME Types, Quiet, Execute
  PROVE  /\ Chosen' \subseteq Chosen /\ \A b \in Builtins : b \notin Chosen'
         /\ \A b \in Builtins : b \in Chosen <=> Cmd.op = b
<1> DEFINE A == ActionIds \cup Builtins
<1>1. mpc = "Execute" /\ NextCommand /\ executing # <<>> /\ Data
  BY DEF Execute, Types, Handshake
<1>2. executing \in Seq(A) /\ command \in 1..NumCommands(Head(executing))
  BY <1>1 DEF Data
<1>3. \A b \in Builtins : Cmd.op = b <=> Head(executing) = b
  BY <1>1, CmdType
<1>4. Chosen = {Head(executing)} \cup Elems(Tail(executing))
  <2> HIDE DEF A
  <2> QED BY <1>1, <1>2, TailElems DEF Chosen
<1>5. \A b \in Builtins : b \in Chosen => executing = <<b>> /\ Head(executing) = b
  <2>1. \A b \in Builtins : b \in Chosen => executing = <<b>>
    BY DEF Quiet
  <2>2. \A b : Head(<<b>>) = b
    OBVIOUS
  <2> QED BY <2>1, <2>2
<1>6. Chosen' = Elems(executing') /\ executing' \in {executing, Tail(executing)}
  BY <1>1, NextCommandType DEF Chosen
<1>7. Chosen' \subseteq Chosen
  BY <1>4, <1>6 DEF Chosen
<1>8. ASSUME NEW b \in Builtins, b \in Chosen PROVE b \notin Chosen'
  <2>1. executing = <<b>> /\ Head(executing) = b
    BY <1>5, <1>8
  <2>2. NumCommands(b) = 1
    BY DEF NumCommands
  <2>3. command = 1
    BY <1>2, <2>1, <2>2
  <2>4. executing' = Tail(executing)
    BY <1>1, <2>1, <2>2, <2>3 DEF NextCommand
  <2>5. Tail(<<b>>) = <<>>
    OBVIOUS
  <2> QED BY <1>6, <2>1, <2>4, <2>5, ShortElems
<1> QED BY <1>3, <1>4, <1>5, <1>7, <1>8

\* What is executing after an event has been taken.
LEMMA Dequeued ==
  ASSUME Types, Quiet, Dequeue, executing = <<>>, eventQueue # <<>>
  PROVE  /\ Chosen = {} /\ Events = {Head(eventQueue)} \cup Events'
         /\ Once(eventQueue', Builtin("userspace-reboot"))
         /\ Head(eventQueue) = Builtin("userspace-reboot") =>
              Builtin("userspace-reboot") \notin Events'
         /\ \A b \in Builtins : b \in Chosen' =>
              executing' = <<b>> /\ Head(eventQueue) = Builtin(b)
         /\ \A b \in Builtins : Head(eventQueue) = Builtin(b) => b \in Chosen'
<1> DEFINE h == Head(eventQueue)
<1>1. eventQueue \in Seq(Event) /\ executing' = Matching(h) /\ eventQueue' = Tail(eventQueue)
  BY DEF Dequeue, Types, Data
<1>2. Chosen = {} /\ Chosen' = Elems(Matching(h)) /\ Events' = Elems(Tail(eventQueue))
  BY <1>1, ShortElems DEF Chosen, Events
<1>3. h \in Event
  <2> HIDE DEF Event
  <2> QED BY <1>1, FirstAndRest
<1>4. /\ Events = {h} \cup Events' /\ Once(eventQueue', Builtin("userspace-reboot"))
      /\ (h = Builtin("userspace-reboot") => Builtin("userspace-reboot") \notin Events')
  <2> HIDE DEF Event
  <2>1. Once(eventQueue, Builtin("userspace-reboot"))
    BY DEF Quiet
  <2> QED BY <1>1, <1>2, <2>1, TailElems, OnceKept DEF Events
<1>5. CASE h.kind = "builtin"
  <2>1. Matching(h) = <<h.name>> /\ h = Builtin(h.name)
    BY <1>3, <1>5 DEF Matching, Event, Builtin
  <2>2. Chosen' = {h.name}
    BY <1>2, <2>1, ShortElems
  <2>3. \A b : h = Builtin(b) => h.name = b
    BY <2>1, EventKinds
  <2> QED BY <1>1, <1>2, <1>4, <2>1, <2>2, <2>3
<1>6. CASE h.kind # "builtin"
  <2>1. Chosen' \subseteq ActionIds
    BY <1>2, <1>6, MatchingActions, ShortElems
  <2>2. ActionIds \cap Builtins = {} /\ \A b : h # Builtin(b)
    BY <1>6, InitLoopConstants, EventKinds
  <2> QED BY <1>2, <1>4, <2>1, <2>2
<1> QED BY <1>5, <1>6

-----------------------------------------------------------------------------
(* A shutdown is quiet.                                                      *)

\* Steps that leave the queues and the flags of a shutdown alone.
LEMMA QuietKept ==
  ASSUME Quiet, UNCHANGED <<eventQueue, executing, shuttingDown, acceptMessages>>,
         acceptMessages \/ owed' \subseteq owed, waitFor' = waitFor \/ waitFor' = NoWait,
         ppc' \in {"Queue", "CheckWait"} => acceptMessages \/ ppc \in {"Queue", "CheckWait"},
         mpc' \in {"Powerctl", "Shutdown", "UserspaceReboot", "StopUserspace"} =>
           mpc' = mpc \/ (mpc' = "Powerctl" /\ ~shuttingDown)
  PROVE  Quiet'
<1>1. /\ Events' = Events /\ Chosen' = Chosen /\ Rebooting' = Rebooting /\ Calm' = Calm
      /\ Once(eventQueue, Builtin("userspace-reboot"))' =
           Once(eventQueue, Builtin("userspace-reboot"))
  BY DEF Events, Chosen, Rebooting, Calm
<1>2. Rebooting \/ mpc = "StopUserspace" => owed' = {}
  BY DEF Quiet
<1> HIDE DEF Once
<1> QED BY <1>1, <1>2 DEF Quiet

\* The queue gets an event trigger, at most.
LEMMA QuietTriggered ==
  ASSUME Types, Quiet, NEW n \in STRING, eventQueue' \in {eventQueue, WithEvent(eventQueue, n)}
  PROVE  /\ Events \subseteq Events' /\ \A e \in Events' : e \in Events \/ e = Ev(n)
         /\ \A b : Builtin(b) \in Events' <=> Builtin(b) \in Events
         /\ Once(eventQueue', Builtin("userspace-reboot"))
         /\ (\A e \in Events : e.kind # "property") => \A e \in Events' : e.kind # "property"
<1>1. eventQueue \in Seq(Event) /\ Once(eventQueue, Builtin("userspace-reboot"))
  BY DEF Types, Data, Quiet
<1>2. CASE eventQueue' = eventQueue
  <2>1. Events' = Events
    BY <1>2 DEF Events
  <2> QED BY <1>1, <1>2, <2>1
<1>3. CASE eventQueue' = WithEvent(eventQueue, n)
  <2>1. Events \subseteq Events' /\ Events' \subseteq Events \cup {Ev(n)}
    BY <1>1, <1>3, Triggered DEF Events
  <2>2. Once(eventQueue', Builtin("userspace-reboot"))
    BY <1>1, <1>3, Triggered
  <2>3. Ev(n).kind = "event" /\ \A b : Builtin(b) # Ev(n)
    BY EventKinds
  <2> QED BY <2>1, <2>2, <2>3
<1> QED BY <1>2, <1>3

\* The property thread tells the main thread of changes only while it may.
LEMMA PropertyQuiet ==
  ASSUME Types, Quiet, PropertyThread \/ HandlePropertySet \/ HandleControlSet
  PROVE  Quiet'
<1>1. CASE ServeMain \/ HandlePropertySet \/ HandleControlSet
  <2>1. PICK r : Accept(r)
    BY <1>1 DEF ServeMain, HandlePropertySet, HandleControlSet
  <2>2. /\ UNCHANGED <<eventQueue, executing, shuttingDown, acceptMessages, owed, waitFor, mpc>>
        /\ ppc' \notin {"Queue", "CheckWait"}
    BY <2>1 DEF Accept, amVars, stateVars, mainVars
  <2> QED BY <2>2, QuietKept
<1>2. CASE Write
  <2>1. /\ UNCHANGED <<eventQueue, executing, shuttingDown, acceptMessages, waitFor>>
        /\ acceptMessages \/ owed' = owed
        /\ ppc' \in {"Idle", "Lock"} /\ mpc' \in {mpc, "Timeout", "CtlReply"}
    BY <1>2 DEF Write, Reply, stateVars
  <2> QED BY <2>1, QuietKept
<1>3. CASE SendPropertyChanged
  <2>1. /\ UNCHANGED <<eventQueue, executing, shuttingDown, acceptMessages, waitFor, owed>>
        /\ ppc' = "Queue" => acceptMessages
        /\ ppc' \in {"Idle", "Queue"} /\ mpc' \in {mpc, "Timeout", "CtlReply"}
    BY <1>3 DEF SendPropertyChanged, Reply, stateVars, amVars, TriggerShutdown
  <2> QED BY <2>1, QuietKept
<1>4. CASE QueuePropertyChange
  <2>1. /\ UNCHANGED <<executing, shuttingDown, acceptMessages, waitFor, owed, mpc>>
        /\ ppc = "Queue" /\ ppc' = "CheckWait"
    BY <1>4 DEF QueuePropertyChange, stateVars, mainVars
  <2>2. acceptMessages /\ ~shuttingDown /\ ~Rebooting
    BY <2>1 DEF Quiet
  <2>3. CASE eventQueue' = eventQueue
    BY <2>1, <2>2, <2>3, QuietKept
  <2>4. CASE eventQueue' = Append(eventQueue, PropChange(req.name, req.value))
    <3> DEFINE x == PropChange(req.name, req.value)
               u == Builtin("userspace-reboot")
    <3>1. eventQueue \in Seq(Event) /\ Once(eventQueue, u)
      BY DEF Types, Data, Quiet
    <3>2. Sets(req)
      BY <2>1 DEF Types, Handshake
    <3>3. req.name \in STRING /\ req.value \in STRING
      BY <3>2, InitLoopConstants, Literals DEF Sets, Settable
    <3>4. x \in Event /\ x # u
      <4>1. x \in Event
        BY <3>3, EventTypes
      <4>2. x.kind = "property" /\ u.kind = "builtin"
        BY EventKinds
      <4> QED BY <4>1, <4>2
    <3> HIDE DEF x, u
    <3>5. eventQueue' = Append(eventQueue, x)
      BY <2>4 DEF x
    <3>6. /\ Elems(Append(eventQueue, x)) = Elems(eventQueue) \cup {x}
          /\ Once(Append(eventQueue, x), u)
      BY <3>1, <3>4, Appended
    <3>7. Events' = Events \cup {x} /\ Once(eventQueue', u) /\ Chosen' = Chosen
      BY <2>1, <3>5, <3>6 DEF Events, Chosen
    <3>8. u \notin Events' /\ ~Rebooting' /\ "userspace-reboot" \notin Chosen'
      BY <2>2, <3>4, <3>7 DEF Rebooting, u
    <3>9. mpc \notin {"Shutdown", "UserspaceReboot", "StopUserspace"}
      BY <2>2 DEF Quiet
    <3> QED BY <2>1, <2>2, <3>7, <3>8, <3>9 DEF Quiet, u
  <2> QED BY <1>4, <2>3, <2>4 DEF QueuePropertyChange
<1>5. CASE CheckAndResetWait
  <2>1. /\ UNCHANGED <<eventQueue, executing, shuttingDown, acceptMessages, owed>>
        /\ waitFor' = waitFor \/ waitFor' = NoWait
        /\ ppc' = "Idle" /\ mpc' \in {mpc, "Timeout", "CtlReply"}
    BY <1>5 DEF CheckAndResetWait, Reply, amVars
  <2> QED BY <2>1, QuietKept
<1>6. CASE SendControlMessage
  <2>1. /\ UNCHANGED <<eventQueue, executing, shuttingDown, acceptMessages, owed, waitFor, mpc>>
        /\ ppc' = "Idle"
    BY <1>6 DEF SendControlMessage, amVars, stateVars, mainVars
  <2> QED BY <2>1, QuietKept
<1> QED BY <1>1, <1>2, <1>3, <1>4, <1>5, <1>6 DEF PropertyThread

\* The shutdown request: the queue is replaced when nothing is added to it any more.
LEMMA ShutdownQuiet ==
  ASSUME Types, Quiet, StopSendingMessages \/ Shutdown \/ HandleUserspaceReboot
  PROVE  Quiet'
<1>1. CASE StopSendingMessages
  <2>1. /\ UNCHANGED <<eventQueue, executing, shuttingDown, waitFor, owed, ppc>>
        /\ mpc = "Powerctl" /\ ppc \notin {"Queue", "CheckWait"} /\ ~acceptMessages'
        /\ mpc' \in {"UserspaceReboot", "Shutdown"}
    BY <1>1 DEF StopSendingMessages, AcceptLockHeld, amVars, stateVars, propVars
  <2>2. /\ Events' = Events /\ Chosen' = Chosen /\ Rebooting' = Rebooting /\ Calm' = Calm
    BY <2>1 DEF Events, Chosen, Rebooting, Calm
  <2>3. Once(eventQueue', Builtin("userspace-reboot"))
    BY <2>1 DEF Quiet
  <2> QED BY <2>1, <2>2, <2>3 DEF Quiet
<1>2. CASE Shutdown
  <2>1. /\ UNCHANGED <<ppc, acceptMessages>> /\ shuttingDown' /\ mpc' = "ShutdownDone"
        /\ mpc = "Shutdown" /\ executing' = <<>>
        /\ eventQueue' = Append(WithEvent(<<>>, "shutdown"), Builtin("shutdown_done"))
    BY <1>2 DEF Shutdown, EnterShutdown, propVars
  <2>2. "shutdown" \in STRING /\ "shutdown_done" \in Builtins
    BY Literals DEF Builtins
  <2>3. /\ Events' \subseteq {Ev("shutdown"), Builtin("shutdown_done")}
        /\ Once(eventQueue', Builtin("userspace-reboot"))
    <3> DEFINE q == eventQueue'
               n == "shutdown"
               b == "shutdown_done"
    <3>1. q = Append(WithEvent(<<>>, n), Builtin(b)) /\ n \in STRING /\ b \in Builtins
      BY <2>1, <2>2
    <3> HIDE DEF q, n, b
    <3>2. Elems(q) \subseteq {Ev(n), Builtin(b)} /\ \A c : Once(q, Builtin(c))
      BY <3>1, Replaced
    <3> QED BY <3>2 DEF Events, q, n, b
  <2>4. Chosen' = {}
    BY <2>1, ShortElems DEF Chosen
  <2>5. /\ Ev("shutdown").kind = "event" /\ Builtin("shutdown_done").kind = "builtin"
        /\ Builtin("userspace-reboot") \notin {Ev("shutdown"), Builtin("shutdown_done")}
        /\ Builtin("queue_property_triggers") \notin {Ev("shutdown"), Builtin("shutdown_done")}
    BY EventKinds
  <2>6. ~Rebooting' /\ Calm'
    BY <2>3, <2>4, <2>5 DEF Rebooting, Calm
  <2>7. ~acceptMessages
    BY <2>1 DEF Quiet
  <2> QED BY <2>1, <2>3, <2>4, <2>6, <2>7 DEF Quiet
<1>3. CASE HandleUserspaceReboot
  <2>1. /\ UNCHANGED <<ppc, acceptMessages, shuttingDown, waitFor>> /\ mpc' = "ShutdownDone"
        /\ mpc = "UserspaceReboot"
    BY <1>3 DEF HandleUserspaceReboot, propVars
  <2>2. CASE UNCHANGED <<eventQueue, executing, owed>>
    BY <2>1, <2>2, QuietKept
  <2>3. CASE /\ eventQueue' = Append(WithEvent(<<>>, "userspace-reboot-requested"),
                                     Builtin("userspace-reboot"))
             /\ executing' = <<>> /\ owed' = {}
    <3>2. "userspace-reboot-requested" \in STRING /\ "userspace-reboot" \in Builtins
      BY Literals DEF Builtins
    <3>3. /\ Events' \subseteq {Ev("userspace-reboot-requested"), Builtin("userspace-reboot")}
          /\ Once(eventQueue', Builtin("userspace-reboot"))
      <4> DEFINE q == eventQueue'
                 n == "userspace-reboot-requested"
                 b == "userspace-reboot"
      <4>1. q = Append(WithEvent(<<>>, n), Builtin(b)) /\ n \in STRING /\ b \in Builtins
        BY <2>3, <3>2
      <4> HIDE DEF q, n, b
      <4>2. Elems(q) \subseteq {Ev(n), Builtin(b)} /\ \A c : Once(q, Builtin(c))
        BY <4>1, Replaced
      <4> QED BY <4>2 DEF Events, q, n, b
    <3>4. Chosen' = {}
      BY <2>3, ShortElems DEF Chosen
    <3>5. /\ Ev("userspace-reboot-requested").kind = "event"
          /\ Builtin("userspace-reboot").kind = "builtin"
          /\ Builtin("queue_property_triggers") \notin
               {Ev("userspace-reboot-requested"), Builtin("userspace-reboot")}
      BY EventKinds
    <3>6. Calm'
      BY <3>3, <3>4, <3>5 DEF Calm
    <3>7. ~acceptMessages /\ ~shuttingDown
      BY <2>1 DEF Quiet
    <3> QED BY <2>1, <2>3, <3>3, <3>4, <3>6, <3>7 DEF Quiet
  <2> QED BY <1>3, <2>2, <2>3 DEF HandleUserspaceReboot
<1> QED BY <1>1, <1>2, <1>3

\* An event is taken from the queue.
LEMMA DequeueQuiet ==
  ASSUME Types, Quiet, Dequeue PROVE Quiet'
<1>1. /\ UNCHANGED <<ppc, acceptMessages, shuttingDown, waitFor>>
      /\ mpc' \in {"Dequeue", "Timeout", "Execute"}
  BY DEF Dequeue, stateVars, propVars
<1>2. CASE executing = <<>> /\ eventQueue # <<>>
  <2>1. owed' \subseteq owed
    BY <1>2 DEF Dequeue
  <2>2. /\ Chosen = {} /\ Events = {Head(eventQueue)} \cup Events'
        /\ Once(eventQueue', Builtin("userspace-reboot"))
        /\ Head(eventQueue) = Builtin("userspace-reboot") =>
             Builtin("userspace-reboot") \notin Events'
        /\ \A b \in Builtins : b \in Chosen' =>
             executing' = <<b>> /\ Head(eventQueue) = Builtin(b)
    BY <1>2, Dequeued
  <2>3. "userspace-reboot" \in Builtins /\ "queue_property_triggers" \in Builtins
    BY DEF Builtins
  <2>4. Rebooting' => Rebooting
    BY <2>2, <2>3 DEF Rebooting
  <2>5. Calm => Calm'
    BY <2>2, <2>3 DEF Calm
  <2>6. "userspace-reboot" \in Chosen' => Builtin("userspace-reboot") \notin Events'
    BY <2>2, <2>3
  <2>7. \A b \in Builtins : b \in Chosen' => executing' = <<b>>
    BY <2>2
  <2> QED BY <1>1, <2>1, <2>2, <2>4, <2>5, <2>6, <2>7 DEF Quiet
<1>3. CASE ~(executing = <<>> /\ eventQueue # <<>>)
  <2>1. UNCHANGED <<executing, eventQueue, owed>>
    BY <1>3 DEF Dequeue
  <2> QED BY <1>1, <2>1, QuietKept
<1> QED BY <1>2, <1>3

\* A command is executed.
LEMMA ExecuteQuiet ==
  ASSUME Types, Quiet, Execute PROVE Quiet'
<1>1. /\ UNCHANGED <<ppc, acceptMessages, owed>> /\ mpc = "Execute" /\ executing # <<>>
  BY DEF Execute, propVars, Types, Handshake
<1>2. /\ Chosen' \subseteq Chosen /\ \A b \in Builtins : b \notin Chosen'
      /\ \A b \in Builtins : b \in Chosen <=> Cmd.op = b
  BY Executed
<1>3. "userspace-reboot" \in Builtins /\ "queue_property_triggers" \in Builtins
  BY DEF Builtins
<1>4. Cmd.name \in STRING
  BY <1>1, CmdType DEF Types
<1>5. Rebooting' => Builtin("userspace-reboot") \in Events'
  BY <1>2, <1>3 DEF Rebooting
<1>6. CASE QueuePropertyTriggers
  <2>1. /\ UNCHANGED <<shuttingDown, waitFor>> /\ mpc' = "Timeout"
        /\ eventQueue' = eventQueue \o AllPropertyActions
        /\ "queue_property_triggers" \in Chosen
    BY <1>2, <1>3, <1>6 DEF QueuePropertyTriggers, stateVars
  <2>2. ~shuttingDown /\ ~Rebooting
    BY <2>1 DEF Quiet, Calm
  <2>3. eventQueue \in Seq(Event) /\ Once(eventQueue, Builtin("userspace-reboot"))
    BY DEF Types, Data, Quiet
  <2>4. /\ Events' = Events \cup {Builtin("enable_property_trigger"), AllPass}
        /\ Once(eventQueue', Builtin("userspace-reboot"))
    BY <2>1, <2>3, AllPassQueued DEF Events
  <2>5. Builtin("userspace-reboot") \notin {Builtin("enable_property_trigger"), AllPass}
    BY EventKinds DEF AllPass
  <2>6. ~Rebooting'
    BY <1>5, <2>2, <2>4, <2>5 DEF Rebooting
  <2>7. acceptMessages' = acceptMessages /\ ppc' = ppc /\ shuttingDown' = shuttingDown
    BY <1>1, <2>1
  <2>8. "userspace-reboot" \notin Chosen' /\ \A b \in Builtins : b \notin Chosen'
    BY <1>2, <1>3
  <2> QED BY <2>1, <2>2, <2>4, <2>6, <2>7, <2>8 DEF Quiet
<1>7. CASE ~QueuePropertyTriggers
  <2>1. eventQueue' \in {eventQueue, WithEvent(eventQueue, Cmd.name)}
    BY <1>7 DEF Execute, Nop, DoSetprop, DoWaitForProp, DoExec, DoTrigger, DoTriggerShutdown,
                EnablePropertyTriggers, DoReboot, DoUserspaceReboot
  <2>2. /\ \A b : Builtin(b) \in Events' <=> Builtin(b) \in Events
        /\ Once(eventQueue', Builtin("userspace-reboot"))
        /\ (\A e \in Events : e.kind # "property") => \A e \in Events' : e.kind # "property"
    BY <1>4, <2>1, QuietTriggered
  <2>3. Rebooting' => Rebooting
    BY <1>5, <2>2 DEF Rebooting
  <2>4. Calm => Calm'
    BY <1>2, <1>3, <2>2 DEF Calm
  <2>5. CASE DoUserspaceReboot
    <3>1. /\ shuttingDown' /\ waitFor' = NoWait /\ mpc' = "StopUserspace"
          /\ "userspace-reboot" \in Chosen /\ eventQueue' = eventQueue
      BY <1>2, <1>3, <2>5 DEF DoUserspaceReboot, EnterShutdown
    <3>2. Rebooting /\ Builtin("userspace-reboot") \notin Events
      BY <3>1 DEF Quiet, Rebooting
    <3>3. ~acceptMessages /\ Calm /\ owed = {}
      BY <3>2 DEF Quiet
    <3>4. ~Rebooting'
      BY <1>5, <2>2, <3>2
    <3> QED BY <1>1, <1>2, <1>3, <2>2, <2>4, <3>1, <3>3, <3>4 DEF Quiet
  <2>6. CASE ~DoUserspaceReboot
    <3>1. /\ UNCHANGED <<shuttingDown, waitFor>>
          /\ mpc' \in {"Timeout", "SetProperty", "StartWaiting", "Halted"}
      BY <1>7, <2>6 DEF Execute, Nop, DoSetprop, DoWaitForProp, DoExec, DoTrigger,
           DoTriggerShutdown, EnablePropertyTriggers, DoReboot, stateVars, envVars, TriggerShutdown
    <3> QED BY <1>1, <1>2, <1>3, <2>2, <2>3, <2>4, <3>1 DEF Quiet
  <2> QED BY <2>5, <2>6
<1> QED BY <1>6, <1>7

\* Userspace is stopped, and messages are accepted again.
LEMMA StopUserspaceQuiet ==
  ASSUME Types, Quiet, StopUserspace PROVE Quiet'
<1>1. /\ UNCHANGED <<ppc, executing, owed, waitFor>> /\ mpc = "StopUserspace" /\ mpc' = "Timeout"
      /\ ~shuttingDown' /\ acceptMessages'
      /\ eventQueue' \in {eventQueue, WithEvent(eventQueue, "userspace-reboot-resume")}
  BY DEF StopUserspace, propVars
<1>2. shuttingDown /\ ~Rebooting
  BY <1>1 DEF Quiet
<1>3. /\ \A b : Builtin(b) \in Events' <=> Builtin(b) \in Events
      /\ Once(eventQueue', Builtin("userspace-reboot"))
  <2> DEFINE n == "userspace-reboot-resume"
  <2>1. n \in STRING /\ eventQueue' \in {eventQueue, WithEvent(eventQueue, n)}
    BY <1>1, Literals
  <2> HIDE DEF n
  <2> QED BY <2>1, QuietTriggered
<1>4. Chosen' = Chosen
  BY <1>1 DEF Chosen
<1>5. ~Rebooting'
  BY <1>2, <1>3, <1>4 DEF Rebooting
<1> QED BY <1>1, <1>3, <1>4, <1>5 DEF Quiet

\* The next-state relation keeps shutdowns quiet.
LEMMA StepQuiet == ASSUME Types, Quiet, [Next]_vars PROVE Quiet'
<1>1. CASE PropertyThread \/ HandlePropertySet \/ HandleControlSet
  BY <1>1, PropertyQuiet
<1>2. CASE StopSendingMessages \/ Shutdown \/ HandleUserspaceReboot
  BY <1>2, ShutdownQuiet
<1>3. CASE Dequeue
  BY <1>3, DequeueQuiet
<1>4. CASE Execute
  BY <1>4, ExecuteQuiet
<1>5. CASE StopUserspace
  BY <1>5, StopUserspaceQuiet
<1>6. CASE CheckShutdown \/ PowerctlRejected \/ ShutdownDone \/ Commands \/ HasMoreCommands
           \/ EpollWait \/ Callbacks \/ HandleControlMessages \/ ControlReply
  <2>1. /\ UNCHANGED <<eventQueue, executing, shuttingDown, acceptMessages, owed, waitFor, ppc>>
        /\ mpc' = "Powerctl" => ~shuttingDown
        /\ mpc' \notin {"Shutdown", "UserspaceReboot", "StopUserspace"}
    BY <1>6 DEF CheckShutdown, PowerctlRejected, ShutdownDone, Commands, HasMoreCommands, EpollWait,
                Callbacks, HandleControlMessages, ControlReply, amVars, stateVars, propVars
  <2> QED BY <2>1, QuietKept
<1>7. CASE StartWaiting
  <2>1. /\ UNCHANGED <<eventQueue, executing, shuttingDown, acceptMessages, owed, ppc>>
        /\ mpc' = "Timeout"
    BY <1>7 DEF StartWaiting, amVars, propVars
  <2>2. Events' = Events /\ Chosen' = Chosen /\ Rebooting' = Rebooting /\ Calm' = Calm
    BY <2>1 DEF Events, Chosen, Rebooting, Calm
  <2>3. Once(eventQueue', Builtin("userspace-reboot"))
    BY <2>1 DEF Quiet
  <2> QED BY <2>1, <2>2, <2>3 DEF Quiet
<1>8. CASE ExecExits \/ WatchdogExpires \/ UNCHANGED vars
  <2>1. UNCHANGED <<eventQueue, executing, shuttingDown, acceptMessages, owed, waitFor, ppc, mpc>>
    BY <1>8 DEF ExecExits, WatchdogExpires, vars, amVars, stateVars, propVars, mainVars
  <2> QED BY <2>1, QuietKept
<1> QED BY <1>1, <1>2, <1>3, <1>4, <1>5, <1>6, <1>7, <1>8 DEF Next, MainThread, Environment

-----------------------------------------------------------------------------
(* Property waits.                                                           *)

\* Steps that leave the property, the wait and the property thread alone.
LEMMA WaitsKept ==
  ASSUME Waits, UNCHANGED <<props, req, ppc, acceptMessages>>,
         waitFor' = waitFor \/ waitFor' = NoWait,
         mpc' = "StartWaiting" => mpc = "StartWaiting" /\ todo' = todo
  PROVE  Waits'
<1>1. Announced(waitFor) /\ waitFor' = waitFor => Announced(waitFor)'
  BY DEF Announced
<1>2. Announced(todo) /\ todo' = todo => Announced(todo)'
  BY DEF Announced
<1> QED BY <1>1, <1>2 DEF Waits, Waiting

\* A wait is for a property.
LEMMA WaitTypes ==
  ASSUME Types
  PROVE  /\ Waiting => waitFor.name \in Props /\ waitFor.value \in Values
                       /\ waitFor = [name |-> waitFor.name, value |-> waitFor.value]
         /\ mpc = "StartWaiting" => todo.name \in Props /\ todo.value \in Values
BY DEF Types, Data, Handshake, Waiting

\* A wait whose property is written meanwhile is announced by that write.
LEMMA WriteAnnounced ==
  ASSUME Types, Write, NEW w, w.name \in Props, Announced(w), ppc' = "Lock"
  PROVE  props'[w.name] = w.value /\ acceptMessages' =>
           /\ req'.name = w.name /\ req'.value = w.value
           /\ ppc' \in {"Lock", "Queue", "CheckWait"}
<1>1. /\ ppc = "Write" /\ UNCHANGED <<req, acceptMessages>>
      /\ props' = IF req.name \in Props THEN [props EXCEPT ![req.name] = req.value] ELSE props
  BY DEF Write, Reply
<1>2. ~(props[w.name] = w.value /\ acceptMessages)
  BY <1>1 DEF Announced
<1>3. props \in [Props -> Values]
  BY DEF Types, Data
<1>4. CASE req.name = w.name
  <2>1. props'[w.name] = req.value
    BY <1>1, <1>3, <1>4
  <2> QED BY <1>1, <1>4, <2>1
<1>5. CASE req.name # w.name
  <2>1. props'[w.name] = props[w.name]
    BY <1>1, <1>3, <1>5
  <2> QED BY <1>1, <1>2, <2>1
<1> QED BY <1>4, <1>5

\* The property thread changes a property and ends the wait for it.
LEMMA PropertyWaits ==
  ASSUME Types, Waits, PropertyThread \/ HandlePropertySet \/ HandleControlSet
  PROVE  Waits'
<1>0. /\ Waiting => waitFor.name \in Props
                    /\ waitFor = [name |-> waitFor.name, value |-> waitFor.value]
      /\ mpc = "StartWaiting" => todo.name \in Props
  BY WaitTypes
<1>1. CASE ServeMain \/ HandlePropertySet \/ HandleControlSet
  <2>1. PICK r : Accept(r)
    BY <1>1 DEF ServeMain, HandlePropertySet, HandleControlSet
  <2>2. UNCHANGED <<props, waitFor, todo, mpc, acceptMessages>> /\ ppc = "Idle"
    BY <2>1 DEF Accept, stateVars, mainVars
  <2> QED BY <2>2 DEF Waits, Waiting, Announced
<1>2. CASE Write
  <2>1. UNCHANGED waitFor /\ ppc = "Write"
    BY <1>2 DEF Write, stateVars
  <2>2. CASE Reply /\ UNCHANGED props
    <3>1. /\ UNCHANGED acceptMessages
          /\ mpc' = "StartWaiting" => mpc = "StartWaiting" /\ todo' = todo
      BY <1>2, <2>1, <2>2, ReplyHandshake DEF Write, clientVars
    <3> QED BY <2>1, <2>2, <3>1 DEF Waits, Waiting, Announced
  <2>3. CASE ppc' = "Lock" /\ UNCHANGED <<mpc, todo, req>>
    <3>1. Waiting' => Announced(waitFor)'
      BY <1>0, <1>2, <2>1, <2>3, WriteAnnounced DEF Waits, Waiting, Announced
    <3>2. mpc' = "StartWaiting" => Announced(todo)'
      BY <1>0, <1>2, <2>1, <2>3, WriteAnnounced DEF Waits, Announced
    <3> QED BY <3>1, <3>2 DEF Waits
  <2> QED BY <1>2, <2>2, <2>3 DEF Write
<1>3. CASE SendPropertyChanged
  <2>1. UNCHANGED <<props, waitFor, acceptMessages>> /\ ppc = "Lock"
    BY <1>3 DEF SendPropertyChanged, stateVars, TriggerShutdown
  <2>2. CASE ~acceptMessages
    <3>1. ~acceptMessages'
      BY <2>1, <2>2
    <3> QED BY <3>1 DEF Waits, Announced
  <2>3. CASE acceptMessages
    <3>1. UNCHANGED <<mpc, todo, req>> /\ ppc' = "Queue"
      BY <1>3, <2>3 DEF SendPropertyChanged
    <3> QED BY <2>1, <3>1 DEF Waits, Waiting, Announced
  <2> QED BY <2>2, <2>3
<1>4. CASE QueuePropertyChange
  <2>1. UNCHANGED <<props, waitFor, acceptMessages, mpc, todo, req>> /\ ppc' = "CheckWait"
        /\ ppc = "Queue"
    BY <1>4 DEF QueuePropertyChange, stateVars, mainVars
  <2> QED BY <2>1 DEF Waits, Waiting, Announced
<1>5. CASE CheckAndResetWait
  <2>1. /\ UNCHANGED <<props, acceptMessages>> /\ ppc = "CheckWait" /\ mpc # "StartWaiting" /\ Reply
        /\ \/ waitFor' = NoWait
           \/ waitFor' = waitFor /\ waitFor # [name |-> req.name, value |-> req.value]
    BY <1>5 DEF CheckAndResetWait, WaiterLockHeld
  <2>2. mpc' # "StartWaiting"
    BY <2>1 DEF Reply
  <2>3. ASSUME Waiting' PROVE Announced(waitFor)'
    <3>1. waitFor' = waitFor /\ Waiting /\ waitFor # [name |-> req.name, value |-> req.value]
      BY <2>1, <2>3 DEF Waiting
    <3>2. ~(req.name = waitFor.name /\ req.value = waitFor.value)
      BY <1>0, <3>1
    <3>3. ~(props[waitFor.name] = waitFor.value /\ acceptMessages)
      BY <3>1, <3>2 DEF Waits, Announced
    <3> QED BY <2>1, <3>1, <3>3 DEF Announced
  <2> QED BY <2>2, <2>3 DEF Waits
<1>6. CASE SendControlMessage
  <2>1. UNCHANGED <<props, waitFor, acceptMessages, mpc, todo>> /\ ppc = "Control"
    BY <1>6 DEF SendControlMessage, stateVars, mainVars
  <2> QED BY <2>1 DEF Waits, Waiting, Announced
<1> QED BY <1>1, <1>2, <1>3, <1>4, <1>5, <1>6 DEF PropertyThread

\* The next-state relation keeps every wait announced.
LEMMA StepWaits == ASSUME Types, Quiet, Waits, [Next]_vars PROVE Waits'
<1>1. CASE PropertyThread \/ HandlePropertySet \/ HandleControlSet
  BY <1>1, PropertyWaits
<1>2. CASE CheckShutdown \/ PowerctlRejected \/ Shutdown \/ HandleUserspaceReboot \/ ShutdownDone
           \/ Commands \/ Dequeue \/ HasMoreCommands \/ EpollWait \/ Callbacks
           \/ HandleControlMessages \/ ControlReply
  <2>1. /\ UNCHANGED <<props, req, ppc, acceptMessages>> /\ mpc' # "StartWaiting"
        /\ waitFor' = waitFor \/ waitFor' = NoWait
    BY <1>2 DEF CheckShutdown, PowerctlRejected, Shutdown, HandleUserspaceReboot, ShutdownDone,
         Commands, Dequeue, HasMoreCommands, EpollWait, Callbacks, HandleControlMessages,
         ControlReply,
         stateVars, propVars, EnterShutdown
  <2> QED BY <2>1, WaitsKept
<1>3. CASE StopSendingMessages
  <2>1. ~acceptMessages'
    BY <1>3 DEF StopSendingMessages
  <2> QED BY <2>1 DEF Waits, Announced
<1>4. CASE Execute
  <2>1. /\ UNCHANGED <<props, req, ppc, acceptMessages>>
        /\ waitFor' = waitFor \/ waitFor' = NoWait
    BY <1>4 DEF Execute, Nop, DoSetprop, DoWaitForProp, DoExec, DoTrigger, QueuePropertyTriggers,
         DoTriggerShutdown, EnablePropertyTriggers, DoReboot, DoUserspaceReboot, stateVars, envVars,
         TriggerShutdown, EnterShutdown, propVars
  <2>2. CASE mpc' # "StartWaiting"
    BY <2>1, <2>2, WaitsKept
  <2>3. CASE mpc' = "StartWaiting"
    <3>1. DoWaitForProp
      BY <1>4, <2>3 DEF Execute, Nop, DoSetprop, DoExec, DoTrigger, QueuePropertyTriggers,
           DoTriggerShutdown, EnablePropertyTriggers, DoReboot, DoUserspaceReboot
    <3>2. UNCHANGED waitFor /\ ~Waiting
      BY <2>3, <3>1 DEF DoWaitForProp, stateVars
    <3>3. PICK n, v : props[n] # v /\ todo' = [from |-> "wait", name |-> n, value |-> v]
      BY <2>3, <3>1 DEF DoWaitForProp
    <3>4. todo'.name = n /\ todo'.value = v
      BY <3>3
    <3>5. Announced(todo)'
      BY <2>1, <3>3, <3>4 DEF Announced
    <3> QED BY <3>2, <3>5 DEF Waits, Waiting
  <2> QED BY <2>2, <2>3
<1>5. CASE StartWaiting
  <2>1. /\ UNCHANGED <<props, req, ppc, acceptMessages>> /\ mpc = "StartWaiting" /\ mpc' = "Timeout"
        /\ waitFor' = [name |-> todo.name, value |-> todo.value]
    BY <1>5 DEF StartWaiting, propVars
  <2>2. waitFor'.name = todo.name /\ waitFor'.value = todo.value
    BY <2>1
  <2>3. Announced(todo)
    BY <2>1 DEF Waits
  <2>4. Announced(waitFor)'
    BY <2>1, <2>2, <2>3 DEF Announced
  <2> QED BY <2>1, <2>4 DEF Waits
<1>6. CASE StopUserspace
  <2>1. UNCHANGED waitFor /\ mpc = "StopUserspace" /\ mpc' = "Timeout"
    BY <1>6 DEF StopUserspace
  <2>2. ~Waiting'
    BY <2>1 DEF Quiet, Waiting
  <2> QED BY <2>1, <2>2 DEF Waits
<1>7. CASE ExecExits \/ WatchdogExpires \/ UNCHANGED vars
  <2>1. UNCHANGED <<props, req, ppc, acceptMessages, waitFor, mpc, todo>>
    BY <1>7 DEF ExecExits, WatchdogExpires, vars, stateVars, propVars, mainVars
  <2> QED BY <2>1, WaitsKept
<1> QED BY <1>1, <1>2, <1>3, <1>4, <1>5, <1>6, <1>7 DEF Next, MainThread, Environment

-----------------------------------------------------------------------------
(* Wake-ups.                                                                 *)

\* Only these fields of the main thread's state matter here.
LEMMA PositionKept ==
  ASSUME UNCHANGED <<mpc, todo>>
  PROVE  /\ BeforeReply' = BeforeReply /\ BeforeShutdown' = BeforeShutdown
BY DEF BeforeReply, BeforeShutdown

\* The property thread wakes the main thread up for what it gives it.
LEMMA PropertyWakes ==
  ASSUME Types, Wakes, PropertyThread \/ HandlePropertySet \/ HandleControlSet
  PROVE  Wakes'
<1>1. CASE ServeMain \/ HandlePropertySet \/ HandleControlSet
  <2>1. PICK r : Accept(r)
    BY <1>1 DEF ServeMain, HandlePropertySet, HandleControlSet
  <2>2. UNCHANGED <<shuttingDown, ctlQueue, doShutdown, wake, mpc, todo, execService, waitFor,
                    executing, eventQueue>>
    BY <2>1 DEF Accept, amVars, stateVars, mainVars, envVars
  <2> QED BY <2>2, PositionKept DEF Wakes, Listening, Blocked, Waiting, ExecServiceRunning
<1>2. CASE Write \/ SendPropertyChanged \/ CheckAndResetWait
  <2>1. /\ UNCHANGED <<shuttingDown, ctlQueue, execService, executing, eventQueue>>
        /\ wake' = wake \/ wake' = TRUE
        /\ UNCHANGED doShutdown \/ wake'
        /\ UNCHANGED waitFor \/ wake'
        /\ ppc \in {"Write", "Lock", "CheckWait"}
        /\ UNCHANGED <<mpc, todo>> \/ Reply
        /\ UNCHANGED <<asked, executing, serving>>
    BY <1>2 DEF Write, SendPropertyChanged, CheckAndResetWait, amVars, stateVars, envVars,
                clientVars, TriggerShutdown
  <2>2. /\ BeforeReply => BeforeReply'
        /\ BeforeShutdown => BeforeShutdown'
        /\ mpc' = mpc \/ mpc' \in {"Timeout", "CtlReply"}
    <3>1. CASE UNCHANGED <<mpc, todo>>
      BY <3>1, PositionKept
    <3>2. CASE Reply
      <4>1. \/ mpc' = mpc /\ todo' = todo /\ req.from = "client"
            \/ mpc = "SetProperty" /\ mpc' = "Timeout" /\ req.from = "command"
            \/ mpc = "SetProperty" /\ mpc' = "CtlReply" /\ req.from = "ctl" /\ todo.from = "ctl"
        BY <2>1, <3>2, ReplyHandshake
      <4>2. req.from = "command" => todo.from = "command"
        BY DEF Types, Handshake
      <4> QED BY <4>1, <4>2 DEF BeforeReply, BeforeShutdown
    <3> QED BY <2>1, <3>1, <3>2
  <2>3. Listening' => Listening
    BY <2>1, <2>2 DEF Listening
  <2>4. CASE wake'
    BY <2>4 DEF Wakes
  <2>5. CASE ~wake'
    <3>1. UNCHANGED <<doShutdown, waitFor>> /\ ~wake
      BY <2>1, <2>5
    <3>2. mpc' = "Sleep" => mpc = "Sleep"
      BY <2>2
    <3> QED BY <2>1, <2>2, <2>3, <3>1, <3>2 DEF Wakes, Blocked, Waiting, ExecServiceRunning
  <2> QED BY <2>4, <2>5
<1>3. CASE QueuePropertyChange \/ SendControlMessage
  <2>1. /\ UNCHANGED <<shuttingDown, doShutdown, mpc, todo, execService, waitFor, executing>>
        /\ (UNCHANGED <<ctlQueue, wake, eventQueue>>) \/ wake'
    BY <1>3 DEF QueuePropertyChange, SendControlMessage, QueueControlMessage, amVars, stateVars,
                mainVars, envVars
  <2>2. CASE UNCHANGED <<ctlQueue, wake, eventQueue>>
    BY <2>1, <2>2, PositionKept DEF Wakes, Listening, Blocked, Waiting, ExecServiceRunning
  <2>3. CASE wake'
    BY <2>3 DEF Wakes
  <2> QED BY <2>1, <2>2, <2>3
<1> QED BY <1>1, <1>2, <1>3 DEF PropertyThread

\* The next-state relation keeps the main thread from sleeping over its work.
LEMMA StepWakes == ASSUME Types, Quiet, Wakes, [Next]_vars PROVE Wakes'
<1>1. CASE PropertyThread \/ HandlePropertySet \/ HandleControlSet
  BY <1>1, PropertyWakes
<1>2. CASE CheckShutdown
  <2>1. /\ UNCHANGED <<shuttingDown, ctlQueue, doShutdown, wake>> /\ mpc = "CheckShutdown"
        /\ \/ mpc' = "Powerctl"
           \/ mpc' = "Commands" /\ ~(doShutdown /\ ~shuttingDown)
    BY <1>2 DEF CheckShutdown, stateVars, propVars
  <2> QED BY <2>1 DEF Wakes, Listening, BeforeReply, BeforeShutdown
<1>3. CASE PowerctlRejected \/ StopSendingMessages \/ HandleUserspaceReboot
  <2>1. /\ UNCHANGED <<shuttingDown, ctlQueue>>
        /\ wake' = wake \/ wake' = TRUE
        /\ mpc \in {"Powerctl", "UserspaceReboot"}
        /\ mpc' \in {"ShutdownDone", "UserspaceReboot", "Shutdown"}
    BY <1>3 DEF PowerctlRejected, StopSendingMessages, HandleUserspaceReboot, stateVars, propVars,
                TriggerShutdown
  <2> QED BY <2>1 DEF Wakes, Listening, BeforeReply, BeforeShutdown
<1>4. CASE Shutdown
  <2>1. shuttingDown' /\ mpc' = "ShutdownDone"
    BY <1>4 DEF Shutdown, EnterShutdown
  <2> QED BY <2>1 DEF Wakes, Listening
<1>5. CASE ShutdownDone
  <2>1. UNCHANGED <<shuttingDown, ctlQueue, wake>> /\ ~doShutdown' /\ mpc = "ShutdownDone"
        /\ mpc' = "Commands"
    BY <1>5 DEF ShutdownDone, propVars
  <2> QED BY <2>1 DEF Wakes, Listening, BeforeReply
<1>6. CASE Commands \/ Dequeue \/ EpollWait \/ StartWaiting
  <2>1. /\ UNCHANGED <<shuttingDown, ctlQueue, doShutdown, wake>>
        /\ mpc \in {"Commands", "Dequeue", "Poll", "Sleep", "StartWaiting"}
        /\ mpc' \in {"Timeout", "Dequeue", "Execute", "Callbacks"}
    BY <1>6 DEF Commands, Dequeue, EpollWait, StartWaiting, stateVars, propVars
  <2> QED BY <2>1 DEF Wakes, Listening, BeforeReply, BeforeShutdown
<1>7. CASE HasMoreCommands
  <2>1. /\ UNCHANGED <<shuttingDown, ctlQueue, doShutdown, wake, waitFor, execService, executing,
                       eventQueue>>
        /\ mpc = "Timeout" /\ mpc' \in {"Poll", "Sleep"}
        /\ mpc' = "Sleep" => Blocked \/ (executing = <<>> /\ eventQueue = <<>>)
    BY <1>7 DEF HasMoreCommands, stateVars, propVars, amVars, envVars
  <2>2. Blocked => Blocked'
    BY <2>1 DEF Blocked, Waiting, ExecServiceRunning
  <2> QED BY <2>1, <2>2 DEF Wakes, Listening, BeforeReply, BeforeShutdown
<1>8. CASE Callbacks
  <2>1. mpc' = "Ctl"
    BY <1>8 DEF Callbacks
  <2> QED BY <2>1 DEF Wakes, BeforeReply, BeforeShutdown
<1>9. CASE HandleControlMessages
  <2>1. /\ UNCHANGED shuttingDown /\ mpc = "Ctl"
        /\ \/ mpc' = "CheckShutdown" /\ UNCHANGED ctlQueue /\ (shuttingDown \/ ctlQueue = <<>>)
           \/ mpc' = "SetProperty" /\ todo' = [from |-> "ctl", name |-> "init.svc", value |-> ""]
           \/ mpc' = "CtlReply"
    BY <1>9 DEF HandleControlMessages, stateVars
  <2>2. mpc' = "SetProperty" => todo'.from = "ctl"
    <3> DEFINE r == [from |-> "ctl", name |-> "init.svc", value |-> ""]
    <3>1. r.from = "ctl" /\ (mpc' = "SetProperty" => todo' = r)
      BY <2>1
    <3> HIDE DEF r
    <3> QED BY <3>1
  <2>3. mpc' \in {"CheckShutdown", "SetProperty", "CtlReply"}
        /\ (mpc' = "CheckShutdown" => shuttingDown' \/ ctlQueue' = <<>>)
    BY <2>1
  <2> QED BY <2>2, <2>3 DEF Wakes, Listening, BeforeReply, BeforeShutdown
<1>10. CASE ControlReply
  <2>1. UNCHANGED ctlQueue /\ mpc' = "CheckShutdown" /\ (ctlQueue # <<>> => wake')
    BY <1>10 DEF ControlReply, propVars, MustWakeAgain
  <2> QED BY <2>1 DEF Wakes, BeforeShutdown
<1>11. CASE Execute
  <2>1. /\ UNCHANGED ctlQueue /\ mpc = "Execute"
        /\ mpc' \in {"Timeout", "SetProperty", "StartWaiting", "Halted", "StopUserspace"}
        /\ wake' = wake \/ wake' = TRUE
        /\ UNCHANGED doShutdown \/ wake'
        /\ mpc' # "StopUserspace" => UNCHANGED shuttingDown
        /\ mpc' = "StopUserspace" => Cmd.op = "userspace-reboot"
    BY <1>11 DEF Execute, Nop, DoSetprop, DoWaitForProp, DoExec, DoTrigger, QueuePropertyTriggers,
         DoTriggerShutdown, EnablePropertyTriggers, DoReboot, DoUserspaceReboot, stateVars, envVars,
         TriggerShutdown, EnterShutdown, propVars
  <2>2. mpc' = "StopUserspace" => ~shuttingDown
    <3>1. "userspace-reboot" \in Builtins
      BY DEF Builtins
    <3>2. Cmd.op = "userspace-reboot" => "userspace-reboot" \in Chosen
      BY <1>11, <3>1, Executed
    <3> QED BY <2>1, <3>2 DEF Quiet, Rebooting
  <2>3. Listening' => Listening
    BY <2>1, <2>2 DEF Listening
  <2>4. ~BeforeReply /\ ~BeforeShutdown
    BY <2>1 DEF BeforeReply, BeforeShutdown
  <2>5. CASE wake'
    BY <2>5 DEF Wakes
  <2>6. CASE ~wake'
    <3>1. UNCHANGED doShutdown /\ ~wake /\ mpc' # "Sleep"
      BY <2>1, <2>6
    <3> QED BY <2>1, <2>3, <2>4, <3>1 DEF Wakes
  <2> QED BY <2>5, <2>6
<1>12. CASE StopUserspace
  <2>1. /\ UNCHANGED ctlQueue /\ mpc = "StopUserspace" /\ mpc' = "Timeout"
        /\ wake' = wake \/ wake' = TRUE
        /\ UNCHANGED doShutdown \/ wake'
    BY <1>12 DEF StopUserspace, TriggerShutdown, propVars
  <2>2. Listening /\ ~BeforeReply /\ ~BeforeShutdown
    BY <2>1 DEF Listening, BeforeReply, BeforeShutdown
  <2>3. CASE wake'
    BY <2>3 DEF Wakes
  <2>4. CASE ~wake'
    <3>1. UNCHANGED doShutdown /\ ~wake /\ mpc' # "Sleep"
      BY <2>1, <2>4
    <3> QED BY <2>1, <2>2, <3>1 DEF Wakes
  <2> QED BY <2>3, <2>4
<1>13. CASE ExecExits \/ WatchdogExpires \/ UNCHANGED vars
  <2>1. /\ UNCHANGED <<shuttingDown, ctlQueue, doShutdown, wake, mpc, todo, waitFor, executing,
                       eventQueue>>
        /\ UNCHANGED execService \/ execService' = "zombie"
    BY <1>13 DEF ExecExits, WatchdogExpires, vars, amVars, stateVars, propVars, mainVars, envVars
  <2> QED BY <2>1, PositionKept DEF Wakes, Listening, Blocked, Waiting, ExecServiceRunning
<1> QED BY <1>1, <1>2, <1>3, <1>4, <1>5, <1>6, <1>7, <1>8, <1>9, <1>10, <1>11, <1>12, <1>13
        DEF Next, MainThread, Environment

-----------------------------------------------------------------------------
(* The pass over all property actions at boot.                               *)

\* The pass is queued behind the command that enables the triggers.
LEMMA StepBootPass == ASSUME Types, Quiet, BootPass, [Next]_vars PROVE BootPass'
<1> DEFINE b == "enable_property_trigger"
           x == Builtin(b)
<1>1. /\ b \in Builtins /\ AllPass \in Event
      /\ eventQueue \in Seq(Event) /\ Followed(eventQueue, x, AllPass)
      /\ (b \in Chosen => AllPass \in Events)
  BY EventTypes, Literals DEF Builtins, AllPass, Types, Data, BootPass
<1> HIDE DEF b, x
<1>2. SUFFICES Followed(eventQueue', x, AllPass) /\ (b \in Chosen' => AllPass \in Events')
  BY DEF BootPass, b, x
<1>3. CASE UNCHANGED <<eventQueue, executing>>
  <2>1. Events' = Events /\ Chosen' = Chosen
    BY <1>3 DEF Events, Chosen
  <2> QED BY <1>1, <1>3, <2>1
<1>4. CASE QueuePropertyChange /\ ~UNCHANGED eventQueue
  <2> DEFINE p == PropChange(req.name, req.value)
  <2>1. UNCHANGED executing /\ eventQueue' = Append(eventQueue, p) /\ ppc = "Queue"
    BY <1>4 DEF QueuePropertyChange
  <2>2. Sets(req)
    BY <2>1 DEF Types, Handshake
  <2>3. req.name \in STRING /\ req.value \in STRING
    BY <2>2, InitLoopConstants, Literals DEF Sets, Settable
  <2>4. p \in Event /\ p # x
    <3>1. p \in Event
      BY <2>3, EventTypes
    <3>2. p.kind = "property" /\ x.kind = "builtin"
      BY EventKinds DEF x
    <3> QED BY <3>1, <3>2
  <2> HIDE DEF p
  <2>5. Followed(eventQueue', x, AllPass) /\ Elems(eventQueue') = Elems(eventQueue) \cup {p}
    BY <1>1, <2>1, <2>4, Appended
  <2> QED BY <1>1, <2>1, <2>5 DEF Events, Chosen
<1>5. CASE /\ executing' = <<>>
           /\ \E n \in STRING, c \in Builtins :
                c # b /\ eventQueue' = Append(WithEvent(<<>>, n), Builtin(c))
  <2>1. PICK n \in STRING, c \in Builtins :
          c # b /\ eventQueue' = Append(WithEvent(<<>>, n), Builtin(c))
    BY <1>5
  <2> DEFINE q == eventQueue'
  <2>2. q = Append(WithEvent(<<>>, n), Builtin(c))
    BY <2>1
  <2> HIDE DEF q
  <2>3. \A d : d # c => Followed(q, Builtin(d), AllPass)
    BY <2>2, Replaced
  <2>4. Followed(q, x, AllPass)
    BY <2>1, <2>3 DEF x
  <2>5. Chosen' = {}
    BY <1>5, ShortElems DEF Chosen
  <2> QED BY <2>4, <2>5 DEF q
<1>6. CASE Dequeue /\ executing = <<>> /\ eventQueue # <<>>
  <2>1. eventQueue' = Tail(eventQueue)
    BY <1>6 DEF Dequeue
  <2>2. /\ Followed(Tail(eventQueue), x, AllPass)
        /\ Head(eventQueue) = x => AllPass \in Elems(Tail(eventQueue))
    <3> HIDE DEF Event
    <3> QED BY <1>1, <1>6, FollowedKept
  <2>3. b \in Chosen' => Head(eventQueue) = x
    BY <1>1, <1>6, Dequeued DEF x
  <2> QED BY <2>1, <2>2, <2>3 DEF Events
<1>7. CASE Execute
  <2>1. b \notin Chosen'
    BY <1>1, <1>7, Executed
  <2>2. CASE QueuePropertyTriggers
    <3>1. eventQueue' = eventQueue \o AllPropertyActions
      BY <2>2 DEF QueuePropertyTriggers
    <3> QED BY <1>1, <2>1, <3>1, AllPassQueued DEF b, x
  <2>3. CASE ~QueuePropertyTriggers
    <3>1. eventQueue' \in {eventQueue, WithEvent(eventQueue, Cmd.name)}
      BY <1>7, <2>3 DEF Execute, Nop, DoSetprop, DoWaitForProp, DoExec, DoTrigger,
           DoTriggerShutdown, EnablePropertyTriggers, DoReboot, DoUserspaceReboot
    <3>2. Cmd.name \in STRING
      BY <1>7, CmdType DEF Execute, Types, Handshake
    <3>3. Followed(WithEvent(eventQueue, Cmd.name), x, AllPass)
      BY <1>1, <3>2, Triggered DEF x
    <3> QED BY <1>1, <2>1, <3>1, <3>3
  <2> QED BY <2>2, <2>3
<1>8. CASE StopUserspace
  <2> DEFINE n == "userspace-reboot-resume"
  <2>1. /\ n \in STRING /\ UNCHANGED executing
        /\ eventQueue' \in {eventQueue, WithEvent(eventQueue, n)}
    BY <1>8, Literals DEF StopUserspace
  <2> HIDE DEF n
  <2>2. Followed(WithEvent(eventQueue, n), x, AllPass)
        /\ Elems(eventQueue) \subseteq Elems(WithEvent(eventQueue, n))
    BY <1>1, <2>1, Triggered DEF x
  <2>3. Followed(eventQueue', x, AllPass) /\ Events \subseteq Events' /\ Chosen' = Chosen
    BY <1>1, <2>1, <2>2 DEF Events, Chosen
  <2> QED BY <1>1, <2>3
<1>9. CASE Shutdown \/ HandleUserspaceReboot
  <2>1. /\ "shutdown" \in STRING /\ "userspace-reboot-requested" \in STRING
        /\ "shutdown_done" \in Builtins /\ "userspace-reboot" \in Builtins
        /\ "shutdown_done" # b /\ "userspace-reboot" # b
    BY Literals DEF Builtins, b
  <2>2. CASE Shutdown
    <3>1. executing' = <<>>
          /\ eventQueue' = Append(WithEvent(<<>>, "shutdown"), Builtin("shutdown_done"))
      BY <2>2 DEF Shutdown
    <3> QED BY <1>5, <2>1, <3>1
  <2>3. CASE HandleUserspaceReboot
    <3>1. \/ UNCHANGED <<eventQueue, executing>>
          \/ /\ executing' = <<>>
             /\ eventQueue' = Append(WithEvent(<<>>, "userspace-reboot-requested"),
                                     Builtin("userspace-reboot"))
      BY <2>3 DEF HandleUserspaceReboot
    <3> QED BY <1>3, <1>5, <2>1, <3>1
  <2> QED BY <1>9, <2>2, <2>3
<1>10. CASE QueuePropertyChange /\ UNCHANGED eventQueue
  <2>1. UNCHANGED <<eventQueue, executing>>
    BY <1>10 DEF QueuePropertyChange
  <2> QED BY <1>3, <2>1
<1>11. CASE ServeMain \/ HandlePropertySet \/ HandleControlSet \/ Write \/ SendPropertyChanged
            \/ CheckAndResetWait \/ SendControlMessage \/ ExecExits \/ WatchdogExpires
            \/ UNCHANGED vars
  <2>1. UNCHANGED <<eventQueue, executing>>
    BY <1>11 DEF ServeMain, HandlePropertySet, HandleControlSet, Accept, Write, SendPropertyChanged,
         CheckAndResetWait, SendControlMessage, ExecExits, WatchdogExpires, vars, amVars
  <2> QED BY <1>3, <2>1
<1>12. CASE CheckShutdown \/ PowerctlRejected \/ StopSendingMessages \/ ShutdownDone \/ Commands
            \/ (Dequeue /\ ~(executing = <<>> /\ eventQueue # <<>>)) \/ StartWaiting
            \/ HasMoreCommands \/ EpollWait \/ Callbacks \/ HandleControlMessages \/ ControlReply
  <2>1. UNCHANGED <<eventQueue, executing>>
    BY <1>12 DEF CheckShutdown, PowerctlRejected, StopSendingMessages, ShutdownDone, Commands,
         Dequeue, StartWaiting, HasMoreCommands, EpollWait, Callbacks, HandleControlMessages,
         ControlReply, amVars
  <2> QED BY <1>3, <2>1
<1> QED BY <1>4, <1>6, <1>7, <1>8, <1>9, <1>10, <1>11, <1>12
        DEF Next, MainThread, PropertyThread, Environment

-----------------------------------------------------------------------------
(* Property triggers.                                                        *)

\* The boot pass ahead, by what is queued and executing.
LEMMA AheadElems ==
  BootPassAhead <=>
    \E b \in {"queue_property_triggers", "enable_property_trigger"} :
      Builtin(b) \in Events \/ b \in Chosen
BY DEF BootPassAhead, InQueue, Running, Events, Chosen, Elems

\* While the boot pass is ahead, every action waits for it.
LEMMA AheadInEvents ==
  ASSUME Types, BootPass, BootPassAhead, NEW a PROVE InEvents(a)
<1>1. AllPass.kind = "property" /\ AllPass.name = ""
  BY EventKinds DEF AllPass
<1>2. AllPass \in Events => InEvents(a)
  BY <1>1 DEF InEvents, Triggers
<1>3. Builtin("enable_property_trigger") \in Events => AllPass \in Events
  <2>1. eventQueue \in Seq(Event) /\ AllPass \in Event
        /\ Followed(eventQueue, Builtin("enable_property_trigger"), AllPass)
    BY EventTypes, Literals DEF Types, Data, AllPass, BootPass
  <2> HIDE DEF Event
  <2> QED BY <2>1, FollowedKept DEF Events
<1>4. "enable_property_trigger" \in Chosen => AllPass \in Events
  BY DEF BootPass
<1> QED BY <1>2, <1>3, <1>4, AheadElems DEF InEvents

\* What triggers an action whose other conditions are met.
LEMMA TriggersCheck ==
  ASSUME NEW a \in ActionIds, CheckPropertyTriggers(a, "", ""), NEW n, NEW v, Triggers(a, n, v)
  PROVE  CheckPropertyTriggers(a, n, v)
<1>1. DOMAIN PropTriggers[a] \subseteq Props /\ "" \notin Props
  BY InitLoopConstants
<1> QED BY <1>1 DEF CheckPropertyTriggers, Triggers

\* Steps that change no property and lose no event.
LEMMA OwedKept ==
  ASSUME Owed, owed' \subseteq owed, UNCHANGED props, Seen' => Seen,
         \A a \in owed' : acceptMessages' /\ (Announcing(a) \/ InEvents(a)) =>
           Announcing(a)' \/ InEvents(a)'
  PROVE  Owed'
<1> SUFFICES ASSUME NEW a \in owed'
             PROVE  /\ EventTrigger[a] = "" /\ DOMAIN PropTriggers[a] # {}
                    /\ (Seen /\ CheckPropertyTriggers(a, "", "") => Announcing(a) \/ InEvents(a))'
  BY DEF Owed
<1>1. a \in owed
  OBVIOUS
<1>2. EventTrigger[a] = "" /\ DOMAIN PropTriggers[a] # {}
  BY <1>1 DEF Owed
<1>3. ASSUME Seen', CheckPropertyTriggers(a, "", "")' PROVE Announcing(a)' \/ InEvents(a)'
  <2>1. acceptMessages' /\ Seen
    BY <1>3 DEF Seen
  <2>2. CheckPropertyTriggers(a, "", "")
    BY <1>3 DEF CheckPropertyTriggers
  <2>3. Announcing(a) \/ InEvents(a)
    BY <1>1, <2>1, <2>2 DEF Owed
  <2> QED BY <2>1, <2>3
<1> QED BY <1>2, <1>3

\* The same, when the queues are left alone and the property thread is not announcing.
LEMMA OwedFrame ==
  ASSUME Owed, owed' \subseteq owed,
         UNCHANGED <<props, eventQueue, executing, triggersEnabled, acceptMessages>>,
         \A a : Announcing(a) => Announcing(a)'
  PROVE  Owed'
<1>1. Events' = Events /\ Chosen' = Chosen
  BY DEF Events, Chosen
<1>2. BootPassAhead' = BootPassAhead
  BY DEF BootPassAhead, InQueue, Running
<1>3. \A a : InEvents(a)' = InEvents(a)
  BY <1>1 DEF InEvents
<1>4. Seen' = Seen
  BY <1>2 DEF Seen
<1> QED BY <1>3, <1>4, OwedKept

\* A write makes the actions due that it triggers, and announces them.
LEMMA WriteOwed ==
  ASSUME Types, Owed, Write PROVE Owed'
<1>1. /\ UNCHANGED <<eventQueue, executing, triggersEnabled, acceptMessages>> /\ ppc = "Write"
  BY DEF Write
<1>2. \A a : ~Announcing(a)
  BY <1>1 DEF Announcing
<1>3. CASE Reply /\ UNCHANGED <<props, owed>>
  BY <1>1, <1>2, <1>3, OwedFrame
<1>4. CASE ppc' = "Lock"
  <2> DEFINE n == req.name
             v == req.value
             T(a) == PropTriggers[a]
  <2>1. /\ UNCHANGED req /\ props' = IF n \in Props THEN [props EXCEPT ![n] = v] ELSE props
        /\ owed' \subseteq owed \cup Due(n, v)
    BY <1>4 DEF Write, Reply
  <2>2. props \in [Props -> Values] /\ owed \subseteq ActionIds
    BY DEF Types, Data
  <2>3. /\ \A a \in ActionIds : DOMAIN T(a) \subseteq Props
        /\ "" \notin Props
    BY InitLoopConstants
  <2>4. \A m \in Props : m # n => props'[m] = props[m]
    BY <2>1, <2>2
  <2>5. n \in Props => props'[n] = v
    BY <2>1, <2>2
  <2>6. \A a : Triggers(a, n, v) => Announcing(a)'
    BY <1>4, <2>1 DEF Announcing
  <2>7. Events' = Events /\ Chosen' = Chosen /\ BootPassAhead' = BootPassAhead
    BY <1>1 DEF Events, Chosen, BootPassAhead, InQueue, Running
  <2>8. Seen' = Seen /\ \A a : InEvents(a)' = InEvents(a)
    BY <1>1, <2>7 DEF Seen, InEvents
  <2>9. SUFFICES ASSUME NEW a \in owed'
                 PROVE  /\ EventTrigger[a] = "" /\ DOMAIN T(a) # {}
                        /\ Seen' /\ CheckPropertyTriggers(a, "", "")' =>
                             Announcing(a)' \/ InEvents(a)'
    BY DEF Owed
  <2>10. CASE a \in Due(n, v)
    <3>1. /\ EventTrigger[a] = "" /\ n \in DOMAIN T(a)
          /\ CheckPropertyTriggers(a, n, v) /\ a \in ActionIds
      BY <2>10 DEF Due
    <3>2. n # ""
      BY <2>3, <3>1
    <3>3. Triggers(a, n, v)
      BY <3>1, <3>2 DEF CheckPropertyTriggers, Triggers
    <3> QED BY <2>6, <3>1, <3>3
  <2>11. CASE a \notin Due(n, v)
    <3>1. a \in owed /\ a \in ActionIds
      BY <2>1, <2>2, <2>11
    <3>2. EventTrigger[a] = "" /\ DOMAIN T(a) # {}
      BY <3>1 DEF Owed
    <3>3. ASSUME Seen', CheckPropertyTriggers(a, "", "")' PROVE Announcing(a)' \/ InEvents(a)'
      <4>1. \A m \in DOMAIN T(a) :
              T(a)[m] = props'[m] \/ (T(a)[m] = "*" /\ props'[m] # "")
        BY <2>3, <3>1, <3>2, <3>3 DEF CheckPropertyTriggers
      <4>2. CASE n \in DOMAIN T(a)
        <5>1. T(a)[n] \in {"*", v}
          BY <2>3, <2>5, <3>1, <4>1, <4>2
        <5>2. Triggers(a, n, v)
          BY <4>2, <5>1 DEF Triggers
        <5> QED BY <2>6, <5>2
      <4>3. CASE n \notin DOMAIN T(a)
        <5>1. \A m \in DOMAIN T(a) : m \in Props /\ props'[m] = props[m]
          BY <2>3, <2>4, <3>1, <4>3
        <5>2. CheckPropertyTriggers(a, "", "")
          BY <4>1, <5>1 DEF CheckPropertyTriggers
        <5>3. InEvents(a)
          BY <1>2, <2>8, <3>1, <3>3, <5>2 DEF Owed
        <5> QED BY <2>8, <5>3
      <4> QED BY <4>2, <4>3
    <3> QED BY <3>2, <3>3
  <2> QED BY <2>10, <2>11
<1> QED BY <1>3, <1>4 DEF Write

\* An announcement turns into an event, or into the pass at boot.
LEMMA SendOwed ==
  ASSUME Types, BootPass, Owed, SendPropertyChanged \/ QueuePropertyChange \/ CheckAndResetWait
  PROVE  Owed'
<1>1. CASE SendPropertyChanged
  <2>1. UNCHANGED <<props, eventQueue, executing, triggersEnabled, acceptMessages, owed>>
        /\ ppc = "Lock"
    BY <1>1 DEF SendPropertyChanged, amVars
  <2>2. CASE acceptMessages
    <3>1. UNCHANGED req /\ ppc' = "Queue"
      BY <1>1, <2>2 DEF SendPropertyChanged
    <3>2. \A a : Announcing(a) => Announcing(a)'
      BY <3>1 DEF Announcing
    <3> QED BY <2>1, <3>2, OwedFrame
  <2>3. CASE ~acceptMessages
    <3>1. ~acceptMessages' /\ owed' \subseteq owed /\ UNCHANGED props
      BY <2>1, <2>3
    <3>2. ~Seen'
      BY <3>1 DEF Seen
    <3> QED BY <3>1, <3>2, OwedKept
  <2> QED BY <2>2, <2>3
<1>2. CASE CheckAndResetWait
  <2>1. UNCHANGED <<props, eventQueue, executing, triggersEnabled, acceptMessages, owed>>
        /\ ppc = "CheckWait"
    BY <1>2 DEF CheckAndResetWait, amVars
  <2>2. \A a : ~Announcing(a)
    BY <2>1 DEF Announcing
  <2> QED BY <2>1, <2>2, OwedFrame
<1>3. CASE QueuePropertyChange
  <2> DEFINE x == PropChange(req.name, req.value)
  <2>1. UNCHANGED <<props, executing, triggersEnabled, acceptMessages, owed, req>> /\ ppc = "Queue"
        /\ Chosen' = Chosen
    BY <1>3 DEF QueuePropertyChange, Chosen
  <2>2. CASE triggersEnabled
    <3>1. eventQueue' = Append(eventQueue, x)
      BY <1>3, <2>2 DEF QueuePropertyChange
    <3>2. Sets(req)
      BY <2>1 DEF Types, Handshake
    <3>3. req.name \in STRING /\ req.value \in STRING
      BY <3>2, InitLoopConstants, Literals DEF Sets, Settable
    <3>4. x \in Event /\ eventQueue \in Seq(Event)
      BY <3>3, EventTypes DEF Types, Data
    <3>5. x.kind = "property" /\ x.name = req.name /\ x.value = req.value
      BY EventKinds
    <3> HIDE DEF x
    <3>6. Elems(Append(eventQueue, x)) = Elems(eventQueue) \cup {x}
      BY <3>4, Appended
    <3>7. Events' = Events \cup {x}
      BY <3>1, <3>6 DEF Events
    <3>8. \A a : Announcing(a) \/ InEvents(a) => InEvents(a)'
      BY <2>1, <3>5, <3>7 DEF Announcing, InEvents
    <3>9. Seen' => Seen
      BY <2>1, <2>2 DEF Seen
    <3> QED BY <2>1, <3>8, <3>9, OwedKept
  <2>3. CASE ~triggersEnabled
    <3>1. eventQueue' = eventQueue
      BY <1>3, <2>3 DEF QueuePropertyChange
    <3>2. Events' = Events /\ BootPassAhead' = BootPassAhead
      BY <2>1, <3>1 DEF Events, BootPassAhead, InQueue, Running
    <3>3. \A a : InEvents(a)' = InEvents(a)
      BY <2>1, <3>2 DEF InEvents
    <3>4. Seen' => Seen
      BY <2>1, <3>2 DEF Seen
    <3>5. CASE BootPassAhead
      <4>1. \A a : InEvents(a)'
        BY <3>3, <3>5, AheadInEvents
      <4> QED BY <2>1, <3>4, <4>1, OwedKept
    <3>6. CASE ~BootPassAhead
      <4>1. ~Seen'
        BY <2>1, <2>3, <3>2, <3>6 DEF Seen
      <4> QED BY <2>1, <4>1 DEF Owed
    <3> QED BY <3>5, <3>6
  <2> QED BY <2>2, <2>3
<1> QED BY <1>1, <1>2, <1>3

\* An event that triggers an action is followed by its execution.
LEMMA DequeueOwed ==
  ASSUME Types, Quiet, Owed, Dequeue PROVE Owed'
<1>1. UNCHANGED <<props, triggersEnabled, acceptMessages, ppc, req>>
  BY DEF Dequeue, propVars
<1>2. \A a : Announcing(a)' = Announcing(a)
  BY <1>1 DEF Announcing
<1>3. CASE executing = <<>> /\ eventQueue # <<>>
  <2> DEFINE h == Head(eventQueue)
  <2>1. /\ executing' = Matching(h) /\ owed' \subseteq owed
        /\ \A a \in owed' : \A i \in DOMAIN executing' : a # executing'[i]
    BY <1>3 DEF Dequeue
  <2>2. /\ Chosen = {} /\ Events = {h} \cup Events'
        /\ \A b \in Builtins : b \in Chosen' => h = Builtin(b)
        /\ \A b \in Builtins : h = Builtin(b) => b \in Chosen'
    BY <1>3, Dequeued
  <2>3. "queue_property_triggers" \in Builtins /\ "enable_property_trigger" \in Builtins
    BY DEF Builtins
  <2>4. BootPassAhead' => BootPassAhead
    <3>1. BootPassAhead' <=>
            \E b \in {"queue_property_triggers", "enable_property_trigger"} :
              Builtin(b) \in Events' \/ b \in Chosen'
      BY DEF BootPassAhead, InQueue, Running, Events, Chosen, Elems
    <3> QED BY <2>2, <2>3, <3>1, AheadElems
  <2>5. Seen' => Seen
    BY <1>1, <2>4 DEF Seen
  <2>6. SUFFICES ASSUME NEW a \in owed'
                 PROVE  /\ EventTrigger[a] = "" /\ DOMAIN PropTriggers[a] # {}
                        /\ Seen' /\ CheckPropertyTriggers(a, "", "")' =>
                             Announcing(a)' \/ InEvents(a)'
    BY DEF Owed
  <2>7. a \in owed /\ a \in ActionIds
    BY <2>1 DEF Types, Data
  <2>8. EventTrigger[a] = "" /\ DOMAIN PropTriggers[a] # {}
    BY <2>7 DEF Owed
  <2>9. ASSUME Seen', CheckPropertyTriggers(a, "", "")' PROVE Announcing(a)' \/ InEvents(a)'
    <3>1. CheckPropertyTriggers(a, "", "")
      BY <1>1, <2>9 DEF CheckPropertyTriggers
    <3>2. Announcing(a) \/ InEvents(a)
      BY <2>5, <2>7, <2>9, <3>1 DEF Owed
    <3>3. CASE Announcing(a)
      BY <1>2, <3>3
    <3>4. CASE Builtin("queue_property_triggers") \in Events
      <4>1. Builtin("queue_property_triggers") \in Events' \/ "queue_property_triggers" \in Chosen'
        BY <2>2, <2>3, <3>4
      <4> QED BY <4>1 DEF InEvents
    <3>5. CASE \E e \in Events : e.kind = "property" /\ Triggers(a, e.name, e.value)
      <4>1. PICK e \in Events : e.kind = "property" /\ Triggers(a, e.name, e.value)
        BY <3>5
      <4>2. CASE e \in Events'
        BY <4>1, <4>2 DEF InEvents
      <4>3. CASE e = h
        <5>1. CheckPropertyTriggers(a, h.name, h.value)
          BY <2>7, <3>1, <4>1, <4>3, TriggersCheck
        <5>2. CheckEvent(a, h)
          BY <2>8, <4>1, <4>3, <5>1 DEF CheckEvent
        <5>3. \E j \in DOMAIN Matching(h) : Matching(h)[j] = a
          BY <2>7, <4>1, <4>3, <5>2, MatchingActions
        <5> QED BY <2>1, <5>3
      <4> QED BY <2>2, <4>2, <4>3
    <3> QED BY <2>2, <3>2, <3>3, <3>4, <3>5 DEF InEvents
  <2> QED BY <2>8, <2>9
<1>4. CASE ~(executing = <<>> /\ eventQueue # <<>>)
  <2>1. UNCHANGED <<executing, eventQueue, owed>>
    BY <1>4 DEF Dequeue
  <2> QED BY <1>1, <1>2, <2>1, OwedFrame
<1> QED BY <1>3, <1>4

\* A command is executed: the boot pass is queued before it is no longer ahead.
LEMMA ExecuteOwed ==
  ASSUME Types, Quiet, BootPass, Owed, Execute PROVE Owed'
<1>1. UNCHANGED <<props, owed, acceptMessages, ppc, req>> /\ mpc = "Execute"
  BY DEF Execute, propVars
<1>2. \A a : Announcing(a)' = Announcing(a)
  BY <1>1 DEF Announcing
<1>3. /\ \A b \in Builtins : b \notin Chosen'
      /\ \A b \in Builtins : b \in Chosen <=> Cmd.op = b
  BY Executed
<1>4. "queue_property_triggers" \in Builtins /\ "enable_property_trigger" \in Builtins
  BY DEF Builtins
<1>5. eventQueue \in Seq(Event) /\ Cmd.name \in STRING
  BY <1>1, CmdType DEF Types, Data, Handshake
<1>6. BootPassAhead' <=>
        \E b \in {"queue_property_triggers", "enable_property_trigger"} :
          Builtin(b) \in Events' \/ b \in Chosen'
  BY DEF BootPassAhead, InQueue, Running, Events, Chosen, Elems
<1>7. CASE QueuePropertyTriggers
  <2>1. /\ eventQueue' = eventQueue \o AllPropertyActions /\ UNCHANGED triggersEnabled
        /\ Cmd.op = "queue_property_triggers"
    BY <1>7 DEF QueuePropertyTriggers
  <2>2. Events' = Events \cup {Builtin("enable_property_trigger"), AllPass}
    BY <1>5, <2>1, AllPassQueued DEF Events
  <2>3. AllPass.kind = "property" /\ AllPass.name = ""
    BY EventKinds DEF AllPass
  <2>4. \A a : InEvents(a)'
    BY <2>2, <2>3 DEF InEvents, Triggers
  <2>5. BootPassAhead
    BY <1>3, <1>4, <2>1, AheadElems
  <2>6. Seen' => Seen
    BY <1>1, <2>5 DEF Seen
  <2> QED BY <1>1, <2>4, <2>6, OwedKept
<1>8. CASE ~QueuePropertyTriggers
  <2>1. /\ eventQueue' \in {eventQueue, WithEvent(eventQueue, Cmd.name)}
        /\ UNCHANGED triggersEnabled \/ Cmd.op = "enable_property_trigger"
        /\ Cmd.op # "queue_property_triggers"
    BY <1>8 DEF Execute, Nop, DoSetprop, DoWaitForProp, DoExec, DoTrigger,
         DoTriggerShutdown, EnablePropertyTriggers, DoReboot, DoUserspaceReboot
  <2>2. /\ Events \subseteq Events'
        /\ \A b : Builtin(b) \in Events' <=> Builtin(b) \in Events
    BY <1>5, <2>1, QuietTriggered
  <2>3. BootPassAhead' => BootPassAhead
    BY <1>3, <1>4, <1>6, <2>2, AheadElems
  <2>4. Cmd.op = "enable_property_trigger" => BootPassAhead
    BY <1>3, <1>4, AheadElems
  <2>5. Seen' => Seen
    BY <1>1, <2>1, <2>3, <2>4 DEF Seen
  <2>6. "queue_property_triggers" \notin Chosen
    BY <1>3, <1>4, <2>1
  <2>7. \A a : InEvents(a) => InEvents(a)'
    BY <2>2, <2>6 DEF InEvents
  <2> QED BY <1>1, <1>2, <2>5, <2>7, OwedKept
<1> QED BY <1>7, <1>8

\* The next-state relation keeps track of the actions that are due.
LEMMA StepOwed == ASSUME Types, Quiet, BootPass, Owed, [Next]_vars PROVE Owed'
<1>1. CASE Write
  BY <1>1, WriteOwed
<1>2. CASE SendPropertyChanged \/ QueuePropertyChange \/ CheckAndResetWait
  BY <1>2, SendOwed
<1>3. CASE Dequeue
  BY <1>3, DequeueOwed
<1>4. CASE Execute
  BY <1>4, ExecuteOwed
<1>5. CASE ServeMain \/ HandlePropertySet \/ HandleControlSet \/ SendControlMessage
  <2>1. /\ UNCHANGED <<props, eventQueue, executing, triggersEnabled, acceptMessages, owed>>
        /\ ppc \in {"Idle", "Control"}
    BY <1>5 DEF ServeMain, HandlePropertySet, HandleControlSet, Accept, SendControlMessage, amVars
  <2>2. \A a : ~Announcing(a)
    BY <2>1 DEF Announcing
  <2> QED BY <2>1, <2>2, OwedFrame
<1>6. CASE CheckShutdown \/ PowerctlRejected \/ ShutdownDone \/ Commands \/ StartWaiting
           \/ HasMoreCommands \/ EpollWait \/ Callbacks \/ HandleControlMessages \/ ControlReply
           \/ ExecExits \/ WatchdogExpires \/ UNCHANGED vars
  <2>1. UNCHANGED <<props, eventQueue, executing, triggersEnabled, acceptMessages, owed, ppc, req>>
    BY <1>6 DEF CheckShutdown, PowerctlRejected, ShutdownDone, Commands, StartWaiting,
         HasMoreCommands, EpollWait, Callbacks, HandleControlMessages, ControlReply, ExecExits,
         WatchdogExpires, vars, amVars, propVars
  <2>2. \A a : Announcing(a) => Announcing(a)'
    BY <2>1 DEF Announcing
  <2> QED BY <2>1, <2>2, OwedFrame
<1>7. CASE StopSendingMessages
  <2>1. ~acceptMessages' /\ UNCHANGED <<props, owed>>
    BY <1>7 DEF StopSendingMessages, amVars
  <2>2. ~Seen'
    BY <2>1 DEF Seen
  <2> QED BY <2>1, <2>2 DEF Owed
<1>8. CASE Shutdown
  BY <1>8 DEF Shutdown, Owed
<1>9. CASE HandleUserspaceReboot
  <2>1. CASE owed' = {}
    BY <2>1 DEF Owed
  <2>2. CASE UNCHANGED <<eventQueue, executing, owed>>
    <3>1. UNCHANGED <<props, triggersEnabled, acceptMessages, ppc, req>>
      BY <1>9 DEF HandleUserspaceReboot, propVars
    <3>2. \A a : Announcing(a) => Announcing(a)'
      BY <3>1 DEF Announcing
    <3> QED BY <2>2, <3>1, <3>2, OwedFrame
  <2> QED BY <1>9, <2>1, <2>2 DEF HandleUserspaceReboot
<1>10. CASE StopUserspace
  <2>1. owed' = {}
    BY <1>10 DEF StopUserspace, Quiet
  <2> QED BY <2>1 DEF Owed
<1> QED BY <1>1, <1>2, <1>3, <1>4, <1>5, <1>6, <1>7, <1>8, <1>9, <1>10
        DEF Next, MainThread, PropertyThread, Environment

-----------------------------------------------------------------------------
(* The initial state, and the theorems.                                      *)

\* What is queued for the boot.
LEMMA BootQueueElems ==
  /\ BootQueue \in Seq(Event)
  /\ \A e \in Elems(BootQueue) : e.kind # "property"
  /\ Builtin("userspace-reboot") \notin Elems(BootQueue)
  /\ Builtin("enable_property_trigger") \notin Elems(BootQueue)
<1> DEFINE n1 == "early-init"
           n2 == "init"
           n3 == "late-init"
           w == Builtin("wait_for_coldboot_done")
           p == Builtin("queue_property_triggers")
           q0 == WithEvent(<<>>, n1)
           q1 == Append(q0, w)
           q2 == WithEvent(q1, n2)
           q3 == WithEvent(q2, n3)
           q4 == Append(q3, p)
           All == {Ev(n1), w, Ev(n2), Ev(n3), p}
<1>1. n1 \in STRING /\ n2 \in STRING /\ n3 \in STRING
  BY Literals
<1>2. w \in Event /\ p \in Event
  BY EventTypes DEF Builtins
<1>3. BootQueue = q4
  BY DEF BootQueue
<1>4. /\ \A e \in All : e.kind # "property"
      /\ Builtin("userspace-reboot") \notin All
      /\ Builtin("enable_property_trigger") \notin All
  <2>1. /\ Ev(n1).kind = "event" /\ Ev(n2).kind = "event" /\ Ev(n3).kind = "event"
        /\ w.kind = "builtin" /\ w.name = "wait_for_coldboot_done"
        /\ p.kind = "builtin" /\ p.name = "queue_property_triggers"
        /\ Builtin("userspace-reboot").kind = "builtin"
        /\ Builtin("userspace-reboot").name = "userspace-reboot"
        /\ Builtin("enable_property_trigger").kind = "builtin"
        /\ Builtin("enable_property_trigger").name = "enable_property_trigger"
    BY EventKinds
  <2> HIDE DEF w, p, n1, n2, n3
  <2>2. \A e \in All : e.kind # "property" /\ e # Builtin("userspace-reboot")
                       /\ e # Builtin("enable_property_trigger")
    BY <2>1
  <2> QED BY <2>2
<1> HIDE DEF w, p, n1, n2, n3
<1>5. q0 \in Seq(Event) /\ Elems(q0) \subseteq {Ev(n1)}
  <2>1. <<>> \in Seq(Event) /\ Elems(<<>>) = {}
    BY EmptySeq, ShortElems
  <2> QED BY <1>1, <2>1, WithEventType, Triggered
<1> HIDE DEF q0
<1>6. q1 \in Seq(Event) /\ Elems(q1) = Elems(q0) \cup {w}
  BY <1>2, <1>5, Appended
<1> HIDE DEF q1
<1>7. q2 \in Seq(Event) /\ Elems(q2) \subseteq Elems(q1) \cup {Ev(n2)}
  BY <1>1, <1>6, WithEventType, Triggered
<1> HIDE DEF q2
<1>8. q3 \in Seq(Event) /\ Elems(q3) \subseteq Elems(q2) \cup {Ev(n3)}
  BY <1>1, <1>7, WithEventType, Triggered
<1> HIDE DEF q3
<1>9. q4 \in Seq(Event) /\ Elems(q4) = Elems(q3) \cup {p}
  BY <1>2, <1>8, Appended
<1>10. Elems(q4) \subseteq All
  BY <1>5, <1>6, <1>7, <1>8, <1>9
<1> QED BY <1>3, <1>4, <1>9, <1>10

\* The invariant holds initially.
LEMMA InitInv == ASSUME Init PROVE Inv
<1>1. /\ eventQueue = BootQueue /\ executing = <<>> /\ command = 1 /\ owed = {} /\ waitFor = NoWait
      /\ mpc = "CheckShutdown" /\ ppc = "Idle" /\ req = NoReq /\ ctlQueue = <<>>
      /\ serving = "none" /\ asked = {} /\ shutdownCommand = "" /\ execService = "none"
      /\ watchdog = "none" /\ props = [n \in Props |-> ""]
  BY DEF Init
<1>2. Flags
  BY DEF Init, Flags
<1>3. Data
  <2>1. eventQueue \in Seq(Event) /\ executing \in Seq(ActionIds \cup Builtins)
        /\ ctlQueue \in Seq(CtlClients)
    BY <1>1, BootQueueElems, EmptySeq
  <2>2. props \in [Props -> Values]
    BY <1>1, InitLoopConstants
  <2>3. Len(ctlQueue) <= CtlLimit + 1
    <3>1. CtlLimit \in Nat
      BY InitLoopConstants
    <3>2. Len(ctlQueue) = 0
      BY <1>1
    <3> QED BY <3>1, <3>2
  <2> QED BY <1>1, <2>1, <2>2, <2>3 DEF Data
<1>4. Handshake
  BY <1>1 DEF Handshake, NoReq
<1>5. Chosen = {} /\ Events = Elems(BootQueue)
  BY <1>1, ShortElems DEF Chosen, Events
<1>6. Quiet
  <2>1. acceptMessages /\ ~shuttingDown
    BY DEF Init
  <2>2. ~Rebooting
    BY <1>5, BootQueueElems DEF Rebooting
  <2>3. Once(eventQueue, Builtin("userspace-reboot"))
    BY <1>1, BootQueueElems DEF Once, Elems
  <2> QED BY <1>1, <1>5, <2>1, <2>2, <2>3 DEF Quiet
<1>7. Waits
  BY <1>1 DEF Waits, Waiting
<1>8. Wakes
  BY <1>1 DEF Wakes, BeforeShutdown
<1>9. BootPass
  BY <1>1, <1>5, BootQueueElems DEF BootPass, Followed, Elems
<1>10. Owed
  BY <1>1 DEF Owed
<1> QED BY <1>2, <1>3, <1>4, <1>6, <1>7, <1>8, <1>9, <1>10 DEF Inv, Types

\* Inv is inductive.
LEMMA InvHolds == Spec => []Inv
<1>1. Init => Inv
  BY InitInv
<1>2. Inv /\ [Next]_vars => Inv'
  BY StepTypes, StepQuiet, StepWaits, StepWakes, StepBootPass, StepOwed DEF Inv
<1> QED BY <1>1, <1>2, PTL DEF Spec

\* The queues and flags of init keep their types, current_command_ stays within the
\* action that is executing, and QueueControlMessage() bounds its queue, for every set
\* of scripts, properties and clients.
THEOREM MainLoopTypes == Spec => []TypeOK
<1>1. Types => TypeOK
  <2>1. Flags /\ Data => TypeOK
    BY Zenon DEF Flags, Data, TypeOK
  <2> QED BY <2>1 DEF Types
<1>2. Inv => TypeOK
  BY <1>1 DEF Inv
<1> QED BY <1>2, InvHolds, PTL

\* However the property thread and HandlePowerctlMessage() interleave, no property
\* change is in the queue of a shutdown or on its way to it.
THEOREM ShutdownIsAlwaysQuiet == Spec => []ShutdownIsQuiet
<1>1. Quiet => ShutdownIsQuiet
  <2>1. SUFFICES ASSUME Quiet, shuttingDown PROVE ShutdownIsQuiet
    BY DEF ShutdownIsQuiet
  <2>2. ~acceptMessages /\ Calm
    BY <2>1 DEF Quiet
  <2>3. \A i \in DOMAIN eventQueue : eventQueue[i].kind # "property"
    BY <2>2 DEF Calm, Events, Elems
  <2> QED BY <2>1, <2>2, <2>3 DEF Quiet, ShutdownIsQuiet
<1>2. Inv => ShutdownIsQuiet
  BY <1>1 DEF Inv
<1> QED BY <1>2, InvHolds, PTL

\* A property wait never misses the value it waits for: StartWaiting() holds the lock
\* from the read of the property to the record of the wait.
THEOREM WaitIsAlwaysWoken == Spec => []WaitIsWoken
<1>1. Waits => WaitIsWoken
  BY DEF Waits, Announced, WaitIsWoken
<1>2. Inv => WaitIsWoken
  BY <1>1 DEF Inv
<1> QED BY <1>2, InvHolds, PTL

\* The main thread never sleeps over a control message, a shutdown request or an event
\* it could handle.
THEOREM NoWakeupIsEverLost == Spec => []NoLostWakeup
<1>1. Wakes => NoLostWakeup
  BY DEF Wakes, Listening, BeforeReply, BeforeShutdown, NoLostWakeup
<1>2. Inv => NoLostWakeup
  BY <1>1 DEF Inv
<1> QED BY <1>2, InvHolds, PTL

\* An action whose property triggers have come true and still are is on its way to be
\* executed, before and after queue_property_triggers enables them.
THEOREM NoTriggerIsEverLost == Spec => []TriggersNotLost
<1>1. Types /\ Owed => TriggersNotLost
  <2>1. SUFFICES ASSUME Types, Owed, NEW a \in owed, acceptMessages,
                        triggersEnabled \/ BootPassAhead, CheckPropertyTriggers(a, "", "")
                 PROVE  Pending(a)
    BY DEF TriggersNotLost
  <2>2. a \in ActionIds /\ EventTrigger[a] = "" /\ (Announcing(a) \/ InEvents(a))
    BY <2>1 DEF Types, Data, Owed, Seen
  <2>3. CASE Announcing(a)
    <3>1. ppc \in {"Lock", "Queue"} /\ Triggers(a, req.name, req.value) /\ Sets(req)
      BY <2>1, <2>3 DEF Announcing, Types, Handshake
    <3>2. req.name # ""
      BY <3>1, InitLoopConstants DEF Sets, Settable
    <3>3. CheckPropertyTriggers(a, req.name, req.value)
      BY <2>1, <2>2, <3>1, TriggersCheck
    <3> QED BY <3>1, <3>2, <3>3 DEF Triggers, Pending
  <2>4. CASE \E e \in Events : e.kind = "property" /\ Triggers(a, e.name, e.value)
    <3>1. PICK e \in Events : e.kind = "property" /\ Triggers(a, e.name, e.value)
      BY <2>4
    <3>2. CheckPropertyTriggers(a, e.name, e.value)
      BY <2>1, <2>2, <3>1, TriggersCheck
    <3>3. CheckEvent(a, e)
      BY <2>2, <3>1, <3>2 DEF CheckEvent
    <3>4. PICK i \in DOMAIN eventQueue : eventQueue[i] = e
      BY <3>1 DEF Events, Elems
    <3> QED BY <3>3, <3>4 DEF Pending
  <2>5. CASE Builtin("queue_property_triggers") \in Events \/ "queue_property_triggers" \in Chosen
    BY <2>5 DEF Pending, InQueue, Running, Events, Chosen, Elems
  <2> QED BY <2>2, <2>3, <2>4, <2>5 DEF InEvents
<1>2. Inv => TriggersNotLost
  BY <1>1 DEF Inv
<1> QED BY <1>2, InvHolds, PTL

-----------------------------------------------------------------------------
(* Control messages.                                                         *)

Queued == Elems(ctlQueue)
Handling == mpc = "CtlReply" \/ (mpc = "SetProperty" /\ todo.from = "ctl")

\* A control message is in one place: with the property thread, in the queue, with the
\* main thread, or answered.
InOnePlace(c) ==
  /\ c \in Queued => c \in asked /\ req.from # c /\ serving # c /\ answered[c] = 0
  /\ req.from = c => c \in asked /\ c \notin Queued /\ serving # c /\ answered[c] = 0
  /\ serving = c => c \in asked /\ c \notin Queued /\ req.from # c /\ answered[c] = 0
  /\ answered[c] = 1 => c \in asked /\ c \notin Queued /\ req.from # c /\ serving # c
  /\ c \in asked => c \in Queued \/ req.from = c \/ serving = c \/ answered[c] = 1

NoRepeats(q) == \A i, j \in DOMAIN q : q[i] = q[j] => i = j

Messages ==
  /\ answered \in [CtlClients -> {0, 1}]
  /\ NoRepeats(ctlQueue)
  /\ serving # "none" => Handling
  /\ \A c \in CtlClients : InOnePlace(c)

\* A message that is queued or taken out is there once.
LEMMA RepeatsKept ==
  ASSUME NEW A, NEW q \in Seq(A), NoRepeats(q)
  PROVE  /\ \A x \in A \ Elems(q) : NoRepeats(Append(q, x))
         /\ q # <<>> => NoRepeats(Tail(q)) /\ Head(q) \notin Elems(Tail(q))
<1>1. ASSUME NEW x \in A \ Elems(q) PROVE NoRepeats(Append(q, x))
  <2>1. /\ Len(q) \in Nat /\ DOMAIN q = 1..Len(q) /\ DOMAIN Append(q, x) = 1..(Len(q) + 1)
        /\ \A i \in 1..Len(q) : Append(q, x)[i] = q[i]
        /\ Append(q, x)[Len(q) + 1] = x
    OBVIOUS
  <2>2. \A i \in 1..Len(q) : q[i] # x
    BY <2>1 DEF Elems
  <2>3. \A i \in 1..(Len(q) + 1) : i \in 1..Len(q) \/ i = Len(q) + 1
    BY <2>1
  <2> QED BY <2>1, <2>2, <2>3 DEF NoRepeats
<1>2. ASSUME q # <<>> PROVE NoRepeats(Tail(q)) /\ Head(q) \notin Elems(Tail(q))
  <2>1. /\ Len(q) \in Nat \ {0} /\ DOMAIN q = 1..Len(q) /\ DOMAIN Tail(q) = 1..(Len(q) - 1)
        /\ Head(q) = q[1] /\ \A i \in 1..(Len(q) - 1) : Tail(q)[i] = q[i + 1]
    <3>1. Tail(q) \in Seq(A)
      BY <1>2
    <3> QED BY <1>2, <3>1, FirstAndRest
  <2>2. \A i \in 1..(Len(q) - 1) : i + 1 \in 1..Len(q) /\ i + 1 # 1
    BY <2>1
  <2>3. Head(q) \notin Elems(Tail(q))
    <3>1. ASSUME NEW i \in 1..(Len(q) - 1), Tail(q)[i] = Head(q) PROVE FALSE
      <4>1. q[i + 1] = q[1] /\ 1 \in 1..Len(q) /\ i + 1 \in 1..Len(q) /\ i + 1 # 1
        BY <2>1, <2>2, <3>1
      <4> QED BY <2>1, <4>1 DEF NoRepeats
    <3> QED BY <2>1, <3>1 DEF Elems
  <2>4. ASSUME NEW i \in 1..(Len(q) - 1), NEW j \in 1..(Len(q) - 1), Tail(q)[i] = Tail(q)[j]
        PROVE  i = j
    <3>1. i + 1 = j + 1
      BY <2>1, <2>2, <2>4 DEF NoRepeats
    <3> QED BY <3>1
  <2> QED BY <2>1, <2>3, <2>4 DEF NoRepeats
<1> QED BY <1>1, <1>2

\* A step that leaves the messages where they are.
LEMMA MessagesFrame ==
  ASSUME Types, Messages, UNCHANGED <<answered, asked, ctlQueue, serving>>,
         \A c \in CtlClients : req'.from = c <=> req.from = c,
         serving = "none" \/ Handling'
  PROVE  Messages'
<1>1. Queued' = Queued /\ NoRepeats(ctlQueue')
  BY DEF Queued, Messages
<1>2. ASSUME NEW c \in CtlClients PROVE InOnePlace(c)'
  <2>1. InOnePlace(c)
    BY DEF Messages
  <2> QED BY <1>1, <2>1 DEF InOnePlace
<1>3. (serving # "none" => Handling)'
  OBVIOUS
<1> QED BY <1>1, <1>2, <1>3 DEF Messages

\* No client is called like the other senders.
LEMMA ClientNames ==
  /\ \A c \in CtlClients : c \notin {"none", "client", "command", "ctl"}
  /\ NoReq.from = "none"
BY InitLoopConstants DEF NoReq

\* The property thread takes a request or serves one that is no control message.
LEMMA ServingKeeps ==
  ASSUME Types, Messages,
         ServeMain \/ HandlePropertySet \/ HandleControlSet \/ QueuePropertyChange
           \/ Write \/ SendPropertyChanged \/ CheckAndResetWait
  PROVE  Messages'
<1>1. ASSUME NEW r, Accept(r), r.from \notin CtlClients, UNCHANGED asked PROVE Messages'
  <2>1. /\ UNCHANGED <<answered, ctlQueue, serving, mpc, todo>> /\ req' = r /\ req = NoReq
    BY <1>1 DEF Accept, mainVars, Types, Handshake
  <2>2. \A c \in CtlClients : req'.from = c <=> req.from = c
    BY <1>1, <2>1, ClientNames
  <2>3. serving = "none" \/ Handling'
    BY <2>1 DEF Messages, Handling
  <2> QED BY <1>1, <2>1, <2>2, <2>3, MessagesFrame
<1>2. CASE ServeMain
  <2>1. Accept(todo) /\ UNCHANGED asked /\ todo.from \in {"command", "ctl"}
    BY <1>2 DEF ServeMain, Types, Handshake
  <2> QED BY <1>1, <2>1, ClientNames
<1>3. CASE HandlePropertySet
  <2>1. UNCHANGED asked /\ \E n, v : Accept([from |-> "client", name |-> n, value |-> v])
    BY <1>3 DEF HandlePropertySet
  <2>2. PICK n, v : Accept([from |-> "client", name |-> n, value |-> v])
    BY <2>1
  <2>3. [from |-> "client", name |-> n, value |-> v].from \notin CtlClients
    BY ClientNames
  <2> QED BY <1>1, <2>1, <2>2, <2>3
<1>4. CASE HandleControlSet
  <2> DEFINE c == CHOOSE x \in CtlClients \ asked : TRUE
             r == [from |-> c, name |-> "ctl", value |-> ""]
  <2>1. CtlClients # asked /\ asked' = asked \cup {c} /\ Accept(r)
    BY <1>4 DEF HandleControlSet
  <2>2. c \in CtlClients \ asked
    BY <2>1 DEF Types, Handshake
  <2>3. r.from = c
    OBVIOUS
  <2> HIDE DEF c, r
  <2>4. UNCHANGED <<answered, ctlQueue, serving, mpc, todo>> /\ req' = r /\ req = NoReq
    BY <2>1 DEF Accept, mainVars, Types, Handshake
  <2>5. Queued' = Queued /\ Handling' = Handling
    BY <2>4 DEF Queued, Handling
  <2>6. ASSUME NEW x \in CtlClients PROVE InOnePlace(x)'
    <3>1. InOnePlace(x) /\ InOnePlace(c)
      BY <2>2 DEF Messages
    <3>2. req.from # x /\ (req'.from = x <=> x = c)
      BY <2>3, <2>4, ClientNames
    <3>3. answered[x] \in {0, 1}
      BY DEF Messages
    <3>4. CASE x = c
      BY <2>1, <2>2, <2>4, <2>5, <3>1, <3>2, <3>3, <3>4 DEF InOnePlace
    <3>5. CASE x # c
      BY <2>1, <2>4, <2>5, <3>1, <3>2, <3>5 DEF InOnePlace
    <3> QED BY <3>4, <3>5
  <2> QED BY <2>4, <2>5, <2>6 DEF Messages
<1>5. CASE QueuePropertyChange
  <2>1. UNCHANGED <<answered, asked, ctlQueue, serving, req, mpc, todo>>
    BY <1>5 DEF QueuePropertyChange, mainVars, clientVars
  <2>2. serving = "none" \/ Handling'
    BY <2>1 DEF Messages, Handling
  <2> QED BY <2>1, <2>2, MessagesFrame
<1>6. CASE Write \/ SendPropertyChanged \/ CheckAndResetWait
  <2>1. /\ UNCHANGED <<answered, asked, ctlQueue, serving>>
        /\ ppc \in {"Write", "Lock", "CheckWait"}
        /\ UNCHANGED <<mpc, todo, req>> \/ Reply
        /\ executing' = executing
    BY <1>6 DEF Write, SendPropertyChanged, CheckAndResetWait, clientVars, amVars
  <2>2. CASE UNCHANGED <<mpc, todo, req>>
    <3>1. serving = "none" \/ Handling'
      BY <2>2 DEF Messages, Handling
    <3> QED BY <2>1, <2>2, <3>1, MessagesFrame
  <2>3. CASE Reply
    <3>1. req.from \in {"client", "command", "ctl"} /\ req' = NoReq
      BY <2>1, <2>3 DEF Types, Handshake, Reply
    <3>2. \A c \in CtlClients : req'.from = c <=> req.from = c
      BY <3>1, ClientNames
    <3>3. \/ mpc' = mpc /\ todo' = todo /\ req.from = "client"
          \/ mpc = "SetProperty" /\ mpc' = "Timeout" /\ req.from = "command"
          \/ mpc = "SetProperty" /\ mpc' = "CtlReply" /\ req.from = "ctl" /\ todo.from = "ctl"
      BY <2>1, <2>3, ReplyHandshake
    <3>4. req.from = "command" => todo.from = "command"
      BY DEF Types, Handshake
    <3>5. serving = "none" \/ Handling'
      BY <3>3, <3>4 DEF Messages, Handling
    <3> QED BY <2>1, <3>2, <3>5, MessagesFrame
  <2> QED BY <2>1, <2>2, <2>3
<1> QED BY <1>2, <1>3, <1>4, <1>5, <1>6

\* One more answer.
LEMMA Answer ==
  ASSUME Messages, NEW c \in CtlClients, answered[c] = 0,
         answered' = [answered EXCEPT ![c] = @ + 1]
  PROVE  /\ answered' \in [CtlClients -> {0, 1}] /\ answered'[c] = 1
         /\ \A x \in CtlClients \ {c} : answered'[x] = answered[x]
BY DEF Messages

\* The property thread hands a control message over, or answers it itself.
LEMMA HandOver == ASSUME Types, Messages, SendControlMessage PROVE Messages'
<1> DEFINE c == req.from
<1>1. /\ c \in CtlClients /\ ctlQueue \in Seq(CtlClients)
      /\ UNCHANGED <<asked, serving, mpc, todo>> /\ req' = NoReq
    BY DEF Types, Handshake, Data, SendControlMessage, mainVars
<1>2. \/ UNCHANGED ctlQueue /\ answered' = [answered EXCEPT ![c] = @ + 1]
      \/ UNCHANGED answered /\ ctlQueue' = Append(ctlQueue, c)
    BY DEF SendControlMessage, QueueControlMessage
<1>3. InOnePlace(c) /\ c \in asked /\ c \notin Queued /\ serving # c /\ answered[c] = 0
  BY <1>1 DEF Messages, InOnePlace
<1>4. Handling' = Handling
  BY <1>1 DEF Handling
<1>5. \A x \in CtlClients : req'.from # x
  BY <1>1, ClientNames
<1>6. CASE UNCHANGED ctlQueue /\ answered' = [answered EXCEPT ![c] = @ + 1]
  <2>1. /\ answered' \in [CtlClients -> {0, 1}] /\ answered'[c] = 1
        /\ \A x \in CtlClients \ {c} : answered'[x] = answered[x]
    BY <1>1, <1>3, <1>6, Answer
  <2>2. Queued' = Queued
    BY <1>6 DEF Queued
  <2>3. ASSUME NEW x \in CtlClients PROVE InOnePlace(x)'
    <3>1. InOnePlace(x)
      BY DEF Messages
    <3>2. CASE x = c
      BY <1>1, <1>3, <1>5, <2>1, <2>2, <3>2 DEF InOnePlace
    <3>3. CASE x # c
      BY <1>1, <1>5, <2>1, <2>2, <3>1, <3>3 DEF InOnePlace
    <3> QED BY <3>2, <3>3
  <2> QED BY <1>1, <1>4, <1>6, <2>1, <2>3 DEF Messages
<1>7. CASE UNCHANGED answered /\ ctlQueue' = Append(ctlQueue, c)
  <2>1. Queued' = Queued \cup {c} /\ NoRepeats(ctlQueue')
    <3>1. NoRepeats(Append(ctlQueue, c))
      BY <1>1, <1>3, RepeatsKept DEF Queued, Messages
    <3>2. Elems(Append(ctlQueue, c)) = Elems(ctlQueue) \cup {c}
      BY <1>1, AppendElems
    <3> HIDE DEF c
    <3> QED BY <1>7, <3>1, <3>2 DEF Queued
  <2>2. ASSUME NEW x \in CtlClients PROVE InOnePlace(x)'
    <3>1. InOnePlace(x)
      BY DEF Messages
    <3>2. CASE x = c
      BY <1>1, <1>3, <1>5, <1>7, <2>1, <3>2 DEF InOnePlace
    <3>3. CASE x # c
      BY <1>1, <1>5, <1>7, <2>1, <3>1, <3>3 DEF InOnePlace
    <3> QED BY <3>2, <3>3
  <2> QED BY <1>1, <1>4, <1>7, <2>1, <2>2 DEF Messages
<1> QED BY <1>2, <1>6, <1>7

\* The main thread takes one message and answers it.
LEMMA TakeOver == ASSUME Types, Messages, HandleControlMessages PROVE Messages'
<1>1. UNCHANGED <<asked, answered, req>> /\ serving = "none" /\ ctlQueue \in Seq(CtlClients)
  BY DEF HandleControlMessages, clientVars, Messages, Handling, Types, Data
<1>2. CASE UNCHANGED <<ctlQueue, serving>>
  BY <1>1, <1>2, MessagesFrame
<1>3. CASE /\ ctlQueue # <<>> /\ serving' = Head(ctlQueue) /\ ctlQueue' = Tail(ctlQueue)
           /\ \/ mpc' = "SetProperty" /\ todo' = [from |-> "ctl", name |-> "init.svc", value |-> ""]
              \/ mpc' = "CtlReply"
  <2> DEFINE c == Head(ctlQueue)
  <2>1. c \in CtlClients /\ Queued = {c} \cup Queued'
    <3>1. Elems(ctlQueue) = {Head(ctlQueue)} \cup Elems(Tail(ctlQueue))
      BY <1>1, <1>3, TailElems
    <3>2. ctlQueue' = Tail(ctlQueue)
      BY <1>3
    <3>3. Elems(ctlQueue') = Elems(Tail(ctlQueue))
      BY ONLY <3>2 DEF Elems
    <3>4. Head(ctlQueue) \in CtlClients
      <4>1. ctlQueue \in Seq(CtlClients) /\ ctlQueue # <<>>
        BY <1>1, <1>3
      <4> QED BY ONLY <4>1
    <3> QED BY <3>1, <3>3, <3>4 DEF Queued
  <2>2. NoRepeats(ctlQueue') /\ c \notin Queued'
    BY <1>1, <1>3, RepeatsKept DEF Queued, Messages
  <2>3. serving' = c
    BY <1>3
  <2>4. Handling'
    <3>1. [from |-> "ctl", name |-> "init.svc", value |-> ""].from = "ctl"
      OBVIOUS
    <3> QED BY <1>3, <3>1 DEF Handling
  <2> HIDE DEF c
  <2>5. ASSUME NEW x \in CtlClients PROVE InOnePlace(x)'
    <3>1. InOnePlace(x) /\ serving # x
      BY <1>1, ClientNames DEF Messages
    <3>2. CASE x = c
      BY <1>1, <2>1, <2>2, <2>3, <3>1, <3>2 DEF InOnePlace
    <3>3. CASE x # c
      BY <1>1, <2>1, <2>2, <2>3, <3>1, <3>3 DEF InOnePlace
    <3> QED BY <3>2, <3>3
  <2> QED BY <1>1, <2>2, <2>4, <2>5 DEF Messages
<1> QED BY <1>2, <1>3 DEF HandleControlMessages

\* The reply moves the message being served to the answered ones.
LEMMA ReplyOnce == ASSUME Types, Messages, ControlReply PROVE Messages'
<1> DEFINE c == serving
<1>1. /\ c \in CtlClients /\ UNCHANGED <<asked, req, ctlQueue>> /\ serving' = "none"
      /\ answered' = [answered EXCEPT ![c] = @ + 1]
  BY DEF ControlReply, propVars, Types, Handshake
<1>2. InOnePlace(c) /\ answered[c] = 0 /\ c \in asked /\ c \notin Queued /\ req.from # c
  BY <1>1 DEF Messages, InOnePlace
<1>3. /\ answered' \in [CtlClients -> {0, 1}] /\ answered'[c] = 1
      /\ \A x \in CtlClients \ {c} : answered'[x] = answered[x]
  BY <1>1, <1>2, Answer
<1>4. Queued' = Queued
  BY <1>1 DEF Queued
<1>5. ASSUME NEW x \in CtlClients PROVE InOnePlace(x)'
  <2>1. InOnePlace(x) /\ serving' # x
    BY <1>1, ClientNames DEF Messages
  <2>2. CASE x = c
    BY <1>1, <1>2, <1>3, <1>4, <2>1, <2>2 DEF InOnePlace
  <2>3. CASE x # c
    BY <1>1, <1>3, <1>4, <2>1, <2>3 DEF InOnePlace
  <2> QED BY <2>2, <2>3
<1> QED BY <1>1, <1>3, <1>5 DEF Messages

\* Every step keeps a message in one place.
LEMMA StepMessages == ASSUME Types, Messages, [Next]_vars PROVE Messages'
<1>1. CASE PropertyThread \/ HandlePropertySet \/ HandleControlSet
  BY <1>1, ServingKeeps, HandOver DEF PropertyThread
<1>2. CASE HandleControlMessages \/ ControlReply
  BY <1>2, TakeOver, ReplyOnce
<1>3. CASE \/ CheckShutdown \/ PowerctlRejected \/ StopSendingMessages \/ Shutdown
           \/ HandleUserspaceReboot \/ ShutdownDone \/ Commands \/ Dequeue \/ Execute
           \/ StartWaiting \/ StopUserspace \/ HasMoreCommands \/ EpollWait \/ Callbacks
  <2>1. UNCHANGED <<answered, asked, ctlQueue, serving, req>>
    BY <1>3 DEF CheckShutdown, PowerctlRejected, StopSendingMessages, Shutdown,
       HandleUserspaceReboot, ShutdownDone, Commands, Dequeue, Execute, StartWaiting,
       StopUserspace, HasMoreCommands, EpollWait, Callbacks, propVars, clientVars
  <2>2. mpc \notin {"CtlReply", "SetProperty"}
    BY <1>3 DEF CheckShutdown, PowerctlRejected, StopSendingMessages, Shutdown,
       HandleUserspaceReboot, ShutdownDone, Commands, Dequeue, Execute, StartWaiting,
       StopUserspace, HasMoreCommands, EpollWait, Callbacks
  <2>3. serving = "none"
    BY <2>2 DEF Messages, Handling
  <2> QED BY <2>1, <2>3, MessagesFrame
<1>4. CASE ExecExits \/ WatchdogExpires \/ UNCHANGED vars
  <2>1. UNCHANGED <<answered, asked, ctlQueue, serving, req, mpc, todo>>
    BY <1>4 DEF ExecExits, WatchdogExpires, vars, propVars, clientVars, mainVars
  <2>2. serving = "none" \/ Handling'
    BY <2>1 DEF Messages, Handling
  <2> QED BY <2>1, <2>2, MessagesFrame
<1> QED BY <1>1, <1>2, <1>3, <1>4 DEF Next, MainThread, Environment

\* The same counted.
LEMMA OnePlaceCounted ==
  ASSUME Types, Messages
  PROVE  ControlAnsweredOnce
<1> SUFFICES ASSUME NEW c \in CtlClients
             PROVE  Cardinality({i \in DOMAIN ctlQueue : ctlQueue[i] = c}) + answered[c]
                      + (IF req.from = c THEN 1 ELSE 0) + (IF serving = c THEN 1 ELSE 0)
                    = (IF c \in asked THEN 1 ELSE 0)
  BY DEF ControlAnsweredOnce
<1> DEFINE at == {i \in DOMAIN ctlQueue : ctlQueue[i] = c}
<1>1. Cardinality(at) = IF c \in Queued THEN 1 ELSE 0
  <2>1. CASE c \notin Queued
    <3>1. at = {}
      BY <2>1 DEF Queued, Elems
    <3>2. Cardinality({}) = 0
      BY FS_EmptySet
    <3> HIDE DEF at
    <3> QED BY <2>1, <3>1, <3>2
  <2>2. CASE c \in Queued
    <3>1. PICK k \in DOMAIN ctlQueue : ctlQueue[k] = c
      BY <2>2 DEF Queued, Elems
    <3>2. at = {k}
      BY <3>1 DEF Messages, NoRepeats
    <3>3. Cardinality({k}) = 1
      BY FS_Singleton
    <3> HIDE DEF at
    <3> QED BY <2>2, <3>2, <3>3
  <2> QED BY <2>1, <2>2
<1> HIDE DEF at
<1>2. InOnePlace(c) /\ answered[c] \in {0, 1}
  BY DEF Messages
<1>3. Cardinality(at) + answered[c] + (IF req.from = c THEN 1 ELSE 0)
        + (IF serving = c THEN 1 ELSE 0) = (IF c \in asked THEN 1 ELSE 0)
  BY <1>1, <1>2 DEF InOnePlace
<1> QED BY <1>3 DEF at

\* A control message is in one place until it is answered, and is answered once, however
\* the two threads interleave and whether it is queued, does not fit or comes during a
\* shutdown: the client's socket is neither leaked nor answered twice.
THEOREM ControlAlwaysAnsweredOnce == Spec => []ControlAnsweredOnce
<1>1. Init => Messages
  <2> SUFFICES ASSUME Init PROVE Messages
    OBVIOUS
  <2>1. /\ answered = [c \in CtlClients |-> 0] /\ asked = {} /\ ctlQueue = <<>>
        /\ serving = "none" /\ req = NoReq
    BY DEF Init
  <2>2. Queued = {}
    BY <2>1, ShortElems DEF Queued
  <2>3. NoRepeats(ctlQueue)
    BY <2>1, <2>2 DEF NoRepeats, Queued, Elems
  <2>4. ASSUME NEW c \in CtlClients PROVE InOnePlace(c)
    BY <2>1, <2>2, ClientNames DEF InOnePlace
  <2> QED BY <2>1, <2>3, <2>4 DEF Messages
<1>2. Inv /\ Messages /\ [Next]_vars => Messages'
  BY StepMessages DEF Inv
<1>3. Inv /\ Messages => ControlAnsweredOnce
  BY OnePlaceCounted DEF Inv
<1> QED BY <1>1, <1>2, <1>3, InvHolds, PTL DEF Spec
=============================================================================
