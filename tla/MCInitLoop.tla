---------------------------- MODULE MCInitLoop ----------------------------
(***************************************************************************)
(* Small instances of InitLoop: a boot script of five actions that uses     *)
(* every command, two properties besides ro.cold_boot_done, and three       *)
(* control clients for a queue that holds two messages.                     *)
(***************************************************************************)
EXTENDS InitLoop

MCProps == {ColdBootDone, "p", "q"}
MCValues == {"", "true", "1", "2"}
MCReadOnly == {ColdBootDone}

\* The events the policy admits; "init", "boot" and "userspace-reboot-requested" are
\* triggered as well.
MCEvents == {"early-init", "late-init", "shutdown", "userspace-reboot-resume"}

MCActions == <<"early", "late", "pq", "shut", "resume">>
MCEventTrigger ==
  [a \in ActionIds |->
     CASE a = "early" -> "early-init" [] a = "late" -> "late-init" [] a = "shut" -> "shutdown"
       [] a = "resume" -> "userspace-reboot-resume" [] OTHER -> ""]
NoProps == [n \in {} |-> ""]
MCPropTriggers ==
  [a \in ActionIds |-> IF a = "pq" THEN [p |-> "1", q |-> "1"] ELSE NoProps]

Do(op, name, value) == [op |-> op, name |-> name, value |-> value]
MCCommands ==
  [a \in ActionIds |->
     CASE a = "early"  -> <<Do("setprop", "p", "1")>>
       [] a = "late"   -> <<Do("exec", "", "")>>
       [] a = "pq"     -> <<Do("nop", "", ""), Do("trigger", "boot", "")>>
       [] a = "shut"   -> <<Do("setprop", "q", "1")>>
       [] a = "resume" -> <<Do("wait_for_prop", "q", "1"), Do("trigger_shutdown", "", "reboot")>>]

\* Clients may set these, and move p away from the value "pq" asks for; ueventd reports the
\* end of the cold boot.
MCClientSets == {<<ColdBootDone, "true">>, <<"q", "1">>, <<"p", "2">>}
MCPower == {"reboot,recovery", "reboot,userspace"}
=============================================================================
