------------------------------ MODULE MCReboot ------------------------------
(***************************************************************************)
(* A small instance of Reboot: an application, logd, vold and watchdogd.   *)
(***************************************************************************)
EXTENDS Reboot

Request(v, a) == [verb |-> v, arg |-> a]
MCCommands == {Request("shutdown", "userrequested"),
               Request("reboot", "recovery"),
               Request("reboot", "userspace"), Request("other", "")}
MCStuck == {{}, {"app"}}
MCBcb == {"broken"}
MCFatal == [arg |-> "", cmdline |-> "", bootconfig |-> "fastboot", panic |-> TRUE]
=============================================================================
