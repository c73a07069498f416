---------------------------- MODULE MCSubcontext ----------------------------
(* A vendor action with a command of every kind.                             *)
EXTENDS Subcontext

C(where, op) == [where |-> where, op |-> op]
MCScript == <<C("subcontext", "setprop"), C("init", "nop"), C("subcontext", "setprop ctl"),
              C("subcontext", "long"), C("init", "fail"), C("subcontext", "shutdown")>>
=============================================================================
