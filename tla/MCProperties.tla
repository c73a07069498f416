---------------------------- MODULE MCProperties ----------------------------
(* Two stored properties, one of them with a default and a legacy file.      *)
EXTENDS Properties

Set2(n, v) == [cmd |-> "SETPROP2", name |-> n, value |-> v]

MCDefaults == [n \in Persist |-> IF n = "persist.p" THEN "1" ELSE Unset]
MCLegacy == [n \in Persist |-> "1"]
MCLocalProp == <<<<"persist.q", "2">>, <<"persist.q", "long">>>>
\* Of a client that trickles it; the others send theirs at once, or never.
Trickled == Set2(".x", "1")
MCRequests ==
  {Set2("persist.p", "2"), Set2(Restorecon, "/a"),
   [cmd |-> "SETPROP", name |-> "persist.q", value |-> "2"], Trickled,
   [cmd |-> "unknown", name |-> "", value |-> "1"]}
MCPartSize == [r \in Requests |-> IF r = Trickled THEN 2 ELSE 1]
MCWaits == [r \in Requests |-> IF r = Trickled THEN {1, 3} ELSE {0}]
MCGranted == {<<"persist.p">>, <<"persist.q">>, <<"ro.x">>, <<Restorecon>>, <<"ctl", "1">>}
MCTypeOf == [n \in Names |-> IF n = "persist.q" THEN "enum" ELSE "string"]
MCAdmits == [t \in {"enum"} |-> {"1", "2"}]
=============================================================================
