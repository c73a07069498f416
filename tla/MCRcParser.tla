----------------------------- MODULE MCRcParser -----------------------------
(* A few policies and a few sets of lines; the files of a behaviour are all  *)
(* sequences of lines from one set.                                          *)
EXTENDS RcParser, TLC

MCSymbols == {"/", "*", ".", "!", "--", "a", "b", "x", "y", "z", "sh", "rm", "boot", "p", "off", "none", "true",
              "init", "init.rc", "system", "system_ext", "vendor", "odm", "product", "apex"}
P(a, b) == <<"/", a, "/", b>>
Text(p) == [kind |-> "text", text |-> p]
Prop(n, d) == [kind |-> "prop", name |-> n, default |-> d]
E(tag, attrs) == [tag |-> tag, attrs |-> attrs]
Section(tag, es) == [tag |-> tag, elements |-> es]
Doc(attrs, ss) == [tag |-> "innit", attrs |-> attrs, sections |-> ss]

Allow(a, p) == E("allow", a :> p)
Deny(a, p) == E("deny", a :> p)
Strict ==
  Doc("rebootOnFailure" :> "log",
      <<Section("identity", <<>>),
        Section("rc-policy", <<Allow("path", <<"/", "system", "/", "*">>),
                               Deny("path", <<"/", "*", "/", "x">>), Allow("path", <<"/", "apex", "*", "*">>)>>),
        Section("service-policy", <<Allow("name", <<"a">>)>>),
        Section("failure-policy", <<E("service", "name" :> <<"a">> @@ "rebootOnFailure" :> "reboot"),
                                    E("service", "name" :> <<"*">> @@ "rebootOnFailure" :> "ignore")>>),
        Section("logging", <<E("path", "value" :> "log")>>)>>)
Lenient ==
  Doc("defaultRc" :> "allow" @@ "defaultService" :> "allow" @@ "selinuxMode" :> "permissive",
      <<Section("rc-policy", <<Deny("path", <<"/", "*", "/", "x">>), Allow("path", <<"*", "*", "/", "x">>)>>),
        Section("service-policy", <<Deny("name", <<"b">>), Allow("name", <<"*">>)>>),
        Section("exec-policy", <<Allow("path", <<"sh">>)>>),
        Section("command-policy", <<E("deny", "verb" :> "stop"), E("deny", "verb" :> "exec_background"),
                                    E("deny", "verb" :> "trigger" @@ "arg" :> <<"boot">>)>>),
        Section("failure-policy", <<E("service", "name" :> <<"a">> @@ "rebootOnFailure" :> "log")>>)>>)
Malformed == Doc("defaultRc" :> "allow", <<Section("rc-policy", <<E("permit", "path" :> <<"a">>)>>)>>)

Svc(n) == [key |-> "service", words |-> 2, name |-> <<n>>]
O(k) == [key |-> k, n |-> 0]
Opt(k, n, more) == [key |-> k, n |-> n] @@ more
Num(k, v) == Opt(k, 1, [v |-> v])
On(ts) == [key |-> "on", triggers |-> ts]
Event == [kind |-> "event", legal |-> TRUE, name |-> <<"boot">>, equals |-> FALSE, partner |-> FALSE]
Property(n) == [Event EXCEPT !.kind = "property", !.name = n, !.equals = TRUE]
AndAnd == [Event EXCEPT !.kind = "&&"]
Import(p) == [key |-> "import", word |-> p]
Cmd(v, as) == [key |-> "command", builtin |-> TRUE, verb |-> v, args |-> as]
Command == Cmd("trigger", <<<<"boot">>>>)
Exec(as) == Cmd("exec", as)

\* One set for each group of options that know of each other.
OptionAlphabets ==
  {{Svc("a"), O("override"), O("console"), O("stdio_to_kmsg"), O("oneshot"), Opt("critical", 0, [args |-> <<>>]),
    Opt("critical", 1, [args |-> <<[key |-> "window", word |-> <<Text(<<"off">>)>>, minutes |-> -1]>>])},
   {Svc("a"), Num("priority", 20), Num("oom_score_adjust", 1001), Num("restart_period", 5),
    Num("memcg.swappiness", 0), Opt("ioprio", 2, [v |-> 7, class |-> "none"]),
    Opt("ioprio", 2, [v |-> 8, class |-> "rt"]),
    Opt("rlimit", 3, [named |-> FALSE, v |-> 16, soft |-> 1, hard |-> 1])},
   {Svc("a"), Opt("socket", 3, [name |-> "s", valid |-> TRUE]),
    Opt("file", 2, [type |-> "r", word |-> <<Text(<<"/">>), Prop(<<"p">>, <<>>)>>]),
    Opt("file", 2, [type |-> "x", word |-> <<Text(<<"/">>)>>]),
    Opt("keycodes", 2, [word |-> <<>>, codes |-> <<2, 1>>]),
    Opt("keycodes", 1, [word |-> <<Prop(<<"q">>, <<"none">>)>>, codes |-> <<>>]),
    Opt("keycodes", 2, [word |-> <<>>, codes |-> <<1, 3>>])},
   {Svc("a"), Opt("group", 3, [ids |-> <<"g", "unknown", "h">>]), Opt("user", 1, [id |-> "unknown"]),
    Opt("capabilities", 2, [caps |-> <<"NET", "unknown">>]), Opt("class", 1, [names |-> {"core"}]),
    Opt("onrestart", 1, [builtin |-> TRUE]), Opt("setenv", 1, [none |-> 0])},
   {Svc("a"), Opt("namespace", 2, [types |-> <<"pid", "net">>]), Opt("enter_namespace", 2, [type |-> "net"]),
    Opt("shutdown", 1, [type |-> "critical"]), O("disabled"), O("sigstop")}}
Overrides == {Svc("a"), O("override"), O("updatable"), O("console"),
              Opt("interface", 2, [interface |-> "i", qualified |-> TRUE]), Svc("b")}
Gated == {Svc("a"), Svc("b"), Svc("!"), O("override"), Import(<<Text(P("vendor", "x"))>>),
          Opt("reboot_on_failure", 1, [target |-> "reboot"])}
Imports == {Svc("a"), Import(<<Text(P("system", "y"))>>), Import(<<Text(P("system", "y") \o <<"/", "z">>)>>),
            Import(<<Text(<<"/">>), Prop(<<"p">>, <<>>), Text(<<"/", "x">>)>>),
            Import(<<Text(<<"/">>), Prop(<<"unset">>, <<>>)>>), On(<<Event>>), Command}
Triggers == {On(<<Event, AndAnd, Property(<<"p">>)>>), On(<<Property(<<"p">>), AndAnd, Property(<<"p">>)>>), On(<<AndAnd>>),
             On(<<>>), Command, Cmd("stop", <<<<"a">>>>), Cmd("exec_background", <<<<"sh">>>>),
             Exec(<<<<"sh">>>>), Exec(<<<<"sh">>, <<"--">>, <<"rm">>>>)}

S(i, v, d, a) == [innit |-> i, api |-> v, doc |-> d, alphabet |-> a]
MCScenarios ==
  {S(TRUE, 30, Absent, a) : a \in OptionAlphabets}
    \cup {S(FALSE, 29, Absent, a) : a \in {Overrides, Imports}}
    \cup {S(TRUE, v, d, a) : v \in {29, 30}, d \in {Strict, Lenient}, a \in {Gated, Imports, Triggers}}
    \cup {S(TRUE, 30, Malformed, Triggers)}

MCDirs == P("system", "init") :> <<P("system", "x")>> @@ P("vendor", "init") :> <<P("vendor", "y")>>
            @@ P("odm", "init") :> <<>>
MCUnreadable == {P("system_ext", "init"), P("product", "init")}
MCUnmounted == {P("vendor", "init")}
MCVendor == {P("vendor", "init"), P("vendor", "x"), P("vendor", "y")}
MCApexFiles == <<P("apex", "z")>>
MCReadable == {<<"p">>}
MCRcPaths == {<<>>, <<P("vendor", "x")>>}
MCProperties == <<"p">> :> <<"vendor">> @@ Actionable :> <<"true">>
MCInitScripts == {<<>>, P("vendor", "x")}
=============================================================================
