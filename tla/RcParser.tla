------------------------------ MODULE RcParser ------------------------------
(***************************************************************************)
(* How the .rc files become the service list and the action list:          *)
(* parser.cpp, the section parsers service_parser.cpp, action_parser.cpp   *)
(* and import_parser.cpp, and the places that call them: LoadBootScripts,  *)
(* import_late (mount_all) and parse_apex_configs (perform_apex_config).   *)
(*                                                                         *)
(* A parser reads one file at a time, line by line; the files a file       *)
(* imports follow it, before whatever else is waiting.  The section        *)
(* parsers are objects that live as long as the parser: what a section     *)
(* leaves in them is there when the next section, or the next file,        *)
(* begins.  An error is logged and parsing goes on.                        *)
(***************************************************************************)
EXTENDS Integers, Sequences, FiniteSets, SequencesExt, InnitPolicy

CONSTANTS
  Symbols,     \* what names and paths are made of
  Scenarios,   \* set of [innit, api, doc, alphabet]: is ANDROID_INIT_INNIT defined, what
               \* SelinuxGetVendorAndroidVersion() returns, innit.xml (an element tree, or
               \* Absent) and the lines the files are made of
  MaxLines,    \* bound: lines read in all
  InitScripts, \* the values ro.boot.init_rc may have; <<>>: it is not set
  Dirs,        \* [directory -> Seq of the regular files in it, sorted]
  Unreadable,  \* files and directories that cannot be opened
  Unmounted,   \* those that cannot before mount_all has mounted their partition
  Vendor,      \* paths the subcontext's prefixes match
  ApexFiles,   \* Seq of the files /apex/*/etc/*.rc, versioned paths left out
  RcPaths,     \* the rc paths a mount_all may name: set of Seq(path)
  Properties,  \* [property -> value (a path)]: those that are set
  Readable     \* properties vendor_init may read

Absent == [tag |-> "absent"]
API_P == 28
API_Q == 29
API_R == 30
InitRc == <<"/", "system", "/", "init.rc">>
BootDirs == <<<<"/", "system", "/", "init">>, <<"/", "system_ext", "/", "init">>,
              <<"/", "vendor", "/", "init">>, <<"/", "odm", "/", "init">>,
              <<"/", "product", "/", "init">>>>
SystemExt == <<"/", "system_ext", "/", "init">>

ASSUME RcParserConstants ==
  /\ MaxLines \in Nat
  /\ \A s \in Scenarios : s.innit \in BOOLEAN /\ s.api \in Nat
  /\ Vendor \cap {InitRc} = {}

Path == Seq(Symbols)
IsList(x) == x \in Seq(Range(x))

\* A word of an import: pieces of text and properties with their defaults.
IsWord(w) ==
  /\ IsList(w)
  /\ \A i \in DOMAIN w : IF w[i].kind = "text" THEN w[i].text \in Path
                         ELSE w[i].kind # "unclosed" => w[i].default \in Path
IsLine(l) ==
  /\ l.key = "service" => l.name \in Path
  /\ l.key = "import" => IsWord(l.word)
  /\ l.key = "command" => l.args \in Seq(Path)
\* An element tree, with patterns for rules.
IsDoc(d) ==
  /\ IsList(d.sections)
  /\ \A i \in DOMAIN d.sections :
       /\ IsList(d.sections[i].elements)
       /\ \A j \in DOMAIN d.sections[i].elements, g \in Gates :
            LET e == d.sections[i].elements[j] IN
            d.sections[i].tag = SectionOf[g] /\ Has(e, RuleAttr[g]) => e.attrs[RuleAttr[g]] \in Path

ASSUME FilesAssumption ==
  /\ \A s \in Scenarios : /\ s.doc = Absent \/ IsDoc(s.doc)
                          /\ \A l \in s.alphabet : IsLine(l)
  /\ InitRc \in Path /\ BootDirs \in Seq(Path)
  /\ \A d \in DOMAIN Dirs : Dirs[d] \in Seq(Path)
  /\ ApexFiles \in Seq(Path) /\ RcPaths \subseteq Seq(Path)
  /\ \A p \in DOMAIN Properties : Properties[p] \in Path

ASSUME ScriptsAssumption == InitScripts \subseteq Path

VARIABLES
  innit,      \* the build
  api,        \* the release of the vendor partition
  doc,        \* innit.xml
  alphabet,   \* the lines of this behaviour
  policy,     \* g_policy
  phase,      \* start, boot, running, halted
  parser,     \* full, or services (CreateServiceOnlyParser)
  work,       \* Seq of [path, late]: what the current caller and the imports still have to parse
  file,       \* the file being read; <<>>: none
  section,    \* the active section parser; none
  service_,   \* ServiceParser::service_; NoService
  denied,     \* ServiceParser::innit_service_denied_
  action_,    \* ActionParser::action_; NoAction
  imports_,   \* ImportParser::imports_
  services,   \* ServiceList
  actions,    \* ActionManager::actions_
  latePaths,  \* late_import_paths
  mounted,    \* mount_all has run
  apexDone,   \* perform_apex_config has run
  ran,        \* history: the commands that were carried out
  lines,      \* bound: lines read
  sections    \* history: sections begun

boot == <<innit, api, doc, alphabet, policy, phase>>
lists == <<services, actions>>
parsing == <<section, service_, denied, action_, imports_>>
vars == <<boot, parser, work, file, parsing, lists, latePaths, mounted, apexDone, ran, lines, sections>>

NoService == [name |-> <<>>]
NoAction == [cmds |-> <<>>, sec |-> 0]

Init ==
  /\ \E s \in Scenarios :
       innit = s.innit /\ api = s.api /\ doc = s.doc /\ alphabet = s.alphabet
  /\ policy = NoPolicy /\ phase = "start" /\ parser = "full"
  /\ work = <<>> /\ file = <<>>
  /\ section = "none" /\ service_ = NoService /\ denied = FALSE
  /\ action_ = NoAction /\ imports_ = <<>>
  /\ services = <<>> /\ actions = <<>> /\ latePaths = <<>>
  /\ mounted = FALSE /\ apexDone = FALSE /\ ran = {} /\ lines = 0 /\ sections = 0
-----------------------------------------------------------------------------
(* Property expansion: a word is a sequence of pieces, text or ${name}.      *)

Error == [ok |-> FALSE, value |-> <<>>]
Value(p) == IF p.name \in DOMAIN Properties THEN Properties[p.name] ELSE <<>>

\* $name takes the rest of the word and is refused from R on; an unset property
\* gives its default, an error without one.
ExpandPiece(dst, p) ==
  IF ~dst.ok THEN dst ELSE
  CASE p.kind = "text" -> [dst EXCEPT !.value = @ \o p.text]
    [] p.kind = "unclosed" \/ (p.kind = "bare" /\ api >= API_R) -> Error
    [] OTHER ->
         LET value == IF Value(p) # <<>> THEN Value(p) ELSE p.default IN
         IF p.name = <<>> \/ value = <<>> THEN Error ELSE [dst EXCEPT !.value = @ \o value]
ExpandProps(word) ==
  LET expand[i \in 0..Len(word)] ==
        IF i = 0 THEN [ok |-> TRUE, value |-> <<>>] ELSE ExpandPiece(expand[i - 1], word[i])
  IN expand[Len(word)]

\* Symbols other than ".", "/", "*" and "!" stand for characters that are legal.
IsLegalPropertyName(name) ==
  /\ name # <<>> /\ name[1] # "." /\ Last(name) # "."
  /\ \A i \in DOMAIN name : name[i] \notin {"/", "*", "!"} /\ (name[i] = "." => name[i - 1] # ".")
\* Symbols have no length: PROP_VALUE_MAX, which bounds the name, is left out.
IsValidName(name) == IsLegalPropertyName(<<"init.svc", ".">> \o name)

PathMatchesSubcontext(path) == path \in Vendor /\ api >= API_P
-----------------------------------------------------------------------------
(* The options of a service.  An option is [key, n] with n its arguments'    *)
(* number, and whatever the parser of that option looks at.  An option that  *)
(* is refused leaves the service as it is, with the exceptions seen below.   *)

NewService(l) ==
  [name |-> l.name, vendor |-> PathMatchesSubcontext(file), apex |-> file[2] = "apex",
   file |-> file, sec |-> sections + 1, lines |-> {},
   flags |-> {}, numbers |-> [k \in {} |-> 0], ioclass |-> "none",
   sockets |-> {}, files |-> {}, keycodes |-> {}, interfaces |-> {}, capabilities |-> {"all"},
   namespaces |-> {}, enter |-> 0, onrestart |-> 0, reboot |-> FALSE,
   classes |-> {"default"}, groups |-> <<>>]

Many == 99
Arity(key) ==
  CASE key \in {"disabled", "oneshot", "override", "sigstop", "stdio_to_kmsg", "updatable"} -> <<0, 0>>
    [] key = "console" -> <<0, 1>>
    [] key = "critical" -> <<0, 2>>
    [] key = "capabilities" -> <<0, Many>>
    [] key \in {"class", "keycodes", "onrestart", "task_profiles", "writepid"} -> <<1, Many>>
    [] key = "group" -> <<1, 13>>
    [] key = "namespace" -> <<1, 2>>
    [] key \in {"enter_namespace", "file", "interface", "ioprio", "setenv"} -> <<2, 2>>
    [] key = "rlimit" -> <<3, 3>>
    [] key = "socket" -> <<3, 6>>
    [] key \in {"memcg.limit_in_bytes", "memcg.limit_percent", "memcg.limit_property",
                "memcg.soft_limit_in_bytes", "memcg.swappiness", "oom_score_adjust", "priority",
                "reboot_on_failure", "restart_period", "seclabel", "shutdown", "timeout_period",
                "user"} -> <<1, 1>>
    [] OTHER -> <<1, 0>>
Find(l) == LET a == Arity(l.key) IN a[1] <= a[2] /\ l.n \in a[1]..a[2]

\* ParseInt with these bounds; text that is not a number is below all of them.
NotANumber == -99999
Bounds == [priority |-> <<-20, 19>>, ioprio |-> <<0, 7>>, oom_score_adjust |-> <<-1000, 1000>>,
           restart_period |-> <<5, 99999>>, timeout_period |-> <<1, 99999>>, memcg |-> <<0, 99999>>,
           rlimit |-> <<0, 15>>]
ParseInt(kind, v) == v \in Bounds[kind][1]..Bounds[kind][2]
SetNumber(s, key, v) ==
  [s EXCEPT !.numbers = [k \in DOMAIN @ \cup {key} |-> IF k = key THEN v ELSE @[k]]]
Flag(s, f) == [s EXCEPT !.flags = @ \cup f]

ParseConsole(s) == IF "stdio_to_kmsg" \in s.flags THEN s ELSE Flag(s, {"console"})
ParseStdioToKmsg(s) == IF "console" \in s.flags THEN s ELSE Flag(s, {"stdio_to_kmsg"})

\* An argument is target=<x>, window=<minutes> or something else; a window that is
\* "off" returns before the flag is set.
ParseCritical(s, l) ==
  IF \A i \in DOMAIN l.args :
       \/ l.args[i].key = "target"
       \/ /\ l.args[i].key = "window" /\ ExpandProps(l.args[i].word).ok
          /\ l.args[i].minutes \in 0..99999
  THEN Flag(s, {"critical"}) ELSE s

\* A priority out of range leaves 0.
ParsePriority(s, l) == SetNumber(s, l.key, IF ParseInt(l.key, l.v) THEN l.v ELSE 0)
ParseOomScoreAdjust(s, l) == IF ParseInt(l.key, l.v) THEN SetNumber(s, l.key, l.v) ELSE s
ParseRestartPeriod(s, l) == IF ParseInt(l.key, l.v) THEN SetNumber(s, l.key, l.v) ELSE s
ParseTimeoutPeriod(s, l) == IF ParseInt(l.key, l.v) THEN SetNumber(s, l.key, l.v) ELSE s
ParseMemcg(s, l) == IF ParseInt("memcg", l.v) THEN SetNumber(s, l.key, l.v) ELSE s

\* The priority is stored before the class is looked at.
ParseIoprio(s, l) ==
  IF ~ParseInt("ioprio", l.v) THEN s
  ELSE [SetNumber(s, "ioprio", l.v) EXCEPT
          !.ioclass = IF l.class \in {"rt", "be", "idle"} THEN l.class ELSE @]

ParseProcessRlimit(s, l) ==
  IF /\ (IF l.named THEN l.v # NotANumber ELSE ParseInt("rlimit", l.v))
     /\ l.soft # NotANumber /\ l.hard # NotANumber
  THEN SetNumber(s, "rlimit", l.v) ELSE s

ParseCapabilities(s, l) ==
  LET valid == {i \in DOMAIN l.caps : \A j \in 1..i : l.caps[j] # "unknown"} IN
  [s EXCEPT !.capabilities = {l.caps[i] : i \in valid}]

\* Codes are taken up to the first that is invalid or already there; the vector is
\* kept sorted, which makes it a set.
ParseKeycodes(s, l) ==
  LET expanded == ExpandProps(l.word)   \* a single ${property}; empty: codes written out
      codes == IF ~expanded.ok \/ expanded.value = <<"none">> THEN <<>> ELSE l.codes
      fine == {i \in DOMAIN codes : \A j \in 1..i :
                 /\ codes[j] \in 0..767
                 /\ codes[j] \notin s.keycodes \cup {codes[k] : k \in 1..(j - 1)}}
  IN [s EXCEPT !.keycodes = @ \cup {codes[i] : i \in fine}]

ParseGroup(s, l) ==
  LET known == {i \in DOMAIN l.ids : \A j \in 1..i : l.ids[j] # "unknown"} IN
  IF known = {} THEN s
  ELSE [s EXCEPT !.groups = <<l.ids[1]>> \o (IF @ = <<>> THEN <<>> ELSE Tail(@))
                              \o SubSeq(l.ids, 2, Cardinality(known))]

\* Any service of the list counts, the one about to be overridden too.
ParseInterface(s, l) ==
  IF \/ ~l.qualified
     \/ \E i \in DOMAIN services : l.interface \in services[i].interfaces
  THEN s ELSE [s EXCEPT !.interfaces = @ \cup {l.interface}]

ParseEnterNamespace(s, l) ==
  IF l.type # "net" \/ s.enter > 0 THEN s
  ELSE [s EXCEPT !.namespaces = @ \cup {"mnt"}, !.enter = @ + 1]

ParseNamespace(s, l) ==
  LET known == {i \in DOMAIN l.types : \A j \in 1..i : l.types[j] \in {"pid", "mnt"}} IN
  [s EXCEPT !.namespaces = @ \cup {l.types[i] : i \in known}
                             \cup (IF known = {} THEN {} ELSE {"mnt"})]

ParseSocket(s, l) ==
  IF l.valid /\ l.name \notin s.sockets THEN [s EXCEPT !.sockets = @ \cup {l.name}] ELSE s

ParseFile(s, l) ==
  LET name == ExpandProps(l.word) IN
  IF /\ l.type \in {"r", "w", "rw"} /\ name.ok
     /\ name.value # <<>> /\ name.value[1] = "/" /\ ".." \notin Range(name.value)
     /\ name.value \notin s.files
  THEN [s EXCEPT !.files = @ \cup {name.value}] ELSE s

\* The policy has the last word on reboot_on_failure.
ParseRebootOnFailure(s, l) ==
  IF \/ InnitPolicyIsActive(policy) /\ GetFailureAction(policy, s.name) # "reboot"
     \/ s.reboot
     \/ l.target \notin {"shutdown", "reboot"}
  THEN s ELSE [s EXCEPT !.reboot = TRUE]

\* A command for onrestart must be one of the builtins, with the right arguments.
ParseOnrestart(s, l) == IF l.builtin THEN [s EXCEPT !.onrestart = @ + 1] ELSE s

ParseClass(s, l) == [s EXCEPT !.classes = l.names]
ParseDisabled(s) == Flag(s, {"disabled", "rc_disabled"})
ParseShutdown(s, l) == IF l.type = "critical" THEN Flag(s, {"shutdown_critical"}) ELSE s
\* A user that does not exist leaves the service with the default, root.
ParseUser(s, l) == IF l.id = "unknown" THEN s ELSE Flag(s, {"user"})
Replaced(s, l) == Flag(s, {l.key})

ParseOption(s, l) ==
  CASE l.key = "console" -> ParseConsole(s)
    [] l.key = "stdio_to_kmsg" -> ParseStdioToKmsg(s)
    [] l.key = "critical" -> ParseCritical(s, l)
    [] l.key = "disabled" -> ParseDisabled(s)
    [] l.key \in {"oneshot", "override", "sigstop", "updatable"} -> Flag(s, {l.key})
    [] l.key = "shutdown" -> ParseShutdown(s, l)
    [] l.key = "class" -> ParseClass(s, l)
    [] l.key = "capabilities" -> ParseCapabilities(s, l)
    [] l.key = "group" -> ParseGroup(s, l)
    [] l.key = "user" -> ParseUser(s, l)
    [] l.key = "interface" -> ParseInterface(s, l)
    [] l.key = "ioprio" -> ParseIoprio(s, l)
    [] l.key = "keycodes" -> ParseKeycodes(s, l)
    [] l.key = "onrestart" -> ParseOnrestart(s, l)
    [] l.key = "enter_namespace" -> ParseEnterNamespace(s, l)
    [] l.key = "namespace" -> ParseNamespace(s, l)
    [] l.key = "rlimit" -> ParseProcessRlimit(s, l)
    [] l.key = "socket" -> ParseSocket(s, l)
    [] l.key = "file" -> ParseFile(s, l)
    [] l.key = "reboot_on_failure" -> ParseRebootOnFailure(s, l)
    [] l.key = "priority" -> ParsePriority(s, l)
    [] l.key = "oom_score_adjust" -> ParseOomScoreAdjust(s, l)
    [] l.key = "restart_period" -> ParseRestartPeriod(s, l)
    [] l.key = "timeout_period" -> ParseTimeoutPeriod(s, l)
    [] l.key \in {"setenv", "seclabel", "task_profiles", "writepid", "memcg.limit_property"} ->
         Replaced(s, l)
    [] OTHER -> ParseMemcg(s, l)
-----------------------------------------------------------------------------
(* The section parsers.                                                      *)

FindService(name) == {i \in DOMAIN services : services[i].name = name}

\* EndSection of the service parser: the list with the new definition in it, or the
\* list as it was when the definition is refused.
MayReplace(s, old) ==
  /\ "override" \in s.flags
  /\ s.apex => "updatable" \in old.flags
  /\ s.vendor = old.vendor

Accepted_Critical(s) == \A i \in FindService(s.name) : MayReplace(s, services[i])
Accepted(s) ==
  /\ ~(api >= API_R /\ {"critical", "oneshot"} \subseteq s.flags)
  /\ \A i \in FindService(s.name) : MayReplace(s, services[i])

RemoveService(name) ==
  LET old == FindService(name) IN
  IF old = {} THEN services
  ELSE RemoveAt(services, CHOOSE i \in old : \A j \in old : i <= j)

\* Without a command an action is not added; it stays in the parser, as a service
\* does that is refused.
Ended ==
  LET added == section = "service" /\ ~denied /\ service_ # NoService /\ Accepted(service_)
      complete == section = "on" /\ action_.cmds # <<>>
  IN [services |-> IF added
                   THEN Append(RemoveService(service_.name), service_)
                   ELSE services,
      service |-> IF added \/ (section = "service" /\ denied) THEN NoService ELSE service_,
      denied |-> denied /\ section # "service",
      actions |-> IF complete THEN Append(actions, action_) ELSE actions,
      action |-> IF complete THEN NoAction ELSE action_]

EndSection == services' = Ended.services /\ actions' = Ended.actions

\* Vendor actions may be triggered by properties vendor code owns or may read, where
\* the device asks for that.
Actionable == <<"ro.actionable_compatible_property.enabled">>
IsActionableProperty(t, vendor) ==
  vendor /\ Actionable \in DOMAIN Properties => t.partner \/ t.name \in Readable
\* Every second word is "&&"; in another place it is taken for an event, which before R
\* may have any name.
ParseTriggers(ts, vendor) ==
  LET terms == {i \in DOMAIN ts : i % 2 = 1}
      props == {i \in terms : ts[i].kind = "property"}
      events == terms \ props
  IN /\ ts # <<>>
     /\ \A i \in DOMAIN ts \ terms : ts[i].kind = "&&"
     /\ Cardinality(events) <= 1
     /\ api >= API_R => \A i \in events : ts[i].kind = "event" /\ ts[i].legal
     /\ \A i \in props : ts[i].equals /\ IsActionableProperty(ts[i], vendor)
     /\ \A i, j \in props : ts[i].name = ts[j].name => i = j

NewAction(l) ==
  [cmds |-> <<>>, triggers |-> l.triggers, vendor |-> PathMatchesSubcontext(file), file |-> file,
   sec |-> sections + 1, lines |-> {}]
-----------------------------------------------------------------------------
(* Parser::ParseData, one action per kind of line.                           *)

Keywords == IF parser = "full" THEN {"service", "on", "import"} ELSE {"service"}

NextLine(l) ==
  /\ file # <<>> /\ lines < MaxLines /\ l \in alphabet
  /\ lines' = lines + 1
  /\ UNCHANGED <<boot, parser, work, file, latePaths, mounted, apexDone, ran>>

BeginSection(l) ==
  /\ l.key \in Keywords /\ NextLine(l)
  /\ sections' = sections + 1
  /\ EndSection

\* No parser is active after a section that is refused: its lines are skipped.
RefusedSection(l) ==
  /\ BeginSection(l)
  /\ \/ l.key = "service" /\ ~(l.words >= 2 /\ IsValidName(l.name))
     \/ l.key = "on" /\ ~ParseTriggers(l.triggers, PathMatchesSubcontext(file))
     \/ l.key = "import" /\ ~ExpandProps(l.word).ok
  /\ section' = "none"
  /\ service_' = Ended.service /\ denied' = Ended.denied /\ action_' = Ended.action
  /\ UNCHANGED imports_

\* A service the policy refuses still is a section: its lines must go nowhere.
DeniedService_KeepsOld == denied' = Ended.denied /\ service_' = Ended.service
DeniedService == denied' = TRUE /\ service_' = NoService

Denies(gate, subject) == ~IsAllowed(policy, gate, subject)

ServiceSection(l) ==
  /\ BeginSection(l) /\ l.key = "service" /\ l.words >= 2 /\ IsValidName(l.name)
  /\ section' = "service"
  /\ IF Denies("service", l.name) THEN DeniedService
     ELSE denied' = FALSE /\ service_' = NewService(l)
  /\ action_' = Ended.action /\ UNCHANGED imports_

OnSection(l) ==
  /\ BeginSection(l) /\ l.key = "on" /\ ParseTriggers(l.triggers, PathMatchesSubcontext(file))
  /\ section' = "on"
  /\ action_' = NewAction(l)
  /\ service_' = Ended.service /\ denied' = Ended.denied /\ UNCHANGED imports_

ImportSection(l) ==
  /\ BeginSection(l) /\ l.key = "import" /\ ExpandProps(l.word).ok
  /\ section' = "import"
  /\ imports_' = IF Denies("rc", ExpandProps(l.word).value) THEN imports_
                 ELSE Append(imports_, ExpandProps(l.word).value)
  /\ service_' = Ended.service /\ denied' = Ended.denied /\ action_' = Ended.action

\* Any other line is an option of the service or a command of the action.
OptionLine(l) ==
  /\ l.key \notin Keywords /\ section = "service" /\ NextLine(l)
  /\ service_' = IF service_ = NoService \/ ~Find(l) THEN service_
                 ELSE [ParseOption(service_, l) EXCEPT !.lines = @ \cup {sections}]
  /\ UNCHANGED <<section, denied, action_, imports_, lists, sections>>

CommandLine(l) ==
  /\ l.key \notin Keywords /\ section = "on" /\ NextLine(l)
  /\ action_' = IF action_ = NoAction \/ l.key # "command" \/ ~l.builtin THEN action_
                ELSE [action_ EXCEPT !.cmds = Append(@, l), !.lines = @ \cup {sections}]
  /\ UNCHANGED <<section, service_, denied, imports_, lists, sections>>

SkippedLine(l) ==
  /\ l.key \notin Keywords /\ section \in {"none", "import"} /\ NextLine(l)
  /\ UNCHANGED <<parsing, lists, sections>>

\* The list is moved out before the files in it are parsed, which may fill it again.
EndFile ==
  /\ file # <<>>
  /\ EndSection /\ section' = "none"
  /\ service_' = Ended.service /\ denied' = Ended.denied /\ action_' = Ended.action
  /\ work' = [i \in DOMAIN imports_ |-> [path |-> imports_[i], late |-> FALSE]] \o work
  /\ imports_' = <<>> /\ file' = <<>>
  /\ UNCHANGED <<boot, parser, latePaths, mounted, apexDone, ran, lines, sections>>
-----------------------------------------------------------------------------
(* Parser::ParseConfig: what is next on the list is a file or a directory.   *)

\* A path the policy denies counts as parsed; one that cannot be opened is kept
\* for mount_all if the caller asked for that.
KeptForLater(w) == w.late /\ ~Denies("rc", w.path)
Missing(p) == p \in Unreadable \/ (p \in Unmounted /\ ~mounted)

Kept == UNCHANGED <<boot, parser, parsing, lists, mounted, apexDone, ran, lines, sections>>

ParseConfigFile ==
  /\ file = <<>> /\ work # <<>>
  /\ work[1].path \notin DOMAIN Dirs /\ ~Missing(work[1].path) /\ ~Denies("rc", work[1].path)
  /\ file' = work[1].path /\ work' = Tail(work)
  /\ Kept /\ UNCHANGED latePaths

ParseConfigDir ==
  /\ file = <<>> /\ work # <<>>
  /\ work[1].path \in DOMAIN Dirs /\ ~Missing(work[1].path) /\ ~Denies("rc", work[1].path)
  /\ work' = [i \in DOMAIN Dirs[work[1].path] |-> [path |-> Dirs[work[1].path][i], late |-> FALSE]]
               \o Tail(work)
  /\ Kept /\ UNCHANGED <<file, latePaths>>

ParseConfigFails ==
  /\ file = <<>> /\ work # <<>>
  /\ Missing(work[1].path) \/ Denies("rc", work[1].path)
  /\ work' = Tail(work)
  /\ latePaths' = IF KeptForLater(work[1]) THEN Append(latePaths, work[1].path) ELSE latePaths
  /\ Kept /\ UNCHANGED file
-----------------------------------------------------------------------------
(* Who asks for files to be parsed.                                          *)

\* A new Parser, with new section parsers.
NewParser(kind) ==
  /\ parser' = kind /\ section' = "none" /\ service_' = NoService /\ denied' = FALSE
  /\ action_' = NoAction /\ imports_' = <<>>
Idle == phase = "running" /\ work = <<>> /\ file = <<>>
Once(paths) == [i \in DOMAIN paths |-> [path |-> paths[i], late |-> FALSE]]

\* A policy file that is there and cannot be read stops the boot.
LoadPolicy ==
  /\ phase = "start"
  /\ policy' = IF innit /\ doc # Absent THEN LoadFromFile(doc) ELSE NoPolicy
  /\ phase' = IF innit /\ doc # Absent /\ ~LoadFromFile(doc).loaded THEN "halted" ELSE "boot"
  /\ UNCHANGED <<innit, api, doc, alphabet, parser, work, file, parsing, lists, latePaths, mounted, apexDone,
                 ran, lines, sections>>

\* An Innit build reads init.rc and nothing else, any other the script that
\* ro.boot.init_rc names, or all of them.
BootScript(script) ==
  IF script # <<>> THEN Once(<<script>>)
  ELSE Once(<<InitRc>>)
         \o [i \in DOMAIN BootDirs |-> [path |-> BootDirs[i], late |-> BootDirs[i] # SystemExt]]
LoadBootScripts ==
  /\ phase = "boot" /\ phase' = "running"
  /\ NewParser("full")
  /\ IF innit THEN work' = Once(<<InitRc>>)
     ELSE \E script \in InitScripts : work' = BootScript(script)
  /\ UNCHANGED <<innit, api, doc, alphabet, policy, file, lists, latePaths, mounted, apexDone, ran, lines, sections>>

\* mount_all: up to Q, and not with --late, it parses the files it names or those
\* that could not be read at boot.
ImportRc(late) == api <= API_Q /\ ~late
MountAll(paths, late) ==
  /\ Idle /\ ~mounted /\ mounted' = TRUE
  /\ NewParser("full")
  /\ work' = IF ~ImportRc(late) THEN <<>> ELSE Once(IF paths = <<>> THEN latePaths ELSE paths)
  /\ latePaths' = IF ImportRc(late) /\ paths = <<>> THEN <<>> ELSE latePaths
  /\ UNCHANGED <<boot, file, lists, apexDone, ran, lines, sections>>

ParseApexConfigs ==
  /\ Idle /\ ~apexDone /\ apexDone' = TRUE
  /\ NewParser("services")
  /\ work' = Once(ApexFiles)
  /\ UNCHANGED <<boot, file, lists, latePaths, mounted, ran, lines, sections>>

-----------------------------------------------------------------------------
(* The gates in front of the builtins that start something.                  *)

GatedVerbs == {"class_start", "class_stop", "class_reset", "class_restart", "exec", "exec_start",
               "start", "stop", "restart", "trigger"}

Dashes(args) == {i \in DOMAIN args : args[i] = <<"--">>}
InnitExtractExecPath_FirstArg(args) == args[1]
InnitExtractExecPath(args) ==
  LET separators == {i \in Dashes(args) : i < Len(args)} IN
  IF separators = {} THEN args[1]
  ELSE args[(CHOOSE i \in separators : \A j \in separators : i <= j) + 1]

\* exec [SECLABEL [UID [GID]*] --] COMMAND ARGS...
Program(args) ==
  LET first == IF Dashes(args) = {} THEN 1
               ELSE (CHOOSE i \in Dashes(args) : \A j \in Dashes(args) : i <= j) + 1
  IN IF first > 16 \/ first > Len(args) THEN <<>> ELSE args[first]

InnitCheckCommand(c) == IsCommandAllowed(policy, c.verb, c.args)
InnitCheckExecPath(c) ==
  InnitExtractExecPath(c.args) # <<>> => IsAllowed(policy, "exec", InnitExtractExecPath(c.args))

\* exec_background and the verbs that are not in GatedVerbs have no gate.
RunCommand(c) ==
  /\ Idle /\ c \notin ran
  /\ c.verb \in GatedVerbs => InnitCheckCommand(c)
  /\ c.verb = "exec" => InnitCheckExecPath(c)
  /\ c.verb \in {"exec", "exec_background"} => Program(c.args) # <<>>
  /\ ran' = ran \cup {c}
  /\ UNCHANGED <<boot, parser, work, file, parsing, lists, latePaths, mounted, apexDone, lines, sections>>

Next ==
  \/ \E i \in DOMAIN actions : \E c \in Range(actions[i].cmds) : RunCommand(c)
  \/ LoadPolicy \/ LoadBootScripts \/ ParseApexConfigs
  \/ \E paths \in RcPaths, late \in BOOLEAN : MountAll(paths, late)
  \/ ParseConfigFile \/ ParseConfigDir \/ ParseConfigFails \/ EndFile
  \/ \E l \in alphabet : \/ RefusedSection(l) \/ ServiceSection(l) \/ OnSection(l)
                          \/ ImportSection(l) \/ OptionLine(l) \/ CommandLine(l) \/ SkippedLine(l)

Spec == Init /\ [][Next]_vars
-----------------------------------------------------------------------------
(* Properties                                                                *)

\* What a gate of the policy object has not let through is not there: services,
\* actions, the reboot target of a service and commands, by whichever way they came.
RebootAllowed(name) ==
  InnitPolicyIsActive(policy) => GetFailureAction(policy, name) = "reboot"
GatesHold ==
  /\ \A i \in DOMAIN services :
       /\ IsAllowed(policy, "service", services[i].name)
       /\ IsAllowed(policy, "rc", services[i].file)
       /\ services[i].reboot => RebootAllowed(services[i].name)
  /\ \A i \in DOMAIN actions : IsAllowed(policy, "rc", actions[i].file)
  /\ \A c \in ran : /\ c.verb \in GatedVerbs => InnitCheckCommand(c)
                    /\ c.verb = "exec" => InnitCheckExecPath(c)

\* With innit.xml present, none of the gates the code has is gone round, and the gates
\* say what the file says. Each service has a name and each service and action a file
\* that the first matching rule of the file admits, however the file was reached (boot
\* script, import, mount_all, APEX); a service may reboot the device only where the file
\* says so; and the program that exec runs is the one that was held against the rules
\* (builtins.cpp:132).  Two things the file may name have no gate in the code and are not
\* promised: the program of exec_background, and a denied verb that is not one of the
\* ten of GatedVerbs (mount_all, enable, setprop...).
PolicyIsEnforced ==
  /\ GatesHold
  /\ innit /\ doc # Absent =>
       /\ \A i \in DOMAIN services :
            /\ Permits(doc, "service", services[i].name) /\ Permits(doc, "rc", services[i].file)
            /\ services[i].reboot => DeclaredFailure(doc, services[i].name) = "reboot"
       /\ \A i \in DOMAIN actions : Permits(doc, "rc", actions[i].file)
       /\ \A c \in ran : c.verb \in GatedVerbs => ~Forbids(doc, c.verb, c.args)
       /\ \A c \in ran : c.verb = "exec" => Permits(doc, "exec", Program(c.args))

\* A service or an action is made of the lines of its own section only, whatever
\* refused, denied or unfinished sections came before it: the section parsers keep
\* their objects from one section to the next.
SectionsDoNotLeak ==
  /\ \A i \in DOMAIN services : services[i].lines \subseteq {services[i].sec}
  /\ \A i \in DOMAIN actions : actions[i].lines \subseteq {actions[i].sec}

\* The service list is fit for use although a bad line is skipped and the rest of its
\* section kept: names are unique, an interface has one provider, options that
\* exclude each other are not both set, in either order, and what one option relies on
\* in another is there.
ServicesAreWellFormed ==
  /\ \A i, j \in DOMAIN services : i # j =>
       /\ services[i].name # services[j].name
       /\ services[i].interfaces \cap services[j].interfaces = {}
  /\ \A i \in DOMAIN services :
       LET s == services[i] IN
       /\ ~({"console", "stdio_to_kmsg"} \subseteq s.flags)
       /\ api >= API_R => ~({"critical", "oneshot"} \subseteq s.flags)
       /\ (s.enter > 0 \/ "pid" \in s.namespaces) => "mnt" \in s.namespaces
       /\ s.enter <= 1
       /\ s.ioclass # "none" => "ioprio" \in DOMAIN s.numbers
=============================================================================
