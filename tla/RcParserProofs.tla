--------------------------- MODULE RcParserProofs ---------------------------
(***************************************************************************)
(* Theorems about RcParser: whatever lines the files are made of and       *)
(* however they are reached, a section's lines stay in the section, the    *)
(* service list is fit for use, and nothing gets past the policy file.     *)
(*                                                                         *)
(* The first two follow from what every option leaves of the service that  *)
(* is parsed (Consistent) and what the end of a section does to the lists; *)
(* the third from GateInv: the file that is read has passed its gate.      *)
(*                                                                         *)
(* That the gates say what innit.xml says is the second half: GlobMatch()  *)
(* finds what Covers allows, by induction over the pattern; the rules of   *)
(* the policy are those of the elements read so far (HasRead), by          *)
(* induction over the elements and the sections of the file; and what is   *)
(* held against them are paths (FilesInv, ReadInv).                        *)
(***************************************************************************)
EXTENDS RcParser, SequenceTheorems, WellFoundedInduction, TLAPS

-----------------------------------------------------------------------------
(* What the options leave of a service. *)

ServiceFields ==
  {"name", "vendor", "apex", "file", "sec", "lines", "flags", "numbers", "ioclass",
   "sockets", "files", "keycodes", "interfaces", "capabilities", "namespaces", "enter",
   "onrestart", "reboot", "classes", "groups"}

\* A Service object: its members.
IsService(s) == s = [x \in ServiceFields |-> s[x]]

\* What holds of it after every option line, accepted or refused.
Consistent(s) ==
  /\ IsService(s)
  /\ s.lines \subseteq {s.sec}
  /\ ~({"console", "stdio_to_kmsg"} \subseteq s.flags)
  /\ (s.enter > 0 \/ "pid" \in s.namespaces) => "mnt" \in s.namespaces
  /\ s.enter \in 0..1
  /\ s.ioclass # "none" => "ioprio" \in DOMAIN s.numbers

\* t is a consistent service again, the same one, and may reboot the device only if
\* it might before or the policy lets it.
SameService(s, t) ==
  /\ Consistent(t)
  /\ t.name = s.name /\ t.file = s.file /\ t.sec = s.sec /\ t.lines = s.lines
  /\ t.interfaces = s.interfaces
  /\ t.reboot = s.reboot \/ RebootAllowed(s.name)

\* A member no other option depends on may take any value.
LEMMA OtherMember ==
  ASSUME NEW s, Consistent(s), NEW v,
         NEW x \in {"capabilities", "keycodes", "groups", "sockets", "files", "onrestart",
                    "classes"}
  PROVE  SameService(s, [s EXCEPT ![x] = v])
BY DEF SameService, Consistent, IsService, ServiceFields

\* So may the flags, but for the two that exclude each other.
LEMMA FlagMember ==
  ASSUME NEW s, Consistent(s), NEW f, ~({"console", "stdio_to_kmsg"} \subseteq s.flags \cup f)
  PROVE  SameService(s, Flag(s, f))
BY DEF SameService, Consistent, IsService, ServiceFields, Flag

\* A number is added or replaced.
LEMMA NumberMember ==
  ASSUME NEW s, Consistent(s), NEW key, NEW v
  PROVE  SameService(s, SetNumber(s, key, v)) /\ key \in DOMAIN SetNumber(s, key, v).numbers
BY DEF SameService, Consistent, IsService, ServiceFields, SetNumber

\* Every option but interface keeps the service consistent and its interfaces.
LEMMA OptionKeeps ==
  ASSUME NEW s, Consistent(s), NEW l, l.key # "interface"
  PROVE  SameService(s, ParseOption(s, l))
<1>0. SameService(s, s)
  BY DEF SameService
<1>1. SameService(s, ParseConsole(s)) /\ SameService(s, ParseStdioToKmsg(s))
  <2>1. "stdio_to_kmsg" \notin s.flags => SameService(s, Flag(s, {"console"}))
    BY FlagMember
  <2>2. "console" \notin s.flags => SameService(s, Flag(s, {"stdio_to_kmsg"}))
    BY FlagMember
  <2>. QED
    BY <1>0, <2>1, <2>2 DEF ParseConsole, ParseStdioToKmsg
<1>2. ASSUME NEW f, f \cap {"console", "stdio_to_kmsg"} = {} PROVE SameService(s, Flag(s, f))
  BY <1>2, FlagMember DEF Consistent
<1>3. /\ SameService(s, ParseCritical(s, l)) /\ SameService(s, ParseDisabled(s))
      /\ SameService(s, ParseShutdown(s, l)) /\ SameService(s, ParseUser(s, l))
  <2>1. /\ SameService(s, Flag(s, {"critical"}))
        /\ SameService(s, Flag(s, {"disabled", "rc_disabled"}))
        /\ SameService(s, Flag(s, {"shutdown_critical"})) /\ SameService(s, Flag(s, {"user"}))
    BY <1>2
  <2>2. SameService(s, ParseCritical(s, l))
    <3>. DEFINE fine == \A i \in DOMAIN l.args :
                          \/ l.args[i].key = "target"
                          \/ /\ l.args[i].key = "window" /\ ExpandProps(l.args[i].word).ok
                             /\ l.args[i].minutes \in 0..99999
    <3>1. ParseCritical(s, l) = IF fine THEN Flag(s, {"critical"}) ELSE s
      BY DEF ParseCritical
    <3>. HIDE DEF fine
    <3>. QED
      BY <1>0, <2>1, <3>1
  <2>. QED
    BY <1>0, <2>1, <2>2 DEF ParseDisabled, ParseShutdown, ParseUser
<1>4. ASSUME l.key \notin {"console", "stdio_to_kmsg"} PROVE SameService(s, Flag(s, {l.key}))
  BY <1>2, <1>4
<1>5. /\ SameService(s, ParseClass(s, l)) /\ SameService(s, ParseCapabilities(s, l))
      /\ SameService(s, ParseKeycodes(s, l)) /\ SameService(s, ParseGroup(s, l))
      /\ SameService(s, ParseOnrestart(s, l)) /\ SameService(s, ParseSocket(s, l))
      /\ SameService(s, ParseFile(s, l)) /\ SameService(s, ParseRebootOnFailure(s, l))
  <2>1. SameService(s, ParseClass(s, l)) /\ SameService(s, ParseCapabilities(s, l))
    BY OtherMember DEF ParseClass, ParseCapabilities
  <2>2. SameService(s, ParseKeycodes(s, l))
    BY OtherMember DEF ParseKeycodes
  <2>3. SameService(s, ParseGroup(s, l))
    BY <1>0, OtherMember DEF ParseGroup
  <2>4. SameService(s, ParseOnrestart(s, l)) /\ SameService(s, ParseSocket(s, l))
    BY <1>0, OtherMember DEF ParseOnrestart, ParseSocket
  <2>5. SameService(s, ParseFile(s, l))
    BY <1>0, OtherMember DEF ParseFile
  <2>6. SameService(s, ParseRebootOnFailure(s, l))
    <3>1. RebootAllowed(s.name) => SameService(s, [s EXCEPT !.reboot = TRUE])
      BY DEF SameService, Consistent, IsService, ServiceFields
    <3>. QED
      BY <1>0, <3>1 DEF ParseRebootOnFailure, RebootAllowed
  <2>. QED
    BY <2>1, <2>2, <2>3, <2>4, <2>5, <2>6
<1>6. /\ SameService(s, ParsePriority(s, l)) /\ SameService(s, ParseOomScoreAdjust(s, l))
      /\ SameService(s, ParseRestartPeriod(s, l)) /\ SameService(s, ParseTimeoutPeriod(s, l))
      /\ SameService(s, ParseMemcg(s, l)) /\ SameService(s, ParseProcessRlimit(s, l))
  BY <1>0, NumberMember DEF ParsePriority, ParseOomScoreAdjust, ParseRestartPeriod,
     ParseTimeoutPeriod, ParseMemcg, ParseProcessRlimit
<1>7. SameService(s, ParseIoprio(s, l))
  <2>. DEFINE n == SetNumber(s, "ioprio", l.v)
  <2>1. SameService(s, n) /\ "ioprio" \in DOMAIN n.numbers
    BY NumberMember
  <2>. HIDE DEF n
  <2>2. \A c : SameService(s, [n EXCEPT !.ioclass = c])
    BY <2>1 DEF SameService, Consistent, IsService, ServiceFields
  <2>3. ParseIoprio(s, l) = IF ~ParseInt("ioprio", l.v) THEN s
          ELSE [n EXCEPT !.ioclass = IF l.class \in {"rt", "be", "idle"}
                                     THEN l.class ELSE n.ioclass]
    BY DEF ParseIoprio, n
  <2>. QED
    BY <1>0, <2>2, <2>3
<1>8. SameService(s, ParseEnterNamespace(s, l))
  <2>. DEFINE t == [s EXCEPT !.namespaces = s.namespaces \cup {"mnt"}, !.enter = 1]
  <2>1. t.enter = 1 /\ "mnt" \in t.namespaces
    BY DEF Consistent, IsService, ServiceFields
  <2>2. /\ IsService(t) /\ t.reboot = s.reboot
        /\ \A x \in ServiceFields \ {"namespaces", "enter"} : t[x] = s[x]
    BY DEF Consistent, IsService, ServiceFields
  <2>. HIDE DEF t
  <2>3. SameService(s, t)
    BY <2>1, <2>2 DEF SameService, Consistent, ServiceFields
  <2>4. s.enter > 0 \/ (s.enter = 0 /\ s.enter + 1 = 1)
    BY DEF Consistent
  <2>5. s.enter + 1 = 1 => [s EXCEPT !.namespaces = @ \cup {"mnt"}, !.enter = @ + 1] = t
    BY DEF t
  <2>. QED
    BY <1>0, <2>3, <2>4, <2>5 DEF ParseEnterNamespace
<1>9. SameService(s, ParseNamespace(s, l))
  <2>. DEFINE known == {i \in DOMAIN l.types : \A j \in 1..i : l.types[j] \in {"pid", "mnt"}}
              v == {l.types[i] : i \in known} \cup (IF known = {} THEN {} ELSE {"mnt"})
  <2>1. v = {} \/ "mnt" \in v
    OBVIOUS
  <2>2. ParseNamespace(s, l) = [s EXCEPT !.namespaces = s.namespaces \cup v]
    BY DEF ParseNamespace
  <2>. HIDE DEF v
  <2>. QED
    BY <2>1, <2>2 DEF SameService, Consistent, IsService, ServiceFields
<1>. QED
  BY <1>1, <1>3, <1>4, <1>5, <1>6, <1>7, <1>8, <1>9 DEF ParseOption, Replaced

\* The interface option adds an interface no service of the list has.
LEMMA InterfaceKeeps ==
  ASSUME NEW s, Consistent(s), NEW l,
         \A i \in DOMAIN services : services[i].interfaces \cap s.interfaces = {}
  PROVE  LET t == ParseInterface(s, l) IN
         /\ Consistent(t) /\ t.name = s.name /\ t.file = s.file /\ t.sec = s.sec
         /\ t.lines = s.lines /\ t.reboot = s.reboot
         /\ \A i \in DOMAIN services : services[i].interfaces \cap t.interfaces = {}
<1>1. CASE ParseInterface(s, l) = s
  BY <1>1
<1>2. CASE \A i \in DOMAIN services : l.interface \notin services[i].interfaces
  <2>. DEFINE t == [s EXCEPT !.interfaces = s.interfaces \cup {l.interface}]
  <2>1. /\ Consistent(t) /\ t.name = s.name /\ t.file = s.file /\ t.sec = s.sec
        /\ t.lines = s.lines /\ t.reboot = s.reboot
        /\ t.interfaces = s.interfaces \cup {l.interface}
    BY DEF Consistent, IsService, ServiceFields
  <2>2. ParseInterface(s, l) = s \/ ParseInterface(s, l) = t
    BY DEF ParseInterface
  <2>. HIDE DEF t
  <2>. QED
    BY <1>1, <1>2, <2>1, <2>2
<1>. QED
  BY <1>1, <1>2 DEF ParseInterface

-----------------------------------------------------------------------------
(* The invariant. *)

\* The list of services.
ListInv ==
  /\ \E A : services \in Seq(A)
  /\ \A i \in DOMAIN services :
       /\ Consistent(services[i])
       /\ api >= API_R => ~({"critical", "oneshot"} \subseteq services[i].flags)
  /\ \A i, j \in DOMAIN services : i # j =>
       /\ services[i].name # services[j].name
       /\ services[i].interfaces \cap services[j].interfaces = {}

\* The service being parsed: its section is the current one.
ServiceInv ==
  section = "service" /\ service_ # NoService =>
    /\ Consistent(service_) /\ service_.sec = sections
    /\ \A i \in DOMAIN services : services[i].interfaces \cap service_.interfaces = {}

ActionFields == {"cmds", "triggers", "vendor", "file", "sec", "lines"}
OneSection(a) == a.lines \subseteq {a.sec}

\* The list of actions, and the action being parsed.
ActionInv ==
  /\ \E A : actions \in Seq(A)
  /\ \A i \in DOMAIN actions : OneSection(actions[i])
  /\ section = "on" /\ action_ # NoAction =>
       /\ action_ = [x \in ActionFields |-> action_[x]]
       /\ OneSection(action_) /\ action_.sec = sections

Inv == ListInv /\ ServiceInv /\ ActionInv

\* w holds services of the list, each at most once, and none of that name.
OthersOnly(w, name) ==
  \E m : /\ \A i \in DOMAIN w : /\ m[i] \in DOMAIN services
                                 /\ w[i] = services[m[i]] /\ w[i].name # name
         /\ \A i, j \in DOMAIN w : i # j => m[i] # m[j]

\* RemoveService() takes out the one service of that name.
LEMMA Removed ==
  ASSUME NEW A, services \in Seq(A), NEW name,
         \A i, j \in DOMAIN services : i # j => services[i].name # services[j].name
  PROVE  RemoveService(name) \in Seq(A) /\ OthersOnly(RemoveService(name), name)
<1>. DEFINE old == FindService(name)
            w == RemoveService(name)
            n == Len(services)
<1>1. n \in Nat /\ DOMAIN services = 1..n /\ services \in [1..n -> A]
  OBVIOUS
<1>2. CASE old = {}
  <2>1. w = services
    BY <1>2 DEF RemoveService
  <2>2. \A i \in DOMAIN services : services[i].name # name
    BY <1>2 DEF FindService
  <2>. DEFINE m == [i \in DOMAIN services |-> i]
  <2>3. /\ \A i \in DOMAIN services : m[i] = i
    OBVIOUS
  <2>. HIDE DEF m, w, old
  <2>. QED
    BY <2>1, <2>2, <2>3 DEF w, OthersOnly
<1>3. CASE old # {}
  <2>1. PICK k \in 1..n : services[k].name = name
    BY <1>1, <1>3 DEF FindService
  <2>2. old = {k}
    BY <1>1, <2>1 DEF FindService
  <2>3. (CHOOSE i \in old : \A j \in old : i <= j) = k
    BY <1>1, <2>1, <2>2
  <2>4. w = RemoveAt(services, k)
    BY <1>3, <2>3 DEF RemoveService
  <2>. HIDE DEF w, old
  <2>5. /\ SubSeq(services, 1, k - 1) \in Seq(A) /\ Len(SubSeq(services, 1, k - 1)) = k - 1
        /\ \A i \in 1..(k - 1) : SubSeq(services, 1, k - 1)[i] = services[i]
    BY <1>1, <2>1
  <2>6. /\ SubSeq(services, k + 1, n) \in Seq(A) /\ Len(SubSeq(services, k + 1, n)) = n - k
        /\ \A i \in 1..(n - k) : SubSeq(services, k + 1, n)[i] = services[k + i]
    <3>1. k + 1 \in Int /\ n \in Int /\ \A i \in (k + 1)..n : services[i] \in A
      BY <1>1, <2>1
    <3>2. /\ SubSeq(services, k + 1, n) \in Seq(A)
          /\ Len(SubSeq(services, k + 1, n)) = IF k + 1 <= n THEN n - (k + 1) + 1 ELSE 0
          /\ \A i \in 1..(n - (k + 1) + 1) :
               SubSeq(services, k + 1, n)[i] = services[(k + 1) + i - 1]
      BY <3>1, SubSeqProperties
    <3>3. \A p, q \in Nat : q \in 1..p =>
            /\ p - (q + 1) + 1 = p - q /\ (q + 1 <= p \/ p - q = 0)
            /\ \A i \in 1..(p - q) : (q + 1) + i - 1 = q + i
      OBVIOUS
    <3>4. /\ n - (k + 1) + 1 = n - k /\ (k + 1 <= n \/ n - k = 0)
          /\ \A i \in 1..(n - k) : (k + 1) + i - 1 = k + i
      <4>1. n \in Nat /\ k \in Nat /\ k \in 1..n
        BY <1>1, <2>1
      <4>. QED
        BY <3>3, <4>1
    <3>. QED
      BY <3>2, <3>4
  <2>. DEFINE a == SubSeq(services, 1, k - 1)
              b == SubSeq(services, k + 1, n)
  <2>7. w = a \o b
    BY <2>4 DEF RemoveAt
  <2>. HIDE DEF a, b
  <2>8. w \in Seq(A) /\ Len(w) = n - 1 /\ DOMAIN w = 1..(n - 1)
    <3>1. a \in Seq(A) /\ b \in Seq(A) /\ Len(a) = k - 1 /\ Len(b) = n - k
      BY <2>5, <2>6 DEF a, b
    <3>2. w \in Seq(A) /\ Len(w) = (k - 1) + (n - k)
      <4>1. a \o b \in Seq(A) /\ Len(a \o b) = Len(a) + Len(b)
        BY <3>1, ConcatProperties
      <4>. HIDE DEF n
      <4>. QED
        BY <2>7, <3>1, <4>1
    <3>3. (k - 1) + (n - k) = n - 1
      <4>1. \A p, q \in Int : (q - 1) + (p - q) = p - 1
        OBVIOUS
      <4>2. n \in Int /\ k \in Int
        BY <1>1, <2>1
      <4>. QED
        BY <4>1, <4>2
    <3>. HIDE DEF n
    <3>4. Len(w) = n - 1
      BY <3>2, <3>3
    <3>5. DOMAIN w = 1..Len(w)
      BY <3>2
    <3>. QED
      BY <3>2, <3>4, <3>5
  <2>. DEFINE m == [i \in 1..(n - 1) |-> IF i < k THEN i ELSE i + 1]
  <2>9. \A i \in 1..(n - 1) : m[i] \in 1..n /\ m[i] # k /\ w[i] = services[m[i]]
    <3>0. \A i \in 1..((k - 1) + (n - k)) :
            w[i] = IF i <= k - 1 THEN a[i] ELSE b[i - (k - 1)]
      <4>1. a \in Seq(A) /\ b \in Seq(A) /\ Len(a) = k - 1 /\ Len(b) = n - k
        BY <2>5, <2>6 DEF a, b
      <4>2. \A i \in 1..(Len(a) + Len(b)) :
              (a \o b)[i] = IF i <= Len(a) THEN a[i] ELSE b[i - Len(a)]
        BY <4>1, ConcatProperties
      <4>. QED
        BY <2>7, <4>1, <4>2
    <3>. HIDE DEF n
    <3>1. ASSUME NEW i \in 1..(n - 1), i < k PROVE w[i] = services[i]
      <4>1. i \in 1..((k - 1) + (n - k)) /\ i <= k - 1 /\ i \in 1..(k - 1)
        BY <1>1, <2>1, <3>1
      <4>. QED
        BY <2>5, <3>0, <4>1 DEF a
    <3>2. ASSUME NEW i \in 1..(n - 1), ~(i < k) PROVE w[i] = services[i + 1]
      <4>0. i \in 1..((k - 1) + (n - k)) /\ ~(i <= k - 1) /\ i - (k - 1) \in 1..(n - k)
        BY <1>1, <2>1, <3>2
      <4>1. w[i] = b[i - (k - 1)] /\ i - (k - 1) \in 1..(n - k)
        BY <3>0, <4>0
      <4>2. k + (i - (k - 1)) = i + 1
        BY <2>1, <3>2
      <4>. QED
        BY <2>6, <4>1, <4>2 DEF b
    <3>. QED
      BY <1>1, <2>1, <3>1, <3>2
  <2>10. \A i, j \in 1..(n - 1) : i # j => m[i] # m[j]
    BY <1>1, <2>1
  <2>. HIDE DEF m
  <2>11. \A i \in 1..(n - 1) : services[m[i]].name # name
    BY <1>1, <2>1, <2>9
  <2>12. /\ \A i \in DOMAIN w : /\ m[i] \in DOMAIN services
                                /\ w[i] = services[m[i]] /\ w[i].name # name
         /\ \A i, j \in DOMAIN w : i # j => m[i] # m[j]
    BY <1>1, <2>8, <2>9, <2>10, <2>11
  <2>. QED
    BY <2>8, <2>12 DEF w, OthersOnly
<1>. QED
  BY <1>2, <1>3

-----------------------------------------------------------------------------
(* The end of a section. *)

\* The lists after EndSection: the service that is added is not in the list, and has
\* none of its interfaces.
LEMMA EndKeepsLists ==
  ASSUME Inv, EndSection, api' = api
  PROVE  /\ ListInv'
         /\ \E A : actions' \in Seq(A)
         /\ \A i \in DOMAIN actions' : OneSection(actions'[i])
<1>1. PICK A : services \in Seq(A)
  BY DEF Inv, ListInv
<1>2. PICK B : actions \in Seq(B)
  BY DEF Inv, ActionInv
<1>3. ListInv'
  <2>1. CASE services' = services
    BY <2>1 DEF Inv, ListInv
  <2>2. CASE /\ section = "service" /\ service_ # NoService /\ Accepted(service_)
             /\ services' = Append(RemoveService(service_.name), service_)
    <3>. DEFINE w == RemoveService(service_.name)
                C == A \cup {service_}
    <3>1. w \in Seq(A) /\ OthersOnly(w, service_.name)
      BY <1>1, Removed DEF Inv, ListInv
    <3>. HIDE DEF w
    <3>2. PICK m : /\ \A i \in DOMAIN w : /\ m[i] \in DOMAIN services
                                          /\ w[i] = services[m[i]]
                                          /\ w[i].name # service_.name
                   /\ \A i, j \in DOMAIN w : i # j => m[i] # m[j]
      BY <3>1 DEF OthersOnly
    <3>3. w \in Seq(C) /\ Len(w) \in Nat /\ DOMAIN w = 1..Len(w)
      BY <3>1
    <3>4. services' \in Seq(C) /\ services' = Append(w, service_)
      BY <2>2, <3>3 DEF w
    <3>5. /\ DOMAIN services' = 1..(Len(w) + 1)
          /\ \A i \in DOMAIN w : services'[i] = w[i]
          /\ services'[Len(w) + 1] = service_
      BY <3>3, <3>4
    <3>6. \A i \in DOMAIN services' : i \in DOMAIN w \/ i = Len(w) + 1
      BY <3>3, <3>5
    <3>7. /\ Consistent(service_)
          /\ \A i \in DOMAIN services : services[i].interfaces \cap service_.interfaces = {}
          /\ api >= API_R => ~({"critical", "oneshot"} \subseteq service_.flags)
      BY <2>2 DEF Inv, ServiceInv, Accepted
    <3>8. ASSUME NEW i \in DOMAIN services'
          PROVE  /\ Consistent(services'[i])
                 /\ api >= API_R => ~({"critical", "oneshot"} \subseteq services'[i].flags)
      <4>1. CASE i \in DOMAIN w
        BY <3>2, <3>5, <4>1 DEF Inv, ListInv
      <4>2. CASE i = Len(w) + 1
        BY <3>5, <3>7, <4>2
      <4>. QED
        BY <3>6, <4>1, <4>2
    <3>9. ASSUME NEW i \in DOMAIN services', NEW j \in DOMAIN services', i # j
          PROVE  /\ services'[i].name # services'[j].name
                 /\ services'[i].interfaces \cap services'[j].interfaces = {}
      <4>1. CASE i \in DOMAIN w /\ j \in DOMAIN w
        <5>1. services'[i] = services[m[i]] /\ services'[j] = services[m[j]]
          BY <3>2, <3>5, <4>1
        <5>2. m[i] \in DOMAIN services /\ m[j] \in DOMAIN services /\ m[i] # m[j]
          BY <3>2, <3>9, <4>1
        <5>. QED
          BY <5>1, <5>2 DEF Inv, ListInv
      <4>2. ASSUME NEW a \in DOMAIN w
            PROVE  /\ services'[a].name # service_.name
                   /\ services'[a].interfaces \cap service_.interfaces = {}
        BY <3>2, <3>5, <3>7
      <4>3. CASE i \in DOMAIN w /\ j = Len(w) + 1
        BY <3>5, <4>2, <4>3
      <4>4. CASE j \in DOMAIN w /\ i = Len(w) + 1
        BY <3>5, <4>2, <4>4
      <4>. QED
        BY <3>6, <3>9, <4>1, <4>3, <4>4
    <3>. QED
      BY <3>4, <3>8, <3>9 DEF ListInv
  <2>. QED
    BY <2>1, <2>2 DEF EndSection, Ended
<1>4. /\ \E C : actions' \in Seq(C)
      /\ \A i \in DOMAIN actions' : OneSection(actions'[i])
  <2>1. CASE actions' = actions
    BY <2>1 DEF Inv, ActionInv
  <2>2. CASE section = "on" /\ action_.cmds # <<>> /\ actions' = Append(actions, action_)
    <3>1. action_ # NoAction
      BY <2>2 DEF NoAction
    <3>. DEFINE C == B \cup {action_}
    <3>2. actions \in Seq(C) /\ action_ \in C /\ Len(actions) \in Nat
      BY <1>2
    <3>3. /\ actions' \in Seq(C) /\ DOMAIN actions' = 1..(Len(actions) + 1)
          /\ \A i \in 1..Len(actions) : actions'[i] = actions[i]
          /\ actions'[Len(actions) + 1] = action_
      BY <2>2, <3>2
    <3>4. \A i \in DOMAIN actions' : i \in 1..Len(actions) \/ i = Len(actions) + 1
      BY <3>2, <3>3
    <3>5. DOMAIN actions = 1..Len(actions)
      BY <3>2
    <3>6. OneSection(action_) /\ \A i \in DOMAIN actions : OneSection(actions[i])
      BY <2>2, <3>1 DEF Inv, ActionInv
    <3>. QED
      BY <3>3, <3>4, <3>5, <3>6
  <2>. QED
    BY <2>1, <2>2 DEF EndSection, Ended
<1>. QED
  BY <1>3, <1>4

-----------------------------------------------------------------------------
(* The steps. *)

\* A section that begins: the old one ends, and the parser of the new one, if it is
\* a service or an action, holds a new object.
LEMMA BeginKeeps ==
  ASSUME Inv, EndSection, api' = api, sections' = sections + 1, NEW l,
         \/ section' \in {"none", "import"}
         \/ section' = "service" /\ service_' \in {NoService, NewService(l)}
         \/ section' = "on" /\ action_' = NewAction(l)
  PROVE  Inv'
<1>1. /\ ListInv'
      /\ \E A : actions' \in Seq(A)
      /\ \A i \in DOMAIN actions' : OneSection(actions'[i])
  BY EndKeepsLists
<1>2. ASSUME section' = "service", service_' = NewService(l)
      PROVE  Consistent(service_') /\ service_'.sec = sections' /\ service_'.interfaces = {}
  <2>. DEFINE v == PathMatchesSubcontext(file)
              a == file[2] = "apex"
              t == [name |-> l.name, vendor |-> v, apex |-> a,
                    file |-> file, sec |-> sections + 1, lines |-> {},
                    flags |-> {}, numbers |-> [k \in {} |-> 0], ioclass |-> "none",
                    sockets |-> {}, files |-> {}, keycodes |-> {}, interfaces |-> {},
                    capabilities |-> {"all"}, namespaces |-> {}, enter |-> 0,
                    onrestart |-> 0, reboot |-> FALSE, classes |-> {"default"},
                    groups |-> <<>>]
  <2>1. service_' = t
    BY <1>2 DEF NewService
  <2>. HIDE DEF v, a
  <2>2. IsService(t)
    BY DEF IsService, ServiceFields
  <2>3. /\ t.lines = {} /\ t.sec = sections + 1 /\ t.flags = {} /\ t.interfaces = {}
        /\ t.namespaces = {} /\ t.enter = 0 /\ t.ioclass = "none"
    OBVIOUS
  <2>. HIDE DEF t
  <2>. QED
    BY <2>1, <2>2, <2>3 DEF Consistent
<1>3. ASSUME section' = "on", action_' = NewAction(l)
      PROVE  /\ action_' = [x \in ActionFields |-> action_'[x]]
             /\ OneSection(action_') /\ action_'.sec = sections'
  BY <1>3 DEF NewAction, ActionFields, OneSection
<1>4. ServiceInv'
  BY <1>2 DEF ServiceInv
<1>5. ActionInv'
  BY <1>1, <1>3 DEF ActionInv
<1>. QED
  BY <1>1, <1>4, <1>5 DEF Inv

\* An option line changes the service of the current section, or nothing.
LEMMA OptionLineKeeps == ASSUME Inv, NEW l, OptionLine(l) PROVE Inv'
<1>1. UNCHANGED <<section, action_, services, actions, sections, api>> /\ section = "service"
  BY DEF OptionLine, NextLine, lists, boot
<1>2. CASE service_' = service_
  BY <1>1, <1>2 DEF Inv, ListInv, ServiceInv, ActionInv
<1>3. CASE service_ # NoService
  <2>. DEFINE t == ParseOption(service_, l)
              u == [t EXCEPT !.lines = t.lines \cup {sections}]
  <2>0. /\ Consistent(service_) /\ service_.sec = sections
        /\ \A i \in DOMAIN services : services[i].interfaces \cap service_.interfaces = {}
    BY <1>1, <1>3 DEF Inv, ServiceInv
  <2>1. /\ Consistent(t) /\ t.sec = service_.sec /\ t.lines = service_.lines
        /\ \A i \in DOMAIN services : services[i].interfaces \cap t.interfaces = {}
    <3>1. CASE l.key = "interface"
      <4>1. t = ParseInterface(service_, l)
        BY <3>1 DEF ParseOption
      <4>. QED
        BY <2>0, <4>1, InterfaceKeeps
    <3>2. CASE l.key # "interface"
      <4>1. SameService(service_, t)
        BY <2>0, <3>2, OptionKeeps
      <4>. QED
        BY <2>0, <4>1 DEF SameService
    <3>. QED
      BY <3>1, <3>2
  <2>2. service_' \in {service_, u}
    BY <1>3 DEF OptionLine
  <2>. HIDE DEF t
  <2>3. /\ Consistent(u) /\ u.sec = sections /\ u.interfaces = t.interfaces
    BY <2>0, <2>1 DEF Consistent, IsService, ServiceFields
  <2>. HIDE DEF u
  <2>4. CASE service_' = u
    BY <1>1, <2>1, <2>3, <2>4 DEF Inv, ListInv, ServiceInv, ActionInv
  <2>. QED
    BY <1>2, <2>2, <2>4
<1>. QED
  BY <1>2, <1>3 DEF OptionLine

\* A command line adds to the action of the current section, or to nothing.
LEMMA CommandLineKeeps == ASSUME Inv, NEW l, CommandLine(l) PROVE Inv'
<1>1. UNCHANGED <<section, service_, services, actions, sections, api>> /\ section = "on"
  BY DEF CommandLine, NextLine, lists, boot
<1>2. ListInv' /\ ServiceInv'
  BY <1>1 DEF Inv, ListInv, ServiceInv
<1>3. CASE action_' = action_
  BY <1>1, <1>2, <1>3 DEF Inv, ActionInv
<1>4. CASE /\ action_ # NoAction
           /\ action_' = [action_ EXCEPT !.cmds = Append(@, l), !.lines = @ \cup {sections}]
  <2>1. /\ action_ = [x \in ActionFields |-> action_[x]]
        /\ OneSection(action_) /\ action_.sec = sections
    BY <1>1, <1>4 DEF Inv, ActionInv
  <2>2. /\ action_' = [x \in ActionFields |-> action_'[x]]
        /\ action_'.sec = action_.sec /\ action_'.lines = action_.lines \cup {sections}
    BY <1>4, <2>1 DEF ActionFields
  <2>3. OneSection(action_')
    BY <2>1, <2>2 DEF OneSection
  <2>. QED
    BY <1>1, <1>2, <2>1, <2>2, <2>3 DEF Inv, ActionInv
<1>. QED
  BY <1>3, <1>4 DEF CommandLine

\* Every step keeps the invariant.
LEMMA InvStep == Inv /\ [Next]_vars => Inv'
<1>. SUFFICES ASSUME Inv, [Next]_vars PROVE Inv'
  OBVIOUS
<1>1. CASE UNCHANGED <<services, actions, api, sections, service_, action_, section>>
  BY <1>1 DEF Inv, ListInv, ServiceInv, ActionInv
<1>2. CASE UNCHANGED <<services, actions, api>> /\ section' = "none"
  BY <1>2 DEF Inv, ListInv, ServiceInv, ActionInv
<1>3. CASE LoadBootScripts \/ ParseApexConfigs
           \/ \E paths \in RcPaths, late \in BOOLEAN : MountAll(paths, late)
  BY <1>2, <1>3 DEF LoadBootScripts, ParseApexConfigs, MountAll, NewParser, lists, boot
<1>4. CASE LoadPolicy \/ ParseConfigFile \/ ParseConfigDir \/ ParseConfigFails \/ UNCHANGED vars
  BY <1>1, <1>4 DEF LoadPolicy, ParseConfigFile, ParseConfigDir, ParseConfigFails, Kept,
     parsing, lists, boot, vars
<1>5. ASSUME NEW c, RunCommand(c) PROVE Inv'
  BY <1>1, <1>5 DEF RunCommand, parsing, lists, boot
<1>6. CASE EndFile
  <2>1. EndSection /\ section' = "none" /\ api' = api
    BY <1>6 DEF EndFile, boot
  <2>2. /\ ListInv'
        /\ \E A : actions' \in Seq(A)
        /\ \A i \in DOMAIN actions' : OneSection(actions'[i])
    BY <2>1, EndKeepsLists
  <2>. QED
    BY <2>1, <2>2 DEF Inv, ServiceInv, ActionInv
<1>7. ASSUME NEW l \in alphabet,
             RefusedSection(l) \/ ServiceSection(l) \/ OnSection(l) \/ ImportSection(l)
      PROVE  Inv'
  <2>1. BeginSection(l)
    BY <1>7 DEF RefusedSection, ServiceSection, OnSection, ImportSection
  <2>2. EndSection /\ api' = api /\ sections' = sections + 1
    BY <2>1 DEF BeginSection, NextLine, boot
  <2>3. \/ section' \in {"none", "import"}
        \/ section' = "service" /\ service_' \in {NoService, NewService(l)}
        \/ section' = "on" /\ action_' = NewAction(l)
    BY <1>7 DEF RefusedSection, ServiceSection, OnSection, ImportSection, DeniedService
  <2>. QED
    BY <2>2, <2>3, BeginKeeps
<1>8. ASSUME NEW l \in alphabet, SkippedLine(l) PROVE Inv'
  BY <1>1, <1>8 DEF SkippedLine, NextLine, parsing, lists, boot
<1>. QED
  BY <1>3, <1>4, <1>5, <1>6, <1>7, <1>8, OptionLineKeeps, CommandLineKeeps DEF Next

\* The invariant holds from the start.
LEMMA Invariance == Spec => []Inv
<1>1. Init => Inv
  <2>. SUFFICES ASSUME Init PROVE Inv
    OBVIOUS
  <2>1. services = <<>> /\ actions = <<>> /\ section = "none"
    BY DEF Init
  <2>2. <<>> \in Seq({}) /\ DOMAIN <<>> = {}
    <3>1. <<>> \in Seq({}) /\ Len(<<>>) = 0
      OBVIOUS
    <3>2. DOMAIN <<>> = 1..0 /\ 1..0 = {}
      BY <3>1
    <3>. QED
      BY <3>1, <3>2
  <2>. QED
    BY <2>1, <2>2 DEF Inv, ListInv, ServiceInv, ActionInv
<1>. QED
  BY <1>1, InvStep, PTL DEF Spec

-----------------------------------------------------------------------------
(* The theorems. *)

\* A service or an action is made of the lines of its own section only, whatever
\* lines the files have, in whatever order sections are refused, denied, left
\* unfinished or cut off by the end of a file.
THEOREM SectionsNeverLeak == Spec => []SectionsDoNotLeak
<1>1. Inv => SectionsDoNotLeak
  BY DEF Inv, ListInv, ActionInv, SectionsDoNotLeak, Consistent, OneSection
<1>. QED
  BY <1>1, Invariance, PTL

\* The list of services is well formed whatever lines are refused on the way: names
\* are unique, an interface has one provider, options that exclude each other are not
\* both set, and what an option relies on is there.
THEOREM ServicesAlwaysWellFormed == Spec => []ServicesAreWellFormed
<1>1. Inv => ServicesAreWellFormed
  BY DEF Inv, ListInv, ServicesAreWellFormed, Consistent
<1>. QED
  BY <1>1, Invariance, PTL

-----------------------------------------------------------------------------
(* The gates of the policy. *)

\* The policy is read before anything is parsed.
NothingYet ==
  /\ file = <<>> /\ work = <<>> /\ services = <<>> /\ actions = <<>> /\ section = "none"
  /\ ran = {}

Gated(s) ==
  /\ IsAllowed(policy, "service", s.name) /\ IsAllowed(policy, "rc", s.file)
  /\ s.reboot => RebootAllowed(s.name)

\* The file that is read has passed its gate, and so have the service and the action
\* the parsers hold.
GateInv ==
  /\ phase # "running" => NothingYet
  /\ file # <<>> => IsAllowed(policy, "rc", file)
  /\ GatesHold
  /\ section = "service" /\ service_ # NoService => Gated(service_)
  /\ section = "on" /\ action_ # NoAction => IsAllowed(policy, "rc", action_.file)

\* What EndSection puts into the lists was there, or is what the parser held.
LEMMA EndElements ==
  ASSUME Inv, EndSection
  PROVE  /\ \A i \in DOMAIN services' :
              \/ \E n \in DOMAIN services : services'[i] = services[n]
              \/ services'[i] = service_ /\ section = "service" /\ service_ # NoService
         /\ \A i \in DOMAIN actions' :
              \/ \E n \in DOMAIN actions : actions'[i] = actions[n]
              \/ actions'[i] = action_ /\ section = "on" /\ action_ # NoAction
<1>1. PICK A : services \in Seq(A)
  BY DEF Inv, ListInv
<1>2. PICK B : actions \in Seq(B)
  BY DEF Inv, ActionInv
<1>3. ASSUME NEW i \in DOMAIN services'
      PROVE  \/ \E n \in DOMAIN services : services'[i] = services[n]
             \/ services'[i] = service_ /\ section = "service" /\ service_ # NoService
  <2>1. CASE services' = services
    BY <2>1
  <2>2. CASE /\ section = "service" /\ service_ # NoService
             /\ services' = Append(RemoveService(service_.name), service_)
    <3>. DEFINE w == RemoveService(service_.name)
    <3>1. w \in Seq(A) /\ OthersOnly(w, service_.name)
      BY <1>1, Removed DEF Inv, ListInv
    <3>. HIDE DEF w
    <3>2. \A k \in DOMAIN w : \E n \in DOMAIN services : w[k] = services[n]
      BY <3>1 DEF OthersOnly
    <3>3. (i \in DOMAIN w /\ services'[i] = w[i]) \/ services'[i] = service_
      BY <1>3, <2>2, <3>1 DEF w
    <3>. QED
      BY <2>2, <3>2, <3>3
  <2>. QED
    BY <2>1, <2>2 DEF EndSection, Ended
<1>4. ASSUME NEW i \in DOMAIN actions'
      PROVE  \/ \E n \in DOMAIN actions : actions'[i] = actions[n]
             \/ actions'[i] = action_ /\ section = "on" /\ action_ # NoAction
  <2>1. CASE actions' = actions
    BY <2>1
  <2>2. CASE section = "on" /\ action_.cmds # <<>> /\ actions' = Append(actions, action_)
    <3>1. action_ # NoAction
      BY <2>2 DEF NoAction
    <3>2. (i \in DOMAIN actions /\ actions'[i] = actions[i]) \/ actions'[i] = action_
      BY <1>2, <1>4, <2>2
    <3>. QED
      BY <2>2, <3>1, <3>2
  <2>. QED
    BY <2>1, <2>2 DEF EndSection, Ended
<1>. QED
  BY <1>3, <1>4

\* So the end of a section keeps what the gates let through.
LEMMA EndKeepsGates ==
  ASSUME Inv, GateInv, EndSection, UNCHANGED <<policy, ran>>
  PROVE  GatesHold'
<1>1. ASSUME NEW i \in DOMAIN services' PROVE Gated(services'[i])
  BY EndElements DEF GateInv, GatesHold, Gated
<1>2. ASSUME NEW i \in DOMAIN actions' PROVE IsAllowed(policy, "rc", actions'[i].file)
  BY EndElements DEF GateInv, GatesHold
<1>. QED
  BY <1>1, <1>2 DEF GateInv, GatesHold, Gated, RebootAllowed, InnitCheckCommand,
     InnitCheckExecPath

\* Every step keeps the gates closed.
LEMMA GateStep ==
  ASSUME Inv, GateInv, [Next]_vars
  PROVE  GateInv'
<1>1. ASSUME UNCHANGED <<policy, services, actions, ran>> PROVE GatesHold'
  BY <1>1 DEF GateInv, GatesHold, RebootAllowed, InnitCheckCommand, InnitCheckExecPath
<1>2. CASE UNCHANGED <<policy, phase, services, actions, ran, section, service_, action_,
                       work, file>>
  BY <1>1, <1>2 DEF GateInv, NothingYet, Gated, RebootAllowed
<1>3. CASE \/ LoadBootScripts \/ ParseApexConfigs
           \/ \E paths \in RcPaths, late \in BOOLEAN : MountAll(paths, late)
  <2>1. /\ UNCHANGED <<policy, services, actions, ran, file>> /\ section' = "none"
        /\ phase' = "running"
    BY <1>3 DEF LoadBootScripts, ParseApexConfigs, MountAll, NewParser, lists, boot, Idle
  <2>. QED
    BY <1>1, <2>1 DEF GateInv
<1>4. CASE LoadPolicy
  <2>1. /\ UNCHANGED <<file, work, services, actions, ran, section>> /\ phase # "running"
    BY <1>4 DEF LoadPolicy, lists, parsing
  <2>2. NothingYet /\ NothingYet'
    BY <2>1 DEF GateInv, NothingYet
  <2>3. GatesHold'
    BY <2>2 DEF GatesHold, NothingYet
  <2>. QED
    BY <2>2, <2>3 DEF GateInv, NothingYet
<1>5. CASE ParseConfigFile \/ ParseConfigDir \/ ParseConfigFails
  <2>1. /\ UNCHANGED <<policy, phase, services, actions, ran, section, service_, action_>>
        /\ work # <<>>
        /\ file' = file \/ ~Denies("rc", file')
    BY <1>5 DEF ParseConfigFile, ParseConfigDir, ParseConfigFails, Kept, parsing, lists, boot
  <2>2. phase = "running"
    BY <2>1 DEF GateInv, NothingYet
  <2>. QED
    BY <1>1, <2>1, <2>2 DEF GateInv, Gated, RebootAllowed, Denies
<1>6. ASSUME NEW c, RunCommand(c) PROVE GateInv'
  <2>1. /\ UNCHANGED <<policy, phase, services, actions, section, service_, action_, work, file>>
        /\ phase = "running" /\ ran' = ran \cup {c}
        /\ c.verb \in GatedVerbs => InnitCheckCommand(c)
        /\ c.verb = "exec" => InnitCheckExecPath(c)
    BY <1>6 DEF RunCommand, parsing, lists, boot, Idle
  <2>2. GatesHold'
    BY <2>1 DEF GateInv, GatesHold, RebootAllowed, InnitCheckCommand, InnitCheckExecPath
  <2>. QED
    BY <2>1, <2>2 DEF GateInv, Gated, RebootAllowed
<1>7. ASSUME file # <<>> PROVE phase = "running" /\ IsAllowed(policy, "rc", file)
  BY <1>7 DEF GateInv, NothingYet
<1>8. CASE EndFile
  <2>1. /\ UNCHANGED <<policy, phase, ran>> /\ EndSection /\ section' = "none"
        /\ file # <<>> /\ file' = <<>>
    BY <1>8 DEF EndFile, boot
  <2>. QED
    BY <1>7, <2>1, EndKeepsGates DEF GateInv
<1>9. ASSUME NEW l \in alphabet,
             RefusedSection(l) \/ ServiceSection(l) \/ OnSection(l) \/ ImportSection(l)
      PROVE  GateInv'
  <2>1. BeginSection(l)
    BY <1>9 DEF RefusedSection, ServiceSection, OnSection, ImportSection
  <2>2. EndSection /\ UNCHANGED <<policy, phase, ran, file>> /\ file # <<>>
    BY <2>1 DEF BeginSection, NextLine, boot
  <2>3. \/ section' \in {"none", "import"}
        \/ section' = "service" /\ service_' = NoService
        \/ section' = "service" /\ service_' = NewService(l) /\ ~Denies("service", l.name)
        \/ section' = "on" /\ action_' = NewAction(l)
    BY <1>9 DEF RefusedSection, ServiceSection, OnSection, ImportSection, DeniedService
  <2>4. /\ NewService(l).name = l.name /\ NewService(l).file = file /\ ~NewService(l).reboot
        /\ NewAction(l).file = file
    BY DEF NewService, NewAction
  <2>5. ASSUME service_' = NewService(l), ~Denies("service", l.name) PROVE Gated(service_')
    BY <1>7, <2>2, <2>4, <2>5 DEF Gated, Denies
  <2>. QED
    BY <1>7, <2>2, <2>3, <2>4, <2>5, EndKeepsGates DEF GateInv, Gated, RebootAllowed
<1>10. ASSUME NEW l \in alphabet, OptionLine(l) PROVE GateInv'
  <2>1. /\ UNCHANGED <<policy, phase, services, actions, ran, section, action_, file>>
        /\ section = "service" /\ file # <<>>
    BY <1>10 DEF OptionLine, NextLine, lists, boot
  <2>2. ASSUME service_ # NoService PROVE Gated(service_')
    <3>. DEFINE t == ParseOption(service_, l)
                u == [t EXCEPT !.lines = t.lines \cup {sections}]
    <3>0. /\ Consistent(service_) /\ Gated(service_)
          /\ \A i \in DOMAIN services : services[i].interfaces \cap service_.interfaces = {}
      BY <2>1, <2>2 DEF Inv, ServiceInv, GateInv
    <3>1. /\ Consistent(t) /\ t.name = service_.name /\ t.file = service_.file
          /\ t.reboot = service_.reboot \/ RebootAllowed(service_.name)
      <4>1. CASE l.key = "interface"
        <5>1. t = ParseInterface(service_, l)
          BY <4>1 DEF ParseOption
        <5>. QED
          BY <3>0, <5>1, InterfaceKeeps
      <4>2. CASE l.key # "interface"
        <5>1. SameService(service_, t)
          BY <3>0, <4>2, OptionKeeps
        <5>. QED
          BY <5>1 DEF SameService
      <4>. QED
        BY <4>1, <4>2
    <3>2. service_' \in {service_, u}
      BY <1>10 DEF OptionLine
    <3>. HIDE DEF t
    <3>3. u.name = t.name /\ u.file = t.file /\ u.reboot = t.reboot
      BY <3>1 DEF Consistent, IsService, ServiceFields
    <3>. HIDE DEF u
    <3>4. Gated(u)
      BY <3>0, <3>1, <3>3 DEF Gated
    <3>. QED
      BY <3>0, <3>2, <3>4
  <2>3. service_ = NoService => service_' = NoService
    BY <1>10 DEF OptionLine
  <2>. QED
    BY <1>1, <1>7, <2>1, <2>2, <2>3 DEF GateInv, Gated, RebootAllowed
<1>11. ASSUME NEW l \in alphabet, CommandLine(l) PROVE GateInv'
  <2>1. /\ UNCHANGED <<policy, phase, services, actions, ran, section, service_, file>>
        /\ section = "on" /\ file # <<>>
    BY <1>11 DEF CommandLine, NextLine, lists, boot
  <2>2. ASSUME action_' # NoAction PROVE IsAllowed(policy, "rc", action_'.file)
    <3>1. CASE action_' = action_
      BY <2>1, <2>2, <3>1 DEF GateInv
    <3>2. CASE /\ action_ # NoAction
               /\ action_' = [action_ EXCEPT !.cmds = Append(@, l), !.lines = @ \cup {sections}]
      <4>1. action_ = [x \in ActionFields |-> action_[x]]
        BY <2>1, <3>2 DEF Inv, ActionInv
      <4>2. action_'.file = action_.file
        BY <3>2, <4>1 DEF ActionFields
      <4>. QED
        BY <2>1, <3>2, <4>2 DEF GateInv
    <3>. QED
      BY <1>11, <3>1, <3>2 DEF CommandLine
  <2>. QED
    BY <1>1, <1>7, <2>1, <2>2 DEF GateInv, Gated, RebootAllowed
<1>12. ASSUME NEW l \in alphabet, SkippedLine(l) PROVE GateInv'
  BY <1>2, <1>12 DEF SkippedLine, NextLine, parsing, lists, boot
<1>13. CASE UNCHANGED vars
  BY <1>2, <1>13 DEF vars, boot, parsing, lists
<1>. QED
  BY <1>3, <1>4, <1>5, <1>6, <1>8, <1>9, <1>10, <1>11, <1>12, <1>13 DEF Next

\* The gates hold from the start.
LEMMA GateInvariance == Spec => []GateInv
<1>1. Init => GateInv
  <2>. SUFFICES ASSUME Init PROVE GateInv
    OBVIOUS
  <2>1. NothingYet
    BY DEF Init, NothingYet
  <2>2. GatesHold
    BY <2>1 DEF GatesHold, NothingYet
  <2>. QED
    BY <2>1, <2>2 DEF GateInv, NothingYet
<1>2. Inv /\ GateInv /\ [Next]_vars => GateInv'
  BY GateStep
<1>. QED
  BY <1>1, <1>2, Invariance, PTL DEF Spec

\* No gate of the policy is gone round: a service is in the list only if the policy
\* let its name and its file pass, an action only if its file did, a service may
\* reboot the device only if its failure rule says so, and a command has run only if
\* its verb and the path of exec passed; whether the file was a boot script, an import,
\* named by mount_all or in an APEX, and whatever sections stood before.
THEOREM GatesAreNeverBypassed == Spec => []GatesHold
<1>1. GateInv => GatesHold
  BY DEF GateInv
<1>. QED
  BY <1>1, GateInvariance, PTL

-----------------------------------------------------------------------------
(* Numbers. *)

\* A set of numbers that holds 0 and with every number the next holds them all.
LEMMA NatSetInduction ==
  ASSUME NEW S \in SUBSET Nat, 0 \in S, \A n \in S : n + 1 \in S
  PROVE  S = Nat
<1>1. SUFFICES ASSUME Nat \ S # {} PROVE FALSE
  OBVIOUS
<1>. DEFINE R == {ss \in Nat \X Nat : ss[1] < ss[2]}
<1>2. IsWellFoundedOn(R, Nat)
  BY NatLessThanWellFounded DEF OpToRel
<1>3. PICK x \in Nat \ S : \A y \in Nat \ S : <<y, x>> \notin R
  <2>. HIDE DEF R
  <2>. QED
    BY <1>1, <1>2, WFMin
<1>4. x # 0 /\ x - 1 \in Nat /\ <<x - 1, x>> \in R
  OBVIOUS
<1>5. x - 1 \in S
  BY <1>3, <1>4
<1>. QED
  BY <1>4, <1>5

-----------------------------------------------------------------------------
(* Patterns. *)

\* Symbol i of the pattern may stand for the subject behind a up to b, when the
\* pattern begins with symbol lo.
Fits(pattern, subject, lo, i, a, b) ==
  IF pattern[i] = "*"
  THEN /\ a <= b
       /\ \/ \A j \in (a + 1)..b : subject[j] # "/"
          \/ i < Len(pattern) /\ pattern[i + 1] = "*"
          \/ i > lo /\ pattern[i - 1] = "*"
  ELSE b = a + 1 /\ pattern[i] = subject[b]

\* The cuts of the subject behind c, for the pattern from symbol p on.
Cuts(pattern, subject, p, c) ==
  {cut \in [p..Len(pattern) + 1 -> 0..Len(subject)] :
     /\ cut[p] = c /\ cut[Len(pattern) + 1] = Len(subject)
     /\ \A i \in p..Len(pattern) : Fits(pattern, subject, p, i, cut[i], cut[i + 1])}

\* Nothing but the end matches nothing.
LEMMA CoversEnd ==
  ASSUME NEW pattern \in Path, NEW subject \in Path, NEW c \in 0..Len(subject)
  PROVE  Cuts(pattern, subject, Len(pattern) + 1, c) # {} <=> c = Len(subject)
<1>. DEFINE P == Len(pattern)
            L == Len(subject)
            cut == [i \in (P + 1)..(P + 1) |-> c]
<1>1. P \in Nat /\ L \in Nat
  BY DEF Path
<1>2. (P + 1)..P = {}
  BY <1>1
<1>3. ASSUME c = L PROVE cut \in Cuts(pattern, subject, P + 1, c)
  <2>1. cut \in [(P + 1)..(P + 1) -> 0..L] /\ cut[P + 1] = c
    BY <1>1
  <2>. HIDE DEF cut, P, L
  <2>. QED
    BY <1>2, <1>3, <2>1 DEF Cuts, P, L
<1>4. ASSUME Cuts(pattern, subject, P + 1, c) # {} PROVE c = L
  BY <1>4 DEF Cuts
<1>. QED
  BY <1>3, <1>4

\* An ordinary symbol stands for itself.
LEMMA CoversSymbol ==
  ASSUME NEW pattern \in Path, NEW subject \in Path, NEW c \in 0..Len(subject),
         NEW p \in 1..Len(pattern), pattern[p] # "*"
  PROVE  Cuts(pattern, subject, p, c) # {} <=>
           /\ c < Len(subject) /\ pattern[p] = subject[c + 1]
           /\ Cuts(pattern, subject, p + 1, c + 1) # {}
<1>. DEFINE P == Len(pattern)
            L == Len(subject)
<1>1. P \in Nat /\ L \in Nat
  BY DEF Path
<1>2. ASSUME NEW cut \in Cuts(pattern, subject, p, c)
      PROVE  /\ c < Len(subject) /\ pattern[p] = subject[c + 1]
             /\ [i \in (p + 1)..(P + 1) |-> cut[i]] \in Cuts(pattern, subject, p + 1, c + 1)
  <2>. DEFINE rest == [i \in (p + 1)..(P + 1) |-> cut[i]]
  <2>1. /\ cut \in [p..(P + 1) -> 0..L] /\ cut[p] = c /\ cut[P + 1] = L
        /\ \A i \in p..P : Fits(pattern, subject, p, i, cut[i], cut[i + 1])
    BY DEF Cuts
  <2>2. cut[p + 1] = c + 1 /\ pattern[p] = subject[c + 1]
    BY <2>1 DEF Fits
  <2>3. cut[p + 1] \in 0..L
    BY <1>1, <2>1
  <2>4. rest \in [(p + 1)..(P + 1) -> 0..L] /\ rest[p + 1] = c + 1 /\ rest[P + 1] = L
    BY <1>1, <2>1, <2>2
  <2>5. ASSUME NEW i \in (p + 1)..P
        PROVE  Fits(pattern, subject, p + 1, i, rest[i], rest[i + 1])
    <3>1. i \in p..P /\ rest[i] = cut[i] /\ rest[i + 1] = cut[i + 1]
      BY <1>1
    <3>2. Fits(pattern, subject, p, i, cut[i], cut[i + 1])
      BY <2>1, <3>1
    <3>3. i > p /\ pattern[i - 1] = "*" => i > p + 1
      BY <1>1
    <3>. HIDE DEF rest
    <3>. QED
      BY <3>1, <3>2, <3>3 DEF Fits
  <2>. HIDE DEF rest, P, L
  <2>6. rest \in Cuts(pattern, subject, p + 1, c + 1)
    BY <2>4, <2>5 DEF Cuts, P, L
  <2>. QED
    BY <1>1, <2>2, <2>3, <2>6 DEF rest, P, L
<1>3. ASSUME c < Len(subject), pattern[p] = subject[c + 1],
             NEW rest \in Cuts(pattern, subject, p + 1, c + 1)
      PROVE  [i \in p..(P + 1) |-> IF i = p THEN c ELSE rest[i]] \in Cuts(pattern, subject, p, c)
  <2>. DEFINE cut == [i \in p..(P + 1) |-> IF i = p THEN c ELSE rest[i]]
  <2>1. /\ rest \in [(p + 1)..(P + 1) -> 0..L] /\ rest[p + 1] = c + 1 /\ rest[P + 1] = L
        /\ \A i \in (p + 1)..P : Fits(pattern, subject, p + 1, i, rest[i], rest[i + 1])
    BY DEF Cuts
  <2>2. cut \in [p..(P + 1) -> 0..L] /\ cut[p] = c /\ cut[P + 1] = L
    BY <1>1, <2>1
  <2>3. ASSUME NEW i \in p..P PROVE Fits(pattern, subject, p, i, cut[i], cut[i + 1])
    <3>1. CASE i = p
      <4>1. cut[i] = c /\ cut[i + 1] = c + 1
        BY <1>1, <2>1, <3>1
      <4>. HIDE DEF cut
      <4>. QED
        BY <1>3, <3>1, <4>1 DEF Fits
    <3>2. CASE i # p
      <4>1. i \in (p + 1)..P /\ cut[i] = rest[i] /\ cut[i + 1] = rest[i + 1]
        BY <1>1, <3>2
      <4>2. Fits(pattern, subject, p + 1, i, rest[i], rest[i + 1])
        BY <2>1, <4>1
      <4>3. i > p + 1 => i > p
        BY <1>1
      <4>. HIDE DEF cut
      <4>. QED
        BY <4>1, <4>2, <4>3 DEF Fits
    <3>. QED
      BY <3>1, <3>2
  <2>. HIDE DEF cut, P, L
  <2>. QED
    BY <2>2, <2>3 DEF Cuts, P, L, cut
<1>. QED
  BY <1>2, <1>3

\* One "*" stands for a stretch without "/".
LEMMA CoversStar ==
  ASSUME NEW pattern \in Path, NEW subject \in Path, NEW c \in 0..Len(subject),
         NEW p \in 1..Len(pattern), pattern[p] = "*",
         ~(p < Len(pattern) /\ pattern[p + 1] = "*")
  PROVE  Cuts(pattern, subject, p, c) # {} <=>
           \E d \in c..Len(subject) : /\ \A j \in (c + 1)..d : subject[j] # "/"
                                      /\ Cuts(pattern, subject, p + 1, d) # {}
<1>. DEFINE P == Len(pattern)
            L == Len(subject)
<1>1. P \in Nat /\ L \in Nat
  BY DEF Path
<1>2. ASSUME NEW cut \in Cuts(pattern, subject, p, c)
      PROVE  \E d \in c..L : /\ \A j \in (c + 1)..d : subject[j] # "/"
                             /\ Cuts(pattern, subject, p + 1, d) # {}
  <2>. DEFINE d == cut[p + 1]
              rest == [i \in (p + 1)..(P + 1) |-> cut[i]]
  <2>1. /\ cut \in [p..(P + 1) -> 0..L] /\ cut[p] = c /\ cut[P + 1] = L
        /\ \A i \in p..P : Fits(pattern, subject, p, i, cut[i], cut[i + 1])
    BY DEF Cuts
  <2>2. d \in 0..L
    BY <1>1, <2>1
  <2>3. c <= d /\ \A j \in (c + 1)..d : subject[j] # "/"
    <3>1. Fits(pattern, subject, p, p, c, d) /\ ~(p > p)
      BY <2>1
    <3>. HIDE DEF d
    <3>. QED
      BY <3>1 DEF Fits
  <2>4. rest \in [(p + 1)..(P + 1) -> 0..L] /\ rest[p + 1] = d /\ rest[P + 1] = L
    BY <1>1, <2>1
  <2>5. ASSUME NEW i \in (p + 1)..P
        PROVE  Fits(pattern, subject, p + 1, i, rest[i], rest[i + 1])
    <3>1. i \in p..P /\ rest[i] = cut[i] /\ rest[i + 1] = cut[i + 1]
      BY <1>1
    <3>2. Fits(pattern, subject, p, i, cut[i], cut[i + 1])
      BY <2>1, <3>1
    <3>3. i = p + 1 \/ i > p + 1
      BY <1>1
    <3>4. i = p + 1 => pattern[i] # "*"
      BY <1>1
    <3>. HIDE DEF rest
    <3>. QED
      BY <3>1, <3>2, <3>3, <3>4 DEF Fits
  <2>. HIDE DEF rest, P, L, d
  <2>6. rest \in Cuts(pattern, subject, p + 1, d)
    BY <2>4, <2>5 DEF Cuts, P, L
  <2>7. d \in c..L
    BY <1>1, <2>2, <2>3
  <2>. QED
    BY <2>3, <2>6, <2>7
<1>3. ASSUME NEW d \in c..L, \A j \in (c + 1)..d : subject[j] # "/",
             NEW rest \in Cuts(pattern, subject, p + 1, d)
      PROVE  [i \in p..(P + 1) |-> IF i = p THEN c ELSE rest[i]] \in Cuts(pattern, subject, p, c)
  <2>. DEFINE cut == [i \in p..(P + 1) |-> IF i = p THEN c ELSE rest[i]]
  <2>1. /\ rest \in [(p + 1)..(P + 1) -> 0..L] /\ rest[p + 1] = d /\ rest[P + 1] = L
        /\ \A i \in (p + 1)..P : Fits(pattern, subject, p + 1, i, rest[i], rest[i + 1])
    BY DEF Cuts
  <2>2. cut \in [p..(P + 1) -> 0..L] /\ cut[p] = c /\ cut[P + 1] = L
    BY <1>1, <2>1
  <2>3. ASSUME NEW i \in p..P PROVE Fits(pattern, subject, p, i, cut[i], cut[i + 1])
    <3>1. CASE i = p
      <4>1. cut[i] = c /\ cut[i + 1] = d /\ c <= d
        BY <1>1, <2>1, <3>1
      <4>. HIDE DEF cut
      <4>. QED
        BY <1>3, <3>1, <4>1 DEF Fits
    <3>2. CASE i # p
      <4>1. i \in (p + 1)..P /\ cut[i] = rest[i] /\ cut[i + 1] = rest[i + 1]
        BY <1>1, <3>2
      <4>2. Fits(pattern, subject, p + 1, i, rest[i], rest[i + 1])
        BY <2>1, <4>1
      <4>3. i > p + 1 => i > p
        BY <1>1
      <4>. HIDE DEF cut
      <4>. QED
        BY <4>1, <4>2, <4>3 DEF Fits
    <3>. QED
      BY <3>1, <3>2
  <2>. HIDE DEF cut, P, L
  <2>. QED
    BY <2>2, <2>3 DEF Cuts, P, L, cut
<1>. QED
  BY <1>2, <1>3

\* Two stand for any; a third one right behind may then stand for nothing.
LEMMA CoversDoubleStar ==
  ASSUME NEW pattern \in Path, NEW subject \in Path, NEW c \in 0..Len(subject),
         NEW p \in 1..Len(pattern), pattern[p] = "*", p < Len(pattern), pattern[p + 1] = "*"
  PROVE  Cuts(pattern, subject, p, c) # {} <=>
           \E d \in c..Len(subject) : Cuts(pattern, subject, p + 2, d) # {}
<1>. DEFINE P == Len(pattern)
            L == Len(subject)
<1>1. P \in Nat /\ L \in Nat /\ p + 1 \in 1..P
  BY DEF Path
<1>2. ASSUME NEW cut \in Cuts(pattern, subject, p, c)
      PROVE  \E d \in c..L : Cuts(pattern, subject, p + 2, d) # {}
  <2>. DEFINE d == IF p + 2 <= P /\ pattern[p + 2] = "*" THEN cut[p + 3] ELSE cut[p + 2]
              rest == [i \in (p + 2)..(P + 1) |-> IF i = p + 2 THEN d ELSE cut[i]]
  <2>1. /\ cut \in [p..(P + 1) -> 0..L] /\ cut[p] = c /\ cut[P + 1] = L
        /\ \A i \in p..P : Fits(pattern, subject, p, i, cut[i], cut[i + 1])
    BY DEF Cuts
  <2>2. /\ cut[p + 1] \in 0..L /\ cut[p + 2] \in 0..L
        /\ p + 2 <= P => cut[p + 3] \in 0..L
    <3>1. /\ p + 1 \in p..(P + 1) /\ p + 2 \in p..(P + 1)
          /\ p + 2 <= P => p + 3 \in p..(P + 1)
      BY <1>1
    <3>. HIDE DEF P, L
    <3>. QED
      BY <2>1, <3>1
  <2>3. c <= cut[p + 1] /\ cut[p + 1] <= cut[p + 2]
    <3>1. (p + 1) + 1 = p + 2
      BY <1>1
    <3>2. Fits(pattern, subject, p, p, c, cut[p + 1])
          /\ Fits(pattern, subject, p, p + 1, cut[p + 1], cut[p + 2])
      BY <1>1, <2>1, <3>1
    <3>. QED
      BY <3>2 DEF Fits
  <2>4. p + 2 <= P /\ pattern[p + 2] = "*" => cut[p + 2] <= cut[p + 3]
    <3>1. SUFFICES ASSUME p + 2 <= P, pattern[p + 2] = "*" PROVE cut[p + 2] <= cut[p + 3]
      OBVIOUS
    <3>2. (p + 2) + 1 = p + 3 /\ p + 2 \in p..P
      BY <1>1, <3>1
    <3>3. Fits(pattern, subject, p, p + 2, cut[p + 2], cut[p + 3])
      BY <2>1, <3>2
    <3>. QED
      BY <3>1, <3>3 DEF Fits
  <2>5. d \in c..L
    BY <1>1, <2>2, <2>3, <2>4
  <2>6. /\ rest \in [(p + 2)..(P + 1) -> 0..L] /\ rest[p + 2] = d
        /\ \A i \in (p + 3)..(P + 1) : rest[i] = cut[i]
        /\ p + 2 <= P \/ p + 2 = P + 1
    <3>1. d \in 0..L
      BY <1>1, <2>5
    <3>. HIDE DEF d
    <3>. QED
      BY <1>1, <2>1, <3>1
  <2>. HIDE DEF rest
  <2>7. rest[P + 1] = L
    <3>1. CASE p + 2 = P + 1
      BY <1>1, <2>1, <2>6, <3>1
    <3>2. CASE p + 2 <= P
      <4>1. P + 1 \in (p + 3)..(P + 1)
        BY <1>1, <3>2
      <4>. QED
        BY <2>1, <2>6, <4>1
    <3>. QED
      BY <2>6, <3>1, <3>2
  <2>8. ASSUME NEW i \in (p + 2)..P
        PROVE  Fits(pattern, subject, p + 2, i, rest[i], rest[i + 1])
    <3>1. i \in p..P /\ rest[i + 1] = cut[i + 1]
      BY <1>1, <2>6
    <3>2. Fits(pattern, subject, p, i, cut[i], cut[i + 1])
      BY <2>1, <3>1
    <3>3. CASE i = p + 2 /\ pattern[i] = "*"
      <4>1. rest[i] = cut[p + 3] /\ rest[i + 1] = cut[p + 3] /\ cut[p + 3] \in Int
        <5>1. i + 1 = p + 3 /\ p + 2 <= P
          BY <1>1, <3>3
        <5>. QED
          BY <1>1, <2>2, <2>6, <3>1, <3>3, <5>1
      <4>2. \A x \in Int : x <= x /\ (x + 1)..x = {}
        OBVIOUS
      <4>. QED
        BY <3>3, <4>1, <4>2 DEF Fits
    <3>4. CASE i = p + 2 /\ pattern[i] # "*"
      <4>1. rest[i] = cut[i]
        BY <1>1, <2>6, <3>4
      <4>. QED
        BY <3>1, <3>2, <3>4, <4>1 DEF Fits
    <3>5. CASE i # p + 2
      <4>1. i \in (p + 3)..(P + 1) /\ rest[i] = cut[i] /\ i > p + 2
        BY <1>1, <2>6, <3>5
      <4>. QED
        BY <3>1, <3>2, <4>1 DEF Fits
    <3>. QED
      BY <3>3, <3>4, <3>5
  <2>. HIDE DEF P, L, d
  <2>9. rest \in Cuts(pattern, subject, p + 2, d)
    BY <2>6, <2>7, <2>8 DEF Cuts, P, L
  <2>. QED
    BY <2>5, <2>9
<1>3. ASSUME NEW d \in c..L, NEW rest \in Cuts(pattern, subject, p + 2, d)
      PROVE  [i \in p..(P + 1) |-> IF i = p \/ i = p + 1 THEN c ELSE rest[i]]
               \in Cuts(pattern, subject, p, c)
  <2>. DEFINE cut == [i \in p..(P + 1) |-> IF i = p \/ i = p + 1 THEN c ELSE rest[i]]
  <2>1. /\ rest \in [(p + 2)..(P + 1) -> 0..L] /\ rest[p + 2] = d /\ rest[P + 1] = L
        /\ \A i \in (p + 2)..P : Fits(pattern, subject, p + 2, i, rest[i], rest[i + 1])
    BY DEF Cuts
  <2>2. /\ cut \in [p..(P + 1) -> 0..L] /\ cut[p] = c /\ cut[p + 1] = c /\ cut[P + 1] = L
        /\ \A i \in (p + 2)..(P + 1) : cut[i] = rest[i]
    BY <1>1, <2>1
  <2>. HIDE DEF cut
  <2>3. ASSUME NEW i \in p..P PROVE Fits(pattern, subject, p, i, cut[i], cut[i + 1])
    <3>1. CASE i = p
      <4>1. cut[i] <= cut[i + 1]
        BY <1>1, <2>2, <3>1
      <4>. QED
        BY <3>1, <4>1 DEF Fits
    <3>2. CASE i = p + 1
      <4>1. i + 1 = p + 2 /\ p + 2 \in (p + 2)..(P + 1) /\ i - 1 = p /\ i > p
        BY <1>1, <3>2
      <4>2. cut[i] <= cut[i + 1]
        BY <1>1, <2>1, <2>2, <3>2, <4>1
      <4>. QED
        BY <3>2, <4>1, <4>2 DEF Fits
    <3>3. CASE i # p /\ i # p + 1
      <4>1. /\ i \in (p + 2)..P /\ cut[i] = rest[i] /\ cut[i + 1] = rest[i + 1]
            /\ i > p + 2 => i > p
        BY <1>1, <2>2, <3>3
      <4>2. Fits(pattern, subject, p + 2, i, rest[i], rest[i + 1])
        BY <2>1, <4>1
      <4>. QED
        BY <4>1, <4>2 DEF Fits
    <3>. QED
      BY <3>1, <3>2, <3>3
  <2>. HIDE DEF P, L
  <2>. QED
    BY <2>2, <2>3 DEF Cuts, P, L, cut
<1>. QED
  BY <1>2, <1>3

\* What the recursion of GlobMatch() is at each step.
Step(pattern, subject, n, one, two) ==
  LET p == Len(pattern) - n + 1
      S == Len(subject) + 1
      double_star == n > 1 /\ pattern[p + 1] = "*"
  IN [s \in 1..S |->
        CASE n = 0 -> s = S
          [] n > 0 /\ pattern[p] = "*" ->
               \E i \in s..S : /\ double_star \/ \A j \in s..(i - 1) : subject[j] # "/"
                               /\ IF double_star THEN two[i] ELSE one[i]
          [] OTHER -> s < S /\ pattern[p] = subject[s] /\ one[s + 1]]

\* GlobMatch() takes that many steps.
LEMMA MatchSteps ==
  ASSUME NEW pattern \in Path, NEW subject \in Path
  PROVE  \E F : /\ \A n \in 0..Len(pattern) :
                     F[n] = Step(pattern, subject, n, F[n - 1], F[n - 2])
                /\ GlobMatch(pattern, subject) <=> F[Len(pattern)][1]
<1>. DEFINE P == Len(pattern)
            B(h, n) == Step(pattern, subject, n, h[n - 1], h[n - 2])
            Loop(h, n) == [k \in 0..n |-> B(h, k)]
            F == CHOOSE h : h = Loop(h, P)
<1>1. P \in Nat
  BY DEF Path
<1>2. GlobMatch(pattern, subject) <=> F[P][1]
  BY DEF GlobMatch, Step
<1>3. ASSUME NEW h, NEW g, NEW k \in Nat, k > 0 => h[k - 1] = g[k - 1],
             k > 1 => h[k - 2] = g[k - 2]
      PROVE  B(h, k) = B(g, k)
  <2>1. CASE k = 0
    BY <2>1 DEF Step
  <2>2. CASE k = 1
    <3>1. \A one, x, y : Step(pattern, subject, 1, one, x) = Step(pattern, subject, 1, one, y)
      BY DEF Step
    <3>2. h[k - 1] = g[k - 1]
      BY <1>3, <2>2
    <3>. QED
      BY <2>2, <3>1, <3>2
  <2>3. CASE k > 1
    BY <1>3, <2>3
  <2>. QED
    BY <2>1, <2>2, <2>3
<1>. HIDE DEF P, B
<1>4. \A n \in Nat : \E h : h = Loop(h, n)
  <2>. DEFINE T == {n \in Nat : \E h : h = Loop(h, n)}
  <2>1. 0 \in T
    <3>. DEFINE f0 == [k \in 0..0 |-> B([x \in {} |-> 0], 0)]
    <3>1. ASSUME NEW k \in 0..0 PROVE f0[k] = B(f0, k)
      <4>1. k = 0
        OBVIOUS
      <4>2. B([x \in {} |-> 0], 0) = B(f0, 0)
        <5>. HIDE DEF f0
        <5>. QED
          BY <1>3
      <4>. QED
        BY <4>1, <4>2
    <3>2. f0 = Loop(f0, 0)
      BY <3>1
    <3>. HIDE DEF f0
    <3>3. \E h : h = Loop(h, 0)
      BY <3>2
    <3>. QED
      BY <3>3
  <2>2. ASSUME NEW n \in T PROVE n + 1 \in T
    <3>1. PICK h : h = Loop(h, n)
      OBVIOUS
    <3>. DEFINE g == [k \in 0..(n + 1) |-> IF k = n + 1 THEN B(h, k) ELSE h[k]]
    <3>2. ASSUME NEW k \in 0..(n + 1) PROVE g[k] = B(g, k)
      <4>1. /\ k > 0 => h[k - 1] = g[k - 1]
            /\ k > 1 => h[k - 2] = g[k - 2]
        OBVIOUS
      <4>2. g[k] = B(h, k)
        <5>1. CASE k = n + 1
          BY <5>1
        <5>2. CASE k # n + 1
          <6>1. k \in 0..n
            BY <5>2
          <6>2. h[k] = B(h, k)
            BY <3>1, <6>1
          <6>. QED
            BY <5>2, <6>2
        <5>. QED
          BY <5>1, <5>2
      <4>3. B(h, k) = B(g, k)
        <5>. HIDE DEF g
        <5>. QED
          BY <1>3, <4>1
      <4>. QED
        BY <4>2, <4>3
    <3>3. g = Loop(g, n + 1)
      BY <3>2
    <3>4. \E h2 : h2 = Loop(h2, n + 1)
      <4>. HIDE DEF g
      <4>. QED
        BY <3>3
    <3>5. n + 1 \in Nat
      OBVIOUS
    <3>. QED
      BY <3>4, <3>5
  <2>. HIDE DEF T
  <2>3. T \in SUBSET Nat
    BY DEF T
  <2>4. T = Nat
    BY <2>1, <2>2, <2>3, NatSetInduction
  <2>. QED
    BY <2>4 DEF T
<1>5. F = Loop(F, P)
  BY <1>1, <1>4
<1>6. \A n \in 0..P : F[n] = B(F, n)
  BY <1>5
<1>. HIDE DEF F
<1>. QED
  BY <1>2, <1>6 DEF B, P

\* A pattern matches what it covers: GlobMatch() takes every way of cutting the subject
\* into account, and no other.
LEMMA GlobMatchIsCovers ==
  ASSUME NEW pattern \in Path, NEW subject \in Path
  PROVE  GlobMatch(pattern, subject) <=> Covers(pattern, subject)
<1>. DEFINE P == Len(pattern)
            L == Len(subject)
<1>1. P \in Nat /\ L \in Nat
  BY DEF Path
<1>2. PICK F : /\ \A n \in 0..P : F[n] = Step(pattern, subject, n, F[n - 1], F[n - 2])
               /\ GlobMatch(pattern, subject) <=> F[P][1]
  BY MatchSteps
<1>. DEFINE Good(n) == \A s \in 1..(L + 1) :
                         F[n][s] <=> Cuts(pattern, subject, P - n + 1, s - 1) # {}
            T == {n \in Nat : \A m \in 0..n : m <= P => Good(m)}
<1>3. ASSUME NEW n \in 0..P, n > 0 => Good(n - 1), n > 1 => Good(n - 2)
      PROVE  Good(n)
  <2>. SUFFICES ASSUME NEW s \in 1..(L + 1)
                PROVE  F[n][s] <=> Cuts(pattern, subject, P - n + 1, s - 1) # {}
    OBVIOUS
  <2>. DEFINE p == P - n + 1
              c == s - 1
              ds == n > 1 /\ pattern[p + 1] = "*"
  <2>1. c \in 0..L /\ p \in 1..(P + 1) /\ (n > 0 => p \in 1..P)
    BY <1>1
  <2>2. F[n][s] <=>
          CASE n = 0 -> s = L + 1
            [] n > 0 /\ pattern[p] = "*" ->
                 \E i \in s..(L + 1) :
                    /\ ds \/ \A j \in s..(i - 1) : subject[j] # "/"
                    /\ IF ds THEN F[n - 2][i] ELSE F[n - 1][i]
            [] OTHER -> s < L + 1 /\ pattern[p] = subject[s] /\ F[n - 1][s + 1]
    BY <1>1, <1>2 DEF Step
  <2>3. CASE n = 0
    <3>1. p = P + 1 /\ (s = L + 1 <=> c = L)
      BY <1>1, <2>3
    <3>2. Cuts(pattern, subject, P + 1, c) # {} <=> c = L
      BY <2>1, CoversEnd
    <3>. HIDE DEF p, c, P, L
    <3>. QED
      BY <2>2, <2>3, <3>1, <3>2 DEF p, c
  <2>4. CASE n > 0 /\ pattern[p] # "*"
    <3>1. Cuts(pattern, subject, p, c) # {} <=>
            /\ c < L /\ pattern[p] = subject[c + 1]
            /\ Cuts(pattern, subject, p + 1, c + 1) # {}
      <4>1. p \in 1..P /\ c \in 0..L /\ pattern[p] # "*"
        BY <2>1, <2>4
      <4>. HIDE DEF p, c
      <4>. QED
        BY <4>1, CoversSymbol
    <3>2. /\ c + 1 = s /\ (c < L <=> s < L + 1) /\ p + 1 = P - (n - 1) + 1
          /\ (s + 1) - 1 = c + 1 /\ (s < L + 1 => s + 1 \in 1..(L + 1))
      BY <1>1
    <3>3. s < L + 1 => (F[n - 1][s + 1] <=> Cuts(pattern, subject, p + 1, c + 1) # {})
      <4>1. SUFFICES ASSUME s < L + 1
                     PROVE F[n - 1][s + 1] <=> Cuts(pattern, subject, p + 1, c + 1) # {}
        OBVIOUS
      <4>2. F[n - 1][s + 1] <=> Cuts(pattern, subject, P - (n - 1) + 1, (s + 1) - 1) # {}
        BY <1>3, <2>4, <3>2, <4>1
      <4>. HIDE DEF p, c, P, L
      <4>. QED
        BY <3>2, <4>2
    <3>4. F[n][s] <=> s < L + 1 /\ pattern[p] = subject[s] /\ F[n - 1][s + 1]
      <4>. HIDE DEF p, c, P, L
      <4>. QED
        BY <2>2, <2>4
    <3>. HIDE DEF p, c, P, L
    <3>5. F[n][s] <=> Cuts(pattern, subject, p, c) # {}
      BY <3>1, <3>2, <3>3, <3>4
    <3>. QED
      BY <3>5 DEF p, c
  <2>5. CASE n > 0 /\ pattern[p] = "*" /\ ~ds
    <3>1. ~(p < P /\ pattern[p + 1] = "*")
      BY <1>1, <2>5
    <3>2. Cuts(pattern, subject, p, c) # {} <=>
            \E d \in c..L : /\ \A j \in (c + 1)..d : subject[j] # "/"
                            /\ Cuts(pattern, subject, p + 1, d) # {}
      BY <2>1, <2>5, <3>1, CoversStar
    <3>3. F[n][s] <=> \E i \in s..(L + 1) : /\ \A j \in s..(i - 1) : subject[j] # "/"
                                            /\ F[n - 1][i]
      <4>. HIDE DEF p, c, P, L, ds
      <4>. QED
        BY <2>2, <2>5
    <3>4. p + 1 = P - (n - 1) + 1 /\ c + 1 = s
      BY <1>1
    <3>5. \A i \in s..(L + 1) : F[n - 1][i] <=> Cuts(pattern, subject, p + 1, i - 1) # {}
      <4>. SUFFICES ASSUME NEW i \in s..(L + 1)
                    PROVE F[n - 1][i] <=> Cuts(pattern, subject, p + 1, i - 1) # {}
        OBVIOUS
      <4>1. i \in 1..(L + 1)
        BY <1>1
      <4>2. F[n - 1][i] <=> Cuts(pattern, subject, P - (n - 1) + 1, i - 1) # {}
        BY <1>3, <2>5, <4>1
      <4>. HIDE DEF p, P, L
      <4>. QED
        BY <3>4, <4>2
    <3>6. /\ \A i \in s..(L + 1) : i - 1 \in c..L
          /\ \A d \in c..L : d + 1 \in s..(L + 1) /\ (d + 1) - 1 = d
      BY <1>1
    <3>. HIDE DEF p, P, L, ds, c
    <3>7. F[n][s] <=> Cuts(pattern, subject, p, c) # {}
      <4>1. ASSUME F[n][s] PROVE Cuts(pattern, subject, p, c) # {}
        <5>1. PICK i \in s..(L + 1) : (\A j \in s..(i - 1) : subject[j] # "/") /\ F[n - 1][i]
          BY <3>3, <4>1
        <5>2. i - 1 \in c..L /\ \A j \in (c + 1)..(i - 1) : subject[j] # "/"
          BY <3>4, <3>6, <5>1
        <5>. QED
          BY <3>2, <3>5, <5>1, <5>2
      <4>2. ASSUME Cuts(pattern, subject, p, c) # {} PROVE F[n][s]
        <5>1. PICK d \in c..L : /\ \A j \in (c + 1)..d : subject[j] # "/"
                                /\ Cuts(pattern, subject, p + 1, d) # {}
          BY <3>2, <4>2
        <5>2. d + 1 \in s..(L + 1) /\ (d + 1) - 1 = d
          BY <3>6
        <5>3. F[n - 1][d + 1] /\ \A j \in s..((d + 1) - 1) : subject[j] # "/"
          BY <3>4, <3>5, <5>1, <5>2
        <5>. QED
          BY <3>3, <5>2, <5>3
      <4>. QED
        BY <4>1, <4>2
    <3>. QED
      BY <3>7 DEF p, c
  <2>6. CASE n > 0 /\ pattern[p] = "*" /\ ds
    <3>1. p < P /\ pattern[p + 1] = "*" /\ p \in 1..P
      BY <1>1, <2>6
    <3>2. Cuts(pattern, subject, p, c) # {} <=>
            \E d \in c..L : Cuts(pattern, subject, p + 2, d) # {}
      <4>. HIDE DEF p, c
      <4>. QED
        BY <2>1, <2>6, <3>1, CoversDoubleStar
    <3>3. F[n][s] <=> \E i \in s..(L + 1) : F[n - 2][i]
      <4>. HIDE DEF p, c, P, L, ds
      <4>. QED
        BY <2>2, <2>6
    <3>4. p + 2 = P - (n - 2) + 1 /\ n > 1
      BY <1>1, <2>6
    <3>5. \A i \in s..(L + 1) : F[n - 2][i] <=> Cuts(pattern, subject, p + 2, i - 1) # {}
      <4>. SUFFICES ASSUME NEW i \in s..(L + 1)
                    PROVE F[n - 2][i] <=> Cuts(pattern, subject, p + 2, i - 1) # {}
        OBVIOUS
      <4>1. i \in 1..(L + 1)
        BY <1>1
      <4>2. F[n - 2][i] <=> Cuts(pattern, subject, P - (n - 2) + 1, i - 1) # {}
        BY <1>3, <3>4, <4>1
      <4>. HIDE DEF p, P, L
      <4>. QED
        BY <3>4, <4>2
    <3>6. /\ \A i \in s..(L + 1) : i - 1 \in c..L
          /\ \A d \in c..L : d + 1 \in s..(L + 1) /\ (d + 1) - 1 = d
      BY <1>1
    <3>. HIDE DEF p, P, L, ds, c
    <3>7. F[n][s] <=> Cuts(pattern, subject, p, c) # {}
      BY <3>2, <3>3, <3>5, <3>6
    <3>. QED
      BY <3>7 DEF p, c
  <2>. QED
    BY <1>1, <2>3, <2>4, <2>5, <2>6
<1>. HIDE DEF Good
<1>4. T = Nat
  <2>1. 0 \in T
    <3>1. 0 \in 0..P
      BY <1>1
    <3>2. Good(0)
      BY <1>3, <3>1
    <3>. QED
      BY <3>2
  <2>2. ASSUME NEW n \in T PROVE n + 1 \in T
    <3>1. CASE n + 1 <= P
      <4>1. n + 1 \in 0..P /\ (n + 1) - 1 = n /\ (n + 1 > 1 => (n + 1) - 2 \in 0..n)
        BY <1>1, <3>1
      <4>2. Good((n + 1) - 1) /\ (n + 1 > 1 => Good((n + 1) - 2))
        BY <1>1, <3>1, <4>1
      <4>3. Good(n + 1)
        BY <1>3, <4>1, <4>2
      <4>. QED
        BY <4>3
    <3>2. CASE ~(n + 1 <= P)
      <4>1. \A m \in 0..(n + 1) : m <= P => m \in 0..n
        BY <1>1, <3>2
      <4>. QED
        BY <4>1
    <3>. QED
      BY <3>1, <3>2
  <2>3. T \in SUBSET Nat
    OBVIOUS
  <2>. HIDE DEF T
  <2>. QED
    BY <2>1, <2>2, <2>3, NatSetInduction
<1>5. Good(P)
  BY <1>1, <1>4
<1>6. F[P][1] <=> Cuts(pattern, subject, 1, 0) # {}
  <2>1. P - P + 1 = 1 /\ 1 - 1 = 0 /\ 1 \in 1..(L + 1)
    BY <1>1
  <2>. HIDE DEF P, L
  <2>2. F[P][1] <=> Cuts(pattern, subject, P - P + 1, 1 - 1) # {}
    BY <1>5, <2>1 DEF Good
  <2>. QED
    BY <2>1, <2>2
<1>7. Covers(pattern, subject) <=> Cuts(pattern, subject, 1, 0) # {}
  BY DEF Covers, Cuts, Fits
<1>. QED
  BY <1>2, <1>6, <1>7

-----------------------------------------------------------------------------
(* Reading innit.xml. *)

\* ParseSectionElement() applies ParseElement() to one element after the other.
LEMMA SectionSteps ==
  ASSUME NEW first, NEW sec, IsList(sec.elements), first.loaded,
         sec.tag \in RuleSections \cup {"command-policy", "failure-policy", "logging"}
  PROVE  \E F : /\ F[0] = first
                /\ \A j \in 1..Len(sec.elements) :
                     F[j] = ParseElement(F[j - 1], sec.tag, sec.elements[j])
                /\ ParseSectionElement(first, sec) = F[Len(sec.elements)]
<1>. DEFINE N == Len(sec.elements)
            B(x, j) == ParseElement(x, sec.tag, sec.elements[j])
            Loop(h, n) == [j \in 0..n |-> IF j = 0 THEN first ELSE B(h[j - 1], j)]
            F == CHOOSE h : h = Loop(h, N)
<1>0. sec.tag # "identity"
  BY DEF RuleSections, SectionOf, Gates
<1>1. N \in Nat
  BY DEF IsList
<1>2. ParseSectionElement(first, sec) = F[N]
  <2>. HIDE DEF F
  <2>. QED
    BY <1>0 DEF ParseSectionElement, F
<1>. HIDE DEF N, B
<1>3. \A n \in Nat : \E h : h = Loop(h, n)
  <2>. DEFINE T == {n \in Nat : \E h : h = Loop(h, n)}
  <2>1. 0 \in T
    <3>. DEFINE f0 == [j \in 0..0 |-> first]
    <3>1. f0 = Loop(f0, 0)
      OBVIOUS
    <3>. QED
      BY <3>1
  <2>2. ASSUME NEW n \in T PROVE n + 1 \in T
    <3>1. PICK h : h = Loop(h, n)
      OBVIOUS
    <3>. DEFINE new == B(h[n], n + 1)
                g == [j \in 0..(n + 1) |-> IF j = n + 1 THEN new ELSE h[j]]
    <3>. HIDE DEF new
    <3>2. ASSUME NEW j \in 0..(n + 1) PROVE g[j] = Loop(g, n + 1)[j]
      <4>1. CASE j = n + 1
        <5>1. j # 0 /\ j - 1 = n /\ g[n] = h[n] /\ g[j] = new
          BY <4>1
        <5>2. Loop(g, n + 1)[j] = B(g[j - 1], j)
          BY <5>1
        <5>. QED
          BY <4>1, <5>1, <5>2 DEF new
      <4>2. CASE j # n + 1
        <5>1. j \in 0..n /\ g[j] = h[j]
          BY <4>2
        <5>2. h[j] = IF j = 0 THEN first ELSE B(h[j - 1], j)
          BY <3>1, <5>1
        <5>3. j # 0 => g[j - 1] = h[j - 1]
          BY <5>1
        <5>. QED
          BY <5>1, <5>2, <5>3
      <4>. QED
        BY <4>1, <4>2
    <3>3. g = Loop(g, n + 1)
      BY <3>2
    <3>4. n + 1 \in Nat
      OBVIOUS
    <3>5. \E h2 : h2 = Loop(h2, n + 1)
      <4>. HIDE DEF g
      <4>. QED
        BY <3>3
    <3>. QED
      BY <3>4, <3>5
  <2>. HIDE DEF T
  <2>3. T \in SUBSET Nat
    BY DEF T
  <2>4. T = Nat
    BY <2>1, <2>2, <2>3, NatSetInduction
  <2>. QED
    BY <2>4 DEF T
<1>4. F = Loop(F, N)
  BY <1>1, <1>3
<1>5. \A j \in 0..N : F[j] = IF j = 0 THEN first ELSE B(F[j - 1], j)
  BY <1>4
<1>. HIDE DEF F
<1>6. F[0] = first /\ \A j \in 1..N : F[j] = B(F[j - 1], j)
  BY <1>1, <1>5
<1>. QED
  BY <1>2, <1>6 DEF B, N

\* LoadFromFile() likewise, section by section.
LEMMA FileSteps ==
  ASSUME NEW d, IsDoc(d)
  PROVE  \E F : /\ F[0] = ParseRoot(d)
                /\ \A i \in 1..Len(d.sections) :
                     F[i] = ParseSectionElement(F[i - 1], d.sections[i])
                /\ LoadFromFile(d) = F[Len(d.sections)]
<1>. DEFINE N == Len(d.sections)
            policy0 == ParseRoot(d)
            B(x, j) == ParseSectionElement(x, d.sections[j])
            Loop(h, n) == [j \in 0..n |-> IF j = 0 THEN policy0 ELSE B(h[j - 1], j)]
            F == CHOOSE h : h = Loop(h, N)
<1>1. N \in Nat
  BY DEF IsDoc, IsList
<1>2. LoadFromFile(d) = F[N]
  <2>. HIDE DEF F
  <2>. QED
    BY DEF LoadFromFile, F
<1>. HIDE DEF N, B, policy0
<1>3. \A n \in Nat : \E h : h = Loop(h, n)
  <2>. DEFINE T == {n \in Nat : \E h : h = Loop(h, n)}
  <2>1. 0 \in T
    <3>. DEFINE f0 == [j \in 0..0 |-> policy0]
    <3>1. f0 = Loop(f0, 0)
      OBVIOUS
    <3>. QED
      BY <3>1
  <2>2. ASSUME NEW n \in T PROVE n + 1 \in T
    <3>1. PICK h : h = Loop(h, n)
      OBVIOUS
    <3>. DEFINE new == B(h[n], n + 1)
                g == [j \in 0..(n + 1) |-> IF j = n + 1 THEN new ELSE h[j]]
    <3>. HIDE DEF new
    <3>2. ASSUME NEW j \in 0..(n + 1) PROVE g[j] = Loop(g, n + 1)[j]
      <4>1. CASE j = n + 1
        <5>1. j # 0 /\ j - 1 = n /\ g[n] = h[n] /\ g[j] = new
          BY <4>1
        <5>2. Loop(g, n + 1)[j] = B(g[j - 1], j)
          BY <5>1
        <5>. QED
          BY <4>1, <5>1, <5>2 DEF new
      <4>2. CASE j # n + 1
        <5>1. j \in 0..n /\ g[j] = h[j]
          BY <4>2
        <5>2. h[j] = IF j = 0 THEN policy0 ELSE B(h[j - 1], j)
          BY <3>1, <5>1
        <5>3. j # 0 => g[j - 1] = h[j - 1]
          BY <5>1
        <5>. QED
          BY <5>1, <5>2, <5>3
      <4>. QED
        BY <4>1, <4>2
    <3>3. g = Loop(g, n + 1)
      BY <3>2
    <3>4. n + 1 \in Nat
      OBVIOUS
    <3>5. \E h2 : h2 = Loop(h2, n + 1)
      <4>. HIDE DEF g
      <4>. QED
        BY <3>3
    <3>. QED
      BY <3>4, <3>5
  <2>. HIDE DEF T
  <2>3. T \in SUBSET Nat
    BY DEF T
  <2>4. T = Nat
    BY <2>1, <2>2, <2>3, NatSetInduction
  <2>. QED
    BY <2>4 DEF T
<1>4. F = Loop(F, N)
  BY <1>1, <1>3
<1>5. \A j \in 0..N : F[j] = IF j = 0 THEN policy0 ELSE B(F[j - 1], j)
  BY <1>4
<1>. HIDE DEF F
<1>6. F[0] = policy0 /\ \A j \in 1..N : F[j] = B(F[j - 1], j)
  BY <1>1, <1>5
<1>. QED
  BY <1>2, <1>6 DEF B, N, policy0

\* A set of numbers that is not empty has a least one.
LEMMA LeastNumber ==
  ASSUME NEW S \in SUBSET Nat, S # {}
  PROVE  \E k \in S : \A j \in S : k <= j
<1>. DEFINE R == {ss \in Nat \X Nat : ss[1] < ss[2]}
<1>1. IsWellFoundedOn(R, Nat)
  BY NatLessThanWellFounded DEF OpToRel
<1>2. PICK x \in S : \A y \in S : <<y, x>> \notin R
  <2>. HIDE DEF R
  <2>. QED
    BY <1>1, WFMin
<1>3. ASSUME NEW y \in S PROVE x <= y
  <2>1. x \in Nat /\ y \in Nat /\ <<y, x>> \notin R
    BY <1>2
  <2>2. <<y, x>> \in Nat \X Nat /\ <<y, x>>[1] = y /\ <<y, x>>[2] = x
    BY <2>1
  <2>3. ~(y < x)
    BY <2>1, <2>2
  <2>. QED
    BY <2>1, <2>3
<1>. QED
  BY <1>3

-----------------------------------------------------------------------------
(* The list of failure rules. *)

\* The name that stands for every service.
Star == <<"*">>

\* The rules for "*" are the last ones.
StarsLast(failures) ==
  \A i, j \in DOMAIN failures : i < j /\ failures[i].name = Star => failures[j].name = Star

\* A list of failure rules as AddFailureRule() makes it.
FailureRules(failures) ==
  /\ \E A : failures \in Seq(A)
  /\ StarsLast(failures)
  /\ \A i \in DOMAIN failures : failures[i].action \in FailureActions

\* The first rule for a name.
LEMMA FirstActionAt ==
  ASSUME NEW failures, FailureRules(failures), NEW name,
         NEW k \in DOMAIN failures, failures[k].name = name,
         \A j \in DOMAIN failures : j < k => failures[j].name # name
  PROVE  FirstAction(failures, name) = failures[k].action
<1>. DEFINE found == {i \in DOMAIN failures : failures[i].name = name}
<1>1. DOMAIN failures = 1..Len(failures) /\ Len(failures) \in Nat
  BY DEF FailureRules
<1>2. k \in found /\ \A j \in found : k <= j
  BY <1>1
<1>3. \A i \in found : (\A j \in found : i <= j) => i = k
  BY <1>1, <1>2
<1>4. FirstAction(failures, name) =
        IF found = {} THEN "none"
        ELSE failures[CHOOSE i \in found : \A j \in found : i <= j].action
  BY DEF FirstAction
<1>. HIDE DEF found
<1>5. (CHOOSE i \in found : \A j \in found : i <= j) = k
  BY <1>2, <1>3
<1>. QED
  BY <1>2, <1>4, <1>5

\* There is one, or there is none.
LEMMA FirstActionCases ==
  ASSUME NEW failures, FailureRules(failures), NEW name
  PROVE  \/ /\ \A i \in DOMAIN failures : failures[i].name # name
            /\ FirstAction(failures, name) = "none"
         \/ /\ \E k \in DOMAIN failures :
                 /\ failures[k].name = name
                 /\ \A j \in DOMAIN failures : j < k => failures[j].name # name
                 /\ FirstAction(failures, name) = failures[k].action
            /\ FirstAction(failures, name) # "none"
<1>. DEFINE found == {i \in DOMAIN failures : failures[i].name = name}
<1>1. DOMAIN failures = 1..Len(failures) /\ Len(failures) \in Nat
  BY DEF FailureRules
<1>2. CASE found = {}
  BY <1>2 DEF FirstAction
<1>3. CASE found # {}
  <2>1. found \in SUBSET Nat
    BY <1>1
  <2>2. PICK k \in found : \A j \in found : k <= j
    <3>. HIDE DEF found
    <3>. QED
      BY <1>3, <2>1, LeastNumber
  <2>3. k \in DOMAIN failures /\ failures[k].name = name
    OBVIOUS
  <2>4. \A j \in DOMAIN failures : j < k => failures[j].name # name
    BY <1>1, <2>2
  <2>5. FirstAction(failures, name) = failures[k].action
    BY <2>3, <2>4, FirstActionAt
  <2>6. failures[k].action # "none"
    BY <2>3 DEF FailureRules, FailureActions
  <2>. QED
    BY <2>3, <2>4, <2>5, <2>6
<1>. QED
  BY <1>2, <1>3

\* f is the list with the new rule at k.
InsertedAt(f, failures, k, rule) ==
  /\ \E A : f \in Seq(A)
  /\ k \in 1..Len(failures) + 1 /\ Len(f) = Len(failures) + 1
  /\ \A i \in 1..(k - 1) : f[i] = failures[i]
  /\ f[k] = rule
  /\ \A i \in k..Len(failures) : f[i + 1] = failures[i]

\* Where a new rule goes: behind those for names, and behind all if it is for "*".
LEMMA AddedAt ==
  ASSUME NEW failures, FailureRules(failures), NEW name, NEW action
  PROVE  \E k : /\ InsertedAt(AddFailureRule(failures, name, action), failures, k,
                              [name |-> name, action |-> action])
                /\ name = Star => k = Len(failures) + 1
                /\ name # Star =>
                     /\ \A i \in 1..(k - 1) : failures[i].name # Star
                     /\ \A i \in k..Len(failures) : failures[i].name = Star
<1>. DEFINE N == Len(failures)
            rule == [name |-> name, action |-> action]
            f == AddFailureRule(failures, name, action)
            stars == {i \in DOMAIN failures : failures[i].name = Star}
<1>1. PICK A : failures \in Seq(A)
  BY DEF FailureRules
<1>2. N \in Nat /\ DOMAIN failures = 1..N
  BY <1>1
<1>. DEFINE AA == A \cup {rule}
<1>3. failures \in Seq(AA)
  <2>1. A \subseteq AA
    OBVIOUS
  <2>. HIDE DEF AA
  <2>. QED
    BY <1>1, <2>1
<1>4. CASE name = Star \/ stars = {}
  <2>1. f = Append(failures, rule)
    BY <1>4 DEF AddFailureRule, Star
  <2>2. /\ f \in Seq(AA) /\ Len(f) = N + 1 /\ f[N + 1] = rule
        /\ \A i \in 1..N : f[i] = failures[i]
    <3>1. rule \in AA
      OBVIOUS
    <3>. HIDE DEF rule, AA, f
    <3>. QED
      BY <1>3, <2>1, <3>1
  <2>3. (N + 1) - 1 = N /\ (N + 1)..N = {} /\ N + 1 \in 1..N + 1
    BY <1>2
  <2>4. stars = {} => \A i \in 1..N : failures[i].name # Star
    BY <1>2
  <2>. HIDE DEF f, rule, stars, N
  <2>5. InsertedAt(f, failures, N + 1, rule)
    BY <2>2, <2>3 DEF InsertedAt, N
  <2>6. name # Star => (\A i \in 1..((N + 1) - 1) : failures[i].name # Star)
                       /\ (\A i \in (N + 1)..N : failures[i].name = Star)
    BY <1>4, <2>3, <2>4
  <2>. QED
    BY <2>5, <2>6 DEF f, rule, N
<1>5. CASE name # Star /\ stars # {}
  <2>1. stars \in SUBSET Nat
    BY <1>2
  <2>2. \E k \in stars : \A j \in stars : k <= j
    <3>. HIDE DEF stars
    <3>. QED
      BY <1>5, <2>1, LeastNumber
  <2>. DEFINE k == CHOOSE i \in stars : \A j \in stars : i <= j
  <2>3. k \in stars /\ \A j \in stars : k <= j
    <3>. HIDE DEF stars
    <3>. QED
      BY <2>2
  <2>4. f = InsertAt(failures, k, rule)
    BY <1>5 DEF AddFailureRule, Star
  <2>5. k \in 1..N /\ failures[k].name = Star
    <3>. HIDE DEF k
    <3>. QED
      BY <1>2, <2>3
  <2>6. \A i \in 1..(k - 1) : failures[i].name # Star
    <3>. HIDE DEF k
    <3>. QED
      BY <1>2, <2>3, <2>5
  <2>7. \A i \in k..N : failures[i].name = Star
    <3>. HIDE DEF k
    <3>. QED
      BY <1>2, <2>5 DEF FailureRules, StarsLast
  <2>. DEFINE a == SubSeq(failures, 1, k - 1)
              b == SubSeq(failures, k, N)
              m == <<rule>>
  <2>8. f = a \o m \o b
    BY <2>4 DEF InsertAt
  <2>. HIDE DEF f, k
  <2>9. /\ a \in Seq(AA) /\ Len(a) = k - 1 /\ \A i \in 1..(k - 1) : a[i] = failures[i]
    BY <1>2, <1>3, <2>5
  <2>10. /\ b \in Seq(AA) /\ Len(b) = N - k + 1
         /\ \A i \in 1..(N - k + 1) : b[i] = failures[k + i - 1]
    <3>1. k \in Int /\ N \in Int /\ k <= N /\ \A i \in k..N : failures[i] \in AA
      <4>. HIDE DEF AA
      <4>. QED
        BY <1>2, <1>3, <2>5
    <3>. HIDE DEF AA, N
    <3>. QED
      BY <3>1, SubSeqProperties
  <2>11. m \in Seq(AA) /\ Len(m) = 1 /\ m[1] = rule
    <3>1. rule \in AA
      OBVIOUS
    <3>. HIDE DEF AA, rule
    <3>. QED
      BY <3>1
  <2>. HIDE DEF a, b, m, AA, rule, N
  <2>. DEFINE am == a \o m
  <2>12. am \in Seq(AA) /\ Len(am) = k /\ am[k] = rule /\ \A i \in 1..(k - 1) : am[i] = failures[i]
    <3>1. /\ am \in Seq(AA) /\ Len(am) = Len(a) + Len(m)
          /\ \A i \in 1..(Len(a) + Len(m)) : am[i] = IF i <= Len(a) THEN a[i] ELSE m[i - Len(a)]
      BY <2>9, <2>11, ConcatProperties
    <3>2. /\ (k - 1) + 1 = k /\ ~(k <= k - 1) /\ k - (k - 1) = 1 /\ k \in 1..k
          /\ \A i \in 1..(k - 1) : i \in 1..k /\ i <= k - 1
      BY <1>2, <2>5
    <3>3. Len(am) = k /\ \A i \in 1..k : am[i] = IF i <= k - 1 THEN a[i] ELSE m[i - (k - 1)]
      BY <2>9, <2>11, <3>1, <3>2
    <3>4. am[k] = rule
      <4>1. am[k] = m[k - (k - 1)]
        BY <3>2, <3>3
      <4>. QED
        BY <2>11, <3>2, <4>1
    <3>5. \A i \in 1..(k - 1) : am[i] = failures[i]
      BY <2>9, <3>2, <3>3
    <3>. HIDE DEF am
    <3>. QED
      BY <3>1, <3>3, <3>4, <3>5
  <2>13. f = am \o b
    BY <2>8
  <2>. HIDE DEF am
  <2>14. /\ f \in Seq(AA) /\ Len(f) = Len(am) + Len(b)
         /\ \A i \in 1..(Len(am) + Len(b)) : f[i] = IF i <= Len(am) THEN am[i] ELSE b[i - Len(am)]
    BY <2>13, <2>10, <2>12, ConcatProperties
  <2>15. Len(f) = N + 1
    <3>1. \A x, y \in Int : x + (y - x + 1) = y + 1
      OBVIOUS
    <3>. QED
      BY <1>2, <2>5, <2>10, <2>12, <2>14, <3>1
  <2>16. f[k] = rule /\ \A i \in 1..(k - 1) : f[i] = failures[i]
    <3>1. \A i \in 1..k : i <= k /\ i \in 1..(k + (N - k + 1))
      BY <1>2, <2>5
    <3>2. \A i \in 1..k : f[i] = am[i]
      BY <2>10, <2>12, <2>14, <3>1
    <3>. QED
      BY <1>2, <2>5, <2>12, <3>2
  <2>17. ASSUME NEW i \in k..N PROVE f[i + 1] = failures[i]
    <3>1. /\ i + 1 \in 1..(k + (N - k + 1)) /\ ~(i + 1 <= k)
          /\ (i + 1) - k \in 1..(N - k + 1) /\ k + ((i + 1) - k) - 1 = i
      BY <1>2, <2>5
    <3>2. f[i + 1] = b[(i + 1) - k]
      BY <2>10, <2>12, <2>14, <3>1
    <3>. QED
      BY <2>10, <3>1, <3>2
  <2>18. k \in 1..N + 1
    BY <1>2, <2>5
  <2>19. InsertedAt(f, failures, k, rule)
    BY <2>14, <2>15, <2>16, <2>17, <2>18 DEF InsertedAt, N
  <2>. QED
    BY <1>5, <2>6, <2>7, <2>19 DEF f, rule, N
<1>. QED
  BY <1>4, <1>5

\* A new rule is what is found for its name if there was none, and leaves the rest.
LEMMA AddedFailure ==
  ASSUME NEW failures, FailureRules(failures), NEW name, NEW action \in FailureActions,
         NEW f, f = AddFailureRule(failures, name, action)
  PROVE  /\ FailureRules(f)
         /\ \A n : FirstAction(f, n) =
              IF n = name /\ FirstAction(failures, n) = "none" THEN action
              ELSE FirstAction(failures, n)
<1>. DEFINE N == Len(failures)
            rule == [name |-> name, action |-> action]
<1>1. N \in Nat /\ DOMAIN failures = 1..N
  BY DEF FailureRules
<1>2. PICK k : /\ InsertedAt(f, failures, k, rule)
               /\ name = Star => k = N + 1
               /\ name # Star => /\ \A i \in 1..(k - 1) : failures[i].name # Star
                                 /\ \A i \in k..N : failures[i].name = Star
  BY AddedAt
<1>3. k \in 1..N + 1 /\ Len(f) = N + 1 /\ DOMAIN f = 1..N + 1
  BY <1>1, <1>2 DEF InsertedAt
<1>4. /\ \A i \in 1..(k - 1) : f[i] = failures[i]
      /\ f[k].name = name /\ f[k].action = action
      /\ \A i \in k..N : f[i + 1] = failures[i]
  BY <1>2 DEF InsertedAt
<1>5. ASSUME NEW i \in 1..N + 1
      PROVE  \/ i \in 1..(k - 1) /\ i \in 1..N
             \/ i = k
             \/ i - 1 \in k..N /\ i - 1 \in 1..N /\ f[i] = failures[i - 1]
  <2>1. i - 1 \in k..N => f[(i - 1) + 1] = failures[i - 1]
    BY <1>4
  <2>. HIDE DEF N
  <2>. QED
    BY <1>1, <1>3, <2>1
<1>. HIDE DEF N, rule
<1>6. FailureRules(f)
  <2>1. \A i \in DOMAIN f : f[i].action \in FailureActions
    BY <1>1, <1>3, <1>4, <1>5 DEF FailureRules
  <2>2. ASSUME NEW i \in DOMAIN f, NEW j \in DOMAIN f, i < j, f[i].name = Star
        PROVE  f[j].name = Star
    <3>1. StarsLast(failures)
      BY DEF FailureRules
    <3>2. CASE name = Star
      <4>1. j \in 1..N => f[j] = failures[j]
        BY <1>1, <1>2, <1>3, <1>4, <3>2
      <4>2. i \in 1..N /\ f[i] = failures[i]
        BY <1>1, <1>2, <1>3, <1>4, <2>2, <3>2
      <4>3. j = N + 1 => f[j].name = Star
        BY <1>2, <1>4, <3>2
      <4>. QED
        BY <1>1, <1>3, <2>2, <3>1, <4>1, <4>2, <4>3 DEF StarsLast
    <3>3. CASE name # Star
      <4>1. i \notin 1..(k - 1) /\ i # k
        BY <1>2, <1>4, <2>2, <3>3
      <4>2. j \notin 1..(k - 1) /\ j # k
        BY <1>1, <1>3, <2>2, <4>1
      <4>. QED
        BY <1>2, <1>3, <1>5, <3>3, <4>2
    <3>. QED
      BY <3>2, <3>3
  <2>3. \E A : f \in Seq(A)
    BY <1>2 DEF InsertedAt
  <2>. QED
    BY <2>1, <2>2, <2>3 DEF FailureRules, StarsLast
<1>7. ASSUME NEW n
      PROVE  FirstAction(f, n) =
               IF n = name /\ FirstAction(failures, n) = "none" THEN action
               ELSE FirstAction(failures, n)
  <2>1. CASE FirstAction(failures, n) = "none"
    <3>1. \A i \in 1..N : failures[i].name # n
      BY <1>1, <2>1, FirstActionCases
    <3>2. \A i \in 1..N + 1 : i # k => f[i].name # n
      BY <1>4, <1>5, <3>1
    <3>3. CASE n = name
      <4>1. k \in DOMAIN f /\ f[k].name = n /\ \A j \in DOMAIN f : j < k => f[j].name # n
        BY <1>1, <1>3, <1>4, <3>2, <3>3
      <4>2. FirstAction(f, n) = f[k].action
        BY <1>6, <4>1, FirstActionAt
      <4>. QED
        BY <1>4, <2>1, <3>3, <4>2
    <3>4. CASE n # name
      <4>1. \A i \in DOMAIN f : f[i].name # n
        BY <1>3, <1>4, <3>2, <3>4
      <4>2. FirstAction(f, n) = "none"
        BY <1>6, <4>1, FirstActionCases
      <4>. QED
        BY <2>1, <3>4, <4>2
    <3>. QED
      BY <3>3, <3>4
  <2>2. CASE FirstAction(failures, n) # "none"
    <3>1. PICK x \in 1..N : /\ failures[x].name = n
                            /\ \A j \in 1..N : j < x => failures[j].name # n
                            /\ FirstAction(failures, n) = failures[x].action
      BY <1>1, <2>2, FirstActionCases
    <3>2. CASE x < k
      <4>1. x \in 1..N + 1 /\ f[x] = failures[x]
        BY <1>1, <1>3, <1>4, <3>2
      <4>2. \A j \in 1..N + 1 : j < x => f[j].name # n
        <5>1. \A j \in 1..N + 1 : j < x => j \in 1..(k - 1) /\ j \in 1..N
          BY <1>1, <1>3, <3>2
        <5>. QED
          BY <1>4, <3>1, <5>1
      <4>3. FirstAction(f, n) = f[x].action
        BY <1>3, <1>6, <3>1, <4>1, <4>2, FirstActionAt
      <4>. QED
        BY <2>2, <3>1, <4>1, <4>3
    <3>3. CASE ~(x < k)
      <4>1. n # name
        <5>1. x \in k..N
          BY <1>1, <1>3, <3>3
        <5>2. name # Star
          BY <1>1, <1>2, <3>3
        <5>. QED
          BY <1>2, <3>1, <5>1, <5>2
      <4>2. x + 1 \in 1..N + 1 /\ f[x + 1] = failures[x] /\ x \in k..N
        BY <1>1, <1>3, <1>4, <3>3
      <4>3. ASSUME NEW j \in 1..N + 1, j < x + 1 PROVE f[j].name # n
        <5>1. CASE j \in 1..(k - 1) /\ j \in 1..N
          <6>1. j < x
            BY <1>1, <1>3, <3>3, <5>1
          <6>. QED
            BY <1>4, <3>1, <5>1, <6>1
        <5>2. CASE j = k
          BY <1>4, <4>1, <5>2
        <5>3. CASE j - 1 \in k..N /\ j - 1 \in 1..N /\ f[j] = failures[j - 1]
          <6>1. j - 1 < x
            BY <4>3
          <6>. QED
            BY <3>1, <5>3, <6>1
        <5>. QED
          BY <1>5, <5>1, <5>2, <5>3
      <4>4. FirstAction(f, n) = f[x + 1].action
        BY <1>3, <1>6, <3>1, <4>2, <4>3, FirstActionAt
      <4>. QED
        BY <2>2, <3>1, <4>2, <4>4
    <3>. QED
      BY <1>3, <3>2, <3>3
  <2>. QED
    BY <2>1, <2>2
<1>. QED
  BY <1>6, <1>7

-----------------------------------------------------------------------------
(* What a policy object has taken from the elements of the file. *)

\* The elements among done of the sections of one kind, and their order in the file.
Of(d, done, tag) == {r \in done : d.sections[r[1]].tag = tag}
Earlier(q, r) == q[1] < r[1] \/ (q[1] = r[1] /\ q[2] < r[2])

\* The rules of a gate are the elements of rs, in their order.
RulesFrom(rules, d, g, rs) ==
  /\ \E A : rules \in Seq(A)
  /\ \E pos :
       /\ \A k \in DOMAIN rules :
            /\ pos[k] \in rs
            /\ rules[k].decision = Elem(d, pos[k]).tag
            /\ Has(Elem(d, pos[k]), RuleAttr[g])
            /\ rules[k].pattern = Elem(d, pos[k]).attrs[RuleAttr[g]]
       /\ \A k, m \in DOMAIN rules : k < m => Earlier(pos[k], pos[m])
       /\ \A r \in rs : \E k \in DOMAIN rules : pos[k] = r

\* The failure rules for a name; the root's attribute is one for "*".
ForName(d, rs, n) == {r \in rs : Elem(d, r).attrs["name"] = n}
FirstOf(rs) == CHOOSE r \in rs : IsFirst(r, rs)
RootFails(d, n) == n = Star /\ Has(d, "rebootOnFailure")

\* The failure rules are the root's and those of the elements of rs.
FailuresFrom(failures, d, rs) ==
  /\ FailureRules(failures)
  /\ \A n : ForName(d, rs, n) # {} => \E r : IsFirst(r, ForName(d, rs, n))
  /\ \A n : FirstAction(failures, n) =
       IF RootFails(d, n) THEN d.attrs["rebootOnFailure"]
       ELSE IF ForName(d, rs, n) = {} THEN "none"
       ELSE Elem(d, FirstOf(ForName(d, rs, n))).attrs["rebootOnFailure"]
  /\ \A n : FirstAction(failures, n) = "none" => ForName(d, rs, n) = {}
  /\ \A r \in rs : Elem(d, r).attrs["rebootOnFailure"] \in FailureActions

\* The verbs, and the verbs with an argument, that elements of rs deny.
DeniedVerbs(d, rs) == {Elem(d, r).attrs["verb"] : r \in {q \in rs : ~Has(Elem(d, q), "arg")}}
DeniedArgs(d, rs) ==
  {<<Elem(d, r).attrs["verb"], Elem(d, r).attrs["arg"]>> :
     r \in {q \in rs : Has(Elem(d, q), "arg")}}

\* The members of a policy that is loaded.
PolicyFields == {"loaded", "default", "rules", "failures", "verbs", "verbArgs", "selinux"}

\* The policy p has read the elements done of the file d.
HasRead(p, d, done) ==
  /\ p = [x \in PolicyFields |-> p[x]] /\ p.loaded
  /\ p.default = [g \in Gates |-> IF Has(d, DefaultAttr[g]) THEN d.attrs[DefaultAttr[g]]
                                   ELSE "deny"]
  /\ p.rules = [g \in Gates |-> p.rules[g]]
  /\ \A g \in Gates : RulesFrom(p.rules[g], d, g, Of(d, done, SectionOf[g]))
  /\ FailuresFrom(p.failures, d, Of(d, done, "failure-policy"))
  /\ p.verbs = DeniedVerbs(d, Of(d, done, "command-policy"))
  /\ p.verbArgs = DeniedArgs(d, Of(d, done, "command-policy"))

\* The first element is the one that is chosen.
LEMMA FirstIsChosen ==
  ASSUME NEW rs \in SUBSET (Nat \X Nat), NEW r, IsFirst(r, rs)
  PROVE  FirstOf(rs) = r
<1>1. r \in rs
  BY DEF IsFirst
<1>2. ASSUME NEW q \in rs, IsFirst(q, rs) PROVE q = r
  <2>1. q = <<q[1], q[2]>> /\ r = <<r[1], r[2]>>
        /\ q[1] \in Nat /\ q[2] \in Nat /\ r[1] \in Nat /\ r[2] \in Nat
    BY <1>1
  <2>2. q[1] = r[1] /\ q[2] = r[2]
    BY <1>1, <1>2, <2>1 DEF IsFirst, NotAfter
  <2>. QED
    BY <2>1, <2>2
<1>. QED
  BY <1>1, <1>2 DEF FirstOf

\* One more element r, later than the others, in a list of rules...
LEMMA RuleAdded ==
  ASSUME NEW rules, NEW d, NEW g, NEW rs, RulesFrom(rules, d, g, rs), NEW r,
         \A q \in rs : Earlier(q, r), Has(Elem(d, r), RuleAttr[g]),
         NEW new, new = Append(rules, [decision |-> Elem(d, r).tag,
                                       pattern |-> Elem(d, r).attrs[RuleAttr[g]]])
  PROVE  RulesFrom(new, d, g, rs \cup {r})
<1>. DEFINE rule == [decision |-> Elem(d, r).tag, pattern |-> Elem(d, r).attrs[RuleAttr[g]]]
            N == Len(rules)
<1>1. PICK A : rules \in Seq(A)
  BY DEF RulesFrom
<1>2. rule.decision = Elem(d, r).tag /\ rule.pattern = Elem(d, r).attrs[RuleAttr[g]]
  OBVIOUS
<1>. HIDE DEF rule
<1>3. /\ N \in Nat /\ DOMAIN rules = 1..N
      /\ new \in Seq(A \cup {rule}) /\ DOMAIN new = 1..(N + 1) /\ new[N + 1] = rule
      /\ \A k \in 1..N : new[k] = rules[k]
  <2>1. rules \in Seq(A \cup {rule}) /\ rule \in A \cup {rule}
    BY <1>1
  <2>2. new = Append(rules, rule)
    BY DEF rule
  <2>. DEFINE AA == A \cup {rule}
  <2>. HIDE DEF AA
  <2>3. rules \in Seq(AA) /\ rule \in AA
    BY <2>1 DEF AA
  <2>4. /\ N \in Nat /\ DOMAIN rules = 1..N
        /\ new \in Seq(AA) /\ DOMAIN new = 1..(N + 1) /\ new[N + 1] = rule
        /\ \A k \in 1..N : new[k] = rules[k]
    BY <2>2, <2>3
  <2>. QED
    BY <2>4 DEF AA
<1>4. PICK pos :
       /\ \A k \in DOMAIN rules :
            /\ pos[k] \in rs
            /\ rules[k].decision = Elem(d, pos[k]).tag
            /\ Has(Elem(d, pos[k]), RuleAttr[g])
            /\ rules[k].pattern = Elem(d, pos[k]).attrs[RuleAttr[g]]
       /\ \A k, m \in DOMAIN rules : k < m => Earlier(pos[k], pos[m])
       /\ \A q \in rs : \E k \in DOMAIN rules : pos[k] = q
  BY DEF RulesFrom
<1>. DEFINE pos2 == [k \in 1..(N + 1) |-> IF k = N + 1 THEN r ELSE pos[k]]
<1>5. pos2[N + 1] = r /\ \A k \in 1..N : pos2[k] = pos[k]
  BY <1>3
<1>. HIDE DEF pos2, N
<1>6. \A k \in 1..(N + 1) : k = N + 1 \/ k \in 1..N
  BY <1>3
<1>7. ASSUME NEW k \in DOMAIN new
      PROVE  /\ pos2[k] \in rs \cup {r}
             /\ new[k].decision = Elem(d, pos2[k]).tag
             /\ Has(Elem(d, pos2[k]), RuleAttr[g])
             /\ new[k].pattern = Elem(d, pos2[k]).attrs[RuleAttr[g]]
  BY <1>2, <1>3, <1>4, <1>5, <1>6
<1>8. ASSUME NEW k \in DOMAIN new, NEW m \in DOMAIN new, k < m
      PROVE  Earlier(pos2[k], pos2[m])
  <2>1. k \in 1..N
    BY <1>3, <1>8
  <2>. QED
    BY <1>3, <1>4, <1>5, <1>6, <1>8, <2>1
<1>9. ASSUME NEW q \in rs \cup {r} PROVE \E k \in DOMAIN new : pos2[k] = q
  <2>1. CASE q = r
    <3>1. N + 1 \in DOMAIN new
      BY <1>3
    <3>. QED
      BY <1>5, <2>1, <3>1
  <2>2. CASE q \in rs
    <3>1. PICK k \in 1..N : pos[k] = q
      BY <1>3, <1>4, <2>2
    <3>2. k \in DOMAIN new
      BY <1>3
    <3>. QED
      BY <1>5, <3>1, <3>2
  <2>. QED
    BY <2>1, <2>2
<1>10. \E X : new \in Seq(X)
  BY <1>3
<1>. QED
  BY <1>7, <1>8, <1>9, <1>10 DEF RulesFrom

\* ... and in the failure rules.
LEMMA FailureAdded ==
  ASSUME NEW failures, NEW d, NEW rs \in SUBSET (Nat \X Nat), FailuresFrom(failures, d, rs),
         NEW r \in Nat \X Nat, \A q \in rs : Earlier(q, r),
         Elem(d, r).attrs["rebootOnFailure"] \in FailureActions,
         NEW new, new = AddFailureRule(failures, Elem(d, r).attrs["name"],
                                       Elem(d, r).attrs["rebootOnFailure"]),
         Has(d, "rebootOnFailure") => d.attrs["rebootOnFailure"] # "none"
  PROVE  FailuresFrom(new, d, rs \cup {r})
<1>. DEFINE name == Elem(d, r).attrs["name"]
            action == Elem(d, r).attrs["rebootOnFailure"]
            rs2 == rs \cup {r}
<1>1. /\ FailureRules(failures)
      /\ \A n : ForName(d, rs, n) # {} => \E q : IsFirst(q, ForName(d, rs, n))
      /\ \A n : FirstAction(failures, n) =
           IF RootFails(d, n) THEN d.attrs["rebootOnFailure"]
           ELSE IF ForName(d, rs, n) = {} THEN "none"
           ELSE Elem(d, FirstOf(ForName(d, rs, n))).attrs["rebootOnFailure"]
      /\ \A n : FirstAction(failures, n) = "none" => ForName(d, rs, n) = {}
      /\ \A q \in rs : Elem(d, q).attrs["rebootOnFailure"] \in FailureActions
  BY DEF FailuresFrom
<1>2. /\ FailureRules(new)
      /\ \A n : FirstAction(new, n) =
           IF n = name /\ FirstAction(failures, n) = "none" THEN action
           ELSE FirstAction(failures, n)
  <2>. HIDE DEF name, action
  <2>1. new = AddFailureRule(failures, name, action) /\ action \in FailureActions
    BY DEF name, action
  <2>. QED
    BY <1>1, <2>1, AddedFailure
<1>3. ASSUME NEW n, n # name PROVE ForName(d, rs2, n) = ForName(d, rs, n)
  BY <1>3 DEF ForName
<1>4. ForName(d, rs2, name) = ForName(d, rs, name) \cup {r}
  BY DEF ForName
<1>5. ASSUME ForName(d, rs, name) = {}
      PROVE  IsFirst(r, ForName(d, rs2, name)) /\ FirstOf(ForName(d, rs2, name)) = r
  <2>1. ForName(d, rs2, name) = {r}
    BY <1>4, <1>5
  <2>2. IsFirst(r, {r})
    BY DEF IsFirst, NotAfter
  <2>3. {r} \in SUBSET (Nat \X Nat)
    OBVIOUS
  <2>. HIDE DEF name, rs2
  <2>. QED
    BY <2>1, <2>2, <2>3, FirstIsChosen
<1>6. ASSUME ForName(d, rs, name) # {}
      PROVE  \E q : /\ IsFirst(q, ForName(d, rs2, name))
                    /\ FirstOf(ForName(d, rs2, name)) = FirstOf(ForName(d, rs, name))
  <2>1. PICK q : IsFirst(q, ForName(d, rs, name))
    BY <1>1, <1>6
  <2>2. q \in rs
    BY <2>1 DEF IsFirst, ForName
  <2>3. NotAfter(q, r)
    BY <2>2 DEF Earlier, NotAfter
  <2>. HIDE DEF name, rs2
  <2>4. IsFirst(q, ForName(d, rs2, name))
    BY <1>4, <2>1, <2>3 DEF IsFirst
  <2>5. ForName(d, rs, name) \in SUBSET (Nat \X Nat)
    BY DEF ForName
  <2>6. ForName(d, rs2, name) \in SUBSET (Nat \X Nat)
    BY <1>4, <2>5
  <2>7. FirstOf(ForName(d, rs, name)) = q
    BY <2>1, <2>5, FirstIsChosen
  <2>8. FirstOf(ForName(d, rs2, name)) = q
    BY <2>4, <2>6, FirstIsChosen
  <2>. QED
    BY <2>4, <2>7, <2>8
<1>7. FirstAction(failures, name) = "none" => ~RootFails(d, name)
  BY <1>1 DEF RootFails
<1>8. action # "none"
  BY DEF FailureActions
<1>. HIDE DEF name, action, rs2
<1>9. ASSUME NEW n
      PROVE  /\ ForName(d, rs2, n) # {} => \E q : IsFirst(q, ForName(d, rs2, n))
             /\ FirstAction(new, n) =
                  IF RootFails(d, n) THEN d.attrs["rebootOnFailure"]
                  ELSE IF ForName(d, rs2, n) = {} THEN "none"
                  ELSE Elem(d, FirstOf(ForName(d, rs2, n))).attrs["rebootOnFailure"]
             /\ FirstAction(new, n) = "none" => ForName(d, rs2, n) = {}
  <2>1. CASE n # name
    BY <1>1, <1>2, <1>3, <2>1
  <2>2. CASE n = name /\ FirstAction(failures, n) = "none"
    <3>1. ForName(d, rs, name) = {} /\ ~RootFails(d, name) /\ FirstAction(new, name) = action
      BY <1>1, <1>2, <1>7, <2>2
    <3>2. ForName(d, rs2, name) # {}
      BY <1>4
    <3>3. IsFirst(r, ForName(d, rs2, name)) /\ FirstOf(ForName(d, rs2, name)) = r
      BY <1>5, <3>1
    <3>4. Elem(d, r).attrs["rebootOnFailure"] = action
      BY DEF action
    <3>. QED
      BY <1>8, <2>2, <3>1, <3>2, <3>3, <3>4
  <2>3. CASE n = name /\ FirstAction(failures, n) # "none"
    <3>1. FirstAction(new, name) = FirstAction(failures, name)
      BY <1>2, <2>3
    <3>2. CASE RootFails(d, name)
      BY <1>1, <1>5, <1>6, <2>3, <3>1, <3>2
    <3>3. CASE ~RootFails(d, name)
      <4>1. ForName(d, rs, name) # {}
        BY <1>1, <2>3, <3>3
      <4>2. ForName(d, rs2, name) # {}
        BY <1>4
      <4>. QED
        BY <1>1, <1>6, <2>3, <3>1, <3>3, <4>1, <4>2
    <3>. QED
      BY <3>2, <3>3
  <2>. QED
    BY <2>1, <2>2, <2>3
<1>10. \A q \in rs2 : Elem(d, q).attrs["rebootOnFailure"] \in FailureActions
  BY <1>1 DEF rs2
<1>. QED
  BY <1>2, <1>9, <1>10 DEF FailuresFrom, rs2

\* The sections have different names.
LEMMA SectionNames ==
  /\ \A g, k \in Gates : SectionOf[g] = SectionOf[k] => g = k
  /\ \A g \in Gates :
       SectionOf[g] \notin {"command-policy", "failure-policy", "logging", "identity"}
BY DEF Gates, SectionOf

\* The root's attributes are fine.
RootIsFine(d) ==
  Has(d, "rebootOnFailure") => d.attrs["rebootOnFailure"] \in FailureActions

\* Reading one element, later than those read before.
LEMMA ElementRead ==
  ASSUME NEW d, RootIsFine(d), NEW p, NEW done \in SUBSET (Nat \X Nat), HasRead(p, d, done),
         NEW r \in Nat \X Nat, \A q \in done : Earlier(q, r),
         NEW new, new = ParseElement(p, d.sections[r[1]].tag, Elem(d, r)), new.loaded
  PROVE  HasRead(new, d, done \cup {r})
<1>. DEFINE tag == d.sections[r[1]].tag
            e == Elem(d, r)
            done2 == done \cup {r}
            gates == {g \in Gates : SectionOf[g] = tag}
            c == CHOOSE g \in gates : TRUE
            ruled == IF Has(e, RuleAttr[c])
                     THEN [p EXCEPT !.rules[c] =
                             Append(@, [decision |-> e.tag, pattern |-> e.attrs[RuleAttr[c]]])]
                     ELSE NoPolicy
<1>1. ASSUME NEW t, t # tag PROVE Of(d, done2, t) = Of(d, done, t)
  BY <1>1 DEF Of
<1>2. Of(d, done2, tag) = Of(d, done, tag) \cup {r}
  BY DEF Of
<1>3. \A q \in Of(d, done, tag) : Earlier(q, r)
  BY DEF Of
<1>4. ~NoPolicy.loaded /\ p.loaded /\ new # NoPolicy
  BY DEF NoPolicy, HasRead
<1>5. new =
  CASE gates # {} /\ e.tag \in Decisions -> ruled
    [] tag = "command-policy" /\ e.tag = "deny" /\ Has(e, "verb") ->
         IF Has(e, "arg")
         THEN [p EXCEPT !.verbArgs = @ \cup {<<e.attrs["verb"], e.attrs["arg"]>>}]
         ELSE [p EXCEPT !.verbs = @ \cup {e.attrs["verb"]}]
    [] tag = "failure-policy" /\ e.tag = "service" /\ Has(e, "name")
         /\ Has(e, "rebootOnFailure") /\ e.attrs["rebootOnFailure"] \in FailureActions ->
         [p EXCEPT !.failures = AddFailureRule(@, e.attrs["name"], e.attrs["rebootOnFailure"])]
    [] tag = "logging" /\ Has(e, "value")
         /\ e.tag \in {"path", "rejectedRcLog", "rejectedServiceLog", "rejectedExecLog"} -> p
    [] OTHER -> NoPolicy
  BY <1>4 DEF ParseElement
<1>. HIDE DEF tag, e, done2, ruled, c
<1>6. CASE gates # {}
  <2>1. PICK g \in Gates : SectionOf[g] = tag /\ gates = {g}
    BY <1>6, SectionNames
  <2>2. c = g
    BY <2>1 DEF c
  <2>3. tag \notin {"command-policy", "failure-policy", "logging"}
    BY <2>1, SectionNames
  <2>. DEFINE rule == [decision |-> e.tag, pattern |-> e.attrs[RuleAttr[g]]]
  <2>. HIDE DEF gates
  <2>4. e.tag \in Decisions
    BY <1>4, <1>5, <2>3
  <2>5. Has(e, RuleAttr[g]) /\ new = [p EXCEPT !.rules[g] = Append(@, rule)]
    <3>1. new = ruled
      BY <1>4, <1>5, <1>6, <2>3, <2>4
    <3>2. new = IF Has(e, RuleAttr[g]) THEN [p EXCEPT !.rules[g] = Append(@, rule)] ELSE NoPolicy
      BY <2>2, <3>1 DEF ruled
    <3>. HIDE DEF rule
    <3>. QED
      BY <1>4, <3>2
  <2>. HIDE DEF rule
  <2>6. /\ new = [x \in PolicyFields |-> new[x]] /\ new.loaded
        /\ new.default = p.default /\ new.failures = p.failures
        /\ new.verbs = p.verbs /\ new.verbArgs = p.verbArgs
        /\ new.rules = [p.rules EXCEPT ![g] = Append(p.rules[g], rule)]
    BY <2>5 DEF HasRead, PolicyFields
  <2>7. /\ new.rules = [x \in Gates |-> new.rules[x]]
        /\ new.rules[g] = Append(p.rules[g], rule)
        /\ \A x \in Gates : x # g => new.rules[x] = p.rules[x]
    BY <2>6 DEF HasRead
  <2>8. RulesFrom(new.rules[g], d, g, Of(d, done2, SectionOf[g]))
    <3>1. RulesFrom(p.rules[g], d, g, Of(d, done, tag))
      BY <2>1 DEF HasRead
    <3>2. RulesFrom(new.rules[g], d, g, Of(d, done, tag) \cup {r})
      BY <1>3, <2>5, <2>7, <3>1, RuleAdded DEF rule, e
    <3>. QED
      BY <1>2, <2>1, <3>2
  <2>9. \A x \in Gates : x # g => RulesFrom(new.rules[x], d, x, Of(d, done2, SectionOf[x]))
    BY <1>1, <2>1, <2>7, SectionNames DEF HasRead
  <2>10. /\ Of(d, done2, "failure-policy") = Of(d, done, "failure-policy")
         /\ Of(d, done2, "command-policy") = Of(d, done, "command-policy")
    BY <1>1, <2>3
  <2>11. /\ new.default = [x \in Gates |-> IF Has(d, DefaultAttr[x]) THEN d.attrs[DefaultAttr[x]]
                                          ELSE "deny"]
         /\ FailuresFrom(new.failures, d, Of(d, done2, "failure-policy"))
         /\ new.verbs = DeniedVerbs(d, Of(d, done2, "command-policy"))
         /\ new.verbArgs = DeniedArgs(d, Of(d, done2, "command-policy"))
    BY <2>6, <2>10 DEF HasRead
  <2>12. \A x \in Gates : RulesFrom(new.rules[x], d, x, Of(d, done2, SectionOf[x]))
    BY <2>8, <2>9
  <2>. QED
    BY <2>6, <2>7, <2>11, <2>12 DEF HasRead, done2
<1>7. CASE gates = {}
  <2>1. \A x \in Gates : SectionOf[x] # tag
    BY <1>7
  <2>. HIDE DEF gates
  <2>2. \A x \in Gates : Of(d, done2, SectionOf[x]) = Of(d, done, SectionOf[x])
    BY <1>1, <2>1
  <2>3. CASE tag = "command-policy"
    <3>. DEFINE verb == e.attrs["verb"]
                arg == e.attrs["arg"]
    <3>1. new = IF Has(e, "arg") THEN [p EXCEPT !.verbArgs = @ \cup {<<verb, arg>>}]
                ELSE [p EXCEPT !.verbs = @ \cup {verb}]
      BY <1>4, <1>5, <1>7, <2>3
    <3>. HIDE DEF verb, arg
    <3>2. /\ new = [x \in PolicyFields |-> new[x]] /\ new.loaded
          /\ new.default = p.default /\ new.failures = p.failures /\ new.rules = p.rules
          /\ new.verbs = IF Has(e, "arg") THEN p.verbs ELSE p.verbs \cup {verb}
          /\ new.verbArgs = IF Has(e, "arg") THEN p.verbArgs \cup {<<verb, arg>>} ELSE p.verbArgs
      <4>1. CASE Has(e, "arg")
        BY <3>1, <4>1 DEF HasRead, PolicyFields
      <4>2. CASE ~Has(e, "arg")
        BY <3>1, <4>2 DEF HasRead, PolicyFields
      <4>. QED
        BY <4>1, <4>2
    <3>. DEFINE rs == Of(d, done, "command-policy")
    <3>3. Of(d, done2, "command-policy") = rs \cup {r}
      BY <1>2, <2>3
    <3>4. p.verbs = DeniedVerbs(d, rs) /\ p.verbArgs = DeniedArgs(d, rs)
      BY DEF HasRead
    <3>. HIDE DEF rs
    <3>5. new.verbs = DeniedVerbs(d, rs \cup {r})
      <4>1. DeniedVerbs(d, rs \cup {r}) =
              IF Has(e, "arg") THEN DeniedVerbs(d, rs) ELSE DeniedVerbs(d, rs) \cup {verb}
        BY DEF DeniedVerbs, e, verb
      <4>. QED
        BY <3>2, <3>4, <4>1
    <3>6. new.verbArgs = DeniedArgs(d, rs \cup {r})
      <4>1. DeniedArgs(d, rs \cup {r}) =
              IF Has(e, "arg") THEN DeniedArgs(d, rs) \cup {<<verb, arg>>} ELSE DeniedArgs(d, rs)
        BY DEF DeniedArgs, e, verb, arg
      <4>. QED
        BY <3>2, <3>4, <4>1
    <3>7. Of(d, done2, "failure-policy") = Of(d, done, "failure-policy")
      BY <1>1, <2>3
    <3>. QED
      BY <2>2, <3>2, <3>3, <3>5, <3>6, <3>7 DEF HasRead, done2
  <2>4. CASE tag = "failure-policy"
    <3>1. /\ e.attrs["rebootOnFailure"] \in FailureActions
          /\ new = [p EXCEPT !.failures = AddFailureRule(@, e.attrs["name"],
                                                         e.attrs["rebootOnFailure"])]
      BY <1>4, <1>5, <1>7, <2>4
    <3>2. /\ new = [x \in PolicyFields |-> new[x]] /\ new.loaded
          /\ new.default = p.default /\ new.rules = p.rules
          /\ new.verbs = p.verbs /\ new.verbArgs = p.verbArgs
          /\ new.failures = AddFailureRule(p.failures, e.attrs["name"], e.attrs["rebootOnFailure"])
      BY <3>1 DEF HasRead, PolicyFields
    <3>. DEFINE rs == Of(d, done, "failure-policy")
    <3>3. Of(d, done2, "failure-policy") = rs \cup {r} /\ rs \in SUBSET (Nat \X Nat)
      BY <1>2, <2>4 DEF Of
    <3>4. FailuresFrom(p.failures, d, rs) /\ \A q \in rs : Earlier(q, r)
      BY <1>3, <2>4 DEF HasRead
    <3>5. Has(d, "rebootOnFailure") => d.attrs["rebootOnFailure"] # "none"
      BY DEF RootIsFine, FailureActions
    <3>. HIDE DEF rs
    <3>6. FailuresFrom(new.failures, d, rs \cup {r})
      BY <3>1, <3>2, <3>3, <3>4, <3>5, FailureAdded DEF e
    <3>7. Of(d, done2, "command-policy") = Of(d, done, "command-policy")
      BY <1>1, <2>4
    <3>. QED
      BY <2>2, <3>2, <3>3, <3>6, <3>7 DEF HasRead, done2
  <2>5. CASE tag \notin {"command-policy", "failure-policy"}
    <3>1. new = p
      BY <1>4, <1>5, <1>7, <2>5
    <3>2. /\ Of(d, done2, "failure-policy") = Of(d, done, "failure-policy")
          /\ Of(d, done2, "command-policy") = Of(d, done, "command-policy")
      BY <1>1, <2>5
    <3>. QED
      BY <2>2, <3>1, <3>2 DEF HasRead, done2
  <2>. QED
    BY <2>3, <2>4, <2>5
<1>. QED
  BY <1>6, <1>7

\* The elements up to the j-th of section i, and those of the sections up to i.
UpTo(d, i, j) ==
  {r \in Nat \X Nat :
     /\ r[1] \in DOMAIN d.sections /\ r[2] \in DOMAIN d.sections[r[1]].elements
     /\ r[1] < i \/ (r[1] = i /\ r[2] <= j)}
UpToSection(d, i) ==
  {r \in Nat \X Nat :
     /\ r[1] \in DOMAIN d.sections /\ r[2] \in DOMAIN d.sections[r[1]].elements
     /\ r[1] <= i}

\* How they grow.
LEMMA UpToGrows ==
  ASSUME NEW d, IsDoc(d), NEW i \in DOMAIN d.sections
  PROVE  /\ UpTo(d, i, 0) = UpToSection(d, i - 1)
         /\ UpTo(d, i, Len(d.sections[i].elements)) = UpToSection(d, i)
         /\ \A j \in 1..Len(d.sections[i].elements) :
              /\ UpTo(d, i, j) = UpTo(d, i, j - 1) \cup {<<i, j>>}
              /\ \A q \in UpTo(d, i, j - 1) : Earlier(q, <<i, j>>)
<1>. DEFINE N == Len(d.sections[i].elements)
<1>1. /\ DOMAIN d.sections = 1..Len(d.sections) /\ Len(d.sections) \in Nat /\ i \in Nat
      /\ DOMAIN d.sections[i].elements = 1..N /\ N \in Nat
  BY DEF IsDoc, IsList
<1>. HIDE DEF N
<1>2. ASSUME NEW r \in Nat \X Nat, r[1] \in DOMAIN d.sections,
             r[2] \in DOMAIN d.sections[r[1]].elements
      PROVE  /\ r[1] < i \/ (r[1] = i /\ r[2] <= 0) <=> r[1] <= i - 1
             /\ r[1] < i \/ (r[1] = i /\ r[2] <= N) <=> r[1] <= i
  <2>1. r[1] \in Nat /\ r[2] \in Nat /\ (r[1] = i => r[2] \in 1..N)
    BY <1>1, <1>2
  <2>. QED
    BY <1>1, <2>1
<1>3. UpTo(d, i, 0) = UpToSection(d, i - 1)
  BY <1>2 DEF UpTo, UpToSection
<1>4. UpTo(d, i, N) = UpToSection(d, i)
  BY <1>2 DEF UpTo, UpToSection
<1>5. ASSUME NEW j \in 1..N
      PROVE  /\ UpTo(d, i, j) = UpTo(d, i, j - 1) \cup {<<i, j>>}
             /\ \A q \in UpTo(d, i, j - 1) : Earlier(q, <<i, j>>)
  <2>1. <<i, j>> \in Nat \X Nat /\ <<i, j>>[1] = i /\ <<i, j>>[2] = j
    BY <1>1
  <2>2. <<i, j>> \in UpTo(d, i, j)
    BY <1>1, <2>1 DEF UpTo
  <2>3. ASSUME NEW r \in UpTo(d, i, j), r # <<i, j>> PROVE r \in UpTo(d, i, j - 1)
    <3>1. r \in Nat \X Nat /\ r = <<r[1], r[2]>> /\ r[1] \in Nat /\ r[2] \in Nat
      BY DEF UpTo
    <3>2. r[1] = i => r[2] # j
      BY <2>3, <3>1
    <3>3. r[1] < i \/ (r[1] = i /\ r[2] <= j - 1)
      BY <1>1, <3>1, <3>2 DEF UpTo
    <3>. QED
      BY <3>1, <3>3 DEF UpTo
  <2>4. ASSUME NEW r \in UpTo(d, i, j - 1)
        PROVE  r \in UpTo(d, i, j) /\ Earlier(r, <<i, j>>)
    <3>1. r \in Nat \X Nat /\ r[1] \in Nat /\ r[2] \in Nat
      BY DEF UpTo
    <3>2. r[1] < i \/ (r[1] = i /\ r[2] <= j - 1)
      BY DEF UpTo
    <3>3. /\ r[1] < i \/ (r[1] = i /\ r[2] <= j)
          /\ r[1] < i \/ (r[1] = i /\ r[2] < j)
      BY <1>1, <3>1, <3>2
    <3>. QED
      BY <2>1, <3>1, <3>3 DEF UpTo, Earlier
  <2>. QED
    BY <2>2, <2>3, <2>4
<1>. QED
  BY <1>3, <1>4, <1>5 DEF N

\* A section that is read.
LEMMA SectionRead ==
  ASSUME NEW d, IsDoc(d), RootIsFine(d), NEW i \in DOMAIN d.sections,
         NEW p, HasRead(p, d, UpToSection(d, i - 1)),
         NEW new, new = ParseSectionElement(p, d.sections[i]), new.loaded
  PROVE  HasRead(new, d, UpToSection(d, i))
<1>. DEFINE sec == d.sections[i]
            N == Len(sec.elements)
<1>1. N \in Nat /\ IsList(sec.elements) /\ i \in Nat
  BY DEF IsDoc, IsList
<1>2. p.loaded
  BY DEF HasRead
<1>3. ~NoPolicy.loaded
  BY DEF NoPolicy
<1>4. CASE sec.tag = "identity"
  <2>1. new = p
    BY <1>2, <1>4, SectionNames DEF ParseSectionElement, RuleSections
  <2>2. ASSUME NEW t, t # "identity"
        PROVE  Of(d, UpToSection(d, i), t) = Of(d, UpToSection(d, i - 1), t)
    <3>1. ASSUME NEW r \in Nat \X Nat, d.sections[r[1]].tag = t
          PROVE  r[1] <= i <=> r[1] <= i - 1
      <4>1. r[1] # i /\ r[1] \in Nat
        BY <1>4, <2>2, <3>1
      <4>. QED
        BY <1>1, <4>1
    <3>. QED
      BY <3>1 DEF Of, UpToSection
  <2>3. /\ \A g \in Gates : Of(d, UpToSection(d, i), SectionOf[g])
                              = Of(d, UpToSection(d, i - 1), SectionOf[g])
        /\ Of(d, UpToSection(d, i), "failure-policy")
             = Of(d, UpToSection(d, i - 1), "failure-policy")
        /\ Of(d, UpToSection(d, i), "command-policy")
             = Of(d, UpToSection(d, i - 1), "command-policy")
    BY <2>2, SectionNames
  <2>. QED
    BY <2>1, <2>3 DEF HasRead
<1>5. CASE sec.tag # "identity"
  <2>1. sec.tag \in RuleSections \cup {"command-policy", "failure-policy", "logging"}
    BY <1>2, <1>3, <1>5 DEF ParseSectionElement
  <2>2. PICK F : /\ F[0] = p
                 /\ \A j \in 1..N : F[j] = ParseElement(F[j - 1], sec.tag, sec.elements[j])
                 /\ ParseSectionElement(p, sec) = F[N]
    <3>. HIDE DEF sec
    <3>. QED
      BY <1>1, <1>2, <2>1, SectionSteps DEF N
  <2>. DEFINE T == {j \in Nat : j <= N /\ F[j].loaded => HasRead(F[j], d, UpTo(d, i, j))}
  <2>3. 0 \in T
    BY <2>2, UpToGrows
  <2>4. ASSUME NEW j \in T PROVE j + 1 \in T
    <3>. SUFFICES ASSUME j + 1 <= N, F[j + 1].loaded
                  PROVE HasRead(F[j + 1], d, UpTo(d, i, j + 1))
      OBVIOUS
    <3>1. j + 1 \in 1..N /\ (j + 1) - 1 = j /\ j <= N
      BY <1>1
    <3>2. F[j + 1] = ParseElement(F[j], sec.tag, sec.elements[j + 1])
      BY <2>2, <3>1
    <3>3. F[j].loaded
      BY <3>2 DEF ParseElement
    <3>4. HasRead(F[j], d, UpTo(d, i, j))
      BY <3>1, <3>3
    <3>. DEFINE r == <<i, j + 1>>
    <3>5. r \in Nat \X Nat /\ r[1] = i /\ r[2] = j + 1
      BY <1>1
    <3>6. F[j + 1] = ParseElement(F[j], d.sections[r[1]].tag, Elem(d, r))
      BY <3>2, <3>5 DEF Elem
    <3>7. /\ UpTo(d, i, j + 1) = UpTo(d, i, j) \cup {r}
          /\ \A q \in UpTo(d, i, j) : Earlier(q, r)
      BY <3>1, UpToGrows
    <3>8. UpTo(d, i, j) \in SUBSET (Nat \X Nat)
      BY DEF UpTo
    <3>. HIDE DEF r, sec, N
    <3>9. HasRead(F[j + 1], d, UpTo(d, i, j) \cup {r})
      BY <3>4, <3>5, <3>6, <3>7, <3>8, ElementRead
    <3>. QED
      BY <3>7, <3>9
  <2>5. T \in SUBSET Nat
    OBVIOUS
  <2>. HIDE DEF T
  <2>6. T = Nat
    BY <2>3, <2>4, <2>5, NatSetInduction
  <2>7. HasRead(F[N], d, UpTo(d, i, N))
    BY <1>1, <2>2, <2>6 DEF T
  <2>. QED
    BY <2>2, <2>7, UpToGrows
<1>. QED
  BY <1>4, <1>5

\* The root.
LEMMA RootRead ==
  ASSUME NEW d, IsDoc(d), ParseRoot(d).loaded
  PROVE  RootIsFine(d) /\ HasRead(ParseRoot(d), d, UpToSection(d, 0))
<1>. DEFINE p == ParseRoot(d)
            attr(a, default) == IF Has(d, a) THEN d.attrs[a] ELSE default
            decided == [g \in Gates |-> IF Has(d, DefaultAttr[g]) THEN d.attrs[DefaultAttr[g]]
                                        ELSE "deny"]
            failures == IF Has(d, "rebootOnFailure")
                        THEN AddFailureRule(<<>>, <<"*">>, d.attrs["rebootOnFailure"]) ELSE <<>>
            selinux == attr("selinuxMode", "default")
<1>1. ~NoPolicy.loaded
  BY DEF NoPolicy
<1>2. /\ Has(d, "rebootOnFailure") => d.attrs["rebootOnFailure"] \in FailureActions
      /\ p = [DefaultPolicy EXCEPT !.default = decided, !.selinux = selinux, !.failures = failures]
  BY <1>1 DEF ParseRoot
<1>. HIDE DEF decided, failures, selinux
<1>3. /\ p = [x \in PolicyFields |-> p[x]] /\ p.loaded
      /\ p.default = decided /\ p.failures = failures
      /\ p.rules = [g \in Gates |-> <<>>] /\ p.verbs = {} /\ p.verbArgs = {}
  BY <1>2 DEF DefaultPolicy, PolicyFields
<1>4. UpToSection(d, 0) = {}
  <2>1. \A r \in Nat \X Nat : r[1] \in DOMAIN d.sections => ~(r[1] <= 0)
    BY DEF IsDoc, IsList
  <2>. QED
    BY <2>1 DEF UpToSection
<1>5. \A t : Of(d, UpToSection(d, 0), t) = {}
  BY <1>4 DEF Of
<1>6. <<>> \in Seq({}) /\ DOMAIN <<>> = {}
  <2>1. <<>> \in Seq({}) /\ Len(<<>>) = 0
    OBVIOUS
  <2>2. DOMAIN <<>> = 1..0 /\ 1..0 = {}
    BY <2>1
  <2>. QED
    BY <2>1, <2>2
<1>7. \A g \in Gates : RulesFrom(<<>>, d, g, {})
  BY <1>6 DEF RulesFrom
<1>8. FailureRules(<<>>) /\ \A n : FirstAction(<<>>, n) = "none"
  <2>1. FailureRules(<<>>)
    BY <1>6 DEF FailureRules, StarsLast
  <2>. QED
    BY <1>6, <2>1, FirstActionCases
<1>9. \A n : ForName(d, {}, n) = {}
  BY DEF ForName
<1>10. FailuresFrom(failures, d, {})
  <2>1. CASE Has(d, "rebootOnFailure")
    <3>. DEFINE a == d.attrs["rebootOnFailure"]
    <3>1. failures = AddFailureRule(<<>>, Star, a) /\ a \in FailureActions
      BY <1>2, <2>1 DEF failures, Star
    <3>. HIDE DEF a
    <3>2. /\ FailureRules(failures)
          /\ \A n : FirstAction(failures, n) =
               IF n = Star /\ FirstAction(<<>>, n) = "none" THEN a ELSE FirstAction(<<>>, n)
      BY <1>8, <3>1, AddedFailure
    <3>. QED
      BY <1>8, <1>9, <2>1, <3>2 DEF FailuresFrom, RootFails, a
  <2>2. CASE ~Has(d, "rebootOnFailure")
    <3>1. failures = <<>>
      BY <2>2 DEF failures
    <3>. QED
      BY <1>8, <1>9, <2>2, <3>1 DEF FailuresFrom, RootFails
  <2>. QED
    BY <2>1, <2>2
<1>11. DeniedVerbs(d, {}) = {} /\ DeniedArgs(d, {}) = {}
  BY DEF DeniedVerbs, DeniedArgs
<1>. HIDE DEF p
<1>12. HasRead(p, d, UpToSection(d, 0))
  BY <1>3, <1>5, <1>7, <1>10, <1>11 DEF HasRead, decided
<1>. QED
  BY <1>2, <1>12 DEF RootIsFine, p

\* A file that is loaded has been read to the end.
LEMMA FileRead ==
  ASSUME NEW d, IsDoc(d), LoadFromFile(d).loaded
  PROVE  RootIsFine(d) /\ HasRead(LoadFromFile(d), d, UpToSection(d, Len(d.sections)))
<1>. DEFINE N == Len(d.sections)
<1>1. N \in Nat /\ DOMAIN d.sections = 1..N
  BY DEF IsDoc, IsList
<1>2. PICK F : /\ F[0] = ParseRoot(d)
               /\ \A i \in 1..N : F[i] = ParseSectionElement(F[i - 1], d.sections[i])
               /\ LoadFromFile(d) = F[N]
  BY FileSteps
<1>. DEFINE T == {i \in Nat : i <= N /\ F[i].loaded =>
                                RootIsFine(d) /\ HasRead(F[i], d, UpToSection(d, i))}
<1>3. 0 \in T
  BY <1>2, RootRead
<1>4. ASSUME NEW i \in T PROVE i + 1 \in T
  <2>. SUFFICES ASSUME i + 1 <= N, F[i + 1].loaded
                PROVE RootIsFine(d) /\ HasRead(F[i + 1], d, UpToSection(d, i + 1))
    OBVIOUS
  <2>1. i + 1 \in DOMAIN d.sections /\ (i + 1) - 1 = i /\ i <= N
    BY <1>1
  <2>2. F[i + 1] = ParseSectionElement(F[i], d.sections[i + 1])
    BY <1>1, <1>2, <2>1
  <2>3. F[i].loaded
    BY <2>2 DEF ParseSectionElement
  <2>4. RootIsFine(d) /\ HasRead(F[i], d, UpToSection(d, (i + 1) - 1))
    BY <2>1, <2>3
  <2>. QED
    BY <2>1, <2>2, <2>4, SectionRead
<1>5. T \in SUBSET Nat
  OBVIOUS
<1>. HIDE DEF T
<1>6. T = Nat
  BY <1>3, <1>4, <1>5, NatSetInduction
<1>. QED
  BY <1>1, <1>2, <1>6 DEF T

-----------------------------------------------------------------------------
(* The policy that is loaded means what its file says. *)

\* In the end all elements are read.
LEMMA AllElements ==
  ASSUME NEW d, IsDoc(d), NEW tag
  PROVE  /\ Of(d, UpToSection(d, Len(d.sections)), tag) = ElementsIn(d, tag)
         /\ ElementsIn(d, tag) \in SUBSET (Nat \X Nat)
<1>. DEFINE N == Len(d.sections)
<1>1. N \in Nat /\ DOMAIN d.sections = 1..N
  BY DEF IsDoc, IsList
<1>2. \A i \in DOMAIN d.sections : DOMAIN d.sections[i].elements \subseteq Nat
  BY DEF IsDoc, IsList
<1>. HIDE DEF N
<1>3. ASSUME NEW r \in Of(d, UpToSection(d, N), tag) PROVE r \in ElementsIn(d, tag)
  <2>1. r = <<r[1], r[2]>> /\ r[1] \in DOMAIN d.sections
        /\ r[2] \in DOMAIN d.sections[r[1]].elements /\ d.sections[r[1]].tag = tag
    BY DEF Of, UpToSection
  <2>. QED
    BY <2>1 DEF ElementsIn
<1>4. ASSUME NEW r \in ElementsIn(d, tag)
      PROVE  r \in Of(d, UpToSection(d, N), tag) /\ r \in Nat \X Nat
  <2>1. PICK i \in DOMAIN d.sections :
          d.sections[i].tag = tag /\ \E j \in DOMAIN d.sections[i].elements : r = <<i, j>>
    BY DEF ElementsIn
  <2>2. PICK j \in DOMAIN d.sections[i].elements : r = <<i, j>>
    BY <2>1
  <2>3. r \in Nat \X Nat /\ r[1] = i /\ r[2] = j /\ i <= N
    BY <1>1, <1>2, <2>2
  <2>. QED
    BY <2>1, <2>3 DEF Of, UpToSection
<1>. QED
  BY <1>3, <1>4 DEF N

\* A gate of the loaded policy says what the file says.
LEMMA GateMeansFile ==
  ASSUME NEW d, IsDoc(d), LoadFromFile(d).loaded, NEW g \in Gates, NEW subject \in Path
  PROVE  IsAllowed(LoadFromFile(d), g, subject) <=> Permits(d, g, subject)
<1>. DEFINE p == LoadFromFile(d)
            rules == p.rules[g]
            rs == ElementsIn(d, SectionOf[g])
            pattern(r) == Elem(d, r).attrs[RuleAttr[g]]
            covering == {r \in rs : Covers(pattern(r), subject)}
            hits == {i \in DOMAIN rules : GlobMatch(rules[i].pattern, subject)}
<1>1. HasRead(p, d, UpToSection(d, Len(d.sections)))
  BY FileRead
<1>2. /\ RulesFrom(rules, d, g, rs)
      /\ p.default[g] = IF Has(d, DefaultAttr[g]) THEN d.attrs[DefaultAttr[g]] ELSE "deny"
  <2>1. RulesFrom(rules, d, g, Of(d, UpToSection(d, Len(d.sections)), SectionOf[g]))
    BY <1>1 DEF HasRead
  <2>2. Of(d, UpToSection(d, Len(d.sections)), SectionOf[g]) = rs
    BY AllElements
  <2>3. p.default = [x \in Gates |-> IF Has(d, DefaultAttr[x]) THEN d.attrs[DefaultAttr[x]]
                                     ELSE "deny"]
    BY <1>1 DEF HasRead
  <2>. HIDE DEF rules, rs, p
  <2>. QED
    BY <2>1, <2>2, <2>3
<1>3. rs \in SUBSET (Nat \X Nat)
  BY AllElements
<1>4. ASSUME NEW r \in rs, Has(Elem(d, r), RuleAttr[g]) PROVE pattern(r) \in Path
  <2>1. r[1] \in DOMAIN d.sections /\ r[2] \in DOMAIN d.sections[r[1]].elements
        /\ d.sections[r[1]].tag = SectionOf[g]
    <3>1. r \in Of(d, UpToSection(d, Len(d.sections)), SectionOf[g])
      BY AllElements
    <3>. QED
      BY <3>1 DEF Of, UpToSection
  <2>. QED
    BY <1>4, <2>1 DEF IsDoc, Elem
<1>5. IsAllowed(p, g, subject) <=>
        IF hits = {} THEN p.default[g] = "allow"
        ELSE rules[CHOOSE i \in hits : \A j \in hits : i <= j].decision = "allow"
  BY DEF IsAllowed, InnitPolicyIsActive, EvaluateRules
<1>6. Permits(d, g, subject) <=>
        IF covering = {} THEN Has(d, DefaultAttr[g]) /\ d.attrs[DefaultAttr[g]] = "allow"
        ELSE \E r \in covering : IsFirst(r, covering) /\ Elem(d, r).tag = "allow"
  BY DEF Permits
<1>. HIDE DEF p
<1>7. Len(rules) \in Nat /\ DOMAIN rules = 1..Len(rules)
  BY <1>2 DEF RulesFrom
<1>8. PICK pos :
        /\ \A k \in DOMAIN rules :
             /\ pos[k] \in rs
             /\ rules[k].decision = Elem(d, pos[k]).tag
             /\ Has(Elem(d, pos[k]), RuleAttr[g])
             /\ rules[k].pattern = pattern(pos[k])
        /\ \A k, m \in DOMAIN rules : k < m => Earlier(pos[k], pos[m])
        /\ \A r \in rs : \E k \in DOMAIN rules : pos[k] = r
  BY <1>2 DEF RulesFrom
<1>. HIDE DEF rules, rs, pattern
<1>9. \A k \in DOMAIN rules : k \in hits <=> pos[k] \in covering
  BY <1>4, <1>8, GlobMatchIsCovers
<1>10. CASE hits = {}
  <2>1. covering = {}
    BY <1>8, <1>9, <1>10
  <2>. HIDE DEF hits, covering
  <2>. QED
    BY <1>2, <1>5, <1>6, <1>10, <2>1 DEF p
<1>11. CASE hits # {}
  <2>1. hits \in SUBSET Nat
    BY <1>7
  <2>2. \E k \in hits : \A j \in hits : k <= j
    <3>. HIDE DEF hits
    <3>. QED
      BY <1>11, <2>1, LeastNumber
  <2>. DEFINE k == CHOOSE i \in hits : \A j \in hits : i <= j
  <2>3. k \in hits /\ \A j \in hits : k <= j
    <3>. HIDE DEF hits
    <3>. QED
      BY <2>2
  <2>. HIDE DEF k
  <2>4. k \in DOMAIN rules /\ pos[k] \in covering
    BY <1>9, <2>3
  <2>5. IsFirst(pos[k], covering)
    <3>1. ASSUME NEW q \in covering PROVE NotAfter(pos[k], q)
      <4>1. q \in rs
        OBVIOUS
      <4>2. PICK m \in DOMAIN rules : pos[m] = q
        BY <1>8, <4>1
      <4>3. m \in hits
        BY <1>9, <4>2
      <4>4. k = m \/ k < m
        BY <1>7, <2>3, <2>4, <4>3
      <4>5. pos[k] \in Nat \X Nat /\ pos[k][1] \in Nat /\ pos[k][2] \in Nat
        BY <1>3, <1>8, <2>4
      <4>6. k < m => Earlier(pos[k], q)
        BY <1>8, <2>4, <4>2
      <4>7. CASE k = m
        BY <4>2, <4>5, <4>7 DEF NotAfter
      <4>8. CASE k < m
        <5>1. q[1] \in Nat /\ q[2] \in Nat
          BY <1>3, <4>1
        <5>. QED
          BY <4>5, <4>6, <4>8, <5>1 DEF NotAfter, Earlier
      <4>. QED
        BY <4>4, <4>7, <4>8
    <3>. QED
      BY <2>4, <3>1 DEF IsFirst
  <2>6. covering \in SUBSET (Nat \X Nat)
    BY <1>3
  <2>. HIDE DEF covering, hits
  <2>7. \A r \in covering : IsFirst(r, covering) => r = pos[k]
    <3>1. FirstOf(covering) = pos[k]
      BY <2>5, <2>6, FirstIsChosen
    <3>. QED
      BY <2>6, <3>1, FirstIsChosen
  <2>8. IsAllowed(p, g, subject) <=> rules[k].decision = "allow"
    BY <1>5, <1>11 DEF k
  <2>9. Permits(d, g, subject) <=> Elem(d, pos[k]).tag = "allow"
    BY <1>6, <2>4, <2>5, <2>7
  <2>. QED
    BY <1>8, <2>4, <2>8, <2>9 DEF p
<1>. QED
  BY <1>10, <1>11

\* So does the failure rule of a service...
LEMMA FailureMeansFile ==
  ASSUME NEW d, IsDoc(d), LoadFromFile(d).loaded, NEW name, name # Star
  PROVE  GetFailureAction(LoadFromFile(d), name) = DeclaredFailure(d, name)
<1>. DEFINE p == LoadFromFile(d)
            rs == ElementsIn(d, "failure-policy")
            own == ForName(d, rs, name)
            stars == ForName(d, rs, Star)
            first(S) == Elem(d, FirstOf(S)).attrs["rebootOnFailure"]
<1>1. FailuresFrom(p.failures, d, rs)
  <2>1. HasRead(p, d, UpToSection(d, Len(d.sections)))
    BY FileRead
  <2>2. Of(d, UpToSection(d, Len(d.sections)), "failure-policy") = rs
    BY AllElements
  <2>. QED
    BY <2>1, <2>2 DEF HasRead
<1>2. /\ FirstAction(p.failures, name) = IF own = {} THEN "none" ELSE first(own)
      /\ FirstAction(p.failures, name) = "none" => own = {}
  BY <1>1 DEF FailuresFrom, RootFails
<1>3. /\ FirstAction(p.failures, Star) =
           IF Has(d, "rebootOnFailure") THEN d.attrs["rebootOnFailure"]
           ELSE IF stars = {} THEN "none" ELSE first(stars)
      /\ FirstAction(p.failures, Star) = "none" => stars = {}
  BY <1>1 DEF FailuresFrom, RootFails
<1>4. Has(d, "rebootOnFailure") => d.attrs["rebootOnFailure"] # "none"
  BY FileRead DEF RootIsFine, FailureActions
<1>5. GetFailureAction(p, name) =
        LET mine == FirstAction(p.failures, name)
            star == FirstAction(p.failures, Star)
        IN CASE mine # "none" -> mine
             [] mine = "none" /\ star # "none" -> star
             [] OTHER -> "reboot"
  BY DEF GetFailureAction, Star
<1>6. DeclaredFailure(d, name) =
        CASE own # {} -> first(own)
          [] own = {} /\ Has(d, "rebootOnFailure") -> d.attrs["rebootOnFailure"]
          [] own = {} /\ ~Has(d, "rebootOnFailure") /\ stars # {} -> first(stars)
          [] OTHER -> "reboot"
  BY DEF DeclaredFailure, ForName, FirstOf, Star
<1>. HIDE DEF p, own, stars, first
<1>. QED
  BY <1>2, <1>3, <1>4, <1>5, <1>6 DEF p

\* ... and what is denied of commands.
LEMMA CommandMeansFile ==
  ASSUME NEW d, IsDoc(d), LoadFromFile(d).loaded, NEW verb, NEW args
  PROVE  IsCommandAllowed(LoadFromFile(d), verb, args) <=> ~Forbids(d, verb, args)
<1>. DEFINE p == LoadFromFile(d)
            rs == ElementsIn(d, "command-policy")
<1>1. p.verbs = DeniedVerbs(d, rs) /\ p.verbArgs = DeniedArgs(d, rs)
  <2>1. HasRead(p, d, UpToSection(d, Len(d.sections)))
    BY FileRead
  <2>2. Of(d, UpToSection(d, Len(d.sections)), "command-policy") = rs
    BY AllElements
  <2>. QED
    BY <2>1, <2>2 DEF HasRead
<1>2. IsCommandAllowed(p, verb, args) <=>
        /\ verb \notin p.verbs
        /\ args # <<>> => <<verb, args[1]>> \notin p.verbArgs
  BY DEF IsCommandAllowed, InnitPolicyIsActive
<1>3. Forbids(d, verb, args) <=>
        \E r \in rs : /\ Elem(d, r).attrs["verb"] = verb
                      /\ Has(Elem(d, r), "arg") => args # <<>> /\ Elem(d, r).attrs["arg"] = args[1]
  BY DEF Forbids
<1>. HIDE DEF p, rs
<1>4. verb \in p.verbs <=>
        \E r \in rs : ~Has(Elem(d, r), "arg") /\ Elem(d, r).attrs["verb"] = verb
  BY <1>1 DEF DeniedVerbs
<1>5. <<verb, args[1]>> \in p.verbArgs <=>
        \E r \in rs : /\ Has(Elem(d, r), "arg") /\ Elem(d, r).attrs["verb"] = verb
                      /\ Elem(d, r).attrs["arg"] = args[1]
  BY <1>1 DEF DeniedArgs
<1>. QED
  BY <1>2, <1>3, <1>4, <1>5 DEF p

-----------------------------------------------------------------------------
(* From the file to what has been parsed. *)

\* ExpandProps() expands one piece of the word after the other.
LEMMA ExpandSteps ==
  ASSUME NEW word, IsList(word)
  PROVE  \E F : /\ F[0] = [ok |-> TRUE, value |-> <<>>]
                /\ \A j \in 1..Len(word) : F[j] = ExpandPiece(F[j - 1], word[j])
                /\ ExpandProps(word) = F[Len(word)]
<1>. DEFINE N == Len(word)
            start == [ok |-> TRUE, value |-> <<>>]
            B(x, j) == ExpandPiece(x, word[j])
            Loop(h, n) == [j \in 0..n |-> IF j = 0 THEN start ELSE B(h[j - 1], j)]
            F == CHOOSE h : h = Loop(h, N)
<1>1. N \in Nat
  BY DEF IsList
<1>2. ExpandProps(word) = F[N]
  <2>. HIDE DEF F
  <2>. QED
    BY DEF ExpandProps, F
<1>. HIDE DEF N, B, start
<1>3. \A n \in Nat : \E h : h = Loop(h, n)
  <2>. DEFINE T == {n \in Nat : \E h : h = Loop(h, n)}
  <2>1. 0 \in T
    <3>. DEFINE f0 == [j \in 0..0 |-> start]
    <3>1. f0 = Loop(f0, 0)
      OBVIOUS
    <3>. QED
      BY <3>1
  <2>2. ASSUME NEW n \in T PROVE n + 1 \in T
    <3>1. PICK h : h = Loop(h, n)
      OBVIOUS
    <3>. DEFINE new == B(h[n], n + 1)
                g == [j \in 0..(n + 1) |-> IF j = n + 1 THEN new ELSE h[j]]
    <3>. HIDE DEF new
    <3>2. ASSUME NEW j \in 0..(n + 1) PROVE g[j] = Loop(g, n + 1)[j]
      <4>1. CASE j = n + 1
        <5>1. j # 0 /\ j - 1 = n /\ g[n] = h[n] /\ g[j] = new
          BY <4>1
        <5>2. Loop(g, n + 1)[j] = B(g[j - 1], j)
          BY <5>1
        <5>. QED
          BY <4>1, <5>1, <5>2 DEF new
      <4>2. CASE j # n + 1
        <5>1. j \in 0..n /\ g[j] = h[j]
          BY <4>2
        <5>2. h[j] = IF j = 0 THEN start ELSE B(h[j - 1], j)
          BY <3>1, <5>1
        <5>3. j # 0 => g[j - 1] = h[j - 1]
          BY <5>1
        <5>. QED
          BY <5>1, <5>2, <5>3
      <4>. QED
        BY <4>1, <4>2
    <3>3. g = Loop(g, n + 1)
      BY <3>2
    <3>4. n + 1 \in Nat
      OBVIOUS
    <3>5. \E h2 : h2 = Loop(h2, n + 1)
      <4>. HIDE DEF g
      <4>. QED
        BY <3>3
    <3>. QED
      BY <3>4, <3>5
  <2>. HIDE DEF T
  <2>3. T \in SUBSET Nat
    BY DEF T
  <2>4. T = Nat
    BY <2>1, <2>2, <2>3, NatSetInduction
  <2>. QED
    BY <2>4 DEF T
<1>4. F = Loop(F, N)
  BY <1>1, <1>3
<1>5. \A j \in 0..N : F[j] = IF j = 0 THEN start ELSE B(F[j - 1], j)
  BY <1>4
<1>. HIDE DEF F
<1>6. F[0] = start /\ \A j \in 1..N : F[j] = B(F[j - 1], j)
  BY <1>1, <1>5
<1>. QED
  BY <1>2, <1>6 DEF B, N, start

\* What a word is expanded to is a path.
LEMMA ExpandedIsPath ==
  ASSUME NEW word, IsWord(word)
  PROVE  ExpandProps(word).value \in Path
<1>. DEFINE N == Len(word)
            IsResult(x) == x \in [ok : BOOLEAN, value : Path]
<1>0. N \in Nat /\ DOMAIN word = 1..N /\ IsList(word)
  BY DEF IsWord, IsList
<1>1. <<>> \in Path
  BY DEF Path
<1>2. PICK F : /\ F[0] = [ok |-> TRUE, value |-> <<>>]
               /\ \A j \in 1..N : F[j] = ExpandPiece(F[j - 1], word[j])
               /\ ExpandProps(word) = F[N]
  BY <1>0, ExpandSteps
<1>3. ASSUME NEW dst, IsResult(dst), NEW i \in 1..N PROVE IsResult(ExpandPiece(dst, word[i]))
  <2>. DEFINE p == word[i]
              value == IF Value(p) # <<>> THEN Value(p) ELSE p.default
  <2>1. /\ p.kind = "text" => p.text \in Path
        /\ p.kind \notin {"text", "unclosed"} => p.default \in Path
    BY <1>0 DEF IsWord
  <2>2. Value(p) = <<>> \/ Value(p) \in Path
    BY FilesAssumption DEF Value
  <2>. SUFFICES IsResult(ExpandPiece(dst, p))
    OBVIOUS
  <2>. HIDE DEF p
  <2>3. p.kind \notin {"text", "unclosed"} => value \in Path
    BY <2>1, <2>2
  <2>4. \A v \in Path : IsResult([dst EXCEPT !.value = @ \o v])
    <3>. TAKE v \in Path
    <3>1. dst.value \o v \in Path
      <4>1. dst.value \in Seq(Symbols) /\ v \in Seq(Symbols)
        BY <1>3 DEF Path
      <4>. QED
        BY <4>1, ConcatProperties DEF Path
    <3>. QED
      BY <1>3, <3>1
  <2>5. IsResult(Error)
    BY <1>1 DEF Error
  <2>6. ExpandPiece(dst, p) =
          IF ~dst.ok THEN dst ELSE
          CASE p.kind = "text" -> [dst EXCEPT !.value = @ \o p.text]
            [] p.kind = "unclosed" \/ (p.kind = "bare" /\ api >= API_R) -> Error
            [] OTHER -> IF p.name = <<>> \/ value = <<>> THEN Error
                        ELSE [dst EXCEPT !.value = @ \o value]
    BY DEF ExpandPiece
  <2>. HIDE DEF value, IsResult
  <2>7. CASE ~dst.ok
    BY <1>3, <2>6, <2>7
  <2>8. CASE dst.ok /\ p.kind = "text"
    BY <2>1, <2>4, <2>6, <2>8
  <2>9. CASE dst.ok /\ p.kind # "text" /\ (p.kind = "unclosed" \/ (p.kind = "bare" /\ api >= API_R))
    BY <2>5, <2>6, <2>9
  <2>10. CASE /\ dst.ok /\ p.kind # "text"
              /\ ~(p.kind = "unclosed" \/ (p.kind = "bare" /\ api >= API_R))
    BY <2>3, <2>4, <2>5, <2>6, <2>10
  <2>. QED
    BY <2>7, <2>8, <2>9, <2>10
<1>. DEFINE S == {n \in Nat : n \in 0..N => IsResult(F[n])}
<1>4. 0 \in S
  <2>1. IsResult(F[0])
    BY <1>1, <1>2
  <2>. HIDE DEF IsResult
  <2>. QED
    BY <2>1
<1>5. ASSUME NEW n \in S PROVE n + 1 \in S
  <2>. HIDE DEF IsResult, N
  <2>1. n + 1 \in 0..N => n \in 0..N /\ n + 1 \in 1..N /\ (n + 1) - 1 = n
    BY <1>0
  <2>. QED
    BY <1>2, <1>3, <2>1
<1>. HIDE DEF S
<1>6. S = Nat
  <2>1. S \in SUBSET Nat
    BY DEF S
  <2>. QED
    BY <1>4, <1>5, <2>1, NatSetInduction
<1>7. IsResult(F[N])
  <2>1. N \in S /\ N \in 0..N
    BY <1>0, <1>6
  <2>. HIDE DEF IsResult, N
  <2>. QED
    BY <2>1 DEF S
<1>. QED
  BY <1>2, <1>7

\* "*" is no name of a service.
LEMMA StarIsNoName ==
  ASSUME NEW name, IsValidName(name)
  PROVE  name # Star
<1>1. SUFFICES ASSUME name = Star PROVE FALSE
  OBVIOUS
<1>. DEFINE a == <<"init.svc", ".">>
            n == a \o Star
<1>2. Len(a) = 2 /\ Len(Star) = 1 /\ Star[1] = "*" /\ \E A : a \in Seq(A) /\ Star \in Seq(A)
  <2>1. \A x, y, z : <<x, y>> \in Seq({x, y, z}) /\ <<z>> \in Seq({x, y, z})
    OBVIOUS
  <2>2. a \in Seq({"init.svc", ".", "*"}) /\ <<"*">> \in Seq({"init.svc", ".", "*"})
    BY <2>1
  <2>3. Len(<<"*">>) = 1 /\ <<"*">>[1] = "*" /\ Len(a) = 2
    OBVIOUS
  <2>. HIDE DEF a
  <2>. QED
    BY <2>2, <2>3 DEF Star
<1>. HIDE DEF a
<1>3. 3 \in DOMAIN n /\ n[3] = "*"
  <2>1. PICK A : a \in Seq(A) /\ Star \in Seq(A)
    BY <1>2
  <2>2. /\ n \in Seq(A) /\ Len(n) = Len(a) + Len(Star)
        /\ \A i \in 1..(Len(a) + Len(Star)) :
             n[i] = IF i <= Len(a) THEN a[i] ELSE Star[i - Len(a)]
    BY <2>1, ConcatProperties
  <2>3. Len(n) = 3 /\ n[3] = Star[1]
    BY <1>2, <2>2
  <2>. HIDE DEF n
  <2>. QED
    BY <1>2, <2>2, <2>3
<1>4. IsLegalPropertyName(n)
  BY <1>1 DEF IsValidName, a
<1>. HIDE DEF n
<1>. QED
  BY <1>3, <1>4 DEF IsLegalPropertyName

\* The program that exec runs is the one whose path the gate looks at.
LEMMA ProgramIsChecked ==
  ASSUME NEW args \in Seq(Path), Program(args) # <<>>
  PROVE  InnitExtractExecPath(args) = Program(args) /\ Program(args) \in Path
<1>. DEFINE dashes == Dashes(args)
            least == CHOOSE i \in dashes : \A j \in dashes : i <= j
            seps == {i \in dashes : i < Len(args)}
            first == IF dashes = {} THEN 1 ELSE least + 1
<1>1. Len(args) \in Nat /\ DOMAIN args = 1..Len(args)
  OBVIOUS
<1>2. dashes \in SUBSET (1..Len(args))
  BY <1>1 DEF Dashes
<1>3. Program(args) = IF first > 16 \/ first > Len(args) THEN <<>> ELSE args[first]
  BY DEF Program
<1>4. InnitExtractExecPath(args) =
        IF seps = {} THEN args[1] ELSE args[(CHOOSE i \in seps : \A j \in seps : i <= j) + 1]
  BY DEF InnitExtractExecPath
<1>. HIDE DEF dashes
<1>5. CASE dashes = {}
  <2>1. first = 1 /\ seps = {}
    BY <1>5
  <2>2. ~(1 > Len(args)) /\ Program(args) = args[1]
    BY <1>3, <2>1
  <2>3. args[1] \in Path
    BY <1>1, <2>2
  <2>. HIDE DEF first, seps
  <2>. QED
    BY <1>4, <2>1, <2>2, <2>3
<1>6. CASE dashes # {}
  <2>1. \E k \in dashes : \A j \in dashes : k <= j
    <3>1. dashes \in SUBSET Nat
      BY <1>2
    <3>. QED
      BY <1>6, <3>1, LeastNumber
  <2>2. least \in dashes /\ \A j \in dashes : least <= j
    BY <2>1
  <2>. HIDE DEF least
  <2>3. first = least + 1
    BY <1>6
  <2>. HIDE DEF first
  <2>4. ~(first > Len(args)) /\ Program(args) = args[first]
    BY <1>3
  <2>5. least \in 1..Len(args) /\ least < Len(args)
    BY <1>1, <1>2, <2>2, <2>3, <2>4
  <2>6. least \in seps /\ \A j \in seps : least <= j
    BY <2>2, <2>5
  <2>7. \A i \in seps : i \in Nat
    <3>1. \A i \in dashes : i \in Nat
      BY <1>2
    <3>. QED
      BY <3>1
  <2>. HIDE DEF seps
  <2>8. (CHOOSE i \in seps : \A j \in seps : i <= j) = least
    <3>1. \A i \in seps : (\A j \in seps : i <= j) => i = least
      BY <2>6, <2>7
    <3>. QED
      BY <2>6, <3>1
  <2>9. InnitExtractExecPath(args) = args[least + 1]
    BY <1>4, <2>6, <2>8
  <2>10. args[least + 1] \in Path
    BY <1>1, <2>5
  <2>. QED
    BY <2>3, <2>4, <2>9, <2>10
<1>. QED
  BY <1>5, <1>6

-----------------------------------------------------------------------------
(* Everything that is parsed is a path. *)

\* What the list of files holds, and the commands the files may have.
Todo == [path : Path, late : BOOLEAN]
Commands == {l \in alphabet : l.key = "command"}

\* A service and an action as the parsers make them.
Named(s) == s.name \in Path /\ s.name # Star /\ s.file \in Path
Scripted(a, cmds) == a.file \in Path /\ a.cmds \in Seq(cmds)

\* The build's files, and the policy once it is loaded.
ConfigInv ==
  /\ doc = Absent \/ IsDoc(doc)
  /\ \A l \in alphabet : IsLine(l)
  /\ innit /\ doc # Absent /\ phase \in {"boot", "running"} =>
       policy = LoadFromFile(doc) /\ policy.loaded

\* What is read and what waits to be.
FilesInv ==
  /\ file \in Path /\ work \in Seq(Todo)
  /\ latePaths \in Seq(Path) /\ imports_ \in Seq(Path)

\* What has been read.
ReadInv ==
  /\ \A i \in DOMAIN services : Named(services[i])
  /\ \A i \in DOMAIN actions : Scripted(actions[i], Commands)
  /\ section = "service" /\ service_ # NoService => Named(service_)
  /\ section = "on" /\ action_ # NoAction => Scripted(action_, Commands)
  /\ \A c \in ran : c \in Commands /\ (c.verb = "exec" => Program(c.args) # <<>>)

\* Files that are to be parsed make a list.
LEMMA TodoLists ==
  ASSUME NEW paths \in Seq(Path)
  PROVE  /\ Once(paths) \in Seq(Todo)
         /\ [i \in DOMAIN paths |-> [path |-> paths[i], late |-> paths[i] # SystemExt]]
              \in Seq(Todo)
<1>. DEFINE n == Len(paths)
<1>1. n \in Nat /\ DOMAIN paths = 1..n
  OBVIOUS
<1>2. \A i \in 1..n : paths[i] \in Path
  OBVIOUS
<1>3. \A p \in Path : \A b \in BOOLEAN : [path |-> p, late |-> b] \in Todo
  BY DEF Todo
<1>. HIDE DEF n
<1>4. [i \in 1..n |-> [path |-> paths[i], late |-> FALSE]] \in Seq(Todo)
  <2>1. \A i \in 1..n : [path |-> paths[i], late |-> FALSE] \in Todo
    BY <1>2, <1>3
  <2>. QED
    BY <1>1, <2>1, IsASeq
<1>5. [i \in 1..n |-> [path |-> paths[i], late |-> paths[i] # SystemExt]] \in Seq(Todo)
  <2>1. \A i \in 1..n : [path |-> paths[i], late |-> paths[i] # SystemExt] \in Todo
    <3>1. \A i \in 1..n : (paths[i] # SystemExt) \in BOOLEAN
      OBVIOUS
    <3>. QED
      BY <1>2, <1>3, <3>1
  <2>. QED
    BY <1>1, <2>1, IsASeq
<1>. QED
  BY <1>1, <1>4, <1>5 DEF Once

\* What is read in stays as it is, and the policy is the file's.
LEMMA ConfigStep ==
  ASSUME ConfigInv, [Next]_vars
  PROVE  ConfigInv'
<1>1. CASE UNCHANGED boot
  BY <1>1 DEF ConfigInv, boot
<1>2. CASE LoadPolicy
  <2>1. UNCHANGED <<innit, doc, alphabet>>
    BY <1>2 DEF LoadPolicy
  <2>2. ASSUME innit, doc # Absent, phase' = "boot"
        PROVE  policy' = LoadFromFile(doc) /\ policy'.loaded
    BY <1>2, <2>2 DEF LoadPolicy
  <2>3. phase' \in {"boot", "halted"}
    BY <1>2 DEF LoadPolicy
  <2>. QED
    BY <2>1, <2>2, <2>3 DEF ConfigInv
<1>3. CASE LoadBootScripts
  <2>1. UNCHANGED <<innit, doc, alphabet, policy>> /\ phase = "boot"
    BY <1>3 DEF LoadBootScripts
  <2>. QED
    BY <2>1 DEF ConfigInv
<1>4. CASE \/ ParseApexConfigs \/ \E paths \in RcPaths, late \in BOOLEAN : MountAll(paths, late)
           \/ ParseConfigFile \/ ParseConfigDir \/ ParseConfigFails \/ EndFile
           \/ \E c : RunCommand(c)
  <2>1. UNCHANGED boot
    BY <1>4 DEF ParseApexConfigs, MountAll, ParseConfigFile, ParseConfigDir, ParseConfigFails,
       EndFile, RunCommand, Kept
  <2>. QED
    BY <1>1, <2>1
<1>5. ASSUME NEW l \in alphabet,
             \/ RefusedSection(l) \/ ServiceSection(l) \/ OnSection(l) \/ ImportSection(l)
             \/ OptionLine(l) \/ CommandLine(l) \/ SkippedLine(l)
      PROVE  ConfigInv'
  <2>1. NextLine(l)
    BY <1>5 DEF RefusedSection, ServiceSection, OnSection, ImportSection, OptionLine,
       CommandLine, SkippedLine, BeginSection
  <2>2. UNCHANGED boot
    BY <2>1 DEF NextLine
  <2>. QED
    BY <1>1, <2>2
<1>6. CASE UNCHANGED vars
  BY <1>1, <1>6 DEF vars
<1>. QED
  BY <1>2, <1>3, <1>4, <1>5, <1>6 DEF Next

\* What is to be parsed is a path: an import, once expanded, too.
LEMMA FilesStep ==
  ASSUME ConfigInv, FilesInv, [Next]_vars
  PROVE  FilesInv'
<1>0. <<>> \in Path /\ <<>> \in Seq(Path) /\ <<>> \in Seq(Todo)
  BY DEF Path
<1>1. CASE UNCHANGED <<file, work, latePaths, imports_>>
  BY <1>1 DEF FilesInv
<1>2. CASE LoadPolicy \/ \E c : RunCommand(c)
  <2>1. UNCHANGED <<file, work, latePaths, imports_>>
    BY <1>2 DEF LoadPolicy, RunCommand, parsing
  <2>. QED
    BY <1>1, <2>1
<1>3. CASE LoadBootScripts
  <2>. DEFINE dirs == [i \in DOMAIN BootDirs |->
                         [path |-> BootDirs[i], late |-> BootDirs[i] # SystemExt]]
  <2>1. UNCHANGED <<file, latePaths>> /\ imports_' = <<>>
    BY <1>3 DEF LoadBootScripts, NewParser
  <2>2. <<InitRc>> \in Seq(Path) /\ BootDirs \in Seq(Path)
    BY FilesAssumption
  <2>3. Once(<<InitRc>>) \in Seq(Todo) /\ dirs \in Seq(Todo)
    BY <2>2, TodoLists
  <2>4. \/ work' = Once(<<InitRc>>) \/ work' = Once(<<InitRc>>) \o dirs
        \/ \E script \in Path : work' = Once(<<script>>)
    BY <1>3, ScriptsAssumption DEF LoadBootScripts, BootScript
  <2>. HIDE DEF dirs
  <2>5. ASSUME NEW script \in Path PROVE Once(<<script>>) \in Seq(Todo)
    <3>1. <<script>> \in Seq(Path)
      OBVIOUS
    <3>. QED
      BY <3>1, TodoLists
  <2>6. work' \in Seq(Todo)
    BY <2>3, <2>4, <2>5, ConcatProperties
  <2>. QED
    BY <1>0, <2>1, <2>6 DEF FilesInv
<1>4. CASE ParseApexConfigs
  <2>1. UNCHANGED <<file, latePaths>> /\ imports_' = <<>> /\ work' = Once(ApexFiles)
    BY <1>4 DEF ParseApexConfigs, NewParser
  <2>2. work' \in Seq(Todo)
    BY <2>1, FilesAssumption, TodoLists
  <2>. QED
    BY <1>0, <2>1, <2>2 DEF FilesInv
<1>5. ASSUME NEW paths \in RcPaths, NEW late \in BOOLEAN, MountAll(paths, late) PROVE FilesInv'
  <2>1. /\ UNCHANGED file /\ imports_' = <<>> /\ latePaths' \in {<<>>, latePaths}
        /\ work' \in {<<>>, Once(latePaths), Once(paths)}
    BY <1>5 DEF MountAll, NewParser
  <2>2. paths \in Seq(Path) /\ latePaths \in Seq(Path)
    BY FilesAssumption DEF FilesInv
  <2>3. Once(latePaths) \in Seq(Todo) /\ Once(paths) \in Seq(Todo)
    BY <2>2, TodoLists
  <2>. QED
    BY <1>0, <2>1, <2>3 DEF FilesInv
<1>6. CASE EndFile
  <2>1. /\ file' = <<>> /\ imports_' = <<>> /\ latePaths' = latePaths
        /\ work' = Once(imports_) \o work
    BY <1>6 DEF EndFile, Once
  <2>2. Once(imports_) \in Seq(Todo) /\ work \in Seq(Todo)
    BY TodoLists DEF FilesInv
  <2>3. work' \in Seq(Todo)
    BY <2>1, <2>2, ConcatProperties
  <2>. QED
    BY <1>0, <2>1, <2>3 DEF FilesInv
<1>7. ASSUME work # <<>> PROVE work[1].path \in Path /\ Tail(work) \in Seq(Todo)
  <2>1. work \in Seq(Todo) /\ work # <<>>
    BY <1>7 DEF FilesInv
  <2>2. work[1] \in Todo /\ Tail(work) \in Seq(Todo)
    BY <2>1
  <2>. QED
    BY <2>2 DEF Todo
<1>8. CASE ParseConfigFile
  <2>1. /\ work # <<>> /\ file' = work[1].path /\ work' = Tail(work)
        /\ latePaths' = latePaths /\ imports_' = imports_
    BY <1>8 DEF ParseConfigFile, Kept, parsing
  <2>. QED
    BY <1>7, <2>1 DEF FilesInv
<1>9. CASE ParseConfigDir
  <2>1. /\ work # <<>> /\ file' = file /\ latePaths' = latePaths /\ imports_' = imports_
        /\ work[1].path \in DOMAIN Dirs /\ work' = Once(Dirs[work[1].path]) \o Tail(work)
    BY <1>9 DEF ParseConfigDir, Kept, parsing, Once
  <2>2. Once(Dirs[work[1].path]) \in Seq(Todo)
    BY <2>1, FilesAssumption, TodoLists
  <2>3. work' \in Seq(Todo)
    BY <1>7, <2>1, <2>2, ConcatProperties
  <2>. QED
    BY <2>1, <2>3 DEF FilesInv
<1>10. CASE ParseConfigFails
  <2>1. /\ work # <<>> /\ file' = file /\ work' = Tail(work) /\ imports_' = imports_
        /\ latePaths' = latePaths \/ latePaths' = Append(latePaths, work[1].path)
    BY <1>10 DEF ParseConfigFails, Kept, parsing
  <2>2. latePaths' \in Seq(Path)
    <3>1. work[1].path \in Path /\ latePaths \in Seq(Path)
      BY <1>7, <2>1 DEF FilesInv
    <3>2. Append(latePaths, work[1].path) \in Seq(Path)
      BY <3>1, AppendProperties
    <3>. QED
      BY <2>1, <3>1, <3>2
  <2>. QED
    BY <1>7, <2>1, <2>2 DEF FilesInv
<1>11. ASSUME NEW l \in alphabet,
              \/ RefusedSection(l) \/ ServiceSection(l) \/ OnSection(l)
              \/ OptionLine(l) \/ CommandLine(l) \/ SkippedLine(l)
       PROVE  FilesInv'
  <2>1. NextLine(l) /\ imports_' = imports_
    BY <1>11 DEF RefusedSection, ServiceSection, OnSection, OptionLine,
       CommandLine, SkippedLine, BeginSection, parsing
  <2>. QED
    BY <1>1, <2>1 DEF NextLine
<1>12. ASSUME NEW l \in alphabet, ImportSection(l) PROVE FilesInv'
  <2>1. /\ NextLine(l) /\ l.key = "import"
        /\ imports_' = imports_ \/ imports_' = Append(imports_, ExpandProps(l.word).value)
    BY <1>12 DEF ImportSection, BeginSection
  <2>2. IsWord(l.word)
    BY <2>1 DEF ConfigInv, IsLine
  <2>3. ExpandProps(l.word).value \in Path
    BY <2>2, ExpandedIsPath
  <2>4. imports_' \in Seq(Path)
    BY <2>1, <2>3, AppendProperties DEF FilesInv
  <2>5. UNCHANGED <<file, work, latePaths>>
    BY <2>1 DEF NextLine
  <2>. QED
    BY <2>4, <2>5 DEF FilesInv
<1>13. CASE UNCHANGED vars
  BY <1>1, <1>13 DEF vars, parsing
<1>. QED
  BY <1>2, <1>3, <1>4, <1>5, <1>6, <1>8, <1>9, <1>10, <1>11, <1>12, <1>13 DEF Next

\* The end of a section puts nothing else into the lists.
LEMMA EndKeepsRead ==
  ASSUME Inv, ReadInv, EndSection
  PROVE  /\ \A i \in DOMAIN services' : Named(services'[i])
         /\ \A i \in DOMAIN actions' : Scripted(actions'[i], Commands)
<1>1. ASSUME NEW i \in DOMAIN services' PROVE Named(services'[i])
  BY EndElements DEF ReadInv
<1>2. ASSUME NEW i \in DOMAIN actions' PROVE Scripted(actions'[i], Commands)
  BY EndElements DEF ReadInv
<1>. QED
  BY <1>1, <1>2

\* What has been parsed is made of paths and of commands of the files.
LEMMA ReadStep ==
  ASSUME Inv, ConfigInv, FilesInv, ReadInv, [Next]_vars
  PROVE  ReadInv'
<1>. DEFINE Lists == /\ \A i \in DOMAIN services' : Named(services'[i])
                     /\ \A i \in DOMAIN actions' : Scripted(actions'[i], Commands)
            Parsers == /\ section' = "service" /\ service_' # NoService => Named(service_')
                       /\ section' = "on" /\ action_' # NoAction => Scripted(action_', Commands)
            Ran == \A c \in ran' : c \in Commands /\ (c.verb = "exec" => Program(c.args) # <<>>)
<1>1. ASSUME UNCHANGED alphabet, Lists, Parsers, Ran PROVE ReadInv'
  <2>1. Commands' = Commands
    BY <1>1 DEF Commands
  <2>. QED
    BY <1>1, <2>1 DEF ReadInv
<1>2. UNCHANGED <<services, actions>> => Lists
  BY DEF ReadInv
<1>3. UNCHANGED <<section, service_, action_>> => Parsers
  BY DEF ReadInv
<1>4. UNCHANGED ran => Ran
  BY DEF ReadInv
<1>5. section' = "none" => Parsers
  OBVIOUS
<1>6. EndSection => Lists
  BY EndKeepsRead
<1>. HIDE DEF Lists, Parsers, Ran
<1>7. CASE \/ LoadBootScripts \/ ParseApexConfigs
           \/ \E paths \in RcPaths, late \in BOOLEAN : MountAll(paths, late)
  <2>1. UNCHANGED <<alphabet, services, actions, ran>> /\ section' = "none"
    BY <1>7 DEF LoadBootScripts, ParseApexConfigs, MountAll, NewParser, lists, boot
  <2>. QED
    BY <1>1, <1>2, <1>4, <1>5, <2>1
<1>8. CASE LoadPolicy \/ ParseConfigFile \/ ParseConfigDir \/ ParseConfigFails \/ UNCHANGED vars
  <2>1. UNCHANGED <<alphabet, services, actions, ran, section, service_, action_>>
    BY <1>8 DEF LoadPolicy, ParseConfigFile, ParseConfigDir, ParseConfigFails, Kept, vars,
       parsing, lists, boot
  <2>. QED
    BY <1>1, <1>2, <1>3, <1>4, <2>1
<1>9. CASE EndFile
  <2>1. UNCHANGED <<alphabet, ran>> /\ section' = "none" /\ EndSection
    BY <1>9 DEF EndFile, boot
  <2>. QED
    BY <1>1, <1>4, <1>5, <1>6, <2>1
<1>10. ASSUME NEW n \in DOMAIN actions, NEW c \in Range(actions[n].cmds), RunCommand(c)
       PROVE  ReadInv'
  <2>1. /\ UNCHANGED <<alphabet, services, actions, section, service_, action_>>
        /\ ran' = ran \cup {c} /\ (c.verb = "exec" => Program(c.args) # <<>>)
    BY <1>10 DEF RunCommand, parsing, lists, boot
  <2>2. actions[n].cmds \in Seq(Commands)
    BY DEF ReadInv, Scripted
  <2>3. c \in Commands
    BY <2>2 DEF Range
  <2>4. Ran
    BY <2>1, <2>3 DEF ReadInv, Ran
  <2>. QED
    BY <1>1, <1>2, <1>3, <2>1, <2>4
<1>11. ASSUME NEW l \in alphabet,
              RefusedSection(l) \/ ServiceSection(l) \/ OnSection(l) \/ ImportSection(l)
       PROVE  ReadInv'
  <2>1. BeginSection(l)
    BY <1>11 DEF RefusedSection, ServiceSection, OnSection, ImportSection
  <2>2. EndSection /\ UNCHANGED <<alphabet, ran>>
    BY <2>1 DEF BeginSection, NextLine, boot
  <2>3. \/ section' \in {"none", "import"}
        \/ section' = "service" /\ service_' = NoService
        \/ /\ section' = "service" /\ service_' = NewService(l)
           /\ l.key = "service" /\ IsValidName(l.name)
        \/ section' = "on" /\ action_' = NewAction(l)
    BY <1>11 DEF RefusedSection, ServiceSection, OnSection, ImportSection, DeniedService
  <2>4. ASSUME l.key = "service", IsValidName(l.name) PROVE Named(NewService(l))
    <3>1. NewService(l).name = l.name /\ NewService(l).file = file
      BY DEF NewService
    <3>2. l.name \in Path /\ file \in Path
      BY <2>4 DEF ConfigInv, FilesInv, IsLine
    <3>3. l.name # Star
      BY <2>4, StarIsNoName
    <3>. QED
      BY <3>1, <3>2, <3>3 DEF Named
  <2>5. Scripted(NewAction(l), Commands)
    <3>1. NewAction(l).file = file /\ NewAction(l).cmds = <<>>
      BY DEF NewAction
    <3>. QED
      BY <3>1 DEF Scripted, FilesInv
  <2>6. Parsers
    BY <2>3, <2>4, <2>5 DEF Parsers
  <2>. QED
    BY <1>1, <1>4, <1>6, <2>2, <2>6
<1>12. ASSUME NEW l \in alphabet, OptionLine(l) PROVE ReadInv'
  <2>1. UNCHANGED <<alphabet, services, actions, ran, section>> /\ section = "service"
    BY <1>12 DEF OptionLine, NextLine, lists, boot
  <2>2. ASSUME service_ # NoService PROVE Named(service_')
    <3>. DEFINE t == ParseOption(service_, l)
                u == [t EXCEPT !.lines = t.lines \cup {sections}]
    <3>0. /\ Consistent(service_) /\ Named(service_)
          /\ \A i \in DOMAIN services : services[i].interfaces \cap service_.interfaces = {}
      BY <2>1, <2>2 DEF Inv, ServiceInv, ReadInv
    <3>1. Consistent(t) /\ t.name = service_.name /\ t.file = service_.file
      <4>1. CASE l.key = "interface"
        <5>1. t = ParseInterface(service_, l)
          BY <4>1 DEF ParseOption
        <5>. QED
          BY <3>0, <5>1, InterfaceKeeps
      <4>2. CASE l.key # "interface"
        <5>1. SameService(service_, t)
          BY <3>0, <4>2, OptionKeeps
        <5>. QED
          BY <5>1 DEF SameService
      <4>. QED
        BY <4>1, <4>2
    <3>2. service_' \in {service_, u}
      BY <1>12 DEF OptionLine
    <3>. HIDE DEF t
    <3>3. u.name = t.name /\ u.file = t.file
      BY <3>1 DEF Consistent, IsService, ServiceFields
    <3>. HIDE DEF u
    <3>. QED
      BY <3>0, <3>1, <3>2, <3>3 DEF Named
  <2>3. service_ = NoService => service_' = NoService
    BY <1>12 DEF OptionLine
  <2>4. Parsers
    BY <2>1, <2>2, <2>3 DEF Parsers
  <2>. QED
    BY <1>1, <1>2, <1>4, <2>1, <2>4
<1>13. ASSUME NEW l \in alphabet, CommandLine(l) PROVE ReadInv'
  <2>1. UNCHANGED <<alphabet, services, actions, ran, section>> /\ section = "on"
    BY <1>13 DEF CommandLine, NextLine, lists, boot
  <2>2. ASSUME action_' # NoAction PROVE Scripted(action_', Commands)
    <3>1. CASE action_' = action_
      BY <2>1, <2>2, <3>1 DEF ReadInv
    <3>2. CASE /\ action_ # NoAction /\ l.key = "command"
               /\ action_' = [action_ EXCEPT !.cmds = Append(@, l), !.lines = @ \cup {sections}]
      <4>1. action_ = [x \in ActionFields |-> action_[x]] /\ Scripted(action_, Commands)
        BY <2>1, <3>2 DEF Inv, ActionInv, ReadInv
      <4>2. action_'.file = action_.file /\ action_'.cmds = Append(action_.cmds, l)
        BY <3>2, <4>1 DEF ActionFields
      <4>3. l \in Commands
        BY <3>2 DEF Commands
      <4>. QED
        BY <4>1, <4>2, <4>3, AppendProperties DEF Scripted
    <3>. QED
      BY <1>13, <3>1, <3>2 DEF CommandLine
  <2>3. Parsers
    BY <2>1, <2>2 DEF Parsers
  <2>. QED
    BY <1>1, <1>2, <1>4, <2>1, <2>3
<1>14. ASSUME NEW l \in alphabet, SkippedLine(l) PROVE ReadInv'
  <2>1. UNCHANGED <<alphabet, services, actions, ran, section, service_, action_>>
    BY <1>14 DEF SkippedLine, NextLine, parsing, lists, boot
  <2>. QED
    BY <1>1, <1>2, <1>3, <1>4, <2>1
<1>. QED
  BY <1>7, <1>8, <1>9, <1>10, <1>11, <1>12, <1>13, <1>14 DEF Next

\* With innit.xml present, what has been parsed and run is what the file permits.
LEMMA FileIsObeyed ==
  ASSUME GateInv, ConfigInv, ReadInv
  PROVE  PolicyIsEnforced
<1>0. GatesHold
  BY DEF GateInv
<1>. SUFFICES ASSUME innit, doc # Absent
              PROVE  /\ \A i \in DOMAIN services :
                          /\ Permits(doc, "service", services[i].name)
                          /\ Permits(doc, "rc", services[i].file)
                          /\ services[i].reboot =>
                               DeclaredFailure(doc, services[i].name) = "reboot"
                     /\ \A i \in DOMAIN actions : Permits(doc, "rc", actions[i].file)
                     /\ \A c \in ran : c.verb \in GatedVerbs => ~Forbids(doc, c.verb, c.args)
                     /\ \A c \in ran : c.verb = "exec" => Permits(doc, "exec", Program(c.args))
  BY <1>0 DEF PolicyIsEnforced
<1>1. CASE phase # "running"
  <2>1. services = <<>> /\ actions = <<>> /\ ran = {}
    BY <1>1 DEF GateInv, NothingYet
  <2>. QED
    BY <2>1
<1>2. CASE phase = "running"
  <2>1. IsDoc(doc) /\ policy = LoadFromFile(doc) /\ policy.loaded
    BY <1>2 DEF ConfigInv
  <2>2. \A g \in Gates : \A x \in Path : IsAllowed(policy, g, x) => Permits(doc, g, x)
    BY <2>1, GateMeansFile
  <2>3. "service" \in Gates /\ "rc" \in Gates /\ "exec" \in Gates
    BY DEF Gates
  <2>4. ASSUME NEW i \in DOMAIN services
        PROVE  /\ Permits(doc, "service", services[i].name)
               /\ Permits(doc, "rc", services[i].file)
               /\ services[i].reboot => DeclaredFailure(doc, services[i].name) = "reboot"
    <3>1. /\ IsAllowed(policy, "service", services[i].name)
          /\ IsAllowed(policy, "rc", services[i].file)
          /\ services[i].reboot => RebootAllowed(services[i].name)
      BY <1>0 DEF GatesHold
    <3>2. Named(services[i])
      BY DEF ReadInv
    <3>3. ASSUME services[i].reboot PROVE DeclaredFailure(doc, services[i].name) = "reboot"
      <4>1. GetFailureAction(policy, services[i].name) = "reboot"
        BY <2>1, <3>1, <3>3 DEF RebootAllowed, InnitPolicyIsActive
      <4>. QED
        BY <2>1, <3>2, <4>1, FailureMeansFile DEF Named
    <3>. QED
      BY <2>2, <2>3, <3>1, <3>2, <3>3 DEF Named
  <2>5. ASSUME NEW i \in DOMAIN actions PROVE Permits(doc, "rc", actions[i].file)
    <3>1. IsAllowed(policy, "rc", actions[i].file) /\ actions[i].file \in Path
      BY <1>0 DEF GatesHold, ReadInv, Scripted
    <3>. QED
      BY <2>2, <2>3, <3>1
  <2>6. ASSUME NEW c \in ran, c.verb \in GatedVerbs PROVE ~Forbids(doc, c.verb, c.args)
    <3>1. IsCommandAllowed(policy, c.verb, c.args)
      BY <1>0, <2>6 DEF GatesHold, InnitCheckCommand
    <3>. QED
      BY <2>1, <3>1, CommandMeansFile
  <2>7. ASSUME NEW c \in ran, c.verb = "exec" PROVE Permits(doc, "exec", Program(c.args))
    <3>1. c \in Commands /\ Program(c.args) # <<>>
      BY <2>7 DEF ReadInv
    <3>2. c.args \in Seq(Path)
      BY <3>1 DEF Commands, ConfigInv, IsLine
    <3>3. InnitExtractExecPath(c.args) = Program(c.args) /\ Program(c.args) \in Path
      BY <3>1, <3>2, ProgramIsChecked
    <3>4. IsAllowed(policy, "exec", InnitExtractExecPath(c.args))
      BY <1>0, <2>7, <3>1, <3>3 DEF GatesHold, InnitCheckExecPath
    <3>. QED
      BY <2>2, <2>3, <3>3, <3>4
  <2>. QED
    BY <2>4, <2>5, <2>6, <2>7
<1>. QED
  BY <1>1, <1>2

\* With innit.xml present, the gates of the code enforce it, whatever the file says and
\* whatever lines the scripts have: a service is in the list, an action is kept and exec
\* has run a program only where the first rule of the file that covers the name or the
\* path allows it, or none does and the file's default allows it; a service may reboot the
\* device only where the file declares that; and none of the ten gated verbs has run where
\* the file denies it.  What exec_background runs, and the other verbs, are not covered.
THEOREM PolicyIsAlwaysEnforced == Spec => []PolicyIsEnforced
<1>1. Init => ConfigInv /\ FilesInv /\ ReadInv
  <2>. SUFFICES ASSUME Init PROVE ConfigInv /\ FilesInv /\ ReadInv
    OBVIOUS
  <2>1. ConfigInv
    BY FilesAssumption DEF Init, ConfigInv
  <2>2. FilesInv
    BY DEF Init, FilesInv, Path
  <2>3. services = <<>> /\ actions = <<>> /\ section = "none" /\ ran = {}
    BY DEF Init
  <2>. QED
    BY <2>1, <2>2, <2>3 DEF ReadInv
<1>2. ConfigInv /\ [Next]_vars => ConfigInv'
  BY ConfigStep
<1>3. ConfigInv /\ FilesInv /\ [Next]_vars => FilesInv'
  BY FilesStep
<1>4. Inv /\ ConfigInv /\ FilesInv /\ ReadInv /\ [Next]_vars => ReadInv'
  BY ReadStep
<1>5. GateInv /\ ConfigInv /\ ReadInv => PolicyIsEnforced
  BY FileIsObeyed
<1>. QED
  BY <1>1, <1>2, <1>3, <1>4, <1>5, Invariance, GateInvariance, PTL DEF Spec
=============================================================================
