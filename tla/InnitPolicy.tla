---------------------------- MODULE InnitPolicy -----------------------------
(***************************************************************************)
(* The Innit policy (innit/innit_policy.cpp): how innit.xml is read and    *)
(* how its rules are evaluated.                                            *)
(*                                                                         *)
(* Names and paths are sequences of symbols: "/", "*" and "." stand for    *)
(* themselves, any other symbol for a run of ordinary characters.  The     *)
(* file is its element tree: attributes are a function from their names,   *)
(* the children of an element a sequence.  An attribute whose value is     *)
(* empty is to every reader as if it were absent; the tree leaves it out.  *)
(***************************************************************************)
EXTENDS Naturals, Sequences, SequencesExt

Gates == {"rc", "service", "exec", "event"}

\* One '*' stops at a '/', two do not.  match[n][s]: the last n symbols of the pattern
\* match the subject from s on.
GlobMatch(pattern, subject) ==
  LET P == Len(pattern)
      S == Len(subject) + 1
      match[n \in 0..P] ==
        LET p == P - n + 1
            double_star == n > 1 /\ pattern[p + 1] = "*"
        IN [s \in 1..S |->
              CASE n = 0 -> s = S
                [] n > 0 /\ pattern[p] = "*" ->
                     \E i \in s..S :
                       /\ double_star \/ \A j \in s..(i - 1) : subject[j] # "/"
                       /\ match[IF double_star THEN n - 2 ELSE n - 1][i]
                [] OTHER -> s < S /\ pattern[p] = subject[s] /\ match[n - 1][s + 1]]
  IN match[P][1]

NoPolicy == [loaded |-> FALSE]
DefaultPolicy ==
  [loaded |-> TRUE,
   default |-> [g \in Gates |-> "deny"],
   rules |-> [g \in Gates |-> <<>>],
   failures |-> <<>>,
   verbs |-> {},
   verbArgs |-> {},
   selinux |-> "default"]

\* The first rule that matches decides, the gate's default when none does.
EvaluateRules(rules, default, subject) ==
  LET hits == {i \in DOMAIN rules : GlobMatch(rules[i].pattern, subject)} IN
  IF hits = {} THEN default = "allow"
  ELSE rules[CHOOSE i \in hits : \A j \in hits : i <= j].decision = "allow"

InnitPolicyIsActive(policy) == policy.loaded

IsAllowed(policy, gate, subject) ==
  InnitPolicyIsActive(policy) =>
    EvaluateRules(policy.rules[gate], policy.default[gate], subject)

IsCommandAllowed(policy, verb, args) ==
  InnitPolicyIsActive(policy) =>
    /\ verb \notin policy.verbs
    /\ args # <<>> => <<verb, args[1]>> \notin policy.verbArgs

\* Rules for a name go in front of the first "*".
AddFailureRule(failures, name, action) ==
  LET stars == {i \in DOMAIN failures : failures[i].name = <<"*">>} IN
  IF name = <<"*">> \/ stars = {} THEN Append(failures, [name |-> name, action |-> action])
  ELSE InsertAt(failures, CHOOSE i \in stars : \A j \in stars : i <= j,
                [name |-> name, action |-> action])

FirstAction(failures, name) ==
  LET found == {i \in DOMAIN failures : failures[i].name = name} IN
  IF found = {} THEN "none"
  ELSE failures[CHOOSE i \in found : \A j \in found : i <= j].action

GetFailureAction(policy, name) ==
  LET own == FirstAction(policy.failures, name)
      star == FirstAction(policy.failures, <<"*">>)
  IN CASE own # "none" -> own
       [] own = "none" /\ star # "none" -> star
       [] OTHER -> "reboot"

Has(e, attr) == attr \in DOMAIN e.attrs
Decisions == {"allow", "deny"}
FailureActions == {"reboot", "restart", "log", "ignore"}
DefaultAttr == [rc |-> "defaultRc", service |-> "defaultService",
                exec |-> "defaultExec", event |-> "defaultEvent"]
RuleAttr == [rc |-> "path", service |-> "name", exec |-> "path", event |-> "name"]
SectionOf == [rc |-> "rc-policy", service |-> "service-policy",
              exec |-> "exec-policy", event |-> "event-policy"]
RootAttrs == {"version", "mode", "defaultRc", "defaultService", "defaultExec", "defaultEvent",
              "rebootOnFailure", "selinuxMode", "unknownImport"}

\* One element of a section; NoPolicy when it is not one the section may have.
ParseElement(policy, section, e) ==
  LET gates == {g \in Gates : SectionOf[g] = section} IN
  IF ~policy.loaded THEN policy ELSE
  CASE gates # {} /\ e.tag \in Decisions ->
         LET g == CHOOSE g \in gates : TRUE IN
         IF Has(e, RuleAttr[g])
         THEN [policy EXCEPT !.rules[g] =
                 Append(@, [decision |-> e.tag, pattern |-> e.attrs[RuleAttr[g]]])]
         ELSE NoPolicy
    [] section = "command-policy" /\ e.tag = "deny" /\ Has(e, "verb") ->
         IF Has(e, "arg")
         THEN [policy EXCEPT !.verbArgs = @ \cup {<<e.attrs["verb"], e.attrs["arg"]>>}]
         ELSE [policy EXCEPT !.verbs = @ \cup {e.attrs["verb"]}]
    [] section = "failure-policy" /\ e.tag = "service" /\ Has(e, "name")
         /\ Has(e, "rebootOnFailure") /\ e.attrs["rebootOnFailure"] \in FailureActions ->
         [policy EXCEPT !.failures = AddFailureRule(@, e.attrs["name"], e.attrs["rebootOnFailure"])]
    [] section = "logging" /\ Has(e, "value")
         /\ e.tag \in {"path", "rejectedRcLog", "rejectedServiceLog", "rejectedExecLog"} -> policy
    [] OTHER -> NoPolicy

RuleSections == {SectionOf[g] : g \in Gates}
ParseSectionElement(policy, section) ==
  LET read[j \in 0..Len(section.elements)] ==
        IF j = 0 THEN policy
        ELSE ParseElement(read[j - 1], section.tag, section.elements[j])
  IN CASE ~policy.loaded \/ section.tag = "identity" -> policy
       [] policy.loaded /\ section.tag \in
            RuleSections \cup {"command-policy", "failure-policy", "logging"} ->
            read[Len(section.elements)]
       [] OTHER -> NoPolicy

\* The attributes of the root, over the policy that denies everything.
ParseRoot(doc) ==
  LET attr(a, default) == IF Has(doc, a) THEN doc.attrs[a] ELSE default
      decided == [g \in Gates |-> attr(DefaultAttr[g], "deny")]
      failure == attr("rebootOnFailure", "none")
      selinux == attr("selinuxMode", "default")
  IN IF /\ doc.tag = "innit"
        /\ DOMAIN doc.attrs \subseteq RootAttrs
        /\ \A g \in Gates : decided[g] \in Decisions
        /\ Has(doc, "rebootOnFailure") => failure \in FailureActions
        /\ selinux \in {"default", "permissive"}
     THEN [DefaultPolicy EXCEPT
             !.default = decided, !.selinux = selinux,
             !.failures = IF Has(doc, "rebootOnFailure")
                          THEN AddFailureRule(<<>>, <<"*">>, failure) ELSE <<>>]
     ELSE NoPolicy

\* The whole file or nothing: an element that is not understood makes it malformed.
LoadFromFile(doc) ==
  LET read[i \in 0..Len(doc.sections)] ==
        IF i = 0 THEN ParseRoot(doc)
        ELSE ParseSectionElement(read[i - 1], doc.sections[i])
  IN read[Len(doc.sections)]
-----------------------------------------------------------------------------
(* What a policy file says, read off the file: the reference the gates are   *)
(* compared with.                                                            *)

\* A pattern is a list of symbols, each standing for the stretch of the subject from
\* one cut to the next.
Covers(pattern, subject) ==
  \E cut \in [1..Len(pattern) + 1 -> 0..Len(subject)] :
    /\ cut[1] = 0 /\ cut[Len(pattern) + 1] = Len(subject)
    /\ \A i \in 1..Len(pattern) :
         IF pattern[i] = "*"
         THEN /\ cut[i] <= cut[i + 1]
              /\ \/ \A j \in (cut[i] + 1)..cut[i + 1] : subject[j] # "/"
                 \/ i < Len(pattern) /\ pattern[i + 1] = "*"
                 \/ i > 1 /\ pattern[i - 1] = "*"
         ELSE cut[i + 1] = cut[i] + 1 /\ pattern[i] = subject[cut[i + 1]]

\* The elements of the sections of one kind, by section and place in it, and their order.
ElementsIn(doc, tag) ==
  UNION {{<<i, j>> : j \in DOMAIN doc.sections[i].elements} :
           i \in {k \in DOMAIN doc.sections : doc.sections[k].tag = tag}}
Elem(doc, r) == doc.sections[r[1]].elements[r[2]]
NotAfter(q, r) == q[1] < r[1] \/ (q[1] = r[1] /\ q[2] <= r[2])
IsFirst(r, rs) == r \in rs /\ \A q \in rs : NotAfter(r, q)

Permits(doc, gate, subject) ==
  LET covering == {r \in ElementsIn(doc, SectionOf[gate]) :
                     Covers(Elem(doc, r).attrs[RuleAttr[gate]], subject)}
  IN IF covering = {} THEN Has(doc, DefaultAttr[gate]) /\ doc.attrs[DefaultAttr[gate]] = "allow"
     ELSE \E r \in covering : IsFirst(r, covering) /\ Elem(doc, r).tag = "allow"

\* What the file says about the failures of a service: its own rule, then the root's
\* rebootOnFailure, then a rule for "*", then the stock behaviour.
DeclaredFailure(doc, name) ==
  LET for(n) == {r \in ElementsIn(doc, "failure-policy") : Elem(doc, r).attrs["name"] = n}
      first(rs) == Elem(doc, CHOOSE r \in rs : IsFirst(r, rs)).attrs["rebootOnFailure"]
  IN CASE for(name) # {} -> first(for(name))
       [] for(name) = {} /\ Has(doc, "rebootOnFailure") -> doc.attrs["rebootOnFailure"]
       [] for(name) = {} /\ ~Has(doc, "rebootOnFailure") /\ for(<<"*">>) # {} -> first(for(<<"*">>))
       [] OTHER -> "reboot"

\* A rule of the file denies the verb, or the verb with this argument.
Forbids(doc, verb, args) ==
  \E r \in ElementsIn(doc, "command-policy") :
    /\ Elem(doc, r).attrs["verb"] = verb
    /\ Has(Elem(doc, r), "arg") => args # <<>> /\ Elem(doc, r).attrs["arg"] = args[1]
=============================================================================
