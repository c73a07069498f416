------------------------- MODULE PropertyBootProofs -------------------------
(***************************************************************************)
(* PrecedenceHolds and IdentityIsConsistent for any contents of the files, *)
(* any kernel sources, contexts and policy.                                *)
(*                                                                         *)
(* The invariant relates the map that is being filled to what each file    *)
(* read so far gives by itself: the last one that sets a key wins.  For    *)
(* that, reading a file into a map has to be the same as reading it into   *)
(* an empty one and putting the result in front (Overrides), through the   *)
(* imports, which is an induction over the lines of both files.            *)
(***************************************************************************)
EXTENDS PropertyBoot, Integers, SequenceTheorems, WellFoundedInduction, TLAPS

\* r is m with the entries of n in front.
Overrides(r, m, n) ==
  /\ DOMAIN r = DOMAIN m \cup DOMAIN n
  /\ \A k \in DOMAIN n : r[k] = n[k]
  /\ \A k \in DOMAIN m : k \notin DOMAIN n => r[k] = m[k]

\* A set of numbers that holds 0 and with every number the next holds them all.
LEMMA NatSetInduction ==
  ASSUME NEW S \in SUBSET Nat, 0 \in S, \A n \in S : n + 1 \in S
  PROVE  S = Nat
<1>1. SUFFICES ASSUME Nat \ S # {} PROVE FALSE
  OBVIOUS
<1> DEFINE R == {ss \in Nat \X Nat : ss[1] < ss[2]}
<1>2. IsWellFoundedOn(R, Nat)
  BY NatLessThanWellFounded DEF OpToRel
<1>3. PICK x \in Nat \ S : \A y \in Nat \ S : <<y, x>> \notin R
  <2> HIDE DEF R
  <2> QED BY <1>1, <1>2, WFMin
<1>4. x # 0 /\ x - 1 \in Nat /\ <<x - 1, x>> \in R
  OBVIOUS
<1>5. x - 1 \in S
  BY <1>3, <1>4
<1> QED BY <1>4, <1>5

-----------------------------------------------------------------------------
(* Reading files.                                                          *)

\* LoadImported() applies LoadLine() to one line after the other.
LEMMA ImportedLines ==
  ASSUME NEW m, NEW line, Exists(line.file), contents[line.file] \in Seq(Line)
  PROVE  \E F : /\ F[0] = m
                /\ \A i \in 1..Len(contents[line.file]) :
                     F[i] = LoadLine(F[i - 1], contents[line.file][i], line.file, line.filter)
                /\ LoadImported(m, line) = F[Len(contents[line.file])]
<1> DEFINE lines == contents[line.file]
           N == Len(lines)
           Step(r, i) == LoadLine(r, lines[i], line.file, line.filter)
           Loop(h, n) == [i \in 0..n |-> IF i = 0 THEN m ELSE Step(h[i - 1], i)]
           F == CHOOSE h : h = Loop(h, N)
<1>1. LoadImported(m, line) = F[N] /\ N \in Nat
  BY DEF LoadImported
<1> HIDE DEF Step, N, lines
<1>2. \A n \in Nat : \E h : h = Loop(h, n)
  <2> DEFINE S == {n \in Nat : \E h : h = Loop(h, n)}
  <2>1. 0 \in S
    <3> DEFINE f0 == [i \in 0..0 |-> m]
    <3>1. f0 = Loop(f0, 0)
      OBVIOUS
    <3> QED BY <3>1
  <2>2. ASSUME NEW n \in S PROVE n + 1 \in S
    <3>1. PICK h : h = Loop(h, n)
      OBVIOUS
    <3> DEFINE new == Step(h[n], n + 1)
               g == [i \in 0..(n + 1) |-> IF i = n + 1 THEN new ELSE h[i]]
    <3> HIDE DEF new
    <3>2. ASSUME NEW i \in 0..(n + 1) PROVE g[i] = Loop(g, n + 1)[i]
      <4>1. CASE i = n + 1
        <5>1. i # 0 /\ i - 1 = n /\ g[n] = h[n] /\ g[i] = new
          BY <4>1
        <5>2. Loop(g, n + 1)[i] = Step(g[i - 1], i)
          BY <5>1
        <5> QED BY <4>1, <5>1, <5>2 DEF new
      <4>2. CASE i # n + 1
        <5>1. i \in 0..n /\ g[i] = h[i]
          BY <4>2
        <5>2. h[i] = IF i = 0 THEN m ELSE Step(h[i - 1], i)
          BY <3>1, <5>1
        <5>3. i # 0 => g[i - 1] = h[i - 1]
          BY <5>1
        <5> QED BY <5>1, <5>2, <5>3
      <4> QED BY <4>1, <4>2
    <3>3. g = Loop(g, n + 1)
      BY <3>2
    <3>4. n + 1 \in Nat
      OBVIOUS
    <3>5. \E h2 : h2 = Loop(h2, n + 1)
      <4> HIDE DEF g
      <4> QED BY <3>3
    <3> QED BY <3>4, <3>5
  <2> HIDE DEF S
  <2>3. S \in SUBSET Nat
    BY DEF S
  <2>4. S = Nat
    BY <2>1, <2>2, <2>3, NatSetInduction
  <2> QED BY <2>4 DEF S
<1>3. F = Loop(F, N)
  BY <1>1, <1>2
<1>4. \A i \in 0..N : F[i] = IF i = 0 THEN m ELSE Step(F[i - 1], i)
  BY <1>3
<1> HIDE DEF F
<1>5. F[0] = m
  BY <1>1, <1>4
<1>6. \A i \in 1..N : F[i] = Step(F[i - 1], i)
  BY <1>1, <1>4
<1> QED BY <1>1, <1>5, <1>6 DEF Step, N, lines

\* LoadProperties() likewise, with the imported files in their place.
LEMMA FileLines ==
  ASSUME NEW m, NEW file, Exists(file), contents[file] \in Seq(Line)
  PROVE  \E F : /\ F[0] = m
                /\ \A i \in 1..Len(contents[file]) :
                     F[i] = IF contents[file][i].op = "import"
                            THEN LoadImported(F[i - 1], contents[file][i])
                            ELSE LoadLine(F[i - 1], contents[file][i], file, {})
                /\ LoadProperties(m, file) = F[Len(contents[file])]
<1> DEFINE lines == contents[file]
           N == Len(lines)
           Step(r, i) == IF lines[i].op = "import" THEN LoadImported(r, lines[i])
                         ELSE LoadLine(r, lines[i], file, {})
           Loop(h, n) == [i \in 0..n |-> IF i = 0 THEN m ELSE Step(h[i - 1], i)]
           F == CHOOSE h : h = Loop(h, N)
<1>1. LoadProperties(m, file) = F[N] /\ N \in Nat
  BY DEF LoadProperties
<1> HIDE DEF Step, N, lines
<1>2. \A n \in Nat : \E h : h = Loop(h, n)
  <2> DEFINE S == {n \in Nat : \E h : h = Loop(h, n)}
  <2>1. 0 \in S
    <3> DEFINE f0 == [i \in 0..0 |-> m]
    <3>1. f0 = Loop(f0, 0)
      OBVIOUS
    <3> QED BY <3>1
  <2>2. ASSUME NEW n \in S PROVE n + 1 \in S
    <3>1. PICK h : h = Loop(h, n)
      OBVIOUS
    <3> DEFINE new == Step(h[n], n + 1)
               g == [i \in 0..(n + 1) |-> IF i = n + 1 THEN new ELSE h[i]]
    <3> HIDE DEF new
    <3>2. ASSUME NEW i \in 0..(n + 1) PROVE g[i] = Loop(g, n + 1)[i]
      <4>1. CASE i = n + 1
        <5>1. i # 0 /\ i - 1 = n /\ g[n] = h[n] /\ g[i] = new
          BY <4>1
        <5>2. Loop(g, n + 1)[i] = Step(g[i - 1], i)
          BY <5>1
        <5> QED BY <4>1, <5>1, <5>2 DEF new
      <4>2. CASE i # n + 1
        <5>1. i \in 0..n /\ g[i] = h[i]
          BY <4>2
        <5>2. h[i] = IF i = 0 THEN m ELSE Step(h[i - 1], i)
          BY <3>1, <5>1
        <5>3. i # 0 => g[i - 1] = h[i - 1]
          BY <5>1
        <5> QED BY <5>1, <5>2, <5>3
      <4> QED BY <4>1, <4>2
    <3>3. g = Loop(g, n + 1)
      BY <3>2
    <3>4. n + 1 \in Nat
      OBVIOUS
    <3>5. \E h2 : h2 = Loop(h2, n + 1)
      <4> HIDE DEF g
      <4> QED BY <3>3
    <3> QED BY <3>4, <3>5
  <2> HIDE DEF S
  <2>3. S \in SUBSET Nat
    BY DEF S
  <2>4. S = Nat
    BY <2>1, <2>2, <2>3, NatSetInduction
  <2> QED BY <2>4 DEF S
<1>3. F = Loop(F, N)
  BY <1>1, <1>2
<1>4. \A i \in 0..N : F[i] = IF i = 0 THEN m ELSE Step(F[i - 1], i)
  BY <1>3
<1> HIDE DEF F
<1>5. F[0] = m
  BY <1>1, <1>4
<1>6. \A i \in 1..N : F[i] = Step(F[i - 1], i)
  BY <1>1, <1>4
<1> QED BY <1>1, <1>5, <1>6 DEF Step, N, lines

\* A line has the same effect on a map and on the map that overrides it.
LEMMA LineOverrides ==
  ASSUME NEW r, NEW m, NEW n, Overrides(r, m, n), NEW line, NEW file, NEW filter
  PROVE  Overrides(LoadLine(r, line, file, filter), m, LoadLine(n, line, file, filter))
<1> DEFINE k == line.key
           v == line.value
<1>1. Overrides(With(r, k, v), m, With(n, k, v))
  <2> HIDE DEF k, v
  <2>1. /\ DOMAIN With(r, k, v) = DOMAIN r \cup {k} /\ DOMAIN With(n, k, v) = DOMAIN n \cup {k}
        /\ \A x \in DOMAIN r \cup {k} : With(r, k, v)[x] = IF x = k THEN v ELSE r[x]
        /\ \A x \in DOMAIN n \cup {k} : With(n, k, v)[x] = IF x = k THEN v ELSE n[x]
    BY DEF With
  <2> QED BY <2>1 DEF Overrides
<1> QED BY <1>1 DEF LoadLine

\* So has an imported file...
LEMMA ImportOverrides ==
  ASSUME NEW r, NEW m, NEW n, Overrides(r, m, n), NEW line,
         Exists(line.file) => contents[line.file] \in Seq(Line)
  PROVE  Overrides(LoadImported(r, line), m, LoadImported(n, line))
<1>1. CASE ~Exists(line.file)
  BY <1>1 DEF LoadImported
<1>2. CASE Exists(line.file)
  <2> DEFINE lines == contents[line.file]
             N == Len(lines)
             Step(x, i) == LoadLine(x, lines[i], line.file, line.filter)
  <2>1. N \in Nat
    BY <1>2
  <2>0. \A x : \E F : /\ F[0] = x
                      /\ \A i \in 1..N : F[i] = Step(F[i - 1], i)
                      /\ LoadImported(x, line) = F[N]
    BY <1>2, ImportedLines
  <2>2. PICK F : /\ F[0] = r
                 /\ \A i \in 1..N : F[i] = Step(F[i - 1], i)
                 /\ LoadImported(r, line) = F[N]
    BY <2>0
  <2>3. PICK G : /\ G[0] = n
                 /\ \A i \in 1..N : G[i] = Step(G[i - 1], i)
                 /\ LoadImported(n, line) = G[N]
    <3> HIDE DEF Step, N, lines
    <3> QED BY <2>0
  <2>4. \A x, y, i : Overrides(x, m, y) => Overrides(Step(x, i), m, Step(y, i))
    BY LineOverrides
  <2> HIDE DEF Step, N, lines
  <2> DEFINE S == {i \in Nat : i <= N => Overrides(F[i], m, G[i])}
  <2>5. 0 \in S
    BY <2>2, <2>3
  <2>6. ASSUME NEW i \in S PROVE i + 1 \in S
    <3> SUFFICES ASSUME i + 1 <= N PROVE Overrides(F[i + 1], m, G[i + 1])
      OBVIOUS
    <3>1. i + 1 \in 1..N /\ (i + 1) - 1 = i /\ i <= N
      BY <2>1
    <3>2. F[i + 1] = Step(F[i], i + 1) /\ G[i + 1] = Step(G[i], i + 1)
      BY <2>2, <2>3, <3>1
    <3> QED BY <2>4, <3>1, <3>2
  <2>7. S \in SUBSET Nat
    OBVIOUS
  <2>8. S = Nat
    <3> HIDE DEF S
    <3> QED BY <2>5, <2>6, <2>7, NatSetInduction
  <2> QED BY <2>1, <2>2, <2>3, <2>8
<1> QED BY <1>1, <1>2

\* ... and a file with imports.
LEMMA FileOverrides ==
  ASSUME NEW r, NEW m, NEW n, Overrides(r, m, n), NEW file, contents \in Contents
  PROVE  Overrides(LoadProperties(r, file), m, LoadProperties(n, file))
<1>0. \A f : Exists(f) => contents[f] \in Seq(Line)
  BY ContentsAssumption DEF Exists
<1>1. CASE ~Exists(file)
  BY <1>1 DEF LoadProperties
<1>2. CASE Exists(file)
  <2> DEFINE lines == contents[file]
             N == Len(lines)
             Step(x, i) == IF lines[i].op = "import" THEN LoadImported(x, lines[i])
                           ELSE LoadLine(x, lines[i], file, {})
  <2>1. N \in Nat
    BY <1>0, <1>2
  <2>2. PICK F : /\ F[0] = r
                 /\ \A i \in 1..N : F[i] = Step(F[i - 1], i)
                 /\ LoadProperties(r, file) = F[N]
    BY <1>0, <1>2, FileLines
  <2>3. PICK G : /\ G[0] = n
                 /\ \A i \in 1..N : G[i] = Step(G[i - 1], i)
                 /\ LoadProperties(n, file) = G[N]
    BY <1>0, <1>2, FileLines
  <2>4. \A x, y, i : Overrides(x, m, y) => Overrides(Step(x, i), m, Step(y, i))
    <3> SUFFICES ASSUME NEW x, NEW y, NEW i, Overrides(x, m, y)
                 PROVE  Overrides(Step(x, i), m, Step(y, i))
      OBVIOUS
    <3> DEFINE l == lines[i]
    <3>1. Overrides(LoadLine(x, l, file, {}), m, LoadLine(y, l, file, {}))
      BY LineOverrides
    <3>2. Overrides(LoadImported(x, l), m, LoadImported(y, l))
      <4> HIDE DEF l
      <4> QED BY <1>0, ImportOverrides
    <3> QED BY <3>1, <3>2
  <2> HIDE DEF Step, N, lines
  <2> DEFINE S == {i \in Nat : i <= N => Overrides(F[i], m, G[i])}
  <2>5. 0 \in S
    BY <2>2, <2>3
  <2>6. ASSUME NEW i \in S PROVE i + 1 \in S
    <3> SUFFICES ASSUME i + 1 <= N PROVE Overrides(F[i + 1], m, G[i + 1])
      OBVIOUS
    <3>1. i + 1 \in 1..N /\ (i + 1) - 1 = i /\ i <= N
      BY <2>1
    <3>2. F[i + 1] = Step(F[i], i + 1) /\ G[i + 1] = Step(G[i], i + 1)
      BY <2>2, <2>3, <3>1
    <3> QED BY <2>4, <3>1, <3>2
  <2>7. S \in SUBSET Nat
    OBVIOUS
  <2>8. S = Nat
    <3> HIDE DEF S
    <3> QED BY <2>5, <2>6, <2>7, NatSetInduction
  <2> QED BY <2>1, <2>2, <2>3, <2>8
<1> QED BY <1>1, <1>2

\* Nothing in front leaves a map as it is.
LEMMA OverNone ==
  ASSUME NEW m
  PROVE  Overrides(m, m, None)
BY DEF Overrides, None

\* Reading a file, or a pair of legacy files, into a map puts what it gives in front.
LEMMA ReadOver ==
  ASSUME NEW m, NEW file, NEW p, contents \in Contents
  PROVE  /\ Overrides(LoadProperties(m, file), m, LoadProperties(None, file))
         /\ Overrides(LoadLegacy(m, p), m, LoadLegacy(None, p))
<1>1. Overrides(LoadProperties(m, file), m, LoadProperties(None, file))
  BY OverNone, FileOverrides
<1> DEFINE a == LegacyFiles(p)[1]
           b == LegacyFiles(p)[2]
<1>2. LoadLegacy(m, p) = LoadProperties(LoadProperties(m, a), b)
      /\ LoadLegacy(None, p) = LoadProperties(LoadProperties(None, a), b)
  BY DEF LoadLegacy
<1> HIDE DEF a, b
<1>3. Overrides(LoadProperties(m, a), m, LoadProperties(None, a))
  BY OverNone, FileOverrides
<1>4. Overrides(LoadLegacy(m, p), m, LoadLegacy(None, p))
  BY <1>2, <1>3, FileOverrides
<1> QED BY <1>1, <1>4

-----------------------------------------------------------------------------
(* The invariant.                                                          *)

KernelKeys == UNION {DOMAIN kernel[s] : s \in {"dt", "cmdline", "bootconfig"}}
Exported == {"ro.serialno", "ro.hardware"}

Early  == {"contexts", "kernel"}
Before == {"export", "files"}
Deriving == {"product", "build_id", "fingerprint", "legacy_fingerprint", "abilist", "usb", "done"}

Inputs == /\ contents \in Contents /\ kernel \in Kernels /\ next \in Nat \ {0}
          /\ pc \in Early \cup Before \cup Deriving \cup {"fatal"}

\* The first kernel source that sets a key has set it.
KernelWins ==
  \A k \in KernelKeys :
     /\ k \in DOMAIN area
     /\ \E i \in KernelSays(k) : /\ \A j \in KernelSays(k) : i <= j
                                 /\ area[k] = kernel[KernelSources[i]][k]

\* The last file that gives a key, among those before the next.
LastWins ==
  /\ \A i \in 1..next - 1 : DOMAIN Gives(i) \subseteq DOMAIN properties
  /\ \A k \in DOMAIN properties :
       \E i \in 1..next - 1 : /\ k \in DOMAIN Gives(i) /\ properties[k] = Gives(i)[k]
                              /\ \A j \in 1..next - 1 : k \in DOMAIN Gives(j) => j <= i

\* What the files say is in the area, unless the kernel said it.
FilesAreSet ==
  \A k \in DOMAIN properties :
     ReadOnly(k) /\ k \notin KernelKeys \cup Exported =>
       k \in DOMAIN area /\ area[k] = properties[k]

Precedence ==
  /\ pc \in Early => DOMAIN area = {}
  /\ pc \in Early \cup {"export"} => next = 1 /\ DOMAIN properties = {}
  /\ pc \in Before => DOMAIN area \subseteq KernelKeys \cup Exported
  /\ pc \in Before \cup Deriving => KernelWins
  /\ pc = "files" => LastWins /\ next <= Len(LoadOrder) + 1
  /\ pc \in Deriving => LastWins /\ next = Len(LoadOrder) + 1 /\ FilesAreSet

\* The derived properties, in the order in which they are derived.
Undetermined(k) == k \in DOMAIN area => k \in DOMAIN properties
IdFits == /\ "ro.build.id" \notin DOMAIN properties
          /\ Get("ro.boot.vbmeta.digest", <<>>) = <<"digest">>
          => area["ro.build.id"] = Get("ro.build.legacy.id", <<>>) \o <<".", "digest">>
FingerprintFits == \/ "ro.build.fingerprint" \in DOMAIN properties
                   \/ area["ro.build.fingerprint"] = Identity("ro.build.id")
LegacyFingerprintFits == \/ "ro.build.legacy.fingerprint" \in DOMAIN properties
                         \/ Get("ro.build.legacy.fingerprint", <<>>) \in
                              {<<>>, Identity("ro.build.legacy.id")}
Derivation ==
  /\ pc \in Deriving \ {"product", "build_id"} => "ro.build.id" \in DOMAIN area
  /\ pc \in {"legacy_fingerprint", "abilist", "usb", "done"} =>
       "ro.build.fingerprint" \in DOMAIN area
  /\ pc \in {"product", "build_id"} => Undetermined("ro.build.id")
  /\ pc \in {"product", "build_id", "fingerprint"} => Undetermined("ro.build.fingerprint")
  /\ pc \in {"product", "build_id", "fingerprint", "legacy_fingerprint"} =>
       Undetermined("ro.build.legacy.fingerprint")
  /\ pc \in Deriving \ {"product", "build_id"} => IdFits
  /\ pc \in {"legacy_fingerprint", "abilist", "usb", "done"} => FingerprintFits
  /\ pc \in {"abilist", "usb", "done"} => LegacyFingerprintFits

Inv == Inputs /\ Precedence /\ Derivation

-----------------------------------------------------------------------------
(* The steps.                                                              *)

\* What depends on the inputs alone stays while they stay.
LEMMA InputsStay ==
  ASSUME UNCHANGED <<contents, infos, kernel>>
  PROVE  /\ KernelKeys' = KernelKeys
         /\ \A k : KernelSays(k)' = KernelSays(k)
         /\ \A i : Gives(i)' = Gives(i)
<1>1. \A m, l, f, x : LoadLine(m, l, f, x)' = LoadLine(m, l, f, x)
  BY DEF LoadLine, MayLoad, Label
<1> QED BY DEF KernelKeys, KernelSays, Gives, Exists, LoadProperties, LoadLegacy, LoadImported,
         LoadLine, MayLoad, Label, ContextOf

\* The kernel sources are three, and set none of the keys that are derived.
LEMMA KernelIs ==
  ASSUME kernel \in Kernels
  PROVE  /\ KernelKeys \cap NotBoot = {}
         /\ KernelKeys = DOMAIN kernel["dt"] \cup DOMAIN kernel["cmdline"]
                           \cup DOMAIN kernel["bootconfig"]
         /\ \A k : /\ 1 \in KernelSays(k) <=> k \in DOMAIN kernel["dt"]
                   /\ 2 \in KernelSays(k) <=> k \in DOMAIN kernel["cmdline"]
                   /\ 3 \in KernelSays(k) <=> k \in DOMAIN kernel["bootconfig"]
                   /\ KernelSays(k) \subseteq {1, 2, 3}
<1>1. KernelKeys \cap NotBoot = {}
  BY KernelsAssumption DEF KernelKeys
<1>2. /\ KernelSources[1] = "dt" /\ KernelSources[2] = "cmdline" /\ KernelSources[3] = "bootconfig"
      /\ 1..3 = {1, 2, 3}
  BY DEF KernelSources
<1> QED BY <1>1, <1>2 DEF KernelKeys, KernelSays

\* CreateSerializedPropertyInfo() sets no property.
LEMMA ContextsInv ==
  ASSUME Inv, CreateSerializedPropertyInfo
  PROVE  Inv'
<1>1. /\ pc = "contexts" /\ pc' \in {"kernel", "fatal"}
      /\ UNCHANGED <<area, properties, next, contents, kernel>>
  BY DEF CreateSerializedPropertyInfo
<1>2. DOMAIN area = {} /\ DOMAIN properties = {} /\ next = 1
  BY <1>1 DEF Inv, Precedence, Early
<1>3. Inputs'
  BY <1>1 DEF Inv, Inputs, Early
<1>4. Precedence' /\ Derivation'
  BY <1>1, <1>2 DEF Precedence, Derivation, Early, Before, Deriving
<1> QED BY <1>3, <1>4 DEF Inv

\* ProcessKernelDt(), ProcessKernelCmdline() and ProcessBootconfig(): the first to set a key wins.
LEMMA KernelInv ==
  ASSUME Inv, ProcessKernel
  PROVE  Inv'
<1>1. pc = "kernel" /\ pc' = "export" /\ UNCHANGED <<infos, properties, next, contents, kernel>>
  BY DEF ProcessKernel
<1>2. DOMAIN area = {} /\ DOMAIN properties = {} /\ next = 1 /\ kernel \in Kernels
  BY <1>1 DEF Inv, Inputs, Precedence, Early
<1> DEFINE a1 == FromKernel(area, "dt")
           a2 == FromKernel(a1, "cmdline")
           a3 == FromKernel(a2, "bootconfig")
<1>4. area' = a3
  BY DEF ProcessKernel
<1> HIDE DEF a3
<1>5. /\ DOMAIN a3 = DOMAIN a2 \cup DOMAIN kernel["bootconfig"]
      /\ \A k \in DOMAIN a3 : a3[k] = IF k \in DOMAIN a2 THEN a2[k] ELSE kernel["bootconfig"][k]
  BY DEF a3, FromKernel
<1> HIDE DEF a2
<1>6. /\ DOMAIN a2 = DOMAIN a1 \cup DOMAIN kernel["cmdline"]
      /\ \A k \in DOMAIN a2 : a2[k] = IF k \in DOMAIN a1 THEN a1[k] ELSE kernel["cmdline"][k]
  BY DEF a2, FromKernel
<1> HIDE DEF a1
<1>7. DOMAIN a1 = DOMAIN kernel["dt"] /\ \A k \in DOMAIN a1 : a1[k] = kernel["dt"][k]
  BY <1>2 DEF a1, FromKernel
<1>8. DOMAIN a3 = KernelKeys
  BY <1>2, <1>5, <1>6, <1>7, KernelIs
<1>9. ASSUME NEW k \in KernelKeys
      PROVE  \E i \in KernelSays(k) : /\ \A j \in KernelSays(k) : i <= j
                                      /\ a3[k] = kernel[KernelSources[i]][k]
  <2>0. KernelSources[1] = "dt" /\ KernelSources[2] = "cmdline" /\ KernelSources[3] = "bootconfig"
    BY DEF KernelSources
  <2>1. CASE k \in DOMAIN kernel["dt"]
    <3>1. 1 \in KernelSays(k) /\ \A j \in KernelSays(k) : 1 <= j
      BY <1>2, <2>1, KernelIs
    <3>2. a3[k] = kernel["dt"][k]
      BY <1>5, <1>6, <1>7, <2>1
    <3> QED BY <2>0, <3>1, <3>2
  <2>2. CASE k \notin DOMAIN kernel["dt"] /\ k \in DOMAIN kernel["cmdline"]
    <3>1. 2 \in KernelSays(k) /\ \A j \in KernelSays(k) : 2 <= j
      BY <1>2, <2>2, KernelIs
    <3>2. a3[k] = kernel["cmdline"][k]
      BY <1>5, <1>6, <1>7, <2>2
    <3> QED BY <2>0, <3>1, <3>2
  <2>3. CASE k \notin DOMAIN kernel["dt"] /\ k \notin DOMAIN kernel["cmdline"]
    <3>1. k \in DOMAIN kernel["bootconfig"]
      BY <1>2, <2>3, KernelIs
    <3>2. 3 \in KernelSays(k) /\ \A j \in KernelSays(k) : 3 <= j
      BY <1>2, <2>3, <3>1, KernelIs
    <3>3. a3[k] = kernel["bootconfig"][k]
      BY <1>5, <1>6, <1>7, <2>3, <3>1
    <3> QED BY <2>0, <3>2, <3>3
  <2> QED BY <2>1, <2>2, <2>3
<1>10. KernelWins'
  BY <1>1, <1>4, <1>8, <1>9, InputsStay DEF KernelWins
<1>11. DOMAIN area' \subseteq KernelKeys'
  BY <1>1, <1>4, <1>8, InputsStay
<1>12. Precedence' /\ Derivation'
  BY <1>1, <1>2, <1>10, <1>11 DEF Precedence, Derivation, Early, Before, Deriving
<1>13. Inputs'
  BY <1>1 DEF Inv, Inputs, Before
<1> QED BY <1>12, <1>13 DEF Inv

\* What is in the area stays there, except the one property that is not read-only.
Kept == \A k \in DOMAIN area :
          k # "persist.sys.usb.config" => k \in DOMAIN area' /\ area'[k] = area[k]

\* What the kernel sources set stays when the area keeps what it has.
LEMMA KernelStillWins ==
  ASSUME Inv, KernelWins, Kept, UNCHANGED <<contents, infos, kernel>>
  PROVE  KernelWins'
<1>1. "persist.sys.usb.config" \notin KernelKeys
  BY KernelIs DEF Inv, Inputs, NotBoot
<1>2. ASSUME NEW k \in KernelKeys PROVE k \in DOMAIN area' /\ area'[k] = area[k]
  BY <1>1 DEF KernelWins, Kept
<1> QED BY <1>2, InputsStay DEF KernelWins

\* PropertyLoadBootDefaults() loads finitely many files.
LEMMA LoadOrderIsFinite == Len(LoadOrder) \in Nat
<1> DEFINE a == IF Recovery THEN <<File("/prop.default")>> ELSE <<>>
           b == <<File("ramdisk.prop"), File("/system/build.prop"), Partition("system_ext", 30),
                  File("/vendor/default.prop"), File("/vendor/build.prop"),
                  File("/vendor_dlkm/etc/build.prop"), File("/odm_dlkm/etc/build.prop"),
                  Partition("odm", 28), Partition("product", 30)>>
           c == IF DebugRamdisk THEN <<File("/debug_ramdisk/adb_debug.prop")>> ELSE <<>>
           S == {File("/prop.default"), File("/debug_ramdisk/adb_debug.prop"),
                 File("ramdisk.prop"), File("/system/build.prop"), Partition("system_ext", 30),
                 File("/vendor/default.prop"), File("/vendor/build.prop"),
                 File("/vendor_dlkm/etc/build.prop"), File("/odm_dlkm/etc/build.prop"),
                 Partition("odm", 28), Partition("product", 30)}
<1>1. a \in Seq(S) /\ c \in Seq(S)
  <2>1. <<>> \in Seq(S) /\ <<File("/prop.default")>> \in Seq(S)
    OBVIOUS
  <2>2. <<File("/debug_ramdisk/adb_debug.prop")>> \in Seq(S)
    OBVIOUS
  <2> HIDE DEF S
  <2> QED BY <2>1, <2>2
<1>2. b \in Seq(S)
  OBVIOUS
<1>3. LoadOrder = a \o b \o c
  BY DEF LoadOrder
<1> HIDE DEF a, b, c, S
<1>4. a \o b \in Seq(S)
  BY <1>1, <1>2
<1>5. LoadOrder \in Seq(S)
  BY <1>1, <1>3, <1>4
<1> QED BY <1>5

\* ExportKernelBootProps() adds the two names the system uses.
LEMMA ExportInv ==
  ASSUME Inv, ExportKernelBootProps
  PROVE  Inv'
<1>1. pc = "export" /\ pc' = "files" /\ UNCHANGED <<infos, properties, next, contents, kernel>>
  BY DEF ExportKernelBootProps
<1>2. /\ DOMAIN properties = {} /\ next = 1 /\ kernel \in Kernels /\ KernelWins
      /\ DOMAIN area \subseteq KernelKeys \cup Exported
  BY <1>1 DEF Inv, Inputs, Precedence, Early, Before
<1> DEFINE X == {x \in DOMAIN Exports : Exports[x] # <<>>}
<1>3. X \subseteq Exported
  BY DEF Exports, Exported
<1>4. area' = [k \in DOMAIN area \cup X |-> IF k \in DOMAIN area THEN area[k] ELSE Exports[k]]
  BY DEF ExportKernelBootProps
<1> HIDE DEF X
<1>5. DOMAIN area' \subseteq KernelKeys \cup Exported /\ Kept
  BY <1>2, <1>3, <1>4 DEF Kept
<1>6. KernelWins'
  BY <1>1, <1>2, <1>5, KernelStillWins
<1>7. DOMAIN area' \subseteq KernelKeys' \cup Exported
  BY <1>1, <1>5, InputsStay
<1>8. LastWins' /\ next' <= Len(LoadOrder) + 1

  <2>1. 1..next' - 1 = {} /\ next' = 1 /\ DOMAIN properties' = {}
    BY <1>1, <1>2
  <2> QED BY <2>1, LoadOrderIsFinite DEF LastWins
<1>9. Precedence' /\ Derivation'
  BY <1>1, <1>6, <1>7, <1>8 DEF Precedence, Derivation, Early, Before, Deriving
<1>10. Inputs'
  BY <1>1 DEF Inv, Inputs, Before
<1> QED BY <1>9, <1>10 DEF Inv

\* One more file: what it gives is in front of what the files before it gave.
LEMMA FileInv ==
  ASSUME Inv, LoadNextFile
  PROVE  Inv'
<1>1. /\ pc = "files" /\ pc' \in {"files", "fatal"} /\ UNCHANGED <<infos, area, contents, kernel>>
      /\ next <= Len(LoadOrder) /\ next' = next + 1
  BY DEF LoadNextFile
<1>2. /\ Inputs /\ next \in Nat \ {0} /\ contents \in Contents /\ KernelWins /\ LastWins
      /\ DOMAIN area \subseteq KernelKeys \cup Exported
  BY <1>1 DEF Inv, Inputs, Precedence, Before
<1>3. Inputs'
  BY <1>1, <1>2 DEF Inputs, Before
<1>4. CASE pc' = "fatal"
  BY <1>3, <1>4 DEF Inv, Precedence, Derivation, Early, Before, Deriving
<1>5. CASE pc' = "files"
  <2>1. Overrides(properties', properties, Gives(next))
    <3> DEFINE f == LoadOrder[next]
    <3>1. \/ /\ Exists(f.file) \/ f.partition = ""
             /\ properties' = LoadProperties(properties, f.file)
          \/ /\ ~(Exists(f.file) \/ f.partition = "")
             /\ properties' = LoadLegacy(properties, f.partition)
      BY <1>1, <1>5 DEF LoadNextFile
    <3>2. Gives(next) = IF Exists(f.file) \/ f.partition = "" THEN LoadProperties(None, f.file)
                        ELSE LoadLegacy(None, f.partition)
      BY DEF Gives
    <3> HIDE DEF f
    <3> QED BY <1>2, <3>1, <3>2, ReadOver
  <2>2. 1..next' - 1 = (1..next - 1) \cup {next} /\ \A j \in 1..next - 1 : j <= next
        /\ \A i \in 1..next - 1 : ~(next <= i) /\ i # next
    BY <1>1, <1>2
  <2> DEFINE G(i) == Gives(i)
  <2>3. \A i : Gives(i)' = G(i)
    BY <1>1, InputsStay
  <2> HIDE DEF G
  <2>4. ASSUME NEW i \in 1..next' - 1 PROVE DOMAIN G(i) \subseteq DOMAIN properties'
    BY <1>2, <2>1, <2>2 DEF LastWins, Overrides, G
  <2>5. ASSUME NEW k \in DOMAIN properties'
        PROVE  \E i \in 1..next' - 1 : /\ k \in DOMAIN G(i) /\ properties'[k] = G(i)[k]
                                       /\ \A j \in 1..next' - 1 : k \in DOMAIN G(j) => j <= i
    <3>1. CASE k \in DOMAIN G(next)
      <4>1. properties'[k] = G(next)[k]
        BY <2>1, <3>1 DEF Overrides, G
      <4>2. next \in 1..next' - 1 /\ next <= next
        BY <1>2, <2>2
      <4> QED BY <2>2, <3>1, <4>1, <4>2
    <3>2. CASE k \notin DOMAIN G(next)
      <4>1. k \in DOMAIN properties /\ properties'[k] = properties[k]
        BY <2>1, <3>2 DEF Overrides, G
      <4>2. PICK i \in 1..next - 1 : /\ k \in DOMAIN G(i) /\ properties[k] = G(i)[k]
                                     /\ \A j \in 1..next - 1 : k \in DOMAIN G(j) => j <= i
        BY <1>2, <4>1 DEF LastWins, G
      <4>3. \A j \in 1..next' - 1 : k \in DOMAIN G(j) => j <= i
        BY <2>2, <3>2, <4>2
      <4> QED BY <2>2, <4>1, <4>2, <4>3
    <3> QED BY <3>1, <3>2
  <2>6. LastWins'
    BY <2>3, <2>4, <2>5 DEF LastWins
  <2>7. KernelWins' /\ DOMAIN area' \subseteq KernelKeys' \cup Exported
    <3>1. Kept
      BY <1>1 DEF Kept
    <3> QED BY <1>1, <1>2, <3>1, KernelStillWins, InputsStay
  <2>8. next' <= Len(LoadOrder) + 1
    BY <1>1, <1>2, LoadOrderIsFinite
  <2>9. Precedence' /\ Derivation'
    BY <1>5, <2>6, <2>7, <2>8 DEF Precedence, Derivation, Early, Before, Deriving
  <2> QED BY <1>3, <2>9 DEF Inv
<1> QED BY <1>1, <1>4, <1>5

\* The map is written to an area that holds nothing but what comes from the kernel.
LEMMA SetLoadedInv ==
  ASSUME Inv, SetLoaded
  PROVE  Inv'
<1>1. /\ pc = "files" /\ pc' = "product" /\ UNCHANGED <<infos, properties, next, contents, kernel>>
      /\ next > Len(LoadOrder)
      /\ area' = [k \in DOMAIN area \cup DOMAIN properties |->
                    IF k \in DOMAIN properties /\ (k \in DOMAIN area => ~ReadOnly(k))
                    THEN properties[k] ELSE area[k]]
  BY DEF SetLoaded
<1>2. /\ Inputs /\ next \in Nat \ {0} /\ kernel \in Kernels /\ KernelWins /\ LastWins
      /\ DOMAIN area \subseteq KernelKeys \cup Exported /\ next <= Len(LoadOrder) + 1
  BY <1>1 DEF Inv, Inputs, Precedence, Before
<1>3. next' = Len(LoadOrder) + 1
  BY <1>1, <1>2, LoadOrderIsFinite
<1>4. Kept
  BY <1>1 DEF Kept, ReadOnly
<1>5. KernelWins'
  BY <1>1, <1>2, <1>4, KernelStillWins
<1>6. LastWins'
  BY <1>1, <1>2, InputsStay DEF LastWins
<1>7. FilesAreSet'
  <2>1. ASSUME NEW k \in DOMAIN properties, ReadOnly(k), k \notin KernelKeys \cup Exported
        PROVE  k \in DOMAIN area' /\ area'[k] = properties[k]
    BY <1>1, <1>2, <2>1
  <2> QED BY <1>1, <2>1, InputsStay DEF FilesAreSet
<1>8. DOMAIN area \cap {"ro.build.id", "ro.build.fingerprint", "ro.build.legacy.fingerprint"} = {}
  BY <1>2, KernelIs DEF NotBoot, Exported
<1>9. /\ Undetermined("ro.build.id")' /\ Undetermined("ro.build.fingerprint")'
      /\ Undetermined("ro.build.legacy.fingerprint")'
  BY <1>1, <1>8 DEF Undetermined
<1>10. Precedence' /\ Derivation'
  BY <1>1, <1>3, <1>5, <1>6, <1>7, <1>9 DEF Precedence, Derivation, Early, Before, Deriving
<1>11. Inputs'
  BY <1>1, <1>2 DEF Inputs, Deriving
<1> QED BY <1>10, <1>11 DEF Inv

-----------------------------------------------------------------------------
(* The derived properties.                                                 *)

\* A step of the derivation: one after the other, it keeps what is there.
Derives == /\ pc \in Deriving /\ pc' \in Deriving /\ Kept
           /\ UNCHANGED <<infos, properties, next, contents, kernel>>

\* No step of the derivation disturbs the order of the sources.
LEMMA DerivesPrecedence ==
  ASSUME Inv, Derives
  PROVE  Inputs' /\ Precedence'
<1>1. Inputs'
  BY DEF Inv, Inputs, Derives, Deriving
<1>2. KernelWins /\ LastWins /\ FilesAreSet /\ next = Len(LoadOrder) + 1
  BY DEF Inv, Derives, Precedence
<1>3. KernelWins'
  BY <1>2, KernelStillWins DEF Derives
<1>4. LastWins'
  BY <1>2, InputsStay DEF LastWins, Derives
<1>5. FilesAreSet'
  <2>1. ASSUME NEW k \in DOMAIN properties, ReadOnly(k), k \notin KernelKeys \cup Exported
        PROVE  k \in DOMAIN area' /\ area'[k] = properties[k]
    BY <1>2, <2>1 DEF FilesAreSet, Derives, Kept, ReadOnly
  <2>2. KernelKeys' = KernelKeys /\ UNCHANGED properties
    BY InputsStay DEF Derives
  <2> QED BY <2>1, <2>2 DEF FilesAreSet
<1>6. pc' \notin Early /\ pc' \notin Before /\ UNCHANGED next
  BY DEF Derives, Deriving, Early, Before
<1>7. Precedence'
  <2>1. pc' # "export" /\ pc' # "files"
    BY <1>6 DEF Before
  <2> QED BY <1>2, <1>3, <1>4, <1>5, <1>6, <2>1 DEF Precedence
<1> QED BY <1>1, <1>7

\* A key is as it was.
Same(k) == /\ k \in DOMAIN area' <=> k \in DOMAIN area
           /\ k \in DOMAIN area => area'[k] = area[k]

\* GetProperty() of a key that is as it was.
LEMMA SameGet ==
  ASSUME NEW k, NEW d, Same(k)
  PROVE  Get(k, d)' = Get(k, d)
BY DEF Get, Same

\* PropertySet() of a read-only key that may be there already.
LEMMA SetOnce ==
  ASSUME NEW a, NEW k, NEW v, ReadOnly(k)
  PROVE  LET r == PropertySet(a, k, v)
         IN  /\ DOMAIN r = DOMAIN a \cup {k}
             /\ \A x \in DOMAIN a : r[x] = a[x]
             /\ k \notin DOMAIN a => r[k] = v
BY DEF PropertySet, With

\* The keys a step does not write are as they were.
LEMMA OneKey ==
  ASSUME NEW k, k # "persist.sys.usb.config", NEW v,
         area' = PropertySet(area, k, v) \/ area' = area
  PROVE  Kept /\ \A x : x # k => Same(x)
<1>1. ReadOnly(k)
  BY DEF ReadOnly
<1>2. CASE area' = PropertySet(area, k, v)
  <2>1. DOMAIN area' = DOMAIN area \cup {k} /\ \A x \in DOMAIN area : area'[x] = area[x]
    <3> DEFINE r == PropertySet(area, k, v)
    <3>1. DOMAIN r = DOMAIN area \cup {k} /\ \A x \in DOMAIN area : r[x] = area[x]
      BY <1>1 DEF PropertySet, With
    <3> HIDE DEF r
    <3> QED BY <1>2, <3>1 DEF r
  <2> QED BY <2>1 DEF Kept, Same
<1>3. CASE area' = area
  BY <1>3 DEF Kept, Same
<1> QED BY <1>2, <1>3

\* Parts of the derivation that a step does not touch.
LEMMA PartsStay ==
  ASSUME UNCHANGED properties
  PROVE  /\ \A k : Same(k) /\ Undetermined(k) => Undetermined(k)'
         /\ /\ IdFits /\ Same("ro.build.id") /\ Same("ro.boot.vbmeta.digest")
            /\ Same("ro.build.legacy.id") /\ "ro.build.id" \in DOMAIN area
            => IdFits'
         /\ /\ FingerprintFits /\ Same("ro.build.fingerprint") /\ Same("ro.product.brand")
            /\ Same("ro.build.id") /\ "ro.build.fingerprint" \in DOMAIN area
            => FingerprintFits'
         /\ /\ LegacyFingerprintFits /\ Same("ro.build.legacy.fingerprint")
            /\ Same("ro.product.brand") /\ Same("ro.build.legacy.id")
            => LegacyFingerprintFits'
<1>1. \A k : Same(k) /\ Undetermined(k) => Undetermined(k)'
  BY DEF Same, Undetermined
<1>2. ASSUME IdFits, Same("ro.build.id"), Same("ro.boot.vbmeta.digest"),
             Same("ro.build.legacy.id"), "ro.build.id" \in DOMAIN area
      PROVE  IdFits'
  <2>1. /\ Get("ro.boot.vbmeta.digest", <<>>)' = Get("ro.boot.vbmeta.digest", <<>>)
        /\ Get("ro.build.legacy.id", <<>>)' = Get("ro.build.legacy.id", <<>>)
    BY <1>2, SameGet
  <2>2. area'["ro.build.id"] = area["ro.build.id"]
    BY <1>2 DEF Same
  <2> QED BY <1>2, <2>1, <2>2 DEF IdFits
<1>3. ASSUME FingerprintFits, Same("ro.build.fingerprint"), Same("ro.product.brand"),
             Same("ro.build.id"), "ro.build.fingerprint" \in DOMAIN area
      PROVE  FingerprintFits'
  <2>1. Identity("ro.build.id")' = Identity("ro.build.id")
    BY <1>3, SameGet DEF Identity
  <2>2. area'["ro.build.fingerprint"] = area["ro.build.fingerprint"]
    BY <1>3 DEF Same
  <2> QED BY <1>3, <2>1, <2>2 DEF FingerprintFits
<1>4. ASSUME LegacyFingerprintFits, Same("ro.build.legacy.fingerprint"),
             Same("ro.product.brand"), Same("ro.build.legacy.id")
      PROVE  LegacyFingerprintFits'
  <2>1. Identity("ro.build.legacy.id")' = Identity("ro.build.legacy.id")
    BY <1>4, SameGet DEF Identity
  <2>2. Get("ro.build.legacy.fingerprint", <<>>)' = Get("ro.build.legacy.fingerprint", <<>>)
    BY <1>4, SameGet
  <2> QED BY <1>4, <2>1, <2>2 DEF LegacyFingerprintFits
<1> QED BY <1>1, <1>2, <1>3, <1>4

\* property_initialize_ro_product_props() writes the brand only.
LEMMA ProductInv ==
  ASSUME Inv, InitializeRoProductProps
  PROVE  Inv'
<1>1. pc = "product" /\ pc' = "build_id" /\ UNCHANGED <<infos, properties, next, contents, kernel>>
  BY DEF InitializeRoProductProps
<1>2. \E v : area' = PropertySet(area, "ro.product.brand", v) \/ area' = area
  BY DEF InitializeRoProductProps
<1>3. Kept /\ \A x : x # "ro.product.brand" => Same(x)
  BY <1>2, OneKey
<1>4. Derives
  BY <1>1, <1>3 DEF Derives, Deriving
<1>5. /\ Undetermined("ro.build.id")' /\ Undetermined("ro.build.fingerprint")'
      /\ Undetermined("ro.build.legacy.fingerprint")'
  BY <1>1, <1>3, PartsStay DEF Inv, Derivation
<1>6. Derivation'
  BY <1>1, <1>5 DEF Derivation, Deriving
<1> QED BY <1>4, <1>6, DerivesPrecedence DEF Inv

\* property_initialize_build_id(): the id is made of the legacy id and the digest of the area.
LEMMA BuildIdInv ==
  ASSUME Inv, InitializeBuildId
  PROVE  Inv'
<1> DEFINE id == "ro.build.id"
           digest == Get("ro.boot.vbmeta.digest", <<>>)
           suffix == IF digest \in {<<>>, <<"short">>} THEN <<>> ELSE <<".">> \o digest
           v == Get("ro.build.legacy.id", <<>>) \o suffix
<1>1. /\ pc = "build_id" /\ pc' = "fingerprint"
      /\ UNCHANGED <<infos, properties, next, contents, kernel>>
      /\ area' = IF Get(id, <<>>) # <<>> THEN area ELSE PropertySet(area, id, v)
  BY DEF InitializeBuildId
<1>2. Kept /\ \A x : x # id => Same(x)
  <2> HIDE DEF v
  <2> QED BY <1>1, OneKey
<1>3. Derives
  BY <1>1, <1>2 DEF Derives, Deriving
<1>4. Undetermined("ro.build.fingerprint")' /\ Undetermined("ro.build.legacy.fingerprint")'
  BY <1>1, <1>2, PartsStay DEF Inv, Derivation
<1>5. id \in DOMAIN area' /\ (id \notin DOMAIN area => area'[id] = v)
  <2>1. CASE Get(id, <<>>) # <<>>
    BY <1>1, <2>1 DEF Get
  <2>2. CASE Get(id, <<>>) = <<>>
    <3> HIDE DEF v
    <3> DEFINE r == PropertySet(area, id, v)
    <3>1. DOMAIN r = DOMAIN area \cup {id} /\ (id \notin DOMAIN area => r[id] = v)
      BY SetOnce DEF ReadOnly
    <3>2. area' = r
      BY <1>1, <2>2
    <3> HIDE DEF r
    <3> QED BY <3>1, <3>2
  <2> QED BY <2>1, <2>2
<1>6. IdFits'
  <2> SUFFICES ASSUME id \notin DOMAIN properties', digest' = <<"digest">>
               PROVE  area'[id] = Get("ro.build.legacy.id", <<>>)' \o <<".", "digest">>
    BY DEF IdFits
  <2>1. digest' = digest /\ Get("ro.build.legacy.id", <<>>)' = Get("ro.build.legacy.id", <<>>)
    BY <1>2, SameGet
  <2>2. id \notin DOMAIN area
    BY <1>1 DEF Inv, Derivation, Undetermined
  <2>3. digest = <<"digest">>
    BY <2>1
  <2>4. <<"digest">> # <<>> /\ <<"digest">> # <<"short">>
    OBVIOUS
  <2>5. suffix = <<".">> \o <<"digest">>
    <3> HIDE DEF digest
    <3> QED BY <2>3, <2>4
  <2>6. <<".">> \o <<"digest">> = <<".", "digest">>
    <3> DEFINE S == {".", "digest"}
               x == <<".">>
               y == <<"digest">>
               z == <<".", "digest">>
    <3>1. x \in Seq(S) /\ y \in Seq(S) /\ Len(x) = 1 /\ Len(y) = 1 /\ x[1] = "." /\ y[1] = "digest"
      OBVIOUS
    <3>2. z \in Seq(S) /\ Len(z) = 2 /\ z[1] = "." /\ z[2] = "digest"
      OBVIOUS
    <3> HIDE DEF S, x, y, z
    <3>3. /\ x \o y \in Seq(S) /\ Len(x \o y) = Len(x) + Len(y)
          /\ \A i \in 1..Len(x) + Len(y) :
                (x \o y)[i] = IF i <= Len(x) THEN x[i] ELSE y[i - Len(x)]
      BY <3>1, ConcatProperties
    <3>4. Len(x \o y) = 2 /\ (x \o y)[1] = "." /\ (x \o y)[2] = "digest"
      BY <3>1, <3>3
    <3>5. \A i \in 1..Len(x \o y) : (x \o y)[i] = z[i]
      BY <3>2, <3>4
    <3> QED BY <3>2, <3>3, <3>4, <3>5, SeqEqual DEF x, y, z
  <2>7. v = Get("ro.build.legacy.id", <<>>) \o <<".", "digest">>
    <3> HIDE DEF suffix
    <3> QED BY <2>5, <2>6
  <2> HIDE DEF v
  <2> QED BY <1>5, <2>1, <2>2, <2>7
<1>7. Derivation'
  BY <1>1, <1>4, <1>5, <1>6 DEF Derivation, Deriving
<1> QED BY <1>3, <1>7, DerivesPrecedence DEF Inv

\* property_derive_build_fingerprint(): from the brand and the id, which are final.
LEMMA FingerprintInv ==
  ASSUME Inv, DeriveBuildFingerprint
  PROVE  Inv'
<1> DEFINE key == "ro.build.fingerprint"
           v == ConstructBuildFingerprint("ro.build.id")
<1>1. /\ pc = "fingerprint" /\ pc' = "legacy_fingerprint"
      /\ UNCHANGED <<infos, properties, next, contents, kernel>>
      /\ area' = IF Get(key, <<>>) # <<>> THEN area ELSE PropertySet(area, key, v)
  BY DEF DeriveBuildFingerprint, DeriveFingerprint
<1>2. v = Identity("ro.build.id")
  BY DEF ConstructBuildFingerprint, Identity
<1> HIDE DEF v
<1>3. Kept /\ \A x : x # key => Same(x)
  BY <1>1, OneKey
<1>4. Derives
  BY <1>1, <1>3 DEF Derives, Deriving
<1>5. IdFits /\ "ro.build.id" \in DOMAIN area /\ Undetermined("ro.build.legacy.fingerprint")
      /\ Undetermined(key)
  BY <1>1 DEF Inv, Derivation, Deriving
<1>6. Undetermined("ro.build.legacy.fingerprint")' /\ IdFits' /\ "ro.build.id" \in DOMAIN area'
  BY <1>1, <1>3, <1>5, PartsStay DEF Same
<1>7. key \in DOMAIN area' /\ (key \notin DOMAIN area => area'[key] = v)
  <2>1. CASE Get(key, <<>>) # <<>>
    BY <1>1, <2>1 DEF Get
  <2>2. CASE Get(key, <<>>) = <<>>
    <3> DEFINE r == PropertySet(area, key, v)
    <3>1. DOMAIN r = DOMAIN area \cup {key} /\ (key \notin DOMAIN area => r[key] = v)
      BY SetOnce DEF ReadOnly
    <3>2. area' = r
      BY <1>1, <2>2
    <3> HIDE DEF r
    <3> QED BY <3>1, <3>2
  <2> QED BY <2>1, <2>2
<1>8. Identity("ro.build.id")' = Identity("ro.build.id")
  BY <1>3, SameGet DEF Identity
<1>9. FingerprintFits'
  BY <1>1, <1>2, <1>5, <1>7, <1>8 DEF FingerprintFits, Undetermined
<1>10. Derivation'
  BY <1>1, <1>6, <1>7, <1>9 DEF Derivation, Deriving
<1> QED BY <1>4, <1>10, DerivesPrecedence DEF Inv

\* property_derive_legacy_build_fingerprint(): from the brand and the legacy id.
LEMMA LegacyFingerprintInv ==
  ASSUME Inv, DeriveLegacyBuildFingerprint
  PROVE  Inv'
<1> DEFINE key == "ro.build.legacy.fingerprint"
           v == ConstructBuildFingerprint("ro.build.legacy.id")
<1>1. /\ pc = "legacy_fingerprint" /\ pc' = "abilist"
      /\ UNCHANGED <<infos, properties, next, contents, kernel>>
      /\ area' = area \/ area' = PropertySet(area, key, v)
  BY DEF DeriveLegacyBuildFingerprint, DeriveFingerprint
<1>2. v = Identity("ro.build.legacy.id")
  BY DEF ConstructBuildFingerprint, Identity
<1> HIDE DEF v
<1>3. Kept /\ \A x : x # key => Same(x)
  BY <1>1, OneKey
<1>4. Derives
  BY <1>1, <1>3 DEF Derives, Deriving
<1>5. /\ IdFits /\ "ro.build.id" \in DOMAIN area /\ Undetermined(key)
      /\ FingerprintFits /\ "ro.build.fingerprint" \in DOMAIN area
  BY <1>1 DEF Inv, Derivation, Deriving
<1>6. /\ IdFits' /\ "ro.build.id" \in DOMAIN area'
      /\ FingerprintFits' /\ "ro.build.fingerprint" \in DOMAIN area'
  BY <1>1, <1>3, <1>5, PartsStay DEF Same
<1>7. Identity("ro.build.legacy.id")' = Identity("ro.build.legacy.id")
  BY <1>3, SameGet DEF Identity
<1>8. LegacyFingerprintFits'
  <2> SUFFICES ASSUME key \notin DOMAIN properties
               PROVE  Get(key, <<>>)' \in {<<>>, Identity("ro.build.legacy.id")'}
    BY <1>1 DEF LegacyFingerprintFits
  <2>1. key \notin DOMAIN area
    BY <1>5 DEF Undetermined
  <2>2. CASE area' = area
    BY <2>1, <2>2 DEF Get
  <2>3. CASE area' = PropertySet(area, key, v)
    <3> DEFINE r == PropertySet(area, key, v)
    <3>1. r[key] = v
      BY <2>1, SetOnce DEF ReadOnly
    <3>2. area' = r
      BY <2>3
    <3> HIDE DEF r
    <3>3. Get(key, <<>>)' \in {<<>>, v}
      BY <3>1, <3>2 DEF Get
    <3> QED BY <1>2, <1>7, <3>3
  <2> QED BY <1>1, <2>2, <2>3
<1>9. Derivation'
  BY <1>1, <1>6, <1>8 DEF Derivation, Deriving
<1> QED BY <1>4, <1>9, DerivesPrecedence DEF Inv

\* The keys the identity is made of.
Identities == {"ro.product.brand", "ro.build.id", "ro.build.legacy.id", "ro.boot.vbmeta.digest",
               "ro.build.fingerprint", "ro.build.legacy.fingerprint"}

\* The steps after the fingerprints leave the identity alone.
LEMMA IdentityStays ==
  ASSUME Inv, Kept, \A x \in Identities : Same(x), pc \in {"abilist", "usb"},
         pc' \in {"usb", "done"}, UNCHANGED <<infos, properties, next, contents, kernel>>
  PROVE  Inv'
<1>1. Derives
  BY DEF Derives, Deriving
<1>2. /\ IdFits /\ "ro.build.id" \in DOMAIN area
      /\ FingerprintFits /\ "ro.build.fingerprint" \in DOMAIN area /\ LegacyFingerprintFits
  BY DEF Inv, Derivation, Deriving
<1>3. /\ IdFits' /\ "ro.build.id" \in DOMAIN area'
      /\ FingerprintFits' /\ "ro.build.fingerprint" \in DOMAIN area' /\ LegacyFingerprintFits'
  BY <1>2, PartsStay DEF Same, Identities
<1>4. Derivation'
  BY <1>3 DEF Derivation, Deriving
<1> QED BY <1>1, <1>4, DerivesPrecedence DEF Inv

\* property_initialize_ro_cpu_abilist() writes its three lists.
LEMMA AbilistInv ==
  ASSUME Inv, InitializeRoCpuAbilist
  PROVE  Inv'
<1> DEFINE some == {i \in DOMAIN AbilistSources :
                      Abilist(i, "32") # <<>> \/ Abilist(i, "64") # <<>>}
           from == IF some = {} THEN Len(AbilistSources)
                   ELSE CHOOSE i \in some : \A j \in some : i <= j
           both == Abilist(from, "64") # <<>> /\ Abilist(from, "32") # <<>>
           merged == Abilist(from, "64") \o (IF both THEN <<",">> ELSE <<>>) \o Abilist(from, "32")
<1>1. /\ pc = "abilist" /\ pc' = "usb" /\ UNCHANGED <<infos, properties, next, contents, kernel>>
      /\ \E u, v, w : area' = area \/ area' = PropertySet(PropertySet(PropertySet(area,
                    "ro.product.cpu.abilist", u), "ro.product.cpu.abilist32", v),
                    "ro.product.cpu.abilist64", w)
  <2>1. \/ area' = area
        \/ area' = PropertySet(PropertySet(PropertySet(area,
                    "ro.product.cpu.abilist", merged), "ro.product.cpu.abilist32",
                    Abilist(from, "32")), "ro.product.cpu.abilist64", Abilist(from, "64"))
    BY DEF InitializeRoCpuAbilist
  <2> HIDE DEF merged, from
  <2>2. /\ pc = "abilist" /\ pc' = "usb" /\ UNCHANGED <<infos, properties, next, contents, kernel>>
    BY DEF InitializeRoCpuAbilist
  <2> QED BY <2>1, <2>2
<1>2. PICK u, v, w : area' = area \/ area' = PropertySet(PropertySet(PropertySet(area,
                    "ro.product.cpu.abilist", u), "ro.product.cpu.abilist32", v),
                    "ro.product.cpu.abilist64", w)
  BY <1>1
<1> DEFINE a1 == PropertySet(area, "ro.product.cpu.abilist", u)
           a2 == PropertySet(a1, "ro.product.cpu.abilist32", v)
           a3 == PropertySet(a2, "ro.product.cpu.abilist64", w)
<1>3. area' = area \/ area' = a3
  BY <1>2
<1>4. /\ DOMAIN a3 = DOMAIN a2 \cup {"ro.product.cpu.abilist64"}
      /\ \A x \in DOMAIN a2 : a3[x] = a2[x]
  <2> HIDE DEF a2
  <2> QED BY DEF PropertySet, With, ReadOnly
<1> HIDE DEF a3
<1>5. /\ DOMAIN a2 = DOMAIN a1 \cup {"ro.product.cpu.abilist32"}
      /\ \A x \in DOMAIN a1 : a2[x] = a1[x]
  <2> HIDE DEF a1
  <2> QED BY DEF PropertySet, With, ReadOnly
<1> HIDE DEF a2
<1>6. /\ DOMAIN a1 = DOMAIN area \cup {"ro.product.cpu.abilist"}
      /\ \A x \in DOMAIN area : a1[x] = area[x]
  BY DEF PropertySet, With, ReadOnly
<1> HIDE DEF a1
<1>7. Kept /\ \A x \in Identities : Same(x)
  <2>1. CASE area' = area
    BY <2>1 DEF Kept, Same
  <2>2. CASE area' = a3
    <3>1. /\ \A x \in DOMAIN area : x \in DOMAIN a3 /\ a3[x] = area[x]
          /\ \A x \in Identities : x \in DOMAIN a3 => x \in DOMAIN area
      BY <1>4, <1>5, <1>6 DEF Identities
    <3> QED BY <2>2, <3>1 DEF Kept, Same
  <2> QED BY <1>3, <2>1, <2>2
<1> QED BY <1>1, <1>7, IdentityStays

\* update_sys_usb_config() writes its one property, which is not read-only.
LEMMA UsbInv ==
  ASSUME Inv, UpdateSysUsbConfig
  PROVE  Inv'
<1>1. /\ pc = "usb" /\ pc' = "done" /\ UNCHANGED <<infos, properties, next, contents, kernel>>
      /\ \E v : area' = area \/ area' = With(area, "persist.sys.usb.config", v)
  BY DEF UpdateSysUsbConfig
<1>2. PICK v : area' = area \/ area' = With(area, "persist.sys.usb.config", v)
  BY <1>1
<1>3. Kept /\ \A x \in Identities : Same(x)
  BY <1>2 DEF Kept, Same, With, Identities
<1> QED BY <1>1, <1>3, IdentityStays

-----------------------------------------------------------------------------
(* The theorems.                                                           *)

\* An empty area, and no file read.
LEMMA InitInv ==
  ASSUME Init
  PROVE  Inv
<1>1. DOMAIN area = {} /\ DOMAIN properties = {}
  BY DEF Init, None
<1> QED BY <1>1 DEF Init, Inv, Inputs, Precedence, Derivation, Early, Before, Deriving

\* Every step preserves the invariant.
LEMMA NextInv ==
  ASSUME Inv, [Next]_vars
  PROVE  Inv'
<1>1. CASE Next
  BY <1>1, ContextsInv, KernelInv, ExportInv, FileInv, SetLoadedInv, ProductInv, BuildIdInv,
     FingerprintInv, LegacyFingerprintInv, AbilistInv, UsbInv DEF Next
<1>2. CASE UNCHANGED vars
  <2>1. UNCHANGED pc /\ UNCHANGED area /\ UNCHANGED properties /\ UNCHANGED next
        /\ UNCHANGED <<contents, infos, kernel>>
    BY <1>2 DEF vars
  <2>2. Inputs'
    BY <2>1 DEF Inv, Inputs
  <2>3. /\ KernelWins => KernelWins'
        /\ LastWins => LastWins'
        /\ FilesAreSet => FilesAreSet'
    BY <2>1, InputsStay DEF KernelWins, LastWins, FilesAreSet
  <2>4. Precedence'
    BY <2>1, <2>3, InputsStay DEF Inv, Precedence
  <2>5. Derivation'
    BY <2>1 DEF Inv, Derivation, Undetermined, IdFits, FingerprintFits, LegacyFingerprintFits,
                Identity, Get
  <2> QED BY <2>2, <2>4, <2>5 DEF Inv
<1> QED BY <1>1, <1>2

\* What PropertyInit() and PropertyLoadBootDefaults() leave in the area, for any files and
\* kernel sources: the device tree comes before the command line, that before the boot
\* configuration and that before every file, and the last file that gives a property wins.
THEOREM PrecedenceAlwaysHolds == Spec => []PrecedenceHolds
<1>1. Init => Inv
  BY InitInv
<1>2. Inv /\ [Next]_vars => Inv'
  BY NextInv
<1>3. Inv => PrecedenceHolds
  <2> SUFFICES ASSUME Inv, pc = "done" PROVE PrecedenceHolds
    BY DEF PrecedenceHolds
  <2>1. KernelWins /\ LastWins /\ FilesAreSet /\ next = Len(LoadOrder) + 1
    BY DEF Inv, Precedence, Deriving
  <2>2. 1..next - 1 = 1..Len(LoadOrder)
    BY <2>1, LoadOrderIsFinite
  <2>3. ASSUME NEW k \in {"ro.x", "ro.product.brand", "ro.build.id"},
               Sources(k) # {}, KernelSays(k) = {}
        PROVE  \E i \in Sources(k) : (\A j \in Sources(k) : j <= i) /\ area[k] = Gives(i)[k]
    <3>1. k \in DOMAIN properties
      BY <2>1, <2>2, <2>3 DEF Sources, LastWins
    <3>2. k \notin KernelKeys \cup Exported /\ ReadOnly(k)
      BY <2>3, KernelIs DEF Inv, Inputs, Exported, ReadOnly
    <3>3. area[k] = properties[k]
      BY <2>1, <3>1, <3>2 DEF FilesAreSet
    <3>4. PICK i \in 1..Len(LoadOrder) :
             /\ k \in DOMAIN Gives(i) /\ properties[k] = Gives(i)[k]
             /\ \A j \in 1..Len(LoadOrder) : k \in DOMAIN Gives(j) => j <= i
      BY <2>1, <2>2, <3>1 DEF LastWins
    <3> QED BY <3>3, <3>4 DEF Sources
  <2> QED BY <2>1, <2>3 DEF PrecedenceHolds, KernelWins, KernelKeys
<1> QED BY <1>1, <1>2, <1>3, PTL DEF Spec

\* The identity that the derivation steps of PropertyLoadBootDefaults() leave is consistent,
\* for any files and kernel sources.
THEOREM IdentityIsAlwaysConsistent == Spec => []IdentityIsConsistent
<1>1. Init => Inv
  BY InitInv
<1>2. Inv /\ [Next]_vars => Inv'
  BY NextInv
<1>3. Inv => IdentityIsConsistent
  BY DEF Inv, Derivation, Deriving, IdentityIsConsistent, IdFits, FingerprintFits,
         LegacyFingerprintFits
<1> QED BY <1>1, <1>2, <1>3, PTL DEF Spec
=============================================================================
