-------------------------- MODULE FirstStageProofs --------------------------
(***************************************************************************)
(* MountsAreSound for every fstab that FstabsAgree admits, every boot, and *)
(* every order in which devices appear, set-ups fail and mounts fail.      *)
(*                                                                         *)
(* The invariant says what the entries of the object that mounts have to   *)
(* do with the fstab of the boot, which an update transforms and of which  *)
(* /metadata and the partitions to be skipped are taken out: an entry that *)
(* is neither mounted nor optional is still ahead of the loop.             *)
(***************************************************************************)
EXTENDS FirstStage, Integers, SequenceTheorems, WellFoundedInduction, TLAPS

\* The stages of the boot.
Starting == {"early", "modules", "console", "ramdisk_files", "force_normal", "mount"}
Finding  == {"init_devices", "metadata", "logical", "use_dsu", "system"}
Mounting == {"skip_mounts", "partitions"}
HandingOver ==
    {"free_ramdisk", "avb_recovery", "exec_selinux_setup", "missing", "read_policy",
     "transition", "sehandle", "lock_pages", "detach", "kill", "load_policy", "relabel",
     "relaunch", "unlock_pages", "enforce", "restorecon_init", "exec_second_stage",
     "second_stage"}

\* A FirstStageMount object: its members.
IsFsm(o) == /\ o = [x \in {"fstab", "use_snapuserd", "super", "keys", "at"} |-> o[x]]
            /\ o.fstab \in Seq(Entry) /\ o.at \in Nat \ {0}

\* Entries that the version of verified boot can verify if they want it, and of which
\* alternatives agree.
Verifiable(e) == WantsVerity(e) => IF IsDtVbmetaCompatible(boot)
                                   THEN e.avb_keys # "" \/ Has(e, "avb") ELSE Has(e, "verify")
Agreeing(f) ==
    /\ \A i \in DOMAIN f : Verifiable(f[i])
    /\ \A i, j \in DOMAIN f : f[i].mount_point = f[j].mount_point =>
                                (WantsVerity(f[i]) <=> WantsVerity(f[j]))

\* Only the entries for /system are ever changed.
Copied(f) == \A k \in DOMAIN f : f[k].mount_point # "/system" =>
                \E i \in DOMAIN boot.fstab : f[k] = boot.fstab[i]

Objects == boot \in Boots /\ IsFsm(fsm) /\ Agreeing(fsm.fstab) /\ Copied(fsm.fstab)

Allowed(mp, m) == m.dev = "raw" /\ WantsVerity(m.entry) =>
                     boot.verity_disabled \/ (m.late /\ Dispensable(mp))
Verified(mnt) == \A mp \in DOMAIN mnt : Allowed(mp, mnt[mp])

Covered(mp) == mp \in DOMAIN mounts \/ Dispensable(mp)
Ahead(mp, at) == \E k \in DOMAIN fsm.fstab : k >= at /\ fsm.fstab[k].mount_point = mp
Wanted == {boot.fstab[i].mount_point : i \in DOMAIN boot.fstab}

Complete ==
    /\ pc \in Starting \cup Finding => DOMAIN mounts \subseteq {"/metadata"}
    /\ pc \in Finding => \A mp \in Wanted : Covered(mp) \/ Ahead(mp, 1)
    /\ pc \in Mounting => \A mp \in Wanted :
          \/ Covered(mp)
          \/ mp # "/system" /\ Ahead(mp, IF pc = "partitions" THEN fsm.at ELSE 1)
    /\ pc \in Mounting /\ ("/system" \in DOMAIN mounts \/ Ahead("/system", 1)) => root = "system"
    /\ pc \in HandingOver /\ ~IsRecoveryMode =>
          /\ \A mp \in Wanted : Covered(mp)
          /\ "/system" \in DOMAIN mounts => root = "system"

\* A recovery makes no devices, maps no partitions and hands no daemon over.
Idle == IsRecoveryMode =>
           /\ table = "none"
           /\ pc \notin Finding \cup {"sehandle", "lock_pages", "detach"}

Inv == Objects /\ Verified(mounts) /\ Complete

-----------------------------------------------------------------------------
(* Searching the fstab.                                                    *)

\* A set of numbers has a least one.
LEMMA Least ==
  ASSUME NEW S \in SUBSET Nat, S # {}
  PROVE  \E x \in S : \A y \in S : x <= y
<1> DEFINE R == {ss \in Nat \X Nat : ss[1] < ss[2]}
<1>1. IsWellFoundedOn(R, Nat)
  BY NatLessThanWellFounded DEF OpToRel
<1>2. PICK x \in S : \A y \in S : <<y, x>> \notin R
  <2> HIDE DEF R
  <2> QED BY <1>1, WFMin
<1>3. \A y \in S : ~(y < x)
  BY <1>2
<1> QED BY <1>3

\* Induction over the natural numbers.
LEMMA NatSetInduction ==
  ASSUME NEW S \in SUBSET Nat, 0 \in S, \A n \in S : n + 1 \in S
  PROVE  S = Nat
<1>1. SUFFICES ASSUME Nat \ S # {} PROVE FALSE
  OBVIOUS
<1>2. Nat \ S \in SUBSET Nat
  OBVIOUS
<1>3. PICK x \in Nat \ S : \A y \in Nat \ S : x <= y
  BY <1>1, <1>2, Least
<1>4. x # 0 /\ x - 1 \in Nat /\ ~(x <= x - 1)
  OBVIOUS
<1>5. x - 1 \in S
  BY <1>3, <1>4
<1> QED BY <1>4, <1>5

\* A mount point that is in the fstab has a first entry.
LEMMA FirstEntry ==
  ASSUME NEW f \in Seq(Entry), NEW mp, NEW k \in DOMAIN f, f[k].mount_point = mp
  PROVE  IndexOf(f, mp) # {}
<1> DEFINE S == {i \in DOMAIN f : f[i].mount_point = mp}
<1>1. S \in SUBSET Nat /\ S # {}
  OBVIOUS
<1>2. PICK x \in S : \A y \in S : x <= y
  BY <1>1, Least
<1>3. \A j \in 1..x-1 : j \in DOMAIN f /\ ~(x <= j)
  BY <1>1
<1>4. \A j \in 1..x-1 : f[j].mount_point # mp
  BY <1>2, <1>3
<1> QED BY <1>2, <1>4 DEF IndexOf

\* The alternatives to an entry are the ones from the next to EndOf.
LEMMA Alternatives ==
  ASSUME NEW f \in Seq(Entry), NEW i \in DOMAIN f
  PROVE  \E k \in i + 1..Len(f) + 1 : i + 1..k - 1 = SameMounts(f, i)
<1> DEFINE n == Len(f)
           S == {k \in i + 1..n + 1 : k = n + 1 \/ f[k].mount_point # f[i].mount_point}
<1>1. n \in Nat /\ DOMAIN f = 1..n /\ i \in 1..n
  OBVIOUS
<1> HIDE DEF n
<1>2. S \in SUBSET Nat /\ n + 1 \in S
  BY <1>1
<1>3. PICK k \in S : \A y \in S : k <= y
  <2> HIDE DEF S
  <2> QED BY <1>2, Least
<1>4. k \in i + 1..n + 1
  OBVIOUS
<1>5. ASSUME NEW j \in i..k - 1 PROVE j \in DOMAIN f /\ f[j].mount_point = f[i].mount_point
  <2>1. j \in 1..n /\ ~(k <= j)
    BY <1>1, <1>4
  <2>2. j \notin S
    BY <1>3, <2>1
  <2>3. j = i \/ j \in i + 1..n + 1
    BY <1>1, <1>4
  <2> QED BY <1>1, <2>1, <2>2, <2>3
<1>6. ASSUME NEW j \in i + 1..k - 1 PROVE j \in SameMounts(f, i)
  <2>1. j \in DOMAIN f /\ j > i
    BY <1>1, <1>4, <1>5
  <2>2. \A l \in i..j : l \in i..k - 1
    BY <1>1, <1>4
  <2>3. \A l \in i..j : f[l].mount_point = f[i].mount_point
    BY <1>5, <2>2
  <2> QED BY <2>1, <2>3 DEF SameMounts
<1>7. ASSUME NEW j \in SameMounts(f, i) PROVE j \in i + 1..k - 1
  <2>1. j \in 1..n /\ j > i /\ \A l \in i..j : f[l].mount_point = f[i].mount_point
    BY <1>1 DEF SameMounts
  <2>2. j < k
    <3>1. SUFFICES ASSUME k <= j PROVE FALSE
      BY <1>1, <1>4, <2>1
    <3>2. k \in i..j /\ k # n + 1
      BY <1>1, <1>4, <2>1, <3>1
    <3> QED BY <2>1, <3>2
  <2> QED BY <1>1, <1>4, <2>1, <2>2
<1>8. i + 1..k - 1 = SameMounts(f, i)
  BY <1>6, <1>7
<1> QED BY <1>4, <1>8 DEF n

\* What MountPartition() deals with is for one mount point.
LEMMA EndOfGroup ==
  ASSUME NEW f \in Seq(Entry), NEW i \in DOMAIN f, NEW m
  PROVE  /\ EndOf(f, i, m) \in i + 1..Len(f) + 1
         /\ \A k \in i..EndOf(f, i, m) - 1 :
               k \in DOMAIN f /\ f[k].mount_point = f[i].mount_point
<1> DEFINE n == Len(f)
<1>1. n \in Nat /\ DOMAIN f = 1..n /\ i \in 1..n
  OBVIOUS
<1> HIDE DEF n
<1>2. CASE m.tried
  <2> DEFINE e == EndOf(f, i, m)
  <2>1. e \in i + 1..n + 1 /\ i + 1..e - 1 = SameMounts(f, i)
    BY <1>2, Alternatives DEF EndOf, n
  <2> HIDE DEF e
  <2>2. ASSUME NEW k \in i..e - 1
        PROVE  k \in DOMAIN f /\ f[k].mount_point = f[i].mount_point
    <3>1. CASE k = i
      BY <3>1
    <3>2. CASE k # i
      <4>1. k \in i + 1..e - 1
        BY <1>1, <2>1, <3>2
      <4>2. k \in SameMounts(f, i)
        BY <2>1, <4>1
      <4>3. k \in DOMAIN f /\ k > i /\ \A l \in i..k : f[l].mount_point = f[i].mount_point
        BY <4>2 DEF SameMounts
      <4>4. k \in i..k
        BY <1>1, <4>3
      <4> QED BY <4>3, <4>4
    <3> QED BY <3>1, <3>2
  <2> QED BY <2>1, <2>2 DEF e, n
<1>3. CASE ~m.tried
  <2>1. EndOf(f, i, m) = i + 1
    BY <1>3 DEF EndOf
  <2>2. i + 1 \in i + 1..n + 1 /\ \A k \in i..(i + 1) - 1 : k = i
    BY <1>1
  <2> QED BY <2>1, <2>2 DEF n
<1> QED BY <1>2, <1>3

\* SkipMountingPartitions() keeps the entries that are not to be skipped, and only
\* entries.
LEMMA Skipped ==
  ASSUME NEW f \in Seq(Entry)
  PROVE  LET g == SkipMountingPartitions(f)
         IN  /\ g \in Seq(Entry)
             /\ \A j \in DOMAIN g : \E k \in DOMAIN f : g[j] = f[k]
             /\ \A k \in DOMAIN f : f[k].mount_point \notin boot.skip =>
                                      \E j \in DOMAIN g : g[j] = f[k]
<1> DEFINE N == Len(f)
           Selected(i) == f[i].mount_point \notin boot.skip
           Loop(h, n) == [i \in 0..n |->
                            IF i = 0 THEN <<>>
                            ELSE IF Selected(i) THEN Append(h[i - 1], f[i])
                            ELSE h[i - 1]]
           F == CHOOSE h : h = Loop(h, N)
<1>1. SkipMountingPartitions(f) = F[N]
  BY DEF SkipMountingPartitions
<1>2. N \in Nat /\ DOMAIN f = 1..N /\ \A i \in 1..N : f[i] \in Entry
  OBVIOUS
<1> HIDE DEF Selected, N
<1>3. \A n \in Nat : \E h : h = Loop(h, n)
  <2> DEFINE S == {n \in Nat : \E h : h = Loop(h, n)}
  <2>1. 0 \in S
    <3> DEFINE f0 == [i \in 0..0 |-> <<>>]
    <3>1. f0 = Loop(f0, 0)
      OBVIOUS
    <3> QED BY <3>1
  <2>2. ASSUME NEW n \in S PROVE n + 1 \in S
    <3>1. PICK h : h = Loop(h, n)
      OBVIOUS
    <3> DEFINE new == IF Selected(n + 1) THEN Append(h[n], f[n + 1]) ELSE h[n]
               g == [i \in 0..(n + 1) |-> IF i = n + 1 THEN new ELSE h[i]]
    <3> HIDE DEF new
    <3>2. \A i \in 0..(n + 1) : g[i] = Loop(g, n + 1)[i]
      <4> SUFFICES ASSUME NEW i \in 0..(n + 1) PROVE g[i] = Loop(g, n + 1)[i]
        OBVIOUS
      <4>1. CASE i = n + 1
        <5>1. i # 0 /\ i - 1 = n /\ g[n] = h[n] /\ g[i] = new
          BY <4>1
        <5>2. Loop(g, n + 1)[i] = IF Selected(i) THEN Append(g[i - 1], f[i]) ELSE g[i - 1]
          BY <5>1
        <5> QED BY <4>1, <5>1, <5>2 DEF new
      <4>2. CASE i # n + 1
        <5>1. i \in 0..n /\ g[i] = h[i]
          BY <4>2
        <5>2. h[i] = IF i = 0 THEN <<>>
                     ELSE IF Selected(i) THEN Append(h[i - 1], f[i]) ELSE h[i - 1]
          BY <3>1, <5>1
        <5>3. i # 0 => g[i - 1] = h[i - 1]
          BY <5>1
        <5> QED BY <5>1, <5>2, <5>3
      <4> QED BY <4>1, <4>2
    <3>3. g = Loop(g, n + 1)
      BY <3>2
    <3>4. n + 1 \in Nat
      OBVIOUS
    <3>5. \E h2 : h2 = Loop(h2, n + 1)
      <4> HIDE DEF g
      <4> QED BY <3>3
    <3> QED BY <3>4, <3>5
  <2> HIDE DEF S
  <2>3. S \in SUBSET Nat
    BY DEF S
  <2>4. S = Nat
    BY <2>1, <2>2, <2>3, NatSetInduction
  <2> QED BY <2>4 DEF S
<1>4. F = Loop(F, N)
  BY <1>2, <1>3
<1>5. \A i \in 0..N : F[i] = IF i = 0 THEN <<>>
                            ELSE IF Selected(i) THEN Append(F[i - 1], f[i])
                            ELSE F[i - 1]
  BY <1>4
<1> HIDE DEF F
<1> DEFINE Good(n) == /\ F[n] \in Seq(Entry)
                      /\ \A j \in 1..Len(F[n]) : \E k \in 1..n : F[n][j] = f[k]
                      /\ \A k \in 1..n : Selected(k) =>
                           \E j \in 1..Len(F[n]) : F[n][j] = f[k]
<1>6. \A n \in Nat : n <= N => Good(n)
  <2> DEFINE S == {n \in Nat : n <= N => Good(n)}
  <2>1. 0 \in S
    <3>1. 0 \in 0..N
      BY <1>2
    <3>2. F[0] = <<>>
      <4> HIDE DEF S, Good, Loop
      <4> QED BY <1>5, <3>1
    <3>3. Good(0)
      <4>1. <<>> \in Seq(Entry) /\ 1..0 = {} /\ Len(<<>>) = 0
        OBVIOUS
      <4> QED BY <3>2, <4>1
    <3> QED BY <3>3
  <2>2. ASSUME NEW n \in S PROVE n + 1 \in S
    <3> SUFFICES ASSUME n + 1 <= N PROVE Good(n + 1)
      OBVIOUS
    <3>1. n \in Nat /\ n + 1 \in 1..N /\ n <= N
      BY <1>2
    <3>2. Good(n)
      BY <3>1
    <3>3. F[n + 1] = IF Selected(n + 1) THEN Append(F[n], f[n + 1]) ELSE F[n]
      BY <1>2, <1>5, <3>1
    <3>4. f[n + 1] \in Entry
      BY <1>2, <3>1
    <3>5. CASE ~Selected(n + 1)
      BY <3>1, <3>2, <3>3, <3>5
    <3>6. CASE Selected(n + 1)
      <4>1. F[n] \in Seq(Entry) /\ F[n + 1] = Append(F[n], f[n + 1])
        BY <3>2, <3>3, <3>6
      <4>2. /\ F[n + 1] \in Seq(Entry) /\ Len(F[n + 1]) = Len(F[n]) + 1 /\ Len(F[n]) \in Nat
            /\ \A j \in 1..Len(F[n]) : F[n + 1][j] = F[n][j]
            /\ F[n + 1][Len(F[n]) + 1] = f[n + 1]
        BY <3>4, <4>1
      <4>3. ASSUME NEW k \in 1..(n + 1), Selected(k)
            PROVE  \E j \in 1..Len(F[n + 1]) : F[n + 1][j] = f[k]
        <5>1. CASE k = n + 1
          BY <4>2, <5>1
        <5>2. CASE k # n + 1
          <6>1. k \in 1..n
            BY <3>1, <5>2
          <6>2. PICK j \in 1..Len(F[n]) : F[n][j] = f[k]
            BY <3>2, <4>3, <6>1
          <6>3. j \in 1..Len(F[n + 1]) /\ F[n + 1][j] = f[k]
            BY <4>2, <6>2
          <6> QED BY <6>3
        <5> QED BY <5>1, <5>2
      <4>4. ASSUME NEW j \in 1..Len(F[n + 1])
            PROVE  \E k \in 1..(n + 1) : F[n + 1][j] = f[k]
        <5>1. CASE j = Len(F[n]) + 1
          <6>1. n + 1 \in 1..(n + 1)
            BY <3>1
          <6> QED BY <4>2, <5>1, <6>1
        <5>2. CASE j # Len(F[n]) + 1
          <6>1. j \in 1..Len(F[n])
            BY <4>2, <5>2
          <6>2. PICK k \in 1..n : F[n][j] = f[k]
            BY <3>2, <6>1
          <6>3. k \in 1..(n + 1) /\ F[n + 1][j] = f[k]
            BY <3>1, <4>2, <6>1, <6>2
          <6> QED BY <6>3
        <5> QED BY <5>1, <5>2
      <4> QED BY <4>2, <4>3, <4>4
    <3> QED BY <3>5, <3>6
  <2>3. S \in SUBSET Nat
    OBVIOUS
  <2> HIDE DEF S
  <2>4. S = Nat
    BY <2>1, <2>2, <2>3, NatSetInduction
  <2> QED BY <2>4 DEF S
<1>7. Good(N)
  BY <1>2, <1>6
<1>8. DOMAIN F[N] = 1..Len(F[N])
  BY <1>7
<1> QED BY <1>1, <1>2, <1>7, <1>8 DEF Selected

-----------------------------------------------------------------------------
(* One mount.                                                              *)

\* The fstab of the boot stays, and so does what its mounts may be.
LEMMA StaysVerified ==
  ASSUME UNCHANGED boot, Verified(mounts')
  PROVE  Verified(mounts)'
BY DEF Verified, Allowed, Dispensable, Optional

\* An entry that is set up to be mounted from the bare partition does not want to be
\* verified, unless verification is turned off.
LEMMA RawIsUnwanted ==
  ASSUME NEW e, Verifiable(e), NEW keys, "raw" \in SetUpDmVerity(keys, e)
  PROVE  ~WantsVerity(e) \/ boot.verity_disabled
BY DEF Verifiable, SetUpDmVerity, SetUpDmVerityV1, SetUpDmVerityV2

\* MountPartition() mounts nothing or an entry for the mount point it was asked for,
\* and from the bare partition only one that does not want to be verified, unless
\* verification is turned off.
LEMMA OneMount ==
  ASSUME Objects, NEW i \in DOMAIN fsm.fstab, NEW m \in MountPartition(fsm, i), m.entry # 0
  PROVE  /\ m.entry \in DOMAIN fsm.fstab
         /\ fsm.fstab[m.entry].mount_point = fsm.fstab[i].mount_point
         /\ m.dev = "raw" => ~WantsVerity(fsm.fstab[m.entry]) \/ boot.verity_disabled
<1> DEFINE f == fsm.fstab
           devs == SetUpDmVerity(fsm.keys, f[i]) \ {"fail"}
<1>1. PICK j \in {i} \cup SameMounts(f, i), dev \in devs :
         m = [tried |-> TRUE, entry |-> j, dev |-> IF j = i THEN dev ELSE AlternativeDevice(dev)]
  BY DEF MountPartition
<1>2. m.entry = j /\ m.dev = dev
  BY <1>1 DEF AlternativeDevice
<1>3. j \in DOMAIN f /\ f[j].mount_point = f[i].mount_point
  <2>1. CASE j = i
    BY <2>1
  <2>2. CASE j # i
    <3>1. j \in DOMAIN f /\ j > i /\ \A k \in i..j : f[k].mount_point = f[i].mount_point
      BY <2>2 DEF SameMounts
    <3>2. i \in Nat /\ j \in Nat
      BY <3>1 DEF Objects, IsFsm
    <3>3. j \in i..j
      BY <3>1, <3>2
    <3> QED BY <3>1, <3>3
  <2> QED BY <2>1, <2>2
<1>4. dev = "raw" => ~WantsVerity(f[i]) \/ boot.verity_disabled
  <2>1. Verifiable(f[i])
    BY DEF Objects, Agreeing
  <2> HIDE DEF f
  <2> QED BY <1>1, <2>1, RawIsUnwanted
<1>5. WantsVerity(f[i]) <=> WantsVerity(f[j])
  BY <1>3 DEF Objects, Agreeing
<1> QED BY <1>2, <1>3, <1>4, <1>5

\* What is mounted afterwards.
LEMMA MountedIs ==
  ASSUME Objects, Verified(mounts), NEW i \in DOMAIN fsm.fstab,
         NEW m \in MountPartition(fsm, i)
  PROVE  LET new == Mounted(fsm.fstab, m)
         IN  /\ Verified(new)
             /\ DOMAIN new = IF m.entry = 0 THEN DOMAIN mounts
                             ELSE DOMAIN mounts \cup {fsm.fstab[i].mount_point}
<1>1. CASE m.entry = 0
  BY <1>1 DEF Mounted
<1>2. CASE m.entry # 0
  <2> DEFINE e == fsm.fstab[m.entry]
             mp == fsm.fstab[i].mount_point
             one == [x \in {mp} |-> [entry |-> e, dev |-> m.dev, late |-> FALSE]]
             new == AlsoMounted(one)
  <2>1. e.mount_point = mp /\ (m.dev = "raw" => ~WantsVerity(e) \/ boot.verity_disabled)
    BY <1>2, OneMount
  <2>2. Mounted(fsm.fstab, m) = new
    BY <1>2, <2>1 DEF Mounted
  <2> HIDE DEF e, mp
  <2>3. /\ DOMAIN new = DOMAIN mounts \cup {mp}
        /\ new[mp] = [entry |-> e, dev |-> m.dev, late |-> FALSE]
        /\ \A x \in DOMAIN mounts : x # mp => new[x] = mounts[x]
    BY DEF AlsoMounted
  <2> HIDE DEF new
  <2>4. new[mp].entry = e /\ new[mp].dev = m.dev
    BY <2>3
  <2>5. Verified(new)
    <3> SUFFICES ASSUME NEW x \in DOMAIN new PROVE Allowed(x, new[x])
      BY DEF Verified
    <3>1. CASE x = mp
      BY <2>1, <2>4, <3>1 DEF Allowed
    <3>2. CASE x # mp
      BY <2>3, <3>2 DEF Verified
    <3> QED BY <3>1, <3>2
  <2> QED BY <1>2, <2>2, <2>3, <2>5 DEF mp
<1> QED BY <1>1, <1>2

-----------------------------------------------------------------------------
(* Steps that mount nothing.                                               *)

SameObject == IsFsm(fsm') /\ fsm'.fstab = fsm.fstab /\ fsm'.at = fsm.at

\* The fstab and the mounts stay, and the boot goes on within a stage, back to the
\* beginning (after the devices were made for the console), or not at all.
LEMMA Frame ==
  ASSUME Inv, UNCHANGED <<boot, mounts>>, SameObject,
         \/ pc' = "fatal"
         \/ pc \in Starting \cup Finding /\ pc' \in Starting
         \/ UNCHANGED root /\ (\/ pc' = pc
                               \/ pc \in Finding /\ pc' \in Finding
                               \/ pc \in HandingOver /\ pc' \in HandingOver)
  PROVE  Inv'
<1>1. Objects'
  BY DEF Inv, Objects, SameObject, Agreeing, Verifiable, Copied
<1>2. Verified(mounts)'
  BY StaysVerified DEF Inv
<1>3. /\ \A mp : Covered(mp)' = Covered(mp) /\ \A at : Ahead(mp, at)' = Ahead(mp, at)
      /\ Wanted' = Wanted
  BY DEF SameObject, Covered, Dispensable, Ahead, Wanted, Optional
<1>4. UNCHANGED root => (IsRecoveryMode' <=> IsRecoveryMode)
  BY DEF IsRecoveryMode
<1>5. Complete'
  <2>1. CASE pc' = "fatal"
    BY <2>1 DEF Complete, Starting, Finding, Mounting, HandingOver
  <2>2. CASE pc \in Starting \cup Finding /\ pc' \in Starting
    BY <2>2 DEF Inv, Complete, Starting, Finding, Mounting, HandingOver
  <2>3. CASE UNCHANGED root /\ pc' = pc
    BY <1>3, <1>4, <2>3 DEF Inv, Complete, SameObject
  <2>4. CASE UNCHANGED root /\ pc \in Finding /\ pc' \in Finding
    <3>1. pc' \notin Mounting /\ pc' \notin HandingOver
      BY <2>4 DEF Finding, Mounting, HandingOver
    <3> QED BY <1>3, <2>4, <3>1 DEF Inv, Complete
  <2>5. CASE UNCHANGED root /\ pc \in HandingOver /\ pc' \in HandingOver
    <3>1. pc' \notin Mounting /\ pc' \notin Finding /\ pc' \notin Starting
      BY <2>5 DEF Finding, Mounting, HandingOver, Starting
    <3> QED BY <1>3, <1>4, <2>5, <3>1 DEF Inv, Complete
  <2> QED BY <2>1, <2>2, <2>3, <2>4, <2>5
<1> QED BY <1>1, <1>2, <1>5 DEF Inv

\* FirstStageMount::Create(): a new object is well formed, whatever fstab it is given.
LEMMA EmptyIsFsm ==
  /\ IsFsm(EmptyFsm) /\ EmptyFsm.fstab = <<>>
  /\ \A f \in Seq(Entry) : LET o == [EmptyFsm EXCEPT !.fstab = f]
                           IN  IsFsm(o) /\ o.fstab = f /\ o.at = 1
<1>1. <<>> \in Seq(Entry)
  OBVIOUS
<1> QED BY <1>1 DEF EmptyFsm, IsFsm

\* The fstab of the boot is a sequence of entries of which alternatives agree.
LEMMA BootFstab ==
  ASSUME FstabsAgree, boot \in Boots
  PROVE  /\ boot.fstab \in Seq(Entry) /\ Agreeing(boot.fstab) /\ Copied(boot.fstab)
         /\ \A i, j \in DOMAIN boot.fstab :
               boot.fstab[i].mount_point = boot.fstab[j].mount_point =>
                  (Spare(boot.fstab[i]) <=> Spare(boot.fstab[j]))
         /\ boot.dsu => IsDtVbmetaCompatible(boot)
         /\ \A i \in DOMAIN boot.fstab :
               boot.fstab[i].mount_point = "/metadata" => Spare(boot.fstab[i])
<1>1. boot.fstab \in Seq(Entry)
  BY BootsAssumption DEF BootType
<1>2. Agreeing(boot.fstab) /\ Copied(boot.fstab)
  BY DEF FstabsAgree, Agreeing, Verifiable, Copied
<1> QED BY <1>1, <1>2 DEF FstabsAgree

\* A new object takes over the fstab of the boot.
LEMMA NewObject ==
  ASSUME FstabsAgree, Inv, UNCHANGED <<boot, mounts>>, pc \in Starting, pc' \in Finding,
         fsm' = [EmptyFsm EXCEPT !.fstab = boot.fstab]
  PROVE  Inv'
<1>1. /\ boot \in Boots /\ boot.fstab \in Seq(Entry)
      /\ Agreeing(boot.fstab) /\ Copied(boot.fstab)
  BY BootFstab DEF Inv, Objects
<1>2. IsFsm(fsm') /\ fsm'.fstab = boot.fstab
  BY <1>1, EmptyIsFsm
<1>3. Objects'
  <2> DEFINE f == boot.fstab
             g == fsm'.fstab
  <2>1. UNCHANGED boot /\ g = f /\ Agreeing(f) /\ Copied(f)
    BY <1>1, <1>2
  <2>2. Agreeing(fsm.fstab)'
    <3>1. Agreeing(g)
      BY <2>1
    <3> HIDE DEF f, g
    <3> QED BY <2>1, <3>1 DEF Agreeing, Verifiable, g
  <2>3. Copied(fsm.fstab)'
    <3>1. Copied(g)
      BY <2>1
    <3> HIDE DEF f, g
    <3> QED BY <2>1, <3>1 DEF Copied, g
  <2> QED BY <1>1, <1>2, <2>2, <2>3 DEF Objects
<1>4. Verified(mounts)'
  BY StaysVerified DEF Inv
<1>5. \A mp \in Wanted' : Ahead(mp, 1)'
  BY <1>1, <1>2 DEF Wanted, Ahead
<1>6. pc' \notin Mounting /\ pc' \notin HandingOver
  BY DEF Finding, Mounting, HandingOver
<1>7. Complete'
  BY <1>5, <1>6 DEF Inv, Complete
<1> QED BY <1>3, <1>4, <1>7 DEF Inv

-----------------------------------------------------------------------------
(* The steps that mount.                                                   *)

\* Entries that are some of the entries there were.
LEMMA Fewer ==
  ASSUME Objects, UNCHANGED boot, IsFsm(fsm'),
         \A j \in DOMAIN fsm'.fstab : \E k \in DOMAIN fsm.fstab : fsm'.fstab[j] = fsm.fstab[k]
  PROVE  Objects'
<1> DEFINE f == fsm.fstab
           g == fsm'.fstab
<1>1. Agreeing(f) /\ Copied(f) /\ boot \in Boots
  BY DEF Objects
<1>2. \A j \in DOMAIN g : \E k \in DOMAIN f : g[j] = f[k]
  OBVIOUS
<1> HIDE DEF f, g
<1>3. \A i \in DOMAIN g : Verifiable(g[i])
  BY <1>1, <1>2 DEF Agreeing
<1>4. ASSUME NEW i \in DOMAIN g, NEW j \in DOMAIN g, g[i].mount_point = g[j].mount_point
      PROVE  WantsVerity(g[i]) <=> WantsVerity(g[j])
  <2>1. PICK k \in DOMAIN f, l \in DOMAIN f : g[i] = f[k] /\ g[j] = f[l]
    BY <1>2
  <2> QED BY <1>1, <1>4, <2>1 DEF Agreeing
<1>5. Copied(g)
  BY <1>1, <1>2 DEF Copied
<1>6. Agreeing(g)
  BY <1>3, <1>4 DEF Agreeing
<1>7. Agreeing(fsm.fstab)'
  <2>1. UNCHANGED boot
    OBVIOUS
  <2> QED BY <1>6, <2>1 DEF Agreeing, Verifiable, g
<1>8. Copied(fsm.fstab)'
  <2>1. UNCHANGED boot
    OBVIOUS
  <2> QED BY <1>5, <2>1 DEF Copied, g
<1> QED BY <1>1, <1>7, <1>8 DEF Objects

\* A mount point is covered when more is mounted.
LEMMA StaysCovered ==
  ASSUME UNCHANGED boot, DOMAIN mounts \subseteq DOMAIN mounts', NEW mp, Covered(mp)
  PROVE  Covered(mp)'
BY DEF Covered, Dispensable, Optional

\* Taking a range out of a sequence.
LEMMA CutOut ==
  ASSUME NEW f \in Seq(Entry), NEW i \in DOMAIN f, NEW e \in i + 1..Len(f) + 1
  PROVE  LET g == SubSeq(f, 1, i - 1) \o SubSeq(f, e, Len(f))
         IN  /\ g \in Seq(Entry)
             /\ \A j \in DOMAIN g : \E k \in DOMAIN f : g[j] = f[k]
             /\ \A k \in DOMAIN f : k \in i..e - 1 \/ \E j \in DOMAIN g : g[j] = f[k]
<1> DEFINE n == Len(f)
           a == SubSeq(f, 1, i - 1)
           b == SubSeq(f, e, n)
           g == a \o b
<1>1. n \in Nat /\ DOMAIN f = 1..n /\ i \in 1..n /\ e \in i + 1..n + 1
      /\ \A k \in 1..n : f[k] \in Entry
  OBVIOUS
<1>2. a \in Seq(Entry) /\ Len(a) = i - 1 /\ \A j \in 1..i - 1 : a[j] = f[j]
  <2>1. 1 \in Int /\ i - 1 \in Int /\ \A k \in 1..i - 1 : f[k] \in Entry
    BY <1>1
  <2>2. /\ a \in Seq(Entry)
        /\ Len(a) = IF 1 <= i - 1 THEN (i - 1) - 1 + 1 ELSE 0
        /\ \A j \in 1..(i - 1) - 1 + 1 : a[j] = f[1 + j - 1]
    BY <2>1, SubSeqProperties
  <2>3. (i - 1) - 1 + 1 = i - 1 /\ (1 <= i - 1 \/ i - 1 = 0) /\ \A j \in 1..i - 1 : 1 + j - 1 = j
    BY <1>1
  <2> HIDE DEF a
  <2> QED BY <2>2, <2>3
<1>3. b \in Seq(Entry) /\ Len(b) = n + 1 - e /\ \A j \in 1..n + 1 - e : b[j] = f[e - 1 + j]
  <2>1. e \in Int /\ n \in Int /\ \A k \in e..n : f[k] \in Entry
    BY <1>1
  <2>2. /\ b \in Seq(Entry)
        /\ Len(b) = IF e <= n THEN n - e + 1 ELSE 0
        /\ \A j \in 1..n - e + 1 : b[j] = f[e + j - 1]
    <3> HIDE DEF n
    <3> QED BY <2>1, SubSeqProperties
  <2>3. n - e + 1 = n + 1 - e /\ (e <= n \/ n + 1 - e = 0)
        /\ \A j \in 1..n + 1 - e : e + j - 1 = e - 1 + j
    <3> HIDE DEF n
    <3> QED BY <1>1
  <2> HIDE DEF b, n
  <2> QED BY <2>2, <2>3
<1> HIDE DEF a, b, n
<1>4. /\ g \in Seq(Entry) /\ Len(g) = Len(a) + Len(b)
      /\ \A j \in 1..Len(a) + Len(b) : g[j] = IF j <= Len(a) THEN a[j] ELSE b[j - Len(a)]
  BY <1>2, <1>3, ConcatProperties
<1> HIDE DEF g
<1> DEFINE p == i - 1
           q == n + 1 - e
<1>5. p \in Nat /\ q \in Nat /\ Len(g) = p + q /\ DOMAIN g = 1..p + q
  <2>1. p \in Nat /\ q \in Nat
    BY <1>1
  <2> HIDE DEF p, q
  <2> QED BY <1>2, <1>3, <1>4, <2>1 DEF p, q
<1>6. /\ \A j \in 1..p : g[j] = f[j]
      /\ \A j \in 1..q : g[p + j] = f[e - 1 + j]
  <2>1. ASSUME NEW j \in 1..p PROVE g[j] = f[j]
    <3>1. j \in 1..Len(a) + Len(b) /\ j <= Len(a)
      BY <1>2, <1>3, <1>5
    <3> QED BY <1>2, <1>4, <3>1
  <2>2. ASSUME NEW j \in 1..q PROVE g[p + j] = f[e - 1 + j]
    <3>1. Len(a) = p /\ Len(b) = q
      BY <1>2, <1>3
    <3> HIDE DEF p, q
    <3>2. p + j \in 1..Len(a) + Len(b) /\ ~(p + j <= Len(a)) /\ (p + j) - Len(a) = j
      BY <1>5, <3>1
    <3>3. g[p + j] = b[j]
      BY <1>4, <3>2
    <3> QED BY <1>3, <3>3 DEF q
  <2> QED BY <2>1, <2>2
<1>7. ASSUME NEW j \in DOMAIN g PROVE \E k \in DOMAIN f : g[j] = f[k]
  <2>1. CASE j <= p
    <3>1. j \in 1..p /\ j \in 1..n
      BY <1>1, <1>5, <2>1
    <3> QED BY <1>1, <1>6, <3>1
  <2>2. CASE ~(j <= p)
    <3> DEFINE l == j - p
    <3>0. j \in 1..p + q /\ i \in Nat /\ e \in Nat /\ e >= 1
      BY <1>1, <1>5
    <3>1. l \in 1..q /\ p + l = j
      <4> HIDE DEF p, q
      <4> QED BY <1>5, <2>2, <3>0
    <3>2. e - 1 + l \in 1..n
      <4> HIDE DEF l
      <4> QED BY <1>1, <3>0, <3>1
    <3> HIDE DEF l, p, q
    <3> QED BY <1>1, <1>6, <3>1, <3>2
  <2> QED BY <2>1, <2>2
<1>8. ASSUME NEW k \in DOMAIN f, k \notin i..e - 1 PROVE \E j \in DOMAIN g : g[j] = f[k]
  <2>1. CASE k < i
    <3>1. k \in 1..p /\ k \in 1..p + q
      BY <1>1, <1>5, <2>1
    <3> QED BY <1>5, <1>6, <3>1
  <2>2. CASE ~(k < i)
    <3> DEFINE l == k - (e - 1)
    <3>1. l \in 1..q /\ e - 1 + l = k
      BY <1>1, <1>8, <2>2
    <3>2. p + l \in 1..p + q
      <4> HIDE DEF l, p, q
      <4> QED BY <1>5, <3>1
    <3>3. g[p + l] = f[e - 1 + l]
      <4> HIDE DEF l, p, q
      <4> QED BY <1>6, <3>1
    <3> HIDE DEF l, p, q
    <3> QED BY <1>5, <3>1, <3>2, <3>3
  <2> QED BY <2>1, <2>2
<1> QED BY <1>4, <1>7, <1>8 DEF g, a, b, n

\* More mounts that are allowed.
LEMMA AlsoMountedIs ==
  ASSUME Verified(mounts), NEW new, \A mp \in DOMAIN new : Allowed(mp, new[mp])
  PROVE  Verified(AlsoMounted(new)) /\ DOMAIN AlsoMounted(new) = DOMAIN new \cup DOMAIN mounts
<1> DEFINE all == AlsoMounted(new)
<1>1. /\ DOMAIN all = DOMAIN new \cup DOMAIN mounts
      /\ \A mp \in DOMAIN new : all[mp] = new[mp]
      /\ \A mp \in DOMAIN mounts : mp \notin DOMAIN new => all[mp] = mounts[mp]
  BY DEF AlsoMounted
<1> HIDE DEF all
<1>2. Verified(all)
  BY <1>1 DEF Verified
<1> QED BY <1>1, <1>2 DEF all

\* An entry the boot can do without: the mount point need not be mounted.
LEMMA SpareIsCovered ==
  ASSUME FstabsAgree, Objects, NEW k \in DOMAIN fsm.fstab, Spare(fsm.fstab[k]),
         fsm.fstab[k].mount_point # "/system"
  PROVE  Covered(fsm.fstab[k].mount_point)
<1>1. PICK i \in DOMAIN boot.fstab : fsm.fstab[k] = boot.fstab[i]
  BY DEF Objects, Copied
<1>2. \A j \in DOMAIN boot.fstab : boot.fstab[i].mount_point = boot.fstab[j].mount_point =>
         (Spare(boot.fstab[i]) <=> Spare(boot.fstab[j]))
  BY BootFstab DEF Objects
<1> QED BY <1>1, <1>2 DEF Covered, Dispensable, Optional

\* Init that died of an error: nothing but the mounts is left to be said.
LEMMA Fatally ==
  ASSUME Objects', Verified(mounts)', pc' = "fatal"
  PROVE  Inv'
BY DEF Inv, Complete, Starting, Finding, Mounting, HandingOver

\* While the devices are found, before /system is mounted.
LEMMA StillFinding ==
  ASSUME Objects', Verified(mounts)', pc' \in Finding, DOMAIN mounts' \subseteq {"/metadata"},
         \A mp \in Wanted' : Covered(mp)' \/ Ahead(mp, 1)'
  PROVE  Inv'
<1>1. pc' \notin Mounting /\ pc' \notin HandingOver
  BY DEF Finding, Mounting, HandingOver
<1> QED BY <1>1 DEF Inv, Complete

\* /metadata may fail to be mounted.
LEMMA MetadataIsCovered ==
  ASSUME FstabsAgree, boot \in Boots
  PROVE  Covered("/metadata")
BY BootFstab DEF Covered, Dispensable, Optional

\* DoCreateDevices() mounts /metadata and takes its entries out of the fstab: nothing that the
\* boot needs is lost with them.
LEMMA MountMetadataInv ==
  ASSUME FstabsAgree, Inv, MountMetadata
  PROVE  Inv'
<1>1. UNCHANGED <<boot, root>> /\ pc = "metadata" /\ pc' = "logical"
  BY DEF MountMetadata, At, Goto
<1>2. pc \in Finding /\ pc' \in Finding
  BY <1>1 DEF Finding
<1>3. CASE IndexOf(fsm.fstab, "/metadata") = {}
  <2>1. UNCHANGED <<fsm, mounts>>
    BY <1>3 DEF MountMetadata
  <2>2. SameObject
    BY <2>1 DEF SameObject, Inv, Objects
  <2> QED BY <1>1, <1>2, <2>1, <2>2, Frame
<1>4. CASE IndexOf(fsm.fstab, "/metadata") # {}
  <2> DEFINE f == fsm.fstab
  <2>0. PICK i \in IndexOf(f, "/metadata") : \E m \in MountPartition(fsm, i) :
           /\ mounts' = Mounted(f, m)
           /\ fsm' = [fsm EXCEPT !.fstab =
                         IF m.tried
                         THEN SubSeq(f, 1, i - 1) \o SubSeq(f, EndOf(f, i, m), Len(f))
                         ELSE f]
    BY <1>4 DEF MountMetadata
  <2>1. PICK m \in MountPartition(fsm, i) :
           /\ mounts' = Mounted(f, m)
           /\ fsm' = [fsm EXCEPT !.fstab =
                         IF m.tried
                         THEN SubSeq(f, 1, i - 1) \o SubSeq(f, EndOf(f, i, m), Len(f))
                         ELSE f]
    BY <2>0
  <2>2. /\ Objects /\ Verified(mounts) /\ IsFsm(fsm) /\ f \in Seq(Entry)
        /\ DOMAIN mounts \subseteq {"/metadata"}
        /\ \A mp \in Wanted : Covered(mp) \/ Ahead(mp, 1)
    BY <1>2 DEF Inv, Objects, Complete, IsFsm
  <2>3. i \in DOMAIN f /\ f[i].mount_point = "/metadata"
    BY DEF IndexOf
  <2>4. /\ Verified(mounts)'
        /\ DOMAIN mounts' \in {DOMAIN mounts, DOMAIN mounts \cup {"/metadata"}}
    <3>1. Verified(mounts')
      BY <2>1, <2>2, <2>3, MountedIs
    <3>2. DOMAIN mounts' \in {DOMAIN mounts, DOMAIN mounts \cup {"/metadata"}}
      BY <2>1, <2>2, <2>3, MountedIs
    <3> QED BY <1>1, <3>1, <3>2, StaysVerified
  <2> DEFINE e == EndOf(f, i, m)
             g == IF m.tried THEN SubSeq(f, 1, i - 1) \o SubSeq(f, e, Len(f)) ELSE f
  <2>5. e \in i + 1..Len(f) + 1 /\ \A k \in i..e - 1 : f[k].mount_point = "/metadata"
    <3> HIDE DEF f
    <3> QED BY <2>2, <2>3, EndOfGroup
  <2>6. /\ g \in Seq(Entry)
        /\ \A j \in DOMAIN g : \E k \in DOMAIN f : g[j] = f[k]
        /\ \A k \in DOMAIN f : f[k].mount_point = "/metadata" \/ \E j \in DOMAIN g : g[j] = f[k]
    <3> HIDE DEF f, e
    <3>1. CASE m.tried
      <4>1. g = SubSeq(f, 1, i - 1) \o SubSeq(f, e, Len(f))
        BY <3>1
      <4> HIDE DEF g
      <4>2. /\ g \in Seq(Entry)
            /\ \A j \in DOMAIN g : \E k \in DOMAIN f : g[j] = f[k]
            /\ \A k \in DOMAIN f : k \in i..e - 1 \/ \E j \in DOMAIN g : g[j] = f[k]
        <5>1. f \in Seq(Entry) /\ i \in DOMAIN f /\ e \in i + 1..Len(f) + 1
          BY <2>2, <2>3, <2>5
        <5> DEFINE h == SubSeq(f, 1, i - 1) \o SubSeq(f, e, Len(f))
        <5>2. /\ h \in Seq(Entry)
              /\ \A j \in DOMAIN h : \E k \in DOMAIN f : h[j] = f[k]
              /\ \A k \in DOMAIN f : k \in i..e - 1 \/ \E j \in DOMAIN h : h[j] = f[k]
          BY <5>1, CutOut
        <5>3. g = h
          BY <4>1
        <5> HIDE DEF h
        <5> QED BY <5>2, <5>3
      <4> QED BY <2>5, <4>2
    <3>2. CASE ~m.tried
      BY <2>2, <3>2
    <3> QED BY <3>1, <3>2
  <2>7. fsm' = [fsm EXCEPT !.fstab = g]
    BY <2>1
  <2> HIDE DEF g, e
  <2>8. IsFsm(fsm') /\ fsm'.fstab = g
    BY <2>2, <2>6, <2>7 DEF IsFsm
  <2>9. Objects'
    BY <1>1, <2>2, <2>6, <2>8, Fewer
  <2>10. ASSUME NEW mp \in Wanted' PROVE Covered(mp)' \/ Ahead(mp, 1)'
    <3>1. mp \in Wanted
      BY <1>1 DEF Wanted
    <3>2. CASE Covered(mp)
      BY <1>1, <2>4, <3>2, StaysCovered
    <3>3. CASE mp = "/metadata"
      <4>1. Covered(mp)
        BY <2>2, <3>3, MetadataIsCovered DEF Objects
      <4> QED BY <1>1, <2>4, <4>1, StaysCovered
    <3>4. CASE mp # "/metadata" /\ Ahead(mp, 1)
      <4>1. PICK k \in DOMAIN f : f[k].mount_point = mp
        BY <3>4 DEF Ahead
      <4>2. PICK j \in DOMAIN g : g[j] = f[k]
        BY <2>6, <3>4, <4>1
      <4>3. j >= 1
        BY <2>6
      <4> QED BY <2>8, <4>1, <4>2, <4>3 DEF Ahead
    <3> QED BY <2>2, <3>1, <3>2, <3>3, <3>4
  <2>11. DOMAIN mounts' \subseteq {"/metadata"}
    BY <2>2, <2>4
  <2> QED BY <1>2, <2>4, <2>9, <2>10, <2>11, StillFinding
<1> QED BY <1>3, <1>4

\* The fstab of a dynamic update.
LEMMA Transformed ==
  ASSUME FstabsAgree, Objects, boot.dsu
  PROVE  LET f == fsm.fstab
             g == TransformFstabForDsu(f)
         IN  /\ g \in Seq(Entry) /\ DOMAIN g = DOMAIN f
             /\ \A i \in DOMAIN f : g[i].mount_point = f[i].mount_point
             /\ Agreeing(g) /\ Copied(g)
<1> DEFINE f == fsm.fstab
           g == TransformFstabForDsu(f)
           s(e) == [e EXCEPT !.flags = {"logical"}, !.avb_keys = "avb"]
<1>1. /\ f \in Seq(Entry) /\ Agreeing(f) /\ Copied(f) /\ IsDtVbmetaCompatible(boot)
      /\ Len(f) \in Nat /\ DOMAIN f = 1..Len(f)
  BY BootFstab DEF Objects, IsFsm
<1> HIDE DEF f
<1>2. \A e \in Entry : s(e) \in Entry /\ s(e).mount_point = e.mount_point /\ s(e).avb_keys = "avb"
  BY DEF Entry, Flags
<1>3. \A i \in DOMAIN f : g[i] = IF f[i].mount_point = "/system" THEN s(f[i]) ELSE f[i]
  BY DEF TransformFstabForDsu
<1>4. g = [i \in 1..Len(f) |-> g[i]] /\ DOMAIN g = DOMAIN f
  BY <1>1 DEF TransformFstabForDsu
<1> HIDE DEF g, s
<1>5. \A i \in DOMAIN f : f[i] \in Entry
  BY <1>1
<1>6. \A i \in DOMAIN f : g[i] \in Entry /\ g[i].mount_point = f[i].mount_point
  BY <1>2, <1>3, <1>5
<1>7. g \in Seq(Entry)
  <2>1. \A i \in 1..Len(f) : g[i] \in Entry
    BY <1>1, <1>6
  <2>2. g \in [1..Len(f) -> Entry]
    BY <1>4, <2>1
  <2> QED BY <1>1, <2>2, SeqDef
<1>8. \A i \in DOMAIN f : g[i].mount_point = "/system" => WantsVerity(g[i]) /\ Verifiable(g[i])
  BY <1>1, <1>2, <1>3, <1>5, <1>6 DEF WantsVerity, Verifiable
<1>9. \A i \in DOMAIN f : g[i].mount_point # "/system" => g[i] = f[i]
  BY <1>3, <1>6
<1>10. Agreeing(g)
  <2>1. \A i \in DOMAIN g : Verifiable(g[i])
    BY <1>1, <1>4, <1>8, <1>9 DEF Agreeing
  <2>2. ASSUME NEW i \in DOMAIN g, NEW j \in DOMAIN g, g[i].mount_point = g[j].mount_point
        PROVE  WantsVerity(g[i]) <=> WantsVerity(g[j])
    <3>1. CASE g[i].mount_point = "/system"
      BY <1>4, <1>8, <2>2, <3>1
    <3>2. CASE g[i].mount_point # "/system"
      <4>1. g[i] = f[i] /\ g[j] = f[j] /\ i \in DOMAIN f /\ j \in DOMAIN f
        BY <1>4, <1>9, <2>2, <3>2
      <4> QED BY <1>1, <2>2, <4>1 DEF Agreeing
    <3> QED BY <3>1, <3>2
  <2> QED BY <2>1, <2>2 DEF Agreeing
<1>11. Copied(g)
  BY <1>1, <1>4, <1>9 DEF Copied
<1> QED BY <1>4, <1>6, <1>7, <1>10, <1>11 DEF g, f

\* UseDsuIfPresent() and PreloadAvbKeys() change how /system is verified, not what is ahead.
LEMMA UseDsuInv ==
  ASSUME FstabsAgree, Inv, UseDsu
  PROVE  Inv'
<1>1. UNCHANGED <<boot, root, mounts>> /\ pc = "use_dsu"
  BY DEF UseDsu, At, disk
<1>2. /\ Objects /\ Verified(mounts) /\ IsFsm(fsm) /\ fsm.fstab \in Seq(Entry)
      /\ DOMAIN mounts \subseteq {"/metadata"}
      /\ \A mp \in Wanted : Covered(mp) \/ Ahead(mp, 1)
  BY <1>1 DEF Inv, Objects, Complete, IsFsm, Finding
<1>3. Verified(mounts)' /\ Wanted' = Wanted /\ \A mp : Covered(mp) => Covered(mp)'
  BY <1>1, <1>2, StaysVerified DEF Wanted, Covered, Dispensable, Optional
<1>4. CASE fsm.fstab = <<>>
  <2>1. pc' = "free_ramdisk" /\ UNCHANGED fsm
    BY <1>4 DEF UseDsu, Goto
  <2>2. \A mp : ~Ahead(mp, 1)
    BY <1>4 DEF Ahead
  <2>3. Objects'
    BY <1>1, <1>2, <2>1 DEF Objects, Agreeing, Verifiable, Copied
  <2>4. pc' \notin Starting /\ pc' \notin Finding /\ pc' \notin Mounting
    BY <2>1 DEF Starting, Finding, Mounting
  <2>5. "/system" \notin DOMAIN mounts'
    BY <1>1, <1>2
  <2> QED BY <1>2, <1>3, <2>2, <2>3, <2>4, <2>5 DEF Inv, Complete
<1>5. CASE fsm.fstab # <<>>
  <2>1. PICK dsu \in (IF boot.dsu THEN BOOLEAN ELSE {FALSE}) :
           fsm' = PreloadAvbKeys(UseDsuIfPresent(dsu))
    BY <1>5 DEF UseDsu
  <2> DEFINE f == fsm.fstab
             g == IF dsu THEN TransformFstabForDsu(f) ELSE f
  <2>2. /\ g \in Seq(Entry) /\ DOMAIN g = DOMAIN f
        /\ \A i \in DOMAIN f : g[i].mount_point = f[i].mount_point
        /\ Agreeing(g) /\ Copied(g)
    <3>1. CASE dsu
      <4>1. boot.dsu /\ g = TransformFstabForDsu(f)
        BY <3>1
      <4> HIDE DEF g
      <4> QED BY <1>2, <4>1, Transformed
    <3>2. CASE ~dsu
      BY <1>2, <3>2 DEF Objects
    <3> QED BY <3>1, <3>2
  <2>3. UseDsuIfPresent(dsu) = [fsm EXCEPT !.fstab = g]
    BY DEF UseDsuIfPresent
  <2> HIDE DEF f, g
  <2>4. IsFsm(fsm') /\ fsm'.fstab = g
    BY <1>2, <2>1, <2>2, <2>3 DEF IsFsm, PreloadAvbKeys
  <2>5. UNCHANGED boot
    BY <1>1
  <2>6. Objects'
    <3>1. Agreeing(fsm.fstab)'
      BY <2>2, <2>4, <2>5 DEF Agreeing, Verifiable
    <3>2. Copied(fsm.fstab)'
      BY <2>2, <2>4, <2>5 DEF Copied
    <3> QED BY <1>2, <2>4, <2>5, <3>1, <3>2 DEF Objects
  <2>7. \A mp : Ahead(mp, 1) => Ahead(mp, 1)'
    BY <2>2, <2>4 DEF Ahead, f
  <2>8. pc' \in Finding
    BY <1>5 DEF UseDsu, Goto, Finding
  <2> QED BY <1>1, <1>2, <1>3, <2>6, <2>7, <2>8, StillFinding
<1> QED BY <1>4, <1>5

\* TrySwitchSystemAsRoot(): /system is mounted and the root, or there is none to mount.
LEMMA MountSystemInv ==
  ASSUME FstabsAgree, Inv, MountSystem
  PROVE  Inv'
<1>1. UNCHANGED <<boot, fsm>> /\ pc = "system"
  BY DEF MountSystem, At
<1>2. /\ Objects /\ Verified(mounts) /\ fsm.fstab \in Seq(Entry)
      /\ DOMAIN mounts \subseteq {"/metadata"}
      /\ \A mp \in Wanted : Covered(mp) \/ Ahead(mp, 1)
  BY <1>1 DEF Inv, Objects, Complete, IsFsm, Finding
<1>3. /\ Objects' /\ Wanted' = Wanted
      /\ \A mp, at : Ahead(mp, at)' <=> Ahead(mp, at)
  BY <1>1, <1>2 DEF Objects, Agreeing, Verifiable, Copied, Wanted, Ahead
<1> DEFINE f == fsm.fstab
<1>4. ASSUME Verified(mounts)', pc' = "skip_mounts",
             \A mp \in Wanted : Covered(mp)' \/ (mp # "/system" /\ Ahead(mp, 1)),
             "/system" \in DOMAIN mounts' \/ Ahead("/system", 1) => root' = "system"
      PROVE  Inv'
  <2>1. pc' \notin Starting /\ pc' \notin Finding /\ pc' \notin HandingOver /\ pc' # "partitions"
    BY <1>4 DEF Starting, Finding, HandingOver
  <2> QED BY <1>3, <1>4, <2>1 DEF Inv, Complete
<1>5. CASE IndexOf(f, "/system") = {}
  <2>1. pc' = "skip_mounts" /\ UNCHANGED <<root, mounts>>
    BY <1>5 DEF MountSystem, Goto
  <2>2. ~Ahead("/system", 1)
    BY <1>2, <1>5, FirstEntry DEF Ahead
  <2>3. Verified(mounts)' /\ \A mp : Covered(mp) => Covered(mp)'
    BY <1>1, <1>2, <2>1, StaysVerified DEF Covered, Dispensable, Optional
  <2>4. "/system" \notin DOMAIN mounts'
    BY <1>2, <2>1
  <2> QED BY <1>2, <1>4, <2>1, <2>2, <2>3, <2>4
<1>6. CASE IndexOf(f, "/system") # {}
  <2>1. PICK i \in IndexOf(f, "/system") : \E m \in MountPartition(fsm, i) :
           /\ mounts' = Mounted(f, m)
           /\ \/ m.entry = 0 /\ MountFailed(fsm, i)
              \/ m.entry # 0 /\ SwitchRoot("system") /\ Goto("skip_mounts")
              \/ m.entry # 0 /\ Fatal
    BY <1>6 DEF MountSystem
  <2>2. PICK m \in MountPartition(fsm, i) :
           /\ mounts' = Mounted(f, m)
           /\ \/ pc' = "fatal"
              \/ m.entry # 0 /\ root' = "system" /\ pc' = "skip_mounts"
    BY <2>1 DEF MountFailed, SwitchRoot, Goto, Fatal
  <2>3. i \in DOMAIN f /\ f[i].mount_point = "/system"
    BY DEF IndexOf
  <2>4. /\ Verified(mounts')
        /\ DOMAIN mounts' = IF m.entry = 0 THEN DOMAIN mounts
                            ELSE DOMAIN mounts \cup {"/system"}
    BY <1>2, <2>2, <2>3, MountedIs
  <2>5. Verified(mounts)'
    BY <1>1, <2>4, StaysVerified
  <2>6. CASE pc' = "fatal"
    BY <1>3, <2>5, <2>6, Fatally
  <2>7. CASE m.entry # 0 /\ root' = "system" /\ pc' = "skip_mounts"
    <3>1. "/system" \in DOMAIN mounts' /\ DOMAIN mounts \subseteq DOMAIN mounts'
      BY <2>4, <2>7
    <3>2. Covered("/system")'
      BY <3>1 DEF Covered
    <3>3. \A mp : Covered(mp) => Covered(mp)'
      BY <1>1, <3>1, StaysCovered
    <3> QED BY <1>2, <1>4, <2>5, <2>7, <3>2, <3>3
  <2> QED BY <2>2, <2>6, <2>7
<1> QED BY <1>5, <1>6

\* SkipMountingPartitions(): what leaves the fstab is what may be skipped.
LEMMA SkipMountsInv ==
  ASSUME FstabsAgree, Inv, SkipMounts
  PROVE  Inv'
<1>1. UNCHANGED <<boot, root, mounts>> /\ pc = "skip_mounts"
  BY DEF SkipMounts, At, disk
<1>2. /\ Objects /\ Verified(mounts) /\ IsFsm(fsm) /\ fsm.fstab \in Seq(Entry)
      /\ \A mp \in Wanted : Covered(mp) \/ (mp # "/system" /\ Ahead(mp, 1))
      /\ "/system" \in DOMAIN mounts \/ Ahead("/system", 1) => root = "system"
  BY <1>1 DEF Inv, Objects, Complete, IsFsm, Mounting
<1>3. CASE pc' = "fatal" /\ UNCHANGED fsm
  <2>1. SameObject
    BY <1>2, <1>3 DEF SameObject
  <2> QED BY <1>1, <1>3, <2>1, Frame
<1>4. CASE fsm' = [fsm EXCEPT !.fstab = SkipMountingPartitions(fsm.fstab), !.at = 1]
           /\ pc' = "partitions"
  <2> DEFINE f == fsm.fstab
             g == SkipMountingPartitions(f)
  <2>1. /\ g \in Seq(Entry)
        /\ \A j \in DOMAIN g : \E k \in DOMAIN f : g[j] = f[k]
        /\ \A k \in DOMAIN f : f[k].mount_point \notin boot.skip => \E j \in DOMAIN g : g[j] = f[k]
    BY <1>2, Skipped
  <2>0. fsm' = [fsm EXCEPT !.fstab = g, !.at = 1]
    BY <1>4
  <2> HIDE DEF g
  <2>2. IsFsm(fsm') /\ fsm'.fstab = g /\ fsm'.at = 1
    <3>1. fsm = [x \in {"fstab", "use_snapuserd", "super", "keys", "at"} |-> fsm[x]]
      BY <1>2 DEF IsFsm
    <3>2. /\ fsm' = [x \in {"fstab", "use_snapuserd", "super", "keys", "at"} |-> fsm'[x]]
          /\ fsm'.fstab = g /\ fsm'.at = 1
      BY <2>0, <3>1
    <3> QED BY <2>1, <3>2 DEF IsFsm
  <2>3. Objects'
    BY <1>1, <1>2, <2>1, <2>2, Fewer
  <2>4. Verified(mounts)' /\ Wanted' = Wanted /\ \A mp : Covered(mp) => Covered(mp)'
    BY <1>1, <1>2, StaysVerified DEF Wanted, Covered, Dispensable, Optional
  <2>5. ASSUME NEW mp \in Wanted PROVE Covered(mp)' \/ (mp # "/system" /\ Ahead(mp, 1)')
    <3>1. CASE Covered(mp)
      BY <2>4, <3>1
    <3>2. CASE mp \in boot.skip
      <4>1. Covered(mp)
        BY <3>2 DEF Covered, Dispensable, Optional
      <4> QED BY <2>4, <4>1
    <3>3. CASE mp \notin boot.skip /\ mp # "/system" /\ Ahead(mp, 1)
      <4>1. PICK k \in DOMAIN f : f[k].mount_point = mp
        BY <3>3 DEF Ahead
      <4>2. PICK j \in DOMAIN g : g[j] = f[k]
        BY <2>1, <3>3, <4>1
      <4>3. j >= 1
        BY <2>1
      <4> QED BY <2>2, <3>3, <4>1, <4>2, <4>3 DEF Ahead
    <3> QED BY <1>2, <3>1, <3>2, <3>3
  <2>6. ASSUME Ahead("/system", 1)' PROVE Ahead("/system", 1)
    <3>1. PICK j \in DOMAIN g : g[j].mount_point = "/system"
      BY <2>2, <2>6 DEF Ahead
    <3>2. PICK k \in DOMAIN f : f[k] = g[j]
      BY <2>1
    <3>3. k >= 1
      BY <1>2
    <3> QED BY <3>1, <3>2, <3>3 DEF Ahead
  <2>7. "/system" \in DOMAIN mounts' \/ Ahead("/system", 1)' => root' = "system"
    BY <1>1, <1>2, <2>6
  <2>8. pc' \notin Starting /\ pc' \notin Finding /\ pc' \notin HandingOver
    BY <1>4 DEF Starting, Finding, HandingOver
  <2> QED BY <1>4, <2>2, <2>3, <2>4, <2>5, <2>7, <2>8 DEF Inv, Complete
<1>5. \/ pc' = "fatal" /\ UNCHANGED fsm
      \/ /\ fsm' = [fsm EXCEPT !.fstab = SkipMountingPartitions(fsm.fstab), !.at = 1]
         /\ pc' = "partitions"
  BY DEF SkipMounts, Fatal, Goto
<1> QED BY <1>3, <1>4, <1>5

\* A round of the loop that leaves the entries from `at' to `end' - 1 behind.
LEMMA Round ==
  ASSUME Inv, pc = "partitions", pc' = pc, UNCHANGED <<boot, root>>,
         fsm.at \in DOMAIN fsm.fstab, NEW end \in Nat, end > fsm.at,
         fsm' = [fsm EXCEPT !.at = end],
         Verified(mounts)', DOMAIN mounts \subseteq DOMAIN mounts',
         "/system" \in DOMAIN mounts' => "/system" \in DOMAIN mounts \/ Ahead("/system", 1),
         NEW point, point = "/system" \/ Covered(point)',
         \A k \in fsm.at..end - 1 : fsm.fstab[k].mount_point = point
  PROVE  Inv'
<1>1. /\ Objects /\ IsFsm(fsm) /\ fsm.at \in Nat /\ DOMAIN fsm.fstab \subseteq Nat
      /\ \A mp \in Wanted : Covered(mp) \/ (mp # "/system" /\ Ahead(mp, fsm.at))
      /\ "/system" \in DOMAIN mounts \/ Ahead("/system", 1) => root = "system"
  BY DEF Inv, Objects, Complete, IsFsm, Mounting
<1>2. IsFsm(fsm') /\ fsm'.fstab = fsm.fstab /\ fsm'.at = end
  <2>1. end \in Nat \ {0}
    BY <1>1
  <2> QED BY <1>1, <2>1 DEF IsFsm
<1>3. Objects' /\ Wanted' = Wanted /\ \A mp, at : Ahead(mp, at)' <=> Ahead(mp, at)
  <2>1. UNCHANGED boot
    OBVIOUS
  <2>2. \A j \in DOMAIN fsm'.fstab : \E k \in DOMAIN fsm.fstab : fsm'.fstab[j] = fsm.fstab[k]
    BY <1>2
  <2>3. Objects'
    BY <1>1, <1>2, <2>1, <2>2, Fewer
  <2>4. Wanted' = Wanted
    BY <2>1 DEF Wanted
  <2>5. \A mp, at : Ahead(mp, at)' <=> Ahead(mp, at)
    BY <1>2 DEF Ahead
  <2> QED BY <2>3, <2>4, <2>5
<1>4. ASSUME NEW mp \in Wanted PROVE Covered(mp)' \/ (mp # "/system" /\ Ahead(mp, end))
  <2>1. CASE Covered(mp)
    BY <2>1, StaysCovered
  <2>2. CASE mp # "/system" /\ Ahead(mp, fsm.at)
    <3>1. PICK k \in DOMAIN fsm.fstab : k >= fsm.at /\ fsm.fstab[k].mount_point = mp
      BY <2>2 DEF Ahead
    <3>2. k >= end \/ k \in fsm.at..end - 1
      BY <1>1, <3>1
    <3> QED BY <2>2, <3>1, <3>2 DEF Ahead
  <2> QED BY <1>1, <2>1, <2>2
<1>5. pc' \notin Starting /\ pc' \notin Finding /\ pc' \notin HandingOver
  BY DEF Starting, Finding, HandingOver
<1>6. "/system" \in DOMAIN mounts' \/ Ahead("/system", 1) => root' = "system"
  BY <1>1
<1> QED BY <1>2, <1>3, <1>4, <1>5, <1>6 DEF Inv, Complete

\* A round of MountPartitions(): what is left behind is mounted or optional, or init died.
LEMMA MountPartitionsInv ==
  ASSUME FstabsAgree, Inv, MountPartitions
  PROVE  Inv'
<1> DEFINE f == fsm.fstab
           e == f[fsm.at]
<1>1. /\ UNCHANGED <<boot, root>> /\ pc = "partitions" /\ fsm.at <= Len(f)
      /\ Objects /\ Verified(mounts) /\ IsFsm(fsm) /\ f \in Seq(Entry)
      /\ fsm.at \in Nat \ {0}
  BY DEF MountPartitions, At, Inv, Objects, IsFsm
<1>2. fsm.at \in DOMAIN f
  BY <1>1
<1>3. CASE e.mount_point = "/system" \/ e.fs_type \in {"overlay", "emmc"}
  <2>1. fsm' = [fsm EXCEPT !.at = fsm.at + 1] /\ pc' = pc /\ mounts' = mounts
    BY <1>3 DEF MountPartitions
  <2>2. e.mount_point = "/system" \/ Covered(e.mount_point)
    BY <1>1, <1>2, <1>3, SpareIsCovered DEF Spare
  <2>3. \A mp : Covered(mp) => Covered(mp)'
    BY <1>1, <2>1, StaysCovered
  <2>4. \A k : k \in fsm.at..(fsm.at + 1) - 1 => k = fsm.at
    BY <1>1
  <2>5. fsm.at + 1 \in Nat /\ fsm.at + 1 > fsm.at
    BY <1>1
  <2>6. Verified(mounts)'
    BY <1>1, <2>1, StaysVerified
  <2> DEFINE end == fsm.at + 1
  <2> PICK point : point = e.mount_point
    OBVIOUS
  <2>7. /\ point = "/system" \/ Covered(point)
        /\ \A k \in fsm.at..end - 1 : f[k].mount_point = point
    BY <2>2, <2>4
  <2>8. end \in Nat /\ end > fsm.at /\ fsm' = [fsm EXCEPT !.at = end]
    BY <2>1, <2>5
  <2> HIDE DEF end
  <2> QED BY <1>1, <1>2, <2>1, <2>3, <2>6, <2>7, <2>8, Round
<1>4. CASE ~(e.mount_point = "/system" \/ e.fs_type \in {"overlay", "emmc"})
  <2>1. PICK m \in MountPartition(fsm, fsm.at) :
           /\ mounts' = Mounted(f, m)
           /\ fsm' = [fsm EXCEPT !.at = EndOf(f, fsm.at, m)]
           /\ IF m.entry = 0 /\ ~Has(e, "no_fail") /\ ~Has(e, "formattable")
              THEN MountFailed(fsm, fsm.at)
              ELSE UNCHANGED <<pc, fault>>
    BY <1>4 DEF MountPartitions
  <2> DEFINE end == EndOf(f, fsm.at, m)
  <2>2. /\ end \in fsm.at + 1..Len(f) + 1
        /\ \A k \in fsm.at..end - 1 : f[k].mount_point = e.mount_point
    <3> HIDE DEF f
    <3> QED BY <1>1, <1>2, EndOfGroup DEF e
  <2>3. fsm' = [fsm EXCEPT !.at = end]
    BY <2>1
  <2> HIDE DEF end
  <2>4. end \in Nat /\ end > fsm.at
    BY <1>1, <2>2
  <2>5. /\ Verified(mounts')
        /\ DOMAIN mounts' = IF m.entry = 0 THEN DOMAIN mounts
                            ELSE DOMAIN mounts \cup {e.mount_point}
    BY <1>1, <1>2, <2>1, MountedIs
  <2>6. Verified(mounts)' /\ DOMAIN mounts \subseteq DOMAIN mounts'
    BY <1>1, <2>5, StaysVerified
  <2>7. CASE m.entry = 0 /\ ~Has(e, "no_fail") /\ ~Has(e, "formattable")
    <3>1. pc' = "fatal"
      BY <2>1, <2>7 DEF MountFailed
    <3>2. IsFsm(fsm') /\ fsm'.fstab = f
      BY <1>1, <2>3, <2>4 DEF IsFsm
    <3>3. Objects'
      BY <1>1, <3>2 DEF Objects, Agreeing, Verifiable, Copied
    <3> QED BY <2>6, <3>1, <3>3, Fatally
  <2>8. CASE ~(m.entry = 0 /\ ~Has(e, "no_fail") /\ ~Has(e, "formattable"))
    <3>1. pc' = pc
      BY <2>1, <2>8
    <3> PICK point : point = e.mount_point
      OBVIOUS
    <3>2. m.entry = 0 => Covered(point)
      <4> SUFFICES ASSUME m.entry = 0 PROVE Covered(point)
        OBVIOUS
      <4>1. Spare(e)
        BY <2>8 DEF Spare, Has
      <4> QED BY <1>1, <1>2, <1>4, <4>1, SpareIsCovered
    <3>3. m.entry # 0 => point \in DOMAIN mounts'
      BY <2>5
    <3>4. "/system" \in DOMAIN mounts' => "/system" \in DOMAIN mounts
      BY <1>4, <2>5
    <3>5. \A k \in fsm.at..end - 1 : f[k].mount_point = point
      BY <2>2
    <3>6. Covered(point)'
      <4>1. CASE m.entry = 0
        BY <1>1, <2>6, <3>2, <4>1, StaysCovered
      <4>2. CASE m.entry # 0
        BY <3>3, <4>2 DEF Covered
      <4> QED BY <4>1, <4>2
    <3> QED BY <1>1, <1>2, <2>3, <2>4, <2>6, <3>1, <3>4, <3>5, <3>6, Round
  <2> QED BY <2>7, <2>8
<1> QED BY <1>3, <1>4

\* The end of MountPartitions(): nothing is ahead any more.
LEMMA MountOverlaysInv ==
  ASSUME FstabsAgree, Inv, MountOverlays
  PROVE  Inv'
<1> DEFINE f == fsm.fstab
<1>1. /\ UNCHANGED <<boot, root>> /\ pc = "partitions" /\ pc' = "free_ramdisk" /\ fsm' = EmptyFsm
      /\ fsm.at > Len(f)
  BY DEF MountOverlays, At, Goto
<1>2. /\ Objects /\ Verified(mounts) /\ f \in Seq(Entry) /\ fsm.at \in Nat
      /\ \A mp \in Wanted : Covered(mp) \/ (mp # "/system" /\ Ahead(mp, fsm.at))
      /\ "/system" \in DOMAIN mounts \/ Ahead("/system", 1) => root = "system"
  BY <1>1 DEF Inv, Objects, Complete, IsFsm, Mounting
<1> DEFINE overlays == {i \in DOMAIN f : f[i].fs_type = "overlay"}
           At1(mp)  == CHOOSE i \in overlays : f[i].mount_point = mp
           New(ok) == [mp \in ok |-> [entry |-> f[At1(mp)], dev |-> "overlay",
                                      late |-> FALSE]]
<1>3. PICK ok \in SUBSET {f[i].mount_point : i \in overlays} : mounts' = AlsoMounted(New(ok))
  BY DEF MountOverlays
<1>4. DOMAIN New(ok) = ok /\ \A mp \in ok : Allowed(mp, New(ok)[mp])
  BY DEF Allowed
<1> HIDE DEF New
<1>5. Verified(mounts') /\ DOMAIN mounts' = ok \cup DOMAIN mounts
  BY <1>2, <1>3, <1>4, AlsoMountedIs
<1>6. Verified(mounts)'
  BY <1>1, <1>5, StaysVerified
<1>7. Objects'
  <2>1. IsFsm(fsm') /\ fsm'.fstab = <<>>
    BY <1>1, EmptyIsFsm
  <2>2. DOMAIN fsm'.fstab = {}
    BY <2>1
  <2>3. \A j \in DOMAIN fsm'.fstab : \E k \in DOMAIN fsm.fstab : fsm'.fstab[j] = fsm.fstab[k]
    BY <2>2
  <2> QED BY <1>1, <1>2, <2>1, <2>3, Fewer
<1>8. ASSUME NEW mp \in Wanted PROVE Covered(mp)'
  <2>1. ~Ahead(mp, fsm.at)
    BY <1>1, <1>2 DEF Ahead
  <2> QED BY <1>1, <1>2, <1>5, <2>1, StaysCovered
<1>9. ASSUME "/system" \in ok PROVE Ahead("/system", 1)
  <2>1. PICK i \in DOMAIN f : f[i].mount_point = "/system"
    BY <1>9
  <2>2. i >= 1
    BY <1>2
  <2> QED BY <2>1, <2>2 DEF Ahead
<1>10. pc' \notin Starting /\ pc' \notin Finding /\ pc' \notin Mounting
  BY <1>1 DEF Starting, Finding, Mounting
<1>11. Wanted' = Wanted
  BY <1>1 DEF Wanted
<1>12. "/system" \in DOMAIN mounts' => root' = "system"
  BY <1>1, <1>2, <1>5, <1>9
<1> QED BY <1>6, <1>7, <1>8, <1>10, <1>11, <1>12 DEF Inv, Complete

\* MountMissingSystemPartitions() only adds mounts, of partitions that the boot can do
\* without, and not /system.
LEMMA MountMissingInv ==
  ASSUME Inv, Idle, MountMissingSystemPartitions
  PROVE  Inv'
<1>1. /\ UNCHANGED <<boot, root, fsm>> /\ pc = "missing" /\ pc' = "read_policy"
      /\ Objects /\ Verified(mounts)
  BY DEF MountMissingSystemPartitions, At, Goto, Inv
<1> DEFINE like == boot.fstab[CHOOSE i \in IndexOf(boot.fstab, "/system") : TRUE]
           New(ok) == [mp \in ok |-> [entry |-> [like EXCEPT !.mount_point = mp],
                                      dev |-> "raw", late |-> TRUE]]
<1>2. PICK ok \in SUBSET ({"/system_ext", "/product"} \ DOMAIN mounts) :
         /\ ok # {} => table # "none"
         /\ mounts' = AlsoMounted(New(ok))
  BY DEF MountMissingSystemPartitions
<1>3. DOMAIN New(ok) = ok /\ \A mp \in ok : Allowed(mp, New(ok)[mp])
  <2> SUFFICES ASSUME NEW mp \in ok PROVE Dispensable(mp)
    BY DEF Allowed
  <2>1. pc \in HandingOver /\ ~IsRecoveryMode /\ mp \notin DOMAIN mounts
    BY <1>1, <1>2 DEF Idle, HandingOver
  <2>2. CASE mp \in Wanted
    BY <2>1, <2>2 DEF Inv, Complete, Covered
  <2>3. CASE mp \notin Wanted
    BY <2>3 DEF Dispensable, Wanted
  <2> QED BY <2>2, <2>3
<1> HIDE DEF New
<1>4. Verified(mounts') /\ DOMAIN mounts' = ok \cup DOMAIN mounts
  BY <1>1, <1>2, <1>3, AlsoMountedIs
<1>5. Verified(mounts)'
  BY <1>1, <1>4, StaysVerified
<1>6. Objects' /\ Wanted' = Wanted /\ (IsRecoveryMode' <=> IsRecoveryMode)
  <2>1. UNCHANGED boot /\ UNCHANGED fsm /\ UNCHANGED root /\ Objects
    BY <1>1
  <2> QED BY <2>1 DEF Objects, Agreeing, Verifiable, Copied, Wanted, IsRecoveryMode
<1>7. \A mp : Covered(mp) => Covered(mp)'
  BY <1>1, <1>4, StaysCovered
<1>8. "/system" \in DOMAIN mounts' => "/system" \in DOMAIN mounts
  BY <1>4
<1>9. pc \in HandingOver /\ pc' \notin Starting /\ pc' \notin Finding /\ pc' \notin Mounting
  BY <1>1 DEF HandingOver, Starting, Finding, Mounting
<1> QED BY <1>1, <1>5, <1>6, <1>7, <1>8, <1>9 DEF Inv, Complete

-----------------------------------------------------------------------------
(* All steps.                                                              *)

\* The end of DoCreateDevices() goes on within a stage.
LEMMA Returned ==
  ASSUME NEW ok, Return(ok)
  PROVE  pc' \in {"ramdisk_files", "use_dsu", "fatal"}
BY DEF Return, Goto, Fatal

\* The steps of FirstStageMain().
LEMMA FirstStageInv ==
  ASSUME FstabsAgree, Inv, FirstStageMain
  PROVE  Inv'
<1> USE DEF At, Goto, Fatal, disk
<1>0. IsFsm(fsm) /\ (UNCHANGED fsm => SameObject)
  BY DEF Inv, Objects, SameObject
<1>1. CASE EarlyMounts \/ LoadKernelModules \/ RamdiskFiles
  <2>1. UNCHANGED <<boot, mounts, fsm>> /\ pc \in Starting /\ pc' \in Starting \cup {"fatal"}
    BY <1>1 DEF EarlyMounts, LoadKernelModules, RamdiskFiles, Starting
  <2> QED BY <1>0, <2>1, Frame
<1>2. CASE Console
  <2>1. UNCHANGED <<boot, mounts>> /\ pc \in Starting
    BY <1>2 DEF Console, Starting
  <2>2. CASE UNCHANGED fsm /\ pc' \in Starting
    BY <1>0, <2>1, <2>2, Frame
  <2>3. CASE fsm' = [EmptyFsm EXCEPT !.fstab = boot.fstab] /\ pc' \in Finding
    BY <2>1, <2>3, NewObject
  <2> QED BY <1>2, <2>2, <2>3 DEF Console, Create, Starting, Finding
<1>3. CASE ForceNormalBoot
  <2>1. UNCHANGED <<boot, mounts, fsm>> /\ pc \in Starting /\ pc' \in Starting \cup {"fatal"}
    BY <1>3 DEF ForceNormalBoot, Starting
  <2> QED BY <1>0, <2>1, Frame
<1>4. CASE DoFirstStageMount
  <2>1. UNCHANGED <<boot, mounts, root>> /\ pc \in Starting
    BY <1>4 DEF DoFirstStageMount, Starting
  <2>2. CASE UNCHANGED fsm /\ pc' = "fatal"
    BY <1>0, <2>1, <2>2, Frame
  <2>3. CASE fsm' = [EmptyFsm EXCEPT !.fstab = boot.fstab] /\ pc' \in Finding
    BY <2>1, <2>3, NewObject
  <2>4. CASE IsRecoveryMode /\ UNCHANGED fsm /\ pc' = "free_ramdisk"
    <3>1. IsRecoveryMode'
      BY <2>1, <2>4 DEF IsRecoveryMode
    <3>2. pc' \notin Starting /\ pc' \notin Finding /\ pc' \notin Mounting
      BY <2>4 DEF Starting, Finding, Mounting
    <3>3. Verified(mounts)'
      BY <2>1, StaysVerified DEF Inv
    <3>4. Objects'
      <4>1. UNCHANGED boot /\ UNCHANGED fsm /\ Objects
        BY <2>1, <2>4 DEF Inv
      <4> QED BY <4>1 DEF Objects, Agreeing, Verifiable, Copied
    <3> QED BY <3>1, <3>2, <3>3, <3>4 DEF Inv, Complete
  <2> QED BY <1>4, <2>2, <2>3, <2>4 DEF DoFirstStageMount, Create, Finding
<1>5. CASE InitDevices
  <2>1. /\ UNCHANGED <<boot, mounts, root>> /\ pc \in Finding
        /\ \/ fsm' = [fsm EXCEPT !.super = IsDmLinearEnabled(fsm.fstab)] /\ pc' = "metadata"
           \/ UNCHANGED fsm /\ Return(FALSE)
    BY <1>5 DEF InitDevices, Finding
  <2>2. SameObject
    BY <1>0, <2>1 DEF SameObject, IsFsm
  <2>3. pc' \in Finding \/ pc' \in Starting \/ pc' = "fatal"
    BY <2>1, Returned DEF Finding, Starting
  <2> QED BY <2>1, <2>2, <2>3, Frame
<1>6. CASE CreateLogicalPartitions
  <2>1. /\ UNCHANGED <<boot, mounts, root, fsm>> /\ pc \in Finding
        /\ \E ok : Return(ok)
    BY <1>6 DEF CreateLogicalPartitions, Finding
  <2>2. pc' \in Finding \/ pc' \in Starting \/ pc' = "fatal"
    BY <2>1, Returned DEF Finding, Starting
  <2> QED BY <1>0, <2>1, <2>2, Frame
<1>7. CASE CreateSnapshotPartitions
  <2>1. /\ UNCHANGED <<boot, mounts, root>> /\ pc \in Finding
        /\ \/ fsm' = [fsm EXCEPT !.use_snapuserd = (boot.snapshots = "snapuserd")]
           \/ UNCHANGED fsm
        /\ pc' = "fatal" \/ \E ok : Return(ok)
    BY <1>7 DEF CreateSnapshotPartitions, Finding
  <2>2. SameObject
    BY <1>0, <2>1 DEF SameObject, IsFsm
  <2>3. pc' \in Finding \/ pc' \in Starting \/ pc' = "fatal"
    BY <2>1, Returned DEF Finding, Starting
  <2> QED BY <2>1, <2>2, <2>3, Frame
<1>8. CASE FreeRamdisk \/ SetInitAvbVersionInRecovery \/ Exec("exec_selinux_setup", "missing")
  <2>1. /\ UNCHANGED <<boot, mounts, root, fsm>> /\ pc \in HandingOver
        /\ pc' \in HandingOver \cup {"fatal"}
    BY <1>8 DEF FreeRamdisk, SetInitAvbVersionInRecovery, Exec, HandingOver
  <2> QED BY <1>0, <2>1, Frame
<1> QED BY <1>1, <1>2, <1>3, <1>4, <1>5, <1>6, <1>7, <1>8, MountMetadataInv, UseDsuInv,
           MountSystemInv, SkipMountsInv, MountPartitionsInv, MountOverlaysInv
       DEF FirstStageMain

\* The other steps of SetupSelinux() mount nothing.
LEMMA SetupSelinuxInv ==
  ASSUME Inv, SetupSelinux, ~MountMissingSystemPartitions
  PROVE  Inv'
<1>1. UNCHANGED <<boot, mounts, root, fsm>>
  BY DEF SetupSelinux, ReadPolicy, CreateIfNeeded, CacheContexts, LockAllSystemPages,
         DetachSnapuserd, KillFirstStageSnapuserd, LoadSelinuxPolicy, RelabelDevices,
         RelaunchFirstStageSnapuserd, UnlockPages, SelinuxSetEnforcement, RestoreconInit,
         Exec, disk
<1>2. pc \in HandingOver /\ pc' \in HandingOver \cup {"fatal"}
  BY DEF SetupSelinux, ReadPolicy, CreateIfNeeded, CacheContexts, LockAllSystemPages,
         DetachSnapuserd, KillFirstStageSnapuserd, LoadSelinuxPolicy, RelabelDevices,
         RelaunchFirstStageSnapuserd, UnlockPages, SelinuxSetEnforcement, RestoreconInit,
         Exec, At, Goto, Fatal, Abort, HandingOver
<1>3. SameObject
  BY <1>1 DEF Inv, Objects, SameObject
<1> QED BY <1>1, <1>2, <1>3, Frame

\* Before FirstStageMain() nothing is mounted and no object was made.
LEMMA InitInv ==
  ASSUME FstabsAgree, Init
  PROVE  Inv /\ Idle
<1>1. boot \in Boots /\ pc = "early" /\ fsm = EmptyFsm /\ mounts = <<>>
  BY DEF Init
<1>2. IsFsm(fsm) /\ DOMAIN fsm.fstab = {} /\ DOMAIN mounts = {}
  <2>1. IsFsm(fsm) /\ fsm.fstab = <<>>
    BY <1>1, EmptyIsFsm
  <2> QED BY <1>1, <2>1
<1>3. Objects
  BY <1>1, <1>2 DEF Objects, Agreeing, Copied
<1>4. Verified(mounts)
  BY <1>2 DEF Verified
<1>5. Complete
  BY <1>1, <1>2 DEF Complete, Starting, Finding, Mounting, HandingOver
<1>6. Idle
  BY DEF Init, Idle, Finding
<1> QED BY <1>3, <1>4, <1>5, <1>6 DEF Inv

\* Every step preserves the invariant.
LEMMA NextInv ==
  ASSUME FstabsAgree, Inv, Idle, [Next]_vars
  PROVE  Inv'
<1>1. CASE FirstStageMain
  BY <1>1, FirstStageInv
<1>2. CASE SetupSelinux
  BY <1>2, MountMissingInv, SetupSelinuxInv
<1>3. CASE UNCHANGED <<boot, mounts, root, fsm, pc>>
  <2>1. SameObject
    BY <1>3 DEF Inv, Objects, SameObject
  <2> QED BY <1>3, <2>1, Frame
<1>4. (\E d \in Devices : DeviceAppears(d)) \/ OldSnapuserdExits \/ SnapuserdExecFails
      \/ NewSnapuserdAttaches \/ UNCHANGED vars => UNCHANGED <<boot, mounts, root, fsm, pc>>
  BY DEF DeviceAppears, OldSnapuserdExits, SnapuserdExecFails, NewSnapuserdAttaches, vars, disk
<1> QED BY <1>1, <1>2, <1>3, <1>4 DEF Next

\* A recovery stays idle: the partitions are mapped for a normal boot only.
LEMMA NextIdle ==
  ASSUME Idle, [Next]_vars
  PROVE  Idle'
<1> DEFINE Busy == Finding \cup {"sehandle", "lock_pages", "detach"}
<1>1. SUFFICES ASSUME IsRecoveryMode' PROVE table' = "none" /\ pc' \notin Busy
  BY DEF Idle
<1>2. UNCHANGED boot /\ (UNCHANGED root \/ root' # "ramdisk")
  BY DEF Next, vars, disk, FirstStageMain, SetupSelinux, EarlyMounts, LoadKernelModules, Console,
         RamdiskFiles, ForceNormalBoot, SwitchRoot, DoFirstStageMount, InitDevices,
         MountMetadata, CreateLogicalPartitions, CreateSnapshotPartitions, UseDsu, MountSystem,
         SkipMounts, MountPartitions, MountOverlays, FreeRamdisk, SetInitAvbVersionInRecovery,
         Exec, MountMissingSystemPartitions, ReadPolicy, CreateIfNeeded, CacheContexts,
         LockAllSystemPages, DetachSnapuserd, KillFirstStageSnapuserd, LoadSelinuxPolicy,
         RelabelDevices, RelaunchFirstStageSnapuserd, UnlockPages, SelinuxSetEnforcement,
         RestoreconInit, DeviceAppears, OldSnapuserdExits, SnapuserdExecFails,
         NewSnapuserdAttaches
<1>3. IsRecoveryMode /\ table = "none" /\ pc \notin Busy
  BY <1>1, <1>2 DEF IsRecoveryMode, Idle
<1> USE DEF At, Goto, Fatal, Abort, snap
<1>4. CASE FirstStageMain
  <2>1. UNCHANGED table
    BY <1>3, <1>4 DEF FirstStageMain, EarlyMounts, LoadKernelModules, Console, RamdiskFiles,
           ForceNormalBoot, DoFirstStageMount, InitDevices, MountMetadata,
           CreateLogicalPartitions, CreateSnapshotPartitions, UseDsu, MountSystem, SkipMounts,
           MountPartitions, MountOverlays, FreeRamdisk, SetInitAvbVersionInRecovery, Exec, Finding
  <2>2. pc' \notin Busy
    BY <1>3, <1>4 DEF FirstStageMain, EarlyMounts, LoadKernelModules, Console, RamdiskFiles,
           ForceNormalBoot, DoFirstStageMount, InitDevices, MountMetadata,
           CreateLogicalPartitions, CreateSnapshotPartitions, UseDsu, MountSystem, SkipMounts,
           MountPartitions, MountOverlays, FreeRamdisk, SetInitAvbVersionInRecovery, Exec,
           MountFailed, Finding
  <2> QED BY <1>3, <2>1, <2>2
<1>5. CASE SetupSelinux
  <2>1. UNCHANGED table
    BY <1>3, <1>5 DEF SetupSelinux, MountMissingSystemPartitions, ReadPolicy, CreateIfNeeded,
           CacheContexts, LockAllSystemPages, DetachSnapuserd, KillFirstStageSnapuserd,
           LoadSelinuxPolicy, RelabelDevices, RelaunchFirstStageSnapuserd, UnlockPages,
           SelinuxSetEnforcement, RestoreconInit, Exec
  <2>2. pc' \notin Busy
    BY <1>3, <1>5 DEF SetupSelinux, MountMissingSystemPartitions, ReadPolicy, CreateIfNeeded,
           CacheContexts, LockAllSystemPages, DetachSnapuserd, KillFirstStageSnapuserd,
           LoadSelinuxPolicy, RelabelDevices, RelaunchFirstStageSnapuserd, UnlockPages,
           SelinuxSetEnforcement, RestoreconInit, Exec, Needed, Finding
  <2> QED BY <1>3, <2>1, <2>2
<1>6. (\E d \in Devices : DeviceAppears(d)) \/ OldSnapuserdExits \/ SnapuserdExecFails
      \/ NewSnapuserdAttaches \/ UNCHANGED vars => UNCHANGED <<table, pc>>
  BY DEF DeviceAppears, OldSnapuserdExits, SnapuserdExecFails, NewSnapuserdAttaches, vars
<1> QED BY <1>3, <1>4, <1>5, <1>6 DEF Next

\* The invariant implies the property.
LEMMA InvIsSound ==
  ASSUME Inv
  PROVE  MountsAreSound
<1>1. pc \in {"free_ramdisk", "missing", "second_stage"} => pc \in HandingOver
  BY DEF HandingOver
<1>2. ASSUME pc \in HandingOver, ~IsRecoveryMode, NEW i \in DOMAIN boot.fstab
      PROVE  boot.fstab[i].mount_point \in DOMAIN mounts \/ Optional(boot.fstab[i])
  BY <1>2 DEF Inv, Complete, Covered, Dispensable, Wanted
<1> QED BY <1>1, <1>2 DEF MountsAreSound, Inv, Verified, Allowed, Complete

\* MountsAreSound, for every set of boots whose fstabs agree with themselves, every
\* fstab among them and every order of failures, alternatives, updates and root
\* switches: unless verification is turned off, MountPartition() never mounts from the
\* bare partition what wants to be verified, MountMissingSystemPartitions() does so only
\* where the boot can do without the partition, and at the hand-over of first_stage_init
\* everything that it may not do without is mounted and /system is the root.
THEOREM MountsAreAlwaysSound ==
  ASSUME FstabsAgree
  PROVE  Spec => []MountsAreSound
<1>1. Init => Inv /\ Idle
  BY InitInv
<1>2. Inv /\ Idle /\ [Next]_vars => Inv' /\ Idle'
  BY NextInv, NextIdle
<1>3. Inv => MountsAreSound
  BY InvIsSound
<1> QED BY <1>1, <1>2, <1>3, PTL DEF Spec
=============================================================================
