----------------------------- MODULE FirstStage -----------------------------
(***************************************************************************)
(* The boot up to second-stage init: FirstStageMain() (first_stage_init),  *)
(* the FirstStageMount object that finds the devices and mounts the        *)
(* partitions (first_stage_mount, block_dev_initializer, switch_root), and *)
(* SetupSelinux() with the hand-over of the user-space snapshot daemon     *)
(* (selinux, snapuserd_transition).  Init is one thread; the kernel's      *)
(* devices and the snapuserd processes run beside it.                      *)
(*                                                                         *)
(* While an update is being merged, /system is a snapshot whose blocks a   *)
(* snapuserd process serves.  A read of it with no process attached to the *)
(* snapshot's table does not fail, it waits: the steps that read /system,  *)
(* and every step of an init whose code is on /system and not locked in    *)
(* memory, are guarded by Served.                                          *)
(*                                                                         *)
(* An external failure (a missing device, a mount that fails, fork...) is  *)
(* a choice of the step; `fault' remembers that init died of one, or the   *)
(* snapuserd it had started.                                               *)
(***************************************************************************)
EXTENDS Naturals, Sequences

CONSTANTS
    Boots,      \* the boots to consider, see BootType
    Devices,    \* the block devices the kernel may announce
    MountPoints

VARIABLES
    boot,       \* the parameters of this boot: ramdisk, command line, fstab
    pc,         \* the next step of init
    ret,        \* who called DoCreateDevices(): "console" or "mount"
    fsm,        \* the FirstStageMount object in use
    created,    \* created_devices of FirstStageMain()
    present,    \* devices the kernel has announced
    nodes,      \* device nodes made in /dev
    root,       \* what / is: "ramdisk", "first_stage_ramdisk", "system"
    ramdisk,    \* what is left of the ramdisk
    mounts,     \* mount point -> [entry, dev, late]: what is mounted, from what,
                \* and whether by SetupSelinux()
    dsu_keys,   \* /metadata/gsi/dsu/avb was refreshed from the ramdisk
    env,        \* the environment variables that cross execv
    table,      \* the device-mapper tables of the logical partitions
    procs,      \* the snapuserd processes: "first", "second", "starting"
    mem,        \* {"sehandle", "locked"}: cached contexts, mlock'ed init
    policy,     \* the SELinux policy: "none", what was read, "loaded"
    enforcing,
    fault

vars == <<boot, pc, ret, fsm, created, present, nodes, root, ramdisk, mounts,
          dsu_keys, env, table, procs, mem, policy, enforcing, fault>>

\* Groups of variables for UNCHANGED.
disk   == <<root, ramdisk, mounts, dsu_keys>>
snap   == <<table, procs, mem>>
sel    == <<policy, enforcing>>
kernel == <<present, nodes>>

Flags == {"logical", "avb", "verify", "verify_at_boot", "no_fail", "formattable"}

Entry == [mount_point : MountPoints, blk : Devices, flags : SUBSET Flags,
          avb_keys : {"", "avb", "vendor_avb"}, fs_type : {"ext4", "erofs", "overlay", "emmc"}]

\* What the ramdisk, the command line and the partitions of a boot are like.
BootType ==
    [fstab : Seq(Entry), recovery : BOOLEAN, force_normal : BOOLEAN,
     console : {"disabled", "on_failure", "ignored"}, debug : BOOLEAN, unlocked : BOOLEAN,
     dt_vbmeta : BOOLEAN, verity_disabled : BOOLEAN, snapshots : {"none", "kernel", "snapuserd"},
     dsu : BOOLEAN, skip : SUBSET MountPoints,
     split_policy : BOOLEAN, policy_matches : BOOLEAN, enforcing : BOOLEAN]

\* Snapshots are of dynamic partitions, of which /system is one.
ASSUME BootsAssumption ==
    /\ Boots \subseteq BootType
    /\ \A b \in Boots : b.snapshots = "snapuserd" =>
          \E i \in DOMAIN b.fstab : b.fstab[i].mount_point = "/system"

Ends == {"second_stage", "fatal"}

Has(e, flag) == flag \in e.flags

EmptyFsm == [fstab |-> <<>>, use_snapuserd |-> FALSE, super |-> FALSE,
             keys |-> {}, at |-> 1]

Init == /\ boot \in Boots
        /\ pc = "early" /\ ret = "mount"
        /\ fsm = EmptyFsm
        /\ created = FALSE
        /\ present \in {{}, Devices} /\ nodes = {}
        /\ root = "ramdisk" /\ ramdisk = {"files", "snapuserd"}
        /\ mounts = <<>>
        /\ dsu_keys = FALSE
        /\ env = {}
        /\ table = "none" /\ procs = {} /\ mem = {}
        /\ policy = "none" /\ enforcing = FALSE
        /\ fault = FALSE

-----------------------------------------------------------------------------
(* Sequencing, and the conditions that the whole code consults.            *)

At(step) == pc = step
Goto(step) == pc' = step

\* LOG(FATAL) for a reason outside init, and for one of its own.
Fatal   == pc' = "fatal" /\ fault' = TRUE
Abort   == pc' = "fatal" /\ fault' = FALSE

\* IsRecoveryMode(): /system/bin/recovery exists, in the root of the moment.
IsRecoveryMode == root = "ramdisk" /\ boot.recovery

\* The blocks of the logical partitions can be read.
Served == /\ table = "first"  => "first" \in procs
          /\ table = "second" => "second" \in procs

\* Init can execute its next instruction: its pages are in memory.
Runs == root = "system" => "locked" \in mem \/ Served

IsDmLinearEnabled(fstab) == \E i \in DOMAIN fstab : Has(fstab[i], "logical")

UsesAvb(fstab) == \E i \in DOMAIN fstab : Has(fstab[i], "avb")

\* The second version of verified boot, by the fstab or by the device tree.
IsDtVbmetaCompatible(b) == UsesAvb(b.fstab) \/ b.dt_vbmeta

-----------------------------------------------------------------------------
(* FirstStageMain(), up to the mounts.                                     *)

\* The mounts and nodes of CHECKCALL; any error is fatal, after all of them.
EarlyMounts == /\ At("early")
               /\ \/ Goto("modules") /\ UNCHANGED fault
                  \/ Fatal
               /\ UNCHANGED <<boot, ret, fsm, created, kernel, disk, env, snap, sel>>

\* A failure to load is survived when a console was asked for.
LoadKernelModules ==
    /\ At("modules")
    /\ \E ok \in BOOLEAN :
          IF ok \/ boot.console # "disabled"
          THEN Goto("console") /\ UNCHANGED fault
          ELSE Fatal
    /\ UNCHANGED <<boot, ret, fsm, created, kernel, disk, env, snap, sel>>

\* FirstStageMount::Create() and the call of DoCreateDevices().
Create(caller) == /\ fsm' = [EmptyFsm EXCEPT !.fstab = boot.fstab]
                  /\ ret' = caller
                  /\ Goto("init_devices")

\* Devices are made early for a console on failure, by an object of its own; an
\* fstab that cannot be read is only logged.
Console ==
    /\ At("console")
    /\ \/ boot.console = "on_failure" /\ ~IsRecoveryMode /\ Create("console")
       \/ Goto("ramdisk_files") /\ UNCHANGED <<fsm, ret>>
    /\ UNCHANGED <<boot, created, kernel, disk, env, snap, sel, fault>>

\* Files of the ramdisk kept for the later stages; the copy of the debug files
\* may fail, and then the boot goes on without them.
RamdiskFiles ==
    /\ At("ramdisk_files")
    /\ \/ /\ Goto("force_normal")
          /\ \/ boot.debug /\ env' = env \cup {"FORCE_DEBUGGABLE"}
             \/ UNCHANGED env
          /\ UNCHANGED fault
       \/ Fatal /\ UNCHANGED env
    /\ UNCHANGED <<boot, ret, fsm, created, kernel, disk, snap, sel>>

\* SwitchRoot(): the mounts move along, and nothing of the old root is seen.
SwitchRoot(new_root) == root' = new_root

\* A forced normal boot of a recovery ramdisk moves into its subdirectory.
ForceNormalBoot ==
    /\ At("force_normal")
    /\ IF boot.force_normal
       THEN \/ SwitchRoot("first_stage_ramdisk") /\ Goto("mount") /\ UNCHANGED fault
            \/ Fatal /\ UNCHANGED root
       ELSE Goto("mount") /\ UNCHANGED <<root, fault>>
    /\ UNCHANGED <<boot, ret, fsm, created, kernel, ramdisk, mounts, dsu_keys, env, snap, sel>>

\* DoFirstStageMount(create_devices); a new object, whatever the console did.
DoFirstStageMount ==
    /\ At("mount")
    /\ IF IsRecoveryMode
       THEN Goto("free_ramdisk") /\ UNCHANGED <<fsm, ret, fault>>
       ELSE \/ Fatal /\ UNCHANGED <<fsm, ret>>      \* the fstab cannot be read
            \/ /\ UNCHANGED fault
               /\ IF created
                  THEN /\ fsm' = [EmptyFsm EXCEPT !.fstab = boot.fstab]
                       /\ Goto("use_dsu") /\ UNCHANGED ret
                  ELSE Create("mount")
    /\ UNCHANGED <<boot, created, kernel, disk, env, snap, sel>>

-----------------------------------------------------------------------------
(* DoCreateDevices(): find the devices, mount /metadata, map the logical   *)
(* partitions, with their snapshots when an update is being merged.        *)

\* What DoCreateDevices() answers to its two callers: the failure of the early
\* one is only logged, and the devices are made again later.
Return(ok) ==
    IF ret = "console"
    THEN Goto("ramdisk_files") /\ created' = ok /\ UNCHANGED fault
    ELSE /\ UNCHANGED created
         /\ IF ok THEN Goto("use_dsu") /\ UNCHANGED fault ELSE Fatal

\* GetSuperDeviceName() and GetDmVerityDevices() of the two boot versions.
RequiredDevices(fstab) ==
    LET real == {i \in DOMAIN fstab : fstab[i].fs_type # "overlay"}
    IN  {"device-mapper"}
        \cup (IF IsDmLinearEnabled(fstab) THEN {"super"} ELSE {})
        \cup {fstab[i].blk : i \in {j \in real : ~Has(fstab[j], "logical")}}
        \cup (IF UsesAvb(fstab) THEN {"vbmeta"} ELSE {})

\* Version 1 refuses a partition to be verified at boot.
Refused(fstab) == /\ ~IsDtVbmetaCompatible(boot)
                  /\ \E i \in DOMAIN fstab : Has(fstab[i], "verify_at_boot")

\* BlockDevInitializer: the devices /sys shows, or whose uevents arrive before
\* the timeout.
Found(devices) == devices \subseteq present

\* FirstStageMount::InitDevices(): nodes for all of them, or none of the rest.
InitDevices ==
    /\ At("init_devices")
    /\ IF Found(RequiredDevices(fsm.fstab)) /\ ~Refused(fsm.fstab)
       THEN /\ nodes' = nodes \cup RequiredDevices(fsm.fstab)
            /\ fsm' = [fsm EXCEPT !.super = IsDmLinearEnabled(fsm.fstab)]
            /\ Goto("metadata") /\ UNCHANGED <<created, fault>>
       ELSE Return(FALSE) /\ UNCHANGED <<fsm, nodes>>
    /\ UNCHANGED <<boot, ret, present, disk, env, snap, sel>>

\* A device appears.
DeviceAppears(d) == /\ d \notin present /\ pc \notin Ends
                    /\ present' = present \cup {d}
                    /\ UNCHANGED <<boot, pc, ret, fsm, created, nodes, disk, env, snap, sel, fault>>

\* SetUpDmVerity() of the two versions: the possible devices to mount entry e
\* from, the one made for it or the bare partition, "fail" if it fails.  The first
\* leaves the partition bare when its own metadata turn verification off...
SetUpDmVerityV1(e) ==
    IF Has(e, "verify") THEN {"verity", "fail"} \cup IF boot.verity_disabled THEN {"raw"} ELSE {}
    ELSE {"raw"}

\* ... the second when vbmeta does.  A standalone image is checked with the keys
\* preloaded for it, and falls back to the built-in tree of an entry that has one.
SetUpDmVerityV2(keys, e) ==
    IF e.avb_keys = "" /\ ~Has(e, "avb") THEN {"raw"}
    ELSE {"fail"} \cup IF boot.verity_disabled THEN {"raw"}
                       ELSE IF Has(e, "avb") \/ <<e.avb_keys, "key">> \in keys THEN {"verity"}
                       ELSE {}

\* The version is that of the object, from the fstab it was made with.
SetUpDmVerity(keys, e) ==
    IF IsDtVbmetaCompatible(boot) THEN SetUpDmVerityV2(keys, e) ELSE SetUpDmVerityV1(e)

\* The entries after i for the same mount point.
SameMounts(fstab, i) ==
    {j \in DOMAIN fstab : j > i /\ \A k \in i..j : fstab[k].mount_point = fstab[i].mount_point}

\* blk_device is not copied from the first entry.
AlternativeDevice_Own(dev) == "raw"
\* An alternative is mounted from the device made for the first entry.
AlternativeDevice(dev) == dev

\* MountPartition(): the ways the mount of the entries of fstab[i]'s mount
\* point may end.  `tried' is false when the partition could not be prepared
\* and the alternatives are left alone; entry is 0 when nothing was mounted.
\* The kernel refuses the same file system twice on one mount point.
MountPartition(o, i) ==
    LET group == {i} \cup SameMounts(o.fstab, i)
        busy  == o.fstab[i].mount_point \in DOMAIN mounts
        devs  == SetUpDmVerity(o.keys, o.fstab[i]) \ {"fail"}
    IN  {[tried |-> FALSE, entry |-> 0, dev |-> "none"]}
        \cup {[tried |-> TRUE, entry |-> 0, dev |-> "none"] : dev \in devs}
        \cup {[tried |-> TRUE, entry |-> j,
               dev |-> IF j = i THEN dev ELSE AlternativeDevice(dev)] :
              j \in (IF busy THEN {} ELSE group), dev \in devs}

\* The entry after the ones a MountPartition() dealt with: the next one, or the next
\* that is not an alternative.
EndOf(fstab, i, m) ==
    IF m.tried THEN CHOOSE k \in i + 1..Len(fstab) + 1 : i + 1..k - 1 = SameMounts(fstab, i)
    ELSE i + 1

\* The mounts, with those of `new' in front.
AlsoMounted(new) == [mp \in DOMAIN new \cup DOMAIN mounts |->
                        IF mp \in DOMAIN new THEN new[mp] ELSE mounts[mp]]

Mounted(fstab, m) ==
    IF m.entry = 0 THEN mounts
    ELSE AlsoMounted([mp \in {fstab[m.entry].mount_point} |->
                         [entry |-> fstab[m.entry], dev |-> m.dev, late |-> FALSE]])

\* A failed mount is an external failure only if it could have succeeded.
MountFailed(o, i) == /\ pc' = "fatal"
                     /\ fault' = \E m \in MountPartition(o, i) : m.entry # 0

\* InitAvbHandle(): INIT_AVB_VERSION is set once vbmeta was opened, which a
\* failed set-up may or may not have come to.
InitAvbHandle(e, m) ==
    IF IsDtVbmetaCompatible(boot) /\ (e.avb_keys # "" \/ Has(e, "avb"))
    THEN {{"AVB_VERSION"}} \cup (IF m.tried THEN {} ELSE {{}})
    ELSE {{}}

\* The first entry for a mount point, as a set of at most one.
IndexOf(fstab, mp) == {i \in DOMAIN fstab : /\ fstab[i].mount_point = mp
                                            /\ \A j \in 1..i-1 : fstab[j].mount_point # mp}

\* /metadata is mounted first, its entries leave the fstab, and the keys for
\* dynamic system updates are copied to it while the ramdisk is visible.
MountMetadata ==
    /\ At("metadata")
    /\ IF IndexOf(fsm.fstab, "/metadata") = {}
       THEN UNCHANGED <<fsm, mounts, dsu_keys, env>>
       ELSE \E i \in IndexOf(fsm.fstab, "/metadata") : \E m \in MountPartition(fsm, i) :
               /\ mounts' = Mounted(fsm.fstab, m)
               /\ env' \in {env \cup v : v \in InitAvbHandle(fsm.fstab[i], m)}
               /\ fsm' = [fsm EXCEPT !.fstab =
                             IF m.tried
                             THEN SubSeq(@, 1, i - 1) \o SubSeq(@, EndOf(@, i, m), Len(@))
                             ELSE @]
               /\ dsu_keys' = (dsu_keys \/ m.entry # 0)
    /\ Goto("logical")
    /\ UNCHANGED <<boot, ret, created, kernel, root, ramdisk, snap, sel, fault>>

\* CreateLogicalPartitions(): no partition is dynamic, or no merge is going on.
CreateLogicalPartitions ==
    /\ At("logical")
    /\ boot.snapshots = "none" \/ ~fsm.super
    /\ \E ok \in (IF fsm.super THEN BOOLEAN ELSE {TRUE}) :
          /\ table' = IF ok /\ fsm.super THEN "linear" ELSE table
          /\ Return(ok)
    /\ UNCHANGED <<boot, ret, fsm, kernel, disk, env, procs, mem, sel>>

\* LaunchFirstStageSnapuserd(): the environment remembers that it runs.
LaunchFirstStageSnapuserd == /\ env' = env \cup {"SNAPUSERD_PID"}
                             /\ procs' = procs \cup {"first"}

\* CreateSnapshotPartitions(): the kernel's snapshots, or those of snapuserd,
\* which is launched before they are mapped and told afterwards to serve
\* nobody else (CleanupSnapuserdSocket).
CreateSnapshotPartitions ==
    /\ At("logical")
    /\ boot.snapshots # "none" /\ fsm.super
    /\ LET user == boot.snapshots = "snapuserd"
       IN  \/ ~Found({"userdata"}) /\ Return(FALSE) /\ UNCHANGED <<fsm, nodes, env, table, procs>>
           \/ user /\ Found({"userdata"}) /\ Fatal /\ UNCHANGED <<created, fsm, nodes, env, table, procs>>
           \/ /\ Found({"userdata"})
              /\ nodes' = nodes \cup {"userdata"}
              /\ fsm' = [fsm EXCEPT !.use_snapuserd = user]
              /\ IF user THEN LaunchFirstStageSnapuserd ELSE UNCHANGED <<env, procs>>
              /\ \E ok \in BOOLEAN :
                    /\ table' = CASE ~ok -> table [] ok /\ user -> "first" [] OTHER -> "linear"
                    /\ Return(ok)
    /\ UNCHANGED <<boot, ret, present, disk, mem, sel>>

-----------------------------------------------------------------------------
(* FirstStageMount::DoFirstStageMount(): the mounts, the switch to /system.*)

\* The keys the avb_keys paths lead to: they are files of the ramdisk.
KeysUnder(where, paths) == IF where = "system" THEN {} ELSE {<<p, "key">> : p \in paths}

AvbKeys(fstab) == {fstab[i].avb_keys : i \in DOMAIN fstab} \ {""}

\* TransformFstabForDsu() makes /system an image checked with the keys under
\* /avb.
TransformFstabForDsu(fstab) ==
    [i \in DOMAIN fstab |-> IF fstab[i].mount_point = "/system"
                            THEN [fstab[i] EXCEPT !.flags = {"logical"}, !.avb_keys = "avb"]
                            ELSE fstab[i]]

\* UseDsuIfPresent(): what the object becomes if the update is set up or not.
UseDsuIfPresent(dsu) ==
    [fsm EXCEPT !.fstab = IF dsu THEN TransformFstabForDsu(@) ELSE @]

\* PreloadAvbKeys(): every key any entry may need, while the ramdisk is visible.
PreloadAvbKeys(o) == [o EXCEPT !.keys = KeysUnder(root, AvbKeys(o.fstab))]

\* The beginning of the mounts; an update that cannot be set up is ignored.
UseDsu ==
    /\ At("use_dsu")
    /\ IF fsm.fstab = <<>>
       THEN Goto("free_ramdisk") /\ UNCHANGED fsm
       ELSE /\ \E dsu \in (IF boot.dsu THEN BOOLEAN ELSE {FALSE}) :
                  fsm' = PreloadAvbKeys(UseDsuIfPresent(dsu))
            /\ Goto("system")
    /\ UNCHANGED <<boot, ret, created, kernel, disk, env, snap, sel, fault>>

\* SaveRamdiskPathToSnapuserd(), by the object that launched the daemon.
SaveRamdiskPathToSnapuserd == IF fsm.use_snapuserd THEN {"SNAPUSERD_FD"} ELSE {}

\* The rest of TrySwitchSystemAsRoot(): mount /system and make it the root,
\* unless the medium of an update does not allow the way it is verified or the
\* switch fails.
MountSystem ==
    /\ At("system")
    /\ Served
    /\ IF IndexOf(fsm.fstab, "/system") = {}
       THEN Goto("skip_mounts") /\ UNCHANGED <<root, mounts, env, fault>>
       ELSE \E i \in IndexOf(fsm.fstab, "/system") : \E m \in MountPartition(fsm, i) :
               /\ mounts' = Mounted(fsm.fstab, m)
               /\ env' \in {env \cup SaveRamdiskPathToSnapuserd \cup v :
                               v \in InitAvbHandle(fsm.fstab[i], m)}
               /\ \/ m.entry = 0 /\ MountFailed(fsm, i) /\ UNCHANGED root
                  \/ m.entry # 0 /\ SwitchRoot("system") /\ Goto("skip_mounts") /\ UNCHANGED fault
                  \/ m.entry # 0 /\ Fatal /\ UNCHANGED root
    /\ UNCHANGED <<boot, ret, fsm, created, kernel, ramdisk, dsu_keys, snap, sel>>

\* SkipMountingPartitions(): without what a file of /system says not to mount.
SkipMountingPartitions(fstab) ==
    LET Kept[i \in 0..Len(fstab)] ==
          IF i = 0 THEN <<>>
          ELSE IF fstab[i].mount_point \notin boot.skip THEN Append(Kept[i - 1], fstab[i])
          ELSE Kept[i - 1]
    IN  Kept[Len(fstab)]

SkipMounts ==
    /\ At("skip_mounts")
    /\ \/ /\ fsm' = [fsm EXCEPT !.fstab = SkipMountingPartitions(@), !.at = 1]
          /\ Goto("partitions") /\ UNCHANGED fault
       \/ Fatal /\ UNCHANGED fsm
    /\ UNCHANGED <<boot, ret, created, kernel, disk, env, snap, sel>>

\* One round of the loop of MountPartitions().
MountPartitions ==
    /\ At("partitions") /\ fsm.at <= Len(fsm.fstab)
    /\ Served
    /\ LET e == fsm.fstab[fsm.at]
       IN  IF e.mount_point = "/system" \/ e.fs_type \in {"overlay", "emmc"}
           THEN /\ fsm' = [fsm EXCEPT !.at = @ + 1]
                /\ UNCHANGED <<pc, mounts, env, fault>>
           ELSE \E m \in MountPartition(fsm, fsm.at) :
                   /\ mounts' = Mounted(fsm.fstab, m)
                   /\ env' \in {env \cup v : v \in InitAvbHandle(e, m)}
                   /\ fsm' = [fsm EXCEPT !.at = EndOf(fsm.fstab, @, m)]
                   /\ IF m.entry = 0 /\ ~Has(e, "no_fail") /\ ~Has(e, "formattable")
                      THEN MountFailed(fsm, fsm.at)
                      ELSE UNCHANGED <<pc, fault>>
    /\ UNCHANGED <<boot, ret, created, kernel, root, ramdisk, dsu_keys, snap, sel>>

\* The overlays, once everything below them is there; none of them is required.
MountOverlays ==
    /\ At("partitions") /\ fsm.at > Len(fsm.fstab)
    /\ LET overlays == {i \in DOMAIN fsm.fstab : fsm.fstab[i].fs_type = "overlay"}
           At1(mp)  == CHOOSE i \in overlays : fsm.fstab[i].mount_point = mp
       IN  \E ok \in SUBSET {fsm.fstab[i].mount_point : i \in overlays} :
              mounts' = AlsoMounted([mp \in ok |->
                                        [entry |-> fsm.fstab[At1(mp)], dev |-> "overlay",
                                         late |-> FALSE]])
    /\ fsm' = EmptyFsm
    /\ Goto("free_ramdisk")
    /\ UNCHANGED <<boot, ret, created, kernel, root, ramdisk, dsu_keys, env, snap, sel, fault>>

-----------------------------------------------------------------------------
(* The end of the first stage, and SetupSelinux().                         *)

\* FreeRamdisk() when / is another device: snapuserd is kept while it runs.
FreeRamdisk ==
    /\ At("free_ramdisk")
    /\ ramdisk' = IF root # "system" THEN ramdisk
                  ELSE IF "SNAPUSERD_PID" \in env THEN {"snapuserd"} ELSE {}
    /\ Goto("avb_recovery")
    /\ UNCHANGED <<boot, ret, fsm, created, kernel, root, mounts, dsu_keys, env, snap, sel, fault>>

\* SetInitAvbVersionInRecovery(): devices only, nothing is mounted.
SetInitAvbVersionInRecovery ==
    /\ At("avb_recovery")
    /\ IF /\ IsRecoveryMode /\ IsDtVbmetaCompatible(boot)
          /\ Found(RequiredDevices(boot.fstab))
       THEN /\ nodes' = nodes \cup RequiredDevices(boot.fstab)
            /\ env' \in {env, env \cup {"AVB_VERSION"}}
       ELSE UNCHANGED <<nodes, env>>
    /\ Goto("exec_selinux_setup")
    /\ UNCHANGED <<boot, ret, fsm, created, present, disk, snap, sel, fault>>

\* execv of the next stage, from the root of the moment.
Exec(step, next) == /\ At(step)
                    /\ root = "system" => Served
                    /\ \/ Goto(next) /\ UNCHANGED fault
                       \/ Fatal
                    /\ UNCHANGED <<boot, ret, fsm, created, kernel, disk, env, snap, sel>>

\* MountMissingSystemPartitions(): what an old fstab does not know of, and what
\* could not be mounted before, is mounted like /system, when /system is dynamic.
\* Nothing sets up dm-verity for it; failures are only logged.
MountMissingSystemPartitions ==
    /\ At("missing") /\ Runs
    /\ LET system  == IndexOf(boot.fstab, "/system")
           dynamic == table # "none" /\ \E i \in system : Has(boot.fstab[i], "logical")
           missing == {"/system_ext", "/product"} \ (DOMAIN mounts \cup boot.skip)
           like    == boot.fstab[CHOOSE i \in system : TRUE]
       IN  \E ok \in SUBSET (IF dynamic THEN missing ELSE {}) :
              mounts' = AlsoMounted([mp \in ok |-> [entry |-> [like EXCEPT !.mount_point = mp],
                                                     dev |-> "raw", late |-> TRUE]])
    /\ Goto("read_policy")
    /\ UNCHANGED <<boot, ret, fsm, created, kernel, root, ramdisk, dsu_keys, env, snap, sel, fault>>

\* OpenSplitPolicy(), OpenMonolithicPolicy(): a debug build of an unlocked
\* device compiles its own; a precompiled policy must match the platform's.
PolicySource ==
    CASE ~boot.split_policy -> "monolithic"
      [] boot.split_policy /\ "FORCE_DEBUGGABLE" \in env /\ boot.unlocked -> "userdebug"
      [] OTHER -> IF boot.policy_matches THEN "precompiled" ELSE "compiled"

\* ReadPolicy(): before anything of snapuserd is touched.
ReadPolicy ==
    /\ At("read_policy") /\ Runs /\ Served
    /\ \/ policy' = PolicySource /\ Goto("transition") /\ UNCHANGED fault
       \/ Fatal /\ UNCHANGED policy
    /\ UNCHANGED <<boot, ret, fsm, created, kernel, disk, env, snap, enforcing>>

\* SnapuserdSelinuxHelper::CreateIfNeeded(): is there a daemon to hand over?
Needed == ~IsRecoveryMode /\ "SNAPUSERD_PID" \in env

CreateIfNeeded ==
    /\ At("transition") /\ Runs
    /\ \/ Goto(IF Needed THEN "sehandle" ELSE "load_policy") /\ UNCHANGED fault
       \/ Needed /\ Fatal
    /\ UNCHANGED <<boot, ret, fsm, created, kernel, disk, env, snap, sel>>

\* StartTransition(), in four steps.  The file contexts are read and cached...
CacheContexts ==
    /\ At("sehandle") /\ Runs /\ Served
    /\ \/ mem' = mem \cup {"sehandle"} /\ Goto("lock_pages") /\ UNCHANGED fault
       \/ Fatal /\ UNCHANGED mem
    /\ UNCHANGED <<boot, ret, fsm, created, kernel, disk, env, table, procs, sel>>

\* Init is not pinned in memory.
LockedPages_None(m) == m
\* What mlock adds.
LockedPages(m) == m \cup {"locked"}

\* ... init is pinned in memory, which faults every page of it in...
LockAllSystemPages ==
    /\ At("lock_pages") /\ Runs /\ Served
    /\ \/ mem' = LockedPages(mem) /\ Goto("detach") /\ UNCHANGED fault
       \/ Fatal /\ UNCHANGED mem
    /\ UNCHANGED <<boot, ret, fsm, created, kernel, disk, env, table, procs, sel>>

\* ... the tables are rewritten for a new daemon, outstanding I/O is flushed...
DetachSnapuserd ==
    /\ At("detach") /\ Runs /\ Served
    /\ \/ table' = "second" /\ Goto("kill") /\ UNCHANGED fault
       \/ Fatal /\ UNCHANGED table
    /\ UNCHANGED <<boot, ret, fsm, created, kernel, disk, env, procs, mem, sel>>

\* ... and the old daemon is sent SIGTERM; nobody waits for its end.
KillFirstStageSnapuserd ==
    /\ At("kill") /\ Runs
    /\ procs' = (procs \ {"first"}) \cup {"dying"}
    /\ Goto("load_policy")
    /\ UNCHANGED <<boot, ret, fsm, created, kernel, disk, env, table, mem, sel, fault>>

OldSnapuserdExits ==
    /\ "dying" \in procs
    /\ procs' = procs \ {"dying"}
    /\ UNCHANGED <<boot, pc, ret, fsm, created, kernel, disk, env, table, mem, sel, fault>>

LoadSelinuxPolicy ==
    /\ At("load_policy") /\ Runs
    /\ \/ policy' = "loaded" /\ Goto(IF Needed THEN "relabel" ELSE "enforce") /\ UNCHANGED fault
       \/ Fatal /\ UNCHANGED policy
    /\ UNCHANGED <<boot, ret, fsm, created, kernel, disk, env, snap, enforcing>>

\* FinishTransition(), in three steps: the devices snapuserd needs are
\* relabelled from the cached contexts...
RelabelDevices ==
    /\ At("relabel") /\ Runs
    /\ "sehandle" \in mem \/ Served
    /\ Goto("relaunch")
    /\ UNCHANGED <<boot, ret, fsm, created, kernel, disk, env, snap, sel, fault>>

\* ... the ramdisk's snapuserd is started through the descriptor kept for it...
RelaunchFirstStageSnapuserd ==
    /\ At("relaunch") /\ Runs
    /\ IF "SNAPUSERD_FD" \notin env
       THEN Abort /\ UNCHANGED <<env, procs>>
       ELSE \/ /\ env' = env \ {"SNAPUSERD_FD"}
               /\ procs' = procs \cup {"starting"}
               /\ Goto("unlock_pages") /\ UNCHANGED fault
            \/ Fatal /\ UNCHANGED <<env, procs>>
    /\ UNCHANGED <<boot, ret, fsm, created, kernel, disk, table, mem, sel>>

\* ... and init is released.
UnlockPages ==
    /\ At("unlock_pages") /\ Runs
    /\ mem' = mem \ {"locked"}
    /\ Goto("enforce")
    /\ UNCHANGED <<boot, ret, fsm, created, kernel, disk, env, table, procs, sel, fault>>

\* The child cannot execute snapuserd and aborts alone; init learns nothing of it.
SnapuserdExecFails ==
    /\ "starting" \in procs
    /\ procs' = procs \ {"starting"}
    /\ fault' = TRUE
    /\ UNCHANGED <<boot, pc, ret, fsm, created, kernel, disk, env, table, mem, sel>>

\* The new daemon attaches to the new tables.
NewSnapuserdAttaches ==
    /\ "starting" \in procs
    /\ procs' = (procs \ {"starting"}) \cup {"second"}
    /\ UNCHANGED <<boot, pc, ret, fsm, created, kernel, disk, env, table, mem, sel, fault>>

SelinuxSetEnforcement ==
    /\ At("enforce") /\ Runs
    /\ \/ enforcing' = boot.enforcing /\ Goto("restorecon_init") /\ UNCHANGED fault
       \/ Fatal /\ UNCHANGED enforcing
    /\ UNCHANGED <<boot, ret, fsm, created, kernel, disk, env, snap, policy>>

\* The restorecon of /system/bin/init reads it.
RestoreconInit ==
    /\ At("restorecon_init") /\ Runs /\ Served
    /\ \/ Goto("exec_second_stage") /\ UNCHANGED fault
       \/ Fatal
    /\ UNCHANGED <<boot, ret, fsm, created, kernel, disk, env, snap, sel>>

-----------------------------------------------------------------------------
FirstStageMain ==
    \/ EarlyMounts \/ LoadKernelModules \/ Console \/ RamdiskFiles \/ ForceNormalBoot
    \/ DoFirstStageMount
    \/ InitDevices \/ MountMetadata \/ CreateLogicalPartitions \/ CreateSnapshotPartitions
    \/ UseDsu \/ MountSystem \/ SkipMounts \/ MountPartitions \/ MountOverlays
    \/ FreeRamdisk \/ SetInitAvbVersionInRecovery
    \/ Exec("exec_selinux_setup", "missing")

SetupSelinux ==
    \/ MountMissingSystemPartitions \/ ReadPolicy
    \/ CreateIfNeeded \/ CacheContexts \/ LockAllSystemPages \/ DetachSnapuserd
    \/ KillFirstStageSnapuserd
    \/ LoadSelinuxPolicy
    \/ RelabelDevices \/ RelaunchFirstStageSnapuserd \/ UnlockPages
    \/ SelinuxSetEnforcement \/ RestoreconInit
    \/ Exec("exec_second_stage", "second_stage")

Next == \/ FirstStageMain
        \/ SetupSelinux
        \/ \E d \in Devices : DeviceAppears(d)
        \/ OldSnapuserdExits
        \/ SnapuserdExecFails
        \/ NewSnapuserdAttaches

\* Init runs, and a daemon that was started comes to attach.  No device need
\* ever appear: the waits for them time out.
Fairness == WF_vars(FirstStageMain \/ SetupSelinux) /\ WF_vars(NewSnapuserdAttaches)

Spec == Init /\ [][Next]_vars /\ Fairness

-----------------------------------------------------------------------------
(* Properties.                                                             *)

WantsVerity(e) == e.avb_keys # "" \/ e.flags \cap {"avb", "verify"} # {}

Spare(e) == \/ e.flags \cap {"no_fail", "formattable"} # {}
            \/ e.fs_type \in {"overlay", "emmc"}

Optional(e) == Spare(e) \/ e.mount_point \in boot.skip

\* What an fstab has to be like for that.  Alternatives agree on whether they are
\* verified and required, because only the first entry of a mount point is set up
\* and asked; there is one version of verified boot, to which alone the object
\* listens, and the images of a dynamic update need the second; and the boot can do
\* without /metadata, whose entries leave the fstab also when no mount succeeds.
FstabsAgree ==
    \A b \in Boots :
       LET f == b.fstab
       IN  /\ \A i, j \in DOMAIN f : f[i].mount_point = f[j].mount_point =>
                 (WantsVerity(f[i]) <=> WantsVerity(f[j])) /\ (Spare(f[i]) <=> Spare(f[j]))
           /\ \A i \in DOMAIN f : WantsVerity(f[i]) =>
                 IF IsDtVbmetaCompatible(b) THEN f[i].avb_keys # "" \/ Has(f[i], "avb")
                                            ELSE Has(f[i], "verify")
           /\ b.dsu => IsDtVbmetaCompatible(b)
           /\ \A i \in DOMAIN f : f[i].mount_point = "/metadata" => Spare(f[i])

\* The boot can do without the partition: its fstab does not name it, or no entry
\* of it is required.
Dispensable(mp) ==
    \A i \in DOMAIN boot.fstab : boot.fstab[i].mount_point = mp => Optional(boot.fstab[i])

\* MountPartition() verifies the first entry of a mount point and mounts one of
\* several alternatives.  Whatever sequence of failures, alternatives, dynamic
\* system updates and root switches led there, a file system that wants to be
\* verified is mounted from the bare partition in two cases only: vbmeta, or the
\* partition's metadata, turn verification off, or SetupSelinux() mounts it late and
\* the boot could do without it.  The second is /system_ext or /product of an fstab
\* that does not name it, and also the no_fail one whose verification had failed
\* (selinux.cpp:684).  And when the first stage hands over, every partition it may
\* not do without is mounted and /system is the root (first_stage_mount.cpp:420,
\* :537).
MountsAreSound ==
    /\ \A mp \in DOMAIN mounts : mounts[mp].dev = "raw" /\ WantsVerity(mounts[mp].entry) =>
          boot.verity_disabled \/ (mounts[mp].late /\ Dispensable(mp))
    /\ pc \in {"free_ramdisk", "missing", "second_stage"} /\ ~IsRecoveryMode =>
          /\ \A i \in DOMAIN boot.fstab :
                boot.fstab[i].mount_point \in DOMAIN mounts \/ Optional(boot.fstab[i])
          /\ "/system" \in DOMAIN mounts => root = "system"

\* The devices and the snapshot daemon are set up early, for the console, by
\* another object than the one that mounts.  That one has not learnt of the
\* daemon, keeps no descriptor of it, and the hand-over ends in LOG(FATAL).
SetUpByAnotherObject == boot.console = "on_failure" /\ boot.snapshots = "snapuserd"

\* Every other boot that no external failure stops (a snapuserd that does not come
\* up is one, and leaves init waiting for it) comes to the second stage: init
\* never waits for a block of /system that no snapuserd serves while it hands
\* the daemon over, always has the descriptor to start the new one from, and
\* still has the keys it verifies partitions with (selinux.cpp:699).
BootCompletes == ~SetUpByAnotherObject => <>(pc = "second_stage" \/ fault)
=============================================================================
