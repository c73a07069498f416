---------------------------- MODULE MCFirstStage ----------------------------
(* Boots of four devices: dynamic partitions with AVB, a legacy device with *)
(* the first verified boot, one with nothing to mount, and a recovery.      *)
EXTENDS FirstStage

MCDevices == {"device-mapper", "super", "vbmeta", "userdata", "metadata", "boot"}

MCMountPoints == {"/system", "/vendor", "/product", "/system_ext", "/metadata", "/boot"}

E(mp, blk, flags, keys, fs) ==
    [mount_point |-> mp, blk |-> blk, flags |-> flags, avb_keys |-> keys, fs_type |-> fs]

\* /vendor has an alternative file system; /product is optional.
Dynamic == << E("/system", "super", {"logical", "avb"}, "", "ext4"),
              E("/metadata", "metadata", {"formattable"}, "", "ext4"),
              E("/vendor", "super", {"logical", "avb"}, "vendor_avb", "erofs"),
              E("/vendor", "super", {"logical", "avb"}, "vendor_avb", "ext4"),
              E("/product", "super", {"logical", "avb", "no_fail"}, "", "ext4"),
              E("/boot", "boot", {}, "", "emmc") >>

Legacy == << E("/vendor", "boot", {"verify"}, "", "ext4"),
             E("/product", "boot", {}, "", "overlay") >>

Unverifiable == << E("/vendor", "boot", {"verify_at_boot"}, "", "ext4") >>

Plain == [fstab |-> Dynamic, recovery |-> FALSE, force_normal |-> FALSE, console |-> "disabled",
          debug |-> FALSE, unlocked |-> FALSE, dt_vbmeta |-> FALSE, verity_disabled |-> FALSE,
          snapshots |-> "none",
          dsu |-> FALSE, skip |-> {}, split_policy |-> TRUE, policy_matches |-> TRUE,
          enforcing |-> TRUE]

MCBoots ==
    {[Plain EXCEPT !.snapshots = s, !.dsu = d, !.force_normal = n, !.recovery = n] :
        s \in {"none", "kernel", "snapuserd"}, d \in BOOLEAN, n \in BOOLEAN}
    \cup {[Plain EXCEPT !.console = "on_failure", !.snapshots = s] : s \in {"none", "snapuserd"}}
    \cup {[Plain EXCEPT !.console = "ignored", !.debug = TRUE, !.unlocked = u, !.policy_matches = FALSE] :
             u \in BOOLEAN}
    \cup {[Plain EXCEPT !.verity_disabled = TRUE, !.skip = {"/product"}, !.enforcing = FALSE]}
    \cup {[Plain EXCEPT !.recovery = TRUE, !.split_policy = FALSE]}
    \cup {[Plain EXCEPT !.fstab = f] : f \in {Legacy, Unverifiable, <<>>}}
    \cup {[Plain EXCEPT !.fstab = Legacy, !.verity_disabled = TRUE],
          [Plain EXCEPT !.fstab = Unverifiable, !.dt_vbmeta = TRUE]}

\* The fstabs are such that MountsAreSound is a theorem.
ASSUME MCFstabsAgree == FstabsAgree
=============================================================================
