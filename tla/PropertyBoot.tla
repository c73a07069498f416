---------------------------- MODULE PropertyBoot ----------------------------
(***************************************************************************)
(* PropertyInit() and PropertyLoadBootDefaults() (property_service.cpp):   *)
(* the property area is filled from the device tree, the kernel command    *)
(* line, the boot configuration and the property files of the partitions,  *)
(* in this order, and then from what can be derived from these.            *)
(*                                                                         *)
(* Two rules meet here.  Kernel sources write the area directly and ro.*   *)
(* properties are written once, so the first source wins; files are        *)
(* gathered in a map first, so the last file wins.                         *)
(*                                                                         *)
(* A value is a sequence of strings, concatenated where the code appends;  *)
(* the empty sequence is the empty value, which GetProperty() does not     *)
(* tell from a property that was never set.                                *)
(***************************************************************************)
EXTENDS Naturals, Sequences

CONSTANTS
  Contents,      \* the contents the files may have: a set of [some files -> Seq(line)]
  Kernels,       \* what the kernel sources may say: a set of [KernelSources -> [keys -> value]]
  Contexts,      \* the property_contexts files that may exist: a set of sets of partitions
  LabelledBy,    \* [key -> the partition whose property_contexts names it]
  IllegalNames,  \* the keys IsLegalPropertyName() refuses
  Granted,       \* <<context, label>>: what the SELinux policy lets a property file set
  Mistyped,      \* <<label, value>>: the values that are not of the label's type
  VendorIsOld,   \* the vendor partition predates __ANDROID_API_P__
  Recovery,      \* IsRecoveryMode()
  DebugRamdisk,  \* kDebugRamdiskProp is readable
  Sdk            \* [value -> Nat]: the values that parse as a version number

KernelSources == <<"dt", "cmdline", "bootconfig">>

\* A line sets a key, or imports a file, all of it or the keys that match a filter.
Line == [op : {"set"}, key : STRING, value : Seq(STRING)]
          \cup [op : {"import"}, file : STRING, filter : SUBSET STRING]

ASSUME ContentsAssumption == \A c \in Contents : \A f \in DOMAIN c : c[f] \in Seq(Line)

\* Imports go one level deep: a file imported with a filter has its import lines skipped anyway,
\* and one imported without a filter is assumed to have none.
ImportsNothing(c, f) == f \in DOMAIN c => \A i \in DOMAIN c[f] : c[f][i].op # "import"
ASSUME ImportsAssumption ==
  \A c \in Contents : \A f \in DOMAIN c : \A i \in DOMAIN c[f] :
    c[f][i].op = "import" => c[f][i].filter # {} \/ ImportsNothing(c, c[f][i].file)

\* The kernel sources set nothing but ro.boot.*: none of what is derived below.
NotBoot == {"ro.serialno", "ro.hardware", "ro.build.id", "ro.build.fingerprint",
            "ro.build.legacy.fingerprint", "persist.sys.usb.config"}
ASSUME KernelsAssumption ==
  \A q \in Kernels : \A s \in {"dt", "cmdline", "bootconfig"} : DOMAIN q[s] \cap NotBoot = {}

VARIABLES pc, infos, area, properties, next, contents, kernel

vars == <<pc, infos, area, properties, next, contents, kernel>>

\* The property area and the map hold the keys that were set.
None == [k \in {} |-> <<>>]
Get(k, default) == IF k \in DOMAIN area /\ area[k] # <<>> THEN area[k] ELSE default
With(m, k, v) == [x \in DOMAIN m \cup {k} |-> IF x = k THEN v ELSE m[x]]

\* The only key of the instances that does not begin with ro.
ReadOnly(k) == k # "persist.sys.usb.config"

Init ==
  /\ pc = "contexts" /\ infos = {} /\ area = None /\ properties = None /\ next = 1
  /\ contents \in Contents /\ kernel \in Kernels

-----------------------------------------------------------------------------

\* ro.* properties are actually "write-once".
PropertySet(a, k, v) == IF k \in DOMAIN a /\ ReadOnly(k) THEN a ELSE With(a, k, v)

\* A property that no loaded property_contexts file names has the default label.
Label(k) == IF LabelledBy[k] \in infos THEN k ELSE "default_prop"
\* CheckPermissions: the name, the permission, the type of the value.
MayLoad(context, k, v) ==
  /\ k \notin IllegalNames
  /\ <<context, Label(k)>> \in Granted /\ <<Label(k), v>> \notin Mistyped

\* CreateSerializedPropertyInfo: without the platform's file there are no labels and
\* LoadDefaultPath() is fatal; the other partitions may be missing.
CreateSerializedPropertyInfo ==
  /\ pc = "contexts"
  /\ \E there \in Contexts :
       /\ infos' = IF "plat" \in there THEN there ELSE {}
       /\ pc' = IF "plat" \in there THEN "kernel" ELSE "fatal"
  /\ UNCHANGED <<area, properties, next, contents, kernel>>

\* ProcessKernelDt, ProcessKernelCmdline, ProcessBootconfig: the first to set it wins.
FromKernel(a, source) ==
  [k \in DOMAIN a \cup DOMAIN kernel[source] |->
     IF k \in DOMAIN a THEN a[k] ELSE kernel[source][k]]

ProcessKernel_Reversed ==
  /\ pc = "kernel" /\ pc' = "export"
  /\ area' = FromKernel(FromKernel(FromKernel(area, "bootconfig"), "cmdline"), "dt")
  /\ UNCHANGED <<infos, properties, next, contents, kernel>>
ProcessKernel ==
  /\ pc = "kernel" /\ pc' = "export"
  /\ area' = FromKernel(FromKernel(FromKernel(area, "dt"), "cmdline"), "bootconfig")
  /\ UNCHANGED <<infos, properties, next, contents, kernel>>

\* The kernel's variables under the names the system uses; the serial number has no default.
Exports == [k \in {"ro.serialno", "ro.hardware"} |->
  IF k = "ro.serialno" THEN Get("ro.boot.serialno", <<>>)
  ELSE Get("ro.boot.hardware", <<"unknown">>)]
ExportKernelBootProps ==
  /\ pc = "export" /\ pc' = "files"
  /\ area' = [k \in DOMAIN area \cup {x \in DOMAIN Exports : Exports[x] # <<>>} |->
                IF k \in DOMAIN area THEN area[k] ELSE Exports[k]]
  /\ UNCHANGED <<infos, properties, next, contents, kernel>>

-----------------------------------------------------------------------------
(* The property files.                                                       *)

VendorFiles == {"/vendor/default.prop", "/vendor/build.prop", "/vendor_dlkm/etc/build.prop",
                "/odm_dlkm/etc/build.prop", "/odm/etc/build.prop", "/odm/default.prop",
                "/odm/build.prop"}
ContextOf(file) == IF ~VendorIsOld /\ file \in VendorFiles THEN "vendor_init" ELSE "init"

Special == {"ctl.start", "sys.powerctl", "selinux.restorecon_recursive"}

\* One line: disallowed and forbidden keys are skipped, a later value replaces an earlier one.
\* An empty filter lets every key through.
LoadLine(m, line, file, filter) ==
  IF /\ line.op = "set" /\ (filter = {} \/ line.key \in filter)
     /\ line.key \notin Special /\ MayLoad(ContextOf(file), line.key, line.value)
  THEN With(m, line.key, line.value) ELSE m

Exists(file) == file \in DOMAIN contents

\* A file that cannot be read is skipped.  The imported file is read with its own
\* filter; an import line that LoadLine meets in it is skipped (ImportsAssumption).
LoadImported(m, line) ==
  LET lines == contents[line.file]
      Read[i \in 0..Len(lines)] ==
        IF i = 0 THEN m ELSE LoadLine(Read[i - 1], lines[i], line.file, line.filter)
  IN  IF Exists(line.file) THEN Read[Len(lines)] ELSE m
LoadProperties(m, file) ==
  LET lines == contents[file]
      Read[i \in 0..Len(lines)] ==
        IF i = 0 THEN m
        ELSE IF lines[i].op = "import" THEN LoadImported(Read[i - 1], lines[i])
        ELSE LoadLine(Read[i - 1], lines[i], file, {})
  IN  IF Exists(file) THEN Read[Len(lines)] ELSE m

LegacyFiles(p) == <<"/" \o p \o "/default.prop", "/" \o p \o "/build.prop">>
LoadLegacy(m, p) == LoadProperties(LoadProperties(m, LegacyFiles(p)[1]), LegacyFiles(p)[2])

\* A partition without etc/build.prop is read from its legacy files when it is old
\* enough, or does not say how old it is.
OldEnough(p, until) ==
  LET version == "ro." \o p \o ".build.version.sdk" IN
  LET temp == LoadLegacy(None, p) IN
  version \notin DOMAIN temp \/ (temp[version] \in DOMAIN Sdk /\ Sdk[temp[version]] <= until)

\* The files in the order they are loaded: "until" is only looked at for partitions.
File(name) == [file |-> name, partition |-> "", until |-> 0]
Partition(p, until) == [file |-> "/" \o p \o "/etc/build.prop", partition |-> p, until |-> until]
LoadOrder ==
  (IF Recovery THEN <<File("/prop.default")>> ELSE <<>>)
  \o <<File("ramdisk.prop"), File("/system/build.prop"), Partition("system_ext", 30),
       File("/vendor/default.prop"), File("/vendor/build.prop"),
       File("/vendor_dlkm/etc/build.prop"), File("/odm_dlkm/etc/build.prop"),
       Partition("odm", 28), Partition("product", 30)>>
  \o (IF DebugRamdisk THEN <<File("/debug_ramdisk/adb_debug.prop")>> ELSE <<>>)

LoadNextFile ==
  /\ pc = "files" /\ next <= Len(LoadOrder)
  /\ next' = next + 1
  /\ LET f == LoadOrder[next] IN
     \/ /\ Exists(f.file) \/ f.partition = ""
        /\ properties' = LoadProperties(properties, f.file) /\ UNCHANGED pc
     \/ /\ ~Exists(f.file) /\ f.partition # ""
        /\ IF OldEnough(f.partition, f.until)
           THEN properties' = LoadLegacy(properties, f.partition) /\ UNCHANGED pc
           ELSE pc' = "fatal" /\ UNCHANGED properties
  /\ UNCHANGED <<infos, area, contents, kernel>>

\* The map is written to the area, where the kernel's ro.* properties stay.
SetLoaded ==
  /\ pc = "files" /\ next > Len(LoadOrder) /\ pc' = "product"
  /\ area' = [k \in DOMAIN area \cup DOMAIN properties |->
                IF k \in DOMAIN properties /\ (k \in DOMAIN area => ~ReadOnly(k))
                THEN properties[k] ELSE area[k]]
  /\ UNCHANGED <<infos, properties, next, contents, kernel>>

-----------------------------------------------------------------------------
(* Derived properties.                                                       *)

DefaultSourceOrder == <<"product", "odm", "vendor", "system_ext", "system">>
AllowedSources == {DefaultSourceOrder[i] : i \in DOMAIN DefaultSourceOrder}

\* ro.product.property_source_order, unless it names a source that is not allowed.
SourceOrder ==
  LET asked == Get("ro.product.property_source_order", <<>>) IN
  IF asked # <<>> /\ \A i \in DOMAIN asked : asked[i] \in AllowedSources
  THEN asked ELSE DefaultSourceOrder

\* The first key of a sequence that has a value.
FirstOf(keys) ==
  LET set == {i \in DOMAIN keys : Get(keys[i], <<>>) # <<>>} IN
  IF set = {} THEN <<>> ELSE area[keys[CHOOSE i \in set : \A j \in set : i <= j]]

\* ro.product.brand; device, manufacturer, model and name are derived the same way.
InitializeRoProductProps ==
  /\ pc = "product" /\ pc' = "build_id"
  /\ LET keys == [i \in DOMAIN SourceOrder |-> "ro.product." \o SourceOrder[i] \o ".brand"] IN
     area' = IF Get("ro.product.brand", <<>>) = <<>> /\ FirstOf(keys) # <<>>
             THEN PropertySet(area, "ro.product.brand", FirstOf(keys)) ELSE area
  /\ UNCHANGED <<infos, properties, next, contents, kernel>>

\* The digest is appended to the legacy id, unless it is too short.
InitializeBuildId ==
  /\ pc = "build_id" /\ pc' = "fingerprint"
  /\ LET digest == Get("ro.boot.vbmeta.digest", <<>>) IN
     LET suffix == IF digest \in {<<>>, <<"short">>} THEN <<>> ELSE <<".">> \o digest IN
     area' = IF Get("ro.build.id", <<>>) # <<>> THEN area
             ELSE PropertySet(area, "ro.build.id", Get("ro.build.legacy.id", <<>>) \o suffix)
  /\ UNCHANGED <<infos, properties, next, contents, kernel>>

\* The other parts of the fingerprint are not derived.
ConstructBuildFingerprint_AlwaysLegacy(id) ==
  Get("ro.product.brand", <<"unknown">>) \o <<"/">> \o Get("ro.build.legacy.id", <<"unknown">>)
ConstructBuildFingerprint(id) ==
  Get("ro.product.brand", <<"unknown">>) \o <<"/">> \o Get(id, <<"unknown">>)

DeriveFingerprint(key, id) ==
  IF Get(key, <<>>) # <<>> THEN area ELSE PropertySet(area, key, ConstructBuildFingerprint(id))

DeriveBuildFingerprint ==
  /\ pc = "fingerprint" /\ pc' = "legacy_fingerprint"
  /\ area' = DeriveFingerprint("ro.build.fingerprint", "ro.build.id")
  /\ UNCHANGED <<infos, properties, next, contents, kernel>>

DeriveLegacyBuildFingerprint ==
  /\ pc = "legacy_fingerprint" /\ pc' = "abilist"
  /\ area' = IF Get("ro.build.legacy.id", <<>>) = <<>> THEN area
             ELSE DeriveFingerprint("ro.build.legacy.fingerprint", "ro.build.legacy.id")
  /\ UNCHANGED <<infos, properties, next, contents, kernel>>

\* The lists of the first partition that has either, all three from that partition.
AbilistSources == <<"product", "odm", "vendor", "system">>
Abilist(i, bits) == Get("ro." \o AbilistSources[i] \o ".product.cpu.abilist" \o bits, <<>>)

InitializeRoCpuAbilist ==
  /\ pc = "abilist" /\ pc' = "usb"
  /\ LET some == {i \in DOMAIN AbilistSources :
                    Abilist(i, "32") # <<>> \/ Abilist(i, "64") # <<>>} IN
     LET from == IF some = {} THEN Len(AbilistSources)
                 ELSE CHOOSE i \in some : \A j \in some : i <= j IN
     LET both == Abilist(from, "64") # <<>> /\ Abilist(from, "32") # <<>> IN
     LET merged == Abilist(from, "64") \o (IF both THEN <<",">> ELSE <<>>) \o Abilist(from, "32") IN
     area' = IF Get("ro.product.cpu.abilist", <<>>) # <<>> THEN area
             ELSE PropertySet(PropertySet(PropertySet(area,
                    "ro.product.cpu.abilist", merged),
                    "ro.product.cpu.abilist32", Abilist(from, "32")),
                    "ro.product.cpu.abilist64", Abilist(from, "64"))
  /\ UNCHANGED <<infos, properties, next, contents, kernel>>

\* adb is added for debuggable builds; an empty configuration becomes "none" or "adb".
UpdateSysUsbConfig ==
  /\ pc = "usb" /\ pc' = "done"
  /\ LET debuggable == Get("ro.debuggable", <<"0">>) = <<"1">> IN
     LET config == Get("persist.sys.usb.config", <<>>) IN
     area' = IF config \in {<<>>, <<"none">>}
             THEN With(area, "persist.sys.usb.config", IF debuggable THEN <<"adb">> ELSE <<"none">>)
             ELSE IF debuggable /\ \A i \in DOMAIN config : config[i] # "adb"
             THEN With(area, "persist.sys.usb.config", config \o <<",", "adb">>)
             ELSE area
  /\ UNCHANGED <<infos, properties, next, contents, kernel>>

Next ==
  \/ CreateSerializedPropertyInfo \/ ProcessKernel \/ ExportKernelBootProps
  \/ LoadNextFile \/ SetLoaded
  \/ InitializeRoProductProps \/ InitializeBuildId
  \/ DeriveBuildFingerprint \/ DeriveLegacyBuildFingerprint
  \/ InitializeRoCpuAbilist \/ UpdateSysUsbConfig

Spec == Init /\ [][Next]_vars

-----------------------------------------------------------------------------

\* What the i-th file, or the legacy files in its place, say by themselves.
Gives(i) == LET f == LoadOrder[i] IN
  IF Exists(f.file) \/ f.partition = "" THEN LoadProperties(None, f.file)
  ELSE LoadLegacy(None, f.partition)
Sources(k) == {i \in 1..Len(LoadOrder) : k \in DOMAIN Gives(i)}
KernelSays(k) == {i \in 1..3 : k \in DOMAIN kernel[KernelSources[i]]}

\* "properties set in DT always have priority over the command-line ones", those over
\* the boot configuration, and a kernel property over every property file; among the
\* files the more product-specific partition has precedence, ro.* or not.
PrecedenceHolds ==
  pc = "done" =>
    /\ \A k \in UNION {DOMAIN kernel[s] : s \in {"dt", "cmdline", "bootconfig"}} :
         \E i \in KernelSays(k) : /\ \A j \in KernelSays(k) : i <= j
                                  /\ area[k] = kernel[KernelSources[i]][k]
    /\ \A k \in {"ro.x", "ro.product.brand", "ro.build.id"} :
         Sources(k) # {} /\ KernelSays(k) = {} =>
           \E i \in Sources(k) : /\ \A j \in Sources(k) : j <= i
                                 /\ area[k] = Gives(i)[k]

Identity(id) == Get("ro.product.brand", <<"unknown">>) \o <<"/">> \o Get(id, <<"unknown">>)

\* When the system is up its identity is consistent: the fingerprint was put together
\* from the brand and the build id that the finished area holds, not from values that
\* a later step still changed, and the legacy fingerprint belongs to the legacy id.
IdentityIsConsistent ==
  pc = "done" =>
    /\ \/ "ro.build.fingerprint" \in DOMAIN properties
       \/ area["ro.build.fingerprint"] = Identity("ro.build.id")
    /\ \/ "ro.build.legacy.fingerprint" \in DOMAIN properties
       \/ Get("ro.build.legacy.fingerprint", <<>>) \in
            {<<>>, Identity("ro.build.legacy.id")}
    /\ "ro.build.id" \notin DOMAIN properties /\ Get("ro.boot.vbmeta.digest", <<>>) = <<"digest">>
         => area["ro.build.id"] = Get("ro.build.legacy.id", <<>>) \o <<".", "digest">>
=============================================================================
