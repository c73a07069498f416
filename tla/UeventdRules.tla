---------------------------- MODULE UeventdRules ----------------------------
(***************************************************************************)
(* What ueventd makes of its configuration and of one uevent: the          *)
(* configuration read from ueventd.rc, the path of a device node, its      *)
(* symbolic links, its permissions and those of its files in /sys          *)
(* (ueventd_parser.cpp, devices.cpp).                                      *)
(*                                                                         *)
(* A path is the sequence of its components.  "*" is the only component    *)
(* with a meaning in a pattern, so patterns are matched component by       *)
(* component.                                                              *)
(***************************************************************************)
EXTENDS Integers, Sequences, SequencesExt

CONSTANTS
  RcLines,        \* the lines of ueventd.rc, split into fields
  BootDevices,    \* GetBootDevices()
  PlatformDirs,   \* directories of /sys whose subsystem link is bus/platform or bus/amba
  FileContexts,   \* [path -> label]: exact entries of file_contexts
  Sanitized,      \* [partition name -> name with its unacceptable characters replaced]
  NoContext       \* paths for which file_contexts has no entry

-----------------------------------------------------------------------------
(* ueventd.rc.  A line is [key, n, ...]: its first word, the number of its   *)
(* words, and what its other words are.                                      *)

DefaultConfig ==
  [subsystems |-> <<>>, sysfs |-> <<>>, dev |-> <<>>, directories |-> <<>>, handlers |-> <<>>,
   parallel |-> FALSE, modalias |-> FALSE, rcvbuf |-> 0, section |-> <<>>]

ParsePermissionsLine(c, l) ==
  LET sys == l.key = "/sys/"
      rule == [name |-> l.name, perm |-> l.perm, nofnm |-> l.flag = "no_fnm_pathname"]
      ok == /\ l.n \in (IF sys THEN {5, 6} ELSE {4, 5})
            /\ l.perm.mode >= 0 /\ l.perm.uid >= 0 /\ l.perm.gid >= 0
            /\ (l.n \in (IF sys THEN {6} ELSE {5})) => l.flag = "no_fnm_pathname"
  IN  IF ~ok THEN c
      ELSE IF sys THEN [c EXCEPT !.sysfs = Append(@, rule)]
                  ELSE [c EXCEPT !.dev = Append(@, rule)]

ParseFirmwareDirectoriesLine(c, l) ==
  IF l.n < 2 THEN c ELSE [c EXCEPT !.directories = @ \o l.directories]

ParseExternalFirmwareHandlerLine(c, l) ==
  IF \/ l.n # 4
     \/ \E i \in DOMAIN c.handlers : c.handlers[i].devpath = l.devpath
     \/ l.uid < 0
  THEN c
  ELSE [c EXCEPT !.handlers = Append(@, [devpath |-> l.devpath])]

ParseEnabledDisabledLine(old, l) ==
  IF l.n = 2 /\ l.word \in {"enabled", "disabled"} THEN l.word = "enabled" ELSE old

\* "subsystem": a duplicate or a malformed entry is refused, and the lines up to the
\* next section are then ignored.
ParseSection(c, l) ==
  IF l.n # 2 \/ \E i \in DOMAIN c.subsystems : c.subsystems[i].name = l.name
  THEN c
  ELSE [c EXCEPT !.section = <<[name |-> l.name, source |-> "uevent_devname", dir |-> <<"dev">>]>>]

ParseLineSection(c, l) ==
  IF c.section = <<>> \/ l.n # 2 THEN c
  ELSE IF l.key = "devname" /\ l.word \in {"uevent_devname", "uevent_devpath"}
       THEN [c EXCEPT !.section[1].source = l.word]
  ELSE IF l.key = "dirname" /\ l.absolute THEN [c EXCEPT !.section[1].dir = l.dir]
  ELSE c

EndSection(c) == [c EXCEPT !.subsystems = @ \o c.section, !.section = <<>>]

\* Every line but one of a subsystem section ends the section before it.
ParseLine(c, l) ==
  IF l.key \in {"devname", "dirname"} THEN ParseLineSection(c, l)
  ELSE LET e == EndSection(c)
       IN CASE l.key = "subsystem" -> ParseSection(e, l)
            [] l.key \in {"/sys/", "/dev/"} -> ParsePermissionsLine(e, l)
            [] l.key = "firmware_directories" -> ParseFirmwareDirectoriesLine(e, l)
            [] l.key = "external_firmware_handler" -> ParseExternalFirmwareHandlerLine(e, l)
            [] l.key = "parallel_restorecon" -> [e EXCEPT !.parallel = ParseEnabledDisabledLine(@, l)]
            [] l.key = "modalias_handling" -> [e EXCEPT !.modalias = ParseEnabledDisabledLine(@, l)]
            [] l.key = "uevent_socket_rcvbuf_size" ->
                 IF l.n = 2 /\ l.size >= 0 THEN [e EXCEPT !.rcvbuf = l.size] ELSE e

ParseConfig == EndSection(FoldLeft(ParseLine, DefaultConfig, RcLines))

Config == ParseConfig

-----------------------------------------------------------------------------
(* Patterns.                                                                 *)

\* fnmatch(): m[i, j] says that p from i on matches s from j on.
FnMatch(p, s, pathname) ==
  LET m[i \in 1..(Len(p) + 1), j \in 1..(Len(s) + 1)] ==
        IF i > Len(p) THEN j > Len(s)
        ELSE IF j > Len(s) THEN FALSE
        ELSE IF p[i] # "*" THEN p[i] = s[j] /\ m[i + 1, j + 1]
        ELSE m[i + 1, j + 1] \/ (~pathname /\ m[i, j + 1])
  IN  m[1, 1]

\* "*" at the very end makes a prefix, which may span directories.
Match(p, nofnm, path) ==
  LET stars == {i \in DOMAIN p : p[i] = "*"}
  IN  IF stars = {} THEN p = path
      ELSE IF stars = {Len(p)} THEN Len(path) >= Len(p) /\ IsPrefix(Front(p), path)
      ELSE FnMatch(p, path, ~nofnm)

MatchWithSubsystem(rule, path, subsystem) ==
  LET M(q) == Match(rule.name, rule.nofnm, q)
  IN  \/ /\ subsystem \in Range(rule.name)
         /\ \/ M(<<"sys", "class", subsystem, Last(path)>>)
            \/ M(<<"sys", "bus", subsystem, "devices", Last(path)>>)
      \/ M(path)

NoPerm == [mode |-> 384, uid |-> 0, gid |-> 0]   \* 0600 root root
\* What the last of the rules `is` (indices) says.
LastMatch(rules, is, default) ==
  IF is = {} THEN default ELSE rules[CHOOSE i \in is : \A j \in is : j <= i].perm

\* The list is searched from its end, so that later files override earlier ones.
GetDevicePermissions(path, links) ==
  LET dev == Config.dev
  IN  LastMatch(dev, {i \in DOMAIN dev : \E q \in {path} \cup links : Match(dev[i].name, dev[i].nofnm, q)},
                NoPerm)

\* All matching rules are applied in their order: the last one stays.
SysfsPermissions(path, subsystem, current) ==
  LET sysfs == Config.sysfs
  IN  LastMatch(sysfs, {i \in DOMAIN sysfs : MatchWithSubsystem(sysfs[i], <<"sys">> \o path, subsystem)},
                current)

SelabelLookupFileContextBestMatch(path, links) ==
  LET exact == {q \in {path} \cup links : q \in DOMAIN FileContexts}
  IN  IF exact # {} THEN FileContexts[CHOOSE q \in exact : TRUE]
      ELSE IF path \in NoContext THEN "none" ELSE "device"

-----------------------------------------------------------------------------
(* Device nodes and links.  A device is what its uevents say of it:          *)
(* [path, subsystem, number, minor, partition, name, firmware, mapper,       *)
(* dmuser, big].  number says that it has a device number, mapper that it is *)
(* called dm-..., dmuser that its name starts with dm-user/ (name is then    *)
(* the rest), big that its uevents overflow the buffer.                      *)

Parents(path) == {SubSeq(path, 1, i) : i \in 1..(Len(path) - 1)}

\* The deepest parent that is a platform device, without /devices/platform/ or /devices/.
FindPlatformDevice(path) ==
  LET ps == Parents(path) \cap PlatformDirs
      p == CHOOSE q \in ps : \A r \in ps : Len(r) <= Len(q)
  IN  IF ps = {} THEN <<>>
      ELSE IF IsPrefix(<<"devices", "platform">>, p) /\ Len(p) > 2 THEN SubSeq(p, 3, Len(p))
      ELSE IF Head(p) = "devices" THEN Tail(p) ELSE p

\* The bus and the device below it: two directories, both followed by another one.
FindPciDevicePrefix(path) ==
  IF Len(path) >= 4 /\ path[1] = "devices" /\ path[2] = "pci" THEN SubSeq(path, 2, 3) ELSE <<>>

\* The number after "vbd-".
FindVbdDevicePrefix(path) ==
  IF Len(path) >= 4 /\ path[1] = "devices" /\ path[2] = "vbd-" THEN <<path[3]>> ELSE <<>>

IsDm(d) == IsPrefix(<<"devices", "virtual", "block">>, d.path) /\ d.mapper

FindDmDevice(d, readable) == IsDm(d) /\ readable

\* Unacceptable characters become "_": two names may become one.
SanitizePartitionName(p) == IF p \in DOMAIN Sanitized THEN Sanitized[p] ELSE p

\* dm is [readable, name, uuid]: what /sys says of the device mapper at this moment.
GetBlockDeviceSymlinks(d, dm) ==
  LET platform == FindPlatformDevice(d.path)
      pci == FindPciDevicePrefix(d.path)
      vbd == FindVbdDevicePrefix(d.path)
      type == IF platform # <<>> THEN "platform" ELSE IF pci # <<>> THEN "pci"
              ELSE IF vbd # <<>> THEN "vbd" ELSE "none"
      device == CASE type = "platform" -> platform [] type = "pci" -> pci [] OTHER -> vbd
      base == <<"dev", "block", type>> \o device
      boot == device \in BootDevices
      part == SanitizePartitionName(d.partition)
      byName == IF d.partition # ""
                THEN {base \o <<"by-name", part>>}
                     \cup (IF boot THEN {<<"dev", "block", "by-name", part>>} ELSE {})
                ELSE IF boot THEN {<<"dev", "block", "by-name", d.name>>} ELSE {}
  IN  IF type # "none" THEN byName \cup {Append(base, Last(d.path))}
      ELSE IF FindDmDevice(d, dm.readable)
           THEN {<<"dev", "block", "mapper", dm.name>>}
                \cup (IF dm.uuid # "" THEN {<<"dev", "block", "mapper", "by-uuid", dm.uuid>>} ELSE {})
      ELSE {}

ParseDevPath(s, d) ==
  Append(s.dir, IF s.source = "uevent_devname" THEN d.name ELSE Last(d.path))

UsbBuses == {"usb_host", "usbmon"}   \* the subsystems that only start with "usb"

\* <<>> when the event is ignored.
DevPath(d) ==
  LET subs == SelectSeq(Config.subsystems, LAMBDA s : s.name = d.subsystem)
  IN  IF d.subsystem = "block" THEN <<"dev", "block", Last(d.path)>>
      ELSE IF subs # <<>> THEN ParseDevPath(subs[1], d)
      ELSE IF d.subsystem = "usb"
           THEN IF d.name # "" THEN <<"dev", d.name>>
                ELSE <<"dev", "bus", "usb", ToString((d.minor \div 128) + 1), ToString((d.minor % 128) + 1)>>
      ELSE IF d.subsystem \in UsbBuses THEN <<>>
      ELSE IF d.subsystem = "misc" /\ d.dmuser THEN <<"dev", "dm-user", d.name>>
      ELSE <<"dev", Last(d.path)>>

Links(d, dm) ==
  IF d.subsystem = "block" /\ Head(d.path) = "devices" THEN GetBlockDeviceSymlinks(d, dm) ELSE {}

=============================================================================
