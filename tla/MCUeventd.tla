------------------------------ MODULE MCUeventd ------------------------------
(* Small groups of devices, each for one of the ways devices depend on each  *)
(* other: a shared link, a mapper name, a firmware request.                  *)
EXTENDS Ueventd, TLC

Device(path, sub) ==
  [path |-> path, subsystem |-> sub, number |-> TRUE, minor |-> 0, partition |-> "", name |-> "", uuid |-> "",
   firmware |-> "", mapper |-> FALSE, dmuser |-> FALSE, big |-> FALSE]

Fw(n) == [Device(<<"devices", "platform", "fw", n>>, "firmware") EXCEPT !.number = FALSE, !.firmware = n]
MCInfo ==
  [sda1 |-> [Device(<<"devices", "platform", "soc", "sda1">>, "block") EXCEPT !.partition = "a?b"],
   vda1 |-> [Device(<<"devices", "vbd-", "soc", "vda1">>, "block") EXCEPT !.partition = "a_b"],
   sdb |-> Device(<<"devices", "pci", "x", "sdb">>, "block"),
   dm0 |-> [Device(<<"devices", "virtual", "block", "dm-0">>, "block")
              EXCEPT !.mapper = TRUE, !.name = "system", !.uuid = "u"],
   ash |-> [Device(<<"devices", "virtual", "misc", "ashmem">>, "misc") EXCEPT !.name = "ashmem"],
   usb |-> [Device(<<"devices", "platform", "usb1">>, "usb") EXCEPT !.minor = 130],
   mon |-> Device(<<"devices", "platform", "mon0">>, "usbmon"),
   input |-> [Device(<<"devices", "virtual", "input", "event0">>, "input") EXCEPT !.name = "ev0"],
   secret |-> Device(<<"devices", "virtual", "mem", "secret">>, "mem"),
   huge |-> [Device(<<"devices", "virtual", "mem", "huge">>, "mem") EXCEPT !.big = TRUE],
   user |-> [Device(<<"devices", "virtual", "misc", "u0">>, "misc") EXCEPT !.dmuser = TRUE, !.name = "u0"],
   early |-> Fw("early"), late |-> Fw("late"), alt |-> Fw("alt"), none |-> Fw("none")]

Line(k, n) == [key |-> k, n |-> n]
Parallel(w) == Line("parallel_restorecon", 2) @@ [word |-> w]
S(ds, at, n, w) == [devs |-> ds, at |-> at, max |-> n, last |-> Parallel(w)]
MCScenarios ==
  {S({"sda1", "vda1"}, {"sda1", "vda1"}, 2, "enabled"), S({"dm0", "sda1"}, {"dm0"}, 3, "maybe"),
   S({"ash", "usb"}, {"ash"}, 2, "maybe"), S({"mon", "input"}, {"mon"}, 2, "enabled"),
   S({"secret", "huge"}, {"huge"}, 2, "disabled"), S({"user", "sdb"}, {"user"}, 1, "enabled"),
   S({"late"}, {}, 2, "enabled")}
  \cup {S({fw}, {fw}, 1, "disabled") : fw \in {"early", "late", "alt", "none"}}

Perms(m, u, g) == [mode |-> m, uid |-> u, gid |-> g]
Rule(k, n, name, p, f) == Line(k, n) @@ [name |-> name, perm |-> p, flag |-> f]
MCRcLines ==
  <<Line("subsystem", 2) @@ [name |-> "input"], Line("devname", 2) @@ [word |-> "uevent_devpath"],
    Line("dirname", 2) @@ [absolute |-> TRUE, dir |-> <<"dev", "input">>],
    Line("dirname", 2) @@ [absolute |-> FALSE, dir |-> <<"input">>],
    Line("subsystem", 2) @@ [name |-> "input"], Line("devname", 2) @@ [word |-> "uevent_devname"],
    Rule("/dev/", 4, <<"dev", "input", "*">>, Perms(432, 1000, 1004), ""),
    Rule("/dev/", 4, <<"dev", "block", "*">>, Perms(416, 0, 1000), ""),
    Rule("/dev/", 5, <<"dev", "*", "vda1">>, Perms(438, 1, 1), "fnm"),
    Rule("/dev/", 5, <<"dev", "*", "sda1">>, Perms(438, 2, 2), "no_fnm_pathname"),
    Rule("/dev/", 4, <<"dev", "*", "vda1">>, Perms(256, 3, 3), ""),
    Rule("/dev/", 4, <<"dev", "block", "mapper", "system">>, Perms(400, 4, 4), ""),
    Rule("/dev/", 4, <<"dev", "ashmem">>, Perms(438, -1, 0), ""),
    Rule("/sys/", 5, <<"sys", "devices", "virtual", "*">>, Perms(420, 1, 1), ""),
    Rule("/sys/", 5, <<"sys", "class", "input", "*">>, Perms(436, 1000, 1000), ""),
    Line("firmware_directories", 3) @@ [directories |-> <<"/etc/firmware/", "/vendor/firmware/">>],
    Line("external_firmware_handler", 4) @@ [devpath |-> <<"devices", "platform", "fw", "alt">>, uid |-> 1],
    Line("external_firmware_handler", 4) @@ [devpath |-> <<"devices", "platform", "fw", "alt">>, uid |-> 2],
    Line("uevent_socket_rcvbuf_size", 2) @@ [size |-> 1],
    Line("modalias_handling", 2) @@ [word |-> "disabled"],
    Line("parallel_restorecon", 1)>>

MCBootDevices == {<<"soc">>}
MCPlatformDirs == {<<"devices", "platform">>, <<"devices", "platform", "soc">>}
MCFileContexts == (<<"dev", "block", "sda1">> :> "boot_block")
MCNoContext == {<<"dev", "secret">>}
MCSanitized == ("a?b" :> "a_b")
MCAvailable == "/etc/firmware/" :> "early" @@ "/vendor/firmware/" :> "late" @@ "/apex/a/" :> "never"
MCFirmwares == "/etc/firmware/" :> {"early"} @@ "/vendor/firmware/" :> {"late", "other"} @@ "/apex/a/" :> {"none"}
MCApex == <<"/apex/a/">>
=============================================================================
