------------------------------ MODULE Ueventd ------------------------------
(***************************************************************************)
(* ueventd: cold boot, the device nodes in /dev, and the firmware children *)
(* (ueventd.cpp, uevent_listener.cpp, devices.cpp, firmware_handler.cpp).  *)
(*                                                                         *)
(* The kernel adds and removes devices at any moment and multicasts an     *)
(* event for each; events that find the socket full, or no ueventd, are    *)
(* lost.  Cold boot pokes every device in /sys so that its event is sent   *)
(* again, queues what arrives, and splits the queue among forked workers.  *)
(* When a worker dies ueventd aborts, init kills what is left of its       *)
(* process group and starts it again.                                      *)
(***************************************************************************)
EXTENDS UeventdRules, FiniteSets

CONSTANTS
  Info,          \* [device -> what its uevents say of it]
  Scenarios,     \* set of [devs, at, max, last]: the devices of a behaviour, those there at first, the
                 \* bound on additions and removals by the kernel, the last line of ueventd.rc
  Workers,       \* num_handler_subprocesses_
  RcvBuf,        \* bound: events the socket holds
  MaxFaults,     \* bound: deaths of ueventd and its workers, failed forks
  MaxKids,       \* bound: children serving one firmware request
  Available,     \* [directory -> {"early", "late", "never"}]: when its file system is mounted
  Firmwares,     \* [directory -> set of firmware files in it]
  ApexDirectories, \* /apex/*/etc/firmware, those with "@" in their name left out
  HandlerResult, \* what a successful external firmware handler prints
  BootIdReadable

ASSUME UeventdConstants ==
  /\ Workers \in Nat \ {0} /\ RcvBuf \in Nat \ {0}
  /\ {MaxFaults, MaxKids} \subseteq Nat /\ BootIdReadable \in BOOLEAN

VARIABLES
  devs,        \* the devices of this behaviour
  present,     \* the devices there are in /sys
  named,       \* device-mapper devices whose table is loaded and named
  sock,        \* the netlink socket: Seq of [dev, action]
  sysfs,       \* [devs -> [label, perm]]: the device's files in /sys
  nodes,       \* [path -> [perm, label]]: device nodes in /dev
  links,       \* [path -> path]: symbolic links in /dev
  pc,          \* ueventd: start, walk, restorecon, wait, poll, dead
  walked,      \* directories the walk through /sys/devices has passed
  uqueue,      \* uevent_queue_
  worker,      \* [0..Workers-1 -> [at, i]]: the forked handlers
  parallel,    \* enable_parallel_restorecon_
  restq,       \* restorecon_queue_
  skip,        \* skip_restorecon_
  done,        \* ro.cold_boot_done
  kids,        \* the firmware requests taken up: the child serving each, or that there is none
  mounted,     \* the late file systems are mounted
  booting,     \* /dev/.booting exists
  answer,      \* [devs -> what the kernel was last told about a firmware]
  events, faults,  \* bounds
  doubtful     \* history: devices ueventd may have a wrong picture of

kernelVars == <<devs, present, named, events, parallel>>
fsVars == <<sysfs, nodes, links>>
coldVars == <<walked, uqueue, worker, restq>>
bootVars == <<mounted, booting>>
vars == <<kernelVars, sock, fsVars, pc, coldVars, skip, done, kids, bootVars, answer, faults, doubtful>>

WorkerIds == 0..(Workers - 1)
Idle == [w \in WorkerIds |-> [at |-> "none", i |-> 0]]
NoAnswer == [code |-> "none", fw |-> ""]
KernelSysfs == [label |-> FALSE, perm |-> NoPerm]
IsFirmware(d) == Info[d].subsystem = "firmware"
IsMapper(d) == IsDm(Info[d])

\* The device itself, and for ashmem its twin named after the boot id.
Twins(d) ==
  {Info[d]} \cup (IF Info[d].name = "ashmem" /\ BootIdReadable
                  THEN {[Info[d] EXCEPT !.name = "ashmem<id>", !.path = Append(Front(@), "ashmem<id>")]} ELSE {})
Node == [d \in DOMAIN Info |-> DevPath(Info[d])]
NodePaths == [d \in DOMAIN Info |-> IF Info[d].number THEN {DevPath(x) : x \in Twins(d)} \ {<<>>} ELSE {}]

\* What /sys says of a device mapper: nothing once it is gone, no name before its table is loaded.
DmStates == [gone |-> [readable |-> FALSE, name |-> "", uuid |-> ""],
             new |-> [readable |-> TRUE, name |-> "", uuid |-> ""]]
DmState(d, st) == IF st = "named" THEN [readable |-> TRUE, name |-> Info[d].name, uuid |-> Info[d].uuid]
                  ELSE DmStates[st]
LinksAt == [d \in DOMAIN Info |-> [st \in {"gone", "new", "named"} |-> Links(Info[d], DmState(d, st))]]

\* What MakeDevice() looks up for each node of a device.
Lookup == [d \in DOMAIN Info |-> [st \in {"gone", "new", "named"} |-> [p \in NodePaths[d] |->
  [perm |-> GetDevicePermissions(p, LinksAt[d][st]),
   label |-> SelabelLookupFileContextBestMatch(p, LinksAt[d][st])]]]]
SysPerm == [d \in DOMAIN Info |-> SysfsPermissions(Info[d].path, Info[d].subsystem, NoPerm)]

Init ==
  /\ \E s \in Scenarios : devs = s.devs /\ present = s.at /\ events = s.max
                          /\ parallel = ParseLine(Config, s.last).parallel
  /\ named = {} /\ sock = <<>>
  /\ sysfs = [d \in devs |-> KernelSysfs]
  /\ nodes = [q \in {} |-> q] /\ links = [q \in {} |-> q]
  /\ pc = "start" /\ walked = {} /\ uqueue = <<>> /\ worker = Idle /\ restq = <<>>
  /\ skip = TRUE /\ done = FALSE
  /\ kids = {} /\ mounted = FALSE /\ booting = TRUE
  /\ answer = [d \in devs |-> NoAnswer]
  /\ faults = 0
  /\ doubtful = present

-----------------------------------------------------------------------------
(* The kernel.                                                               *)

Ev(d, a) == [dev |-> d, action |-> a]
Pending(d) == d \in {sock[i].dev : i \in DOMAIN sock} \cup {uqueue[i].dev : i \in DOMAIN uqueue}

\* The socket exists while ueventd does.
Received(e) == pc \notin {"start", "dead"} /\ Len(sock) < RcvBuf
Multicast(e) ==
  /\ sock' = IF Received(e) THEN Append(sock, e) ELSE sock
  /\ doubtful' = IF ~Received(e) \/ Info[e.dev].big THEN doubtful \cup {e.dev}
                 ELSE IF e.action = "change" THEN doubtful ELSE doubtful \ {e.dev}

KernelAdds(d) ==
  /\ events > 0 /\ d \in devs \ present
  /\ present' = present \cup {d} /\ events' = events - 1
  /\ sysfs' = [sysfs EXCEPT ![d] = KernelSysfs]
  /\ answer' = [answer EXCEPT ![d] = NoAnswer]
  /\ Multicast(Ev(d, "add"))
  /\ UNCHANGED <<devs, parallel, named, nodes, links, pc, coldVars, skip, done, kids, bootVars, faults>>

KernelRemoves(d) ==
  /\ events > 0 /\ d \in present /\ ~IsFirmware(d)
  /\ present' = present \ {d} /\ named' = named \ {d} /\ events' = events - 1
  /\ Multicast(Ev(d, "remove"))
  /\ UNCHANGED <<devs, parallel, fsVars, pc, coldVars, skip, done, kids, bootVars, answer, faults>>

\* A device-mapper table is loaded: the device has a name now.
KernelChanges(d) ==
  /\ events > 0 /\ d \in present \ named /\ IsMapper(d)
  /\ named' = named \cup {d} /\ events' = events - 1
  /\ Multicast(Ev(d, "change"))
  /\ UNCHANGED <<devs, parallel, present, fsVars, pc, coldVars, skip, done, kids, bootVars, answer, faults>>

-----------------------------------------------------------------------------
(* Handling one uevent.  It is one step: the nodes and links it touches      *)
(* belong to one device.                                                     *)

At(d) == IF d \notin present THEN "gone" ELSE IF d \in named THEN "named" ELSE "new"
LinksOf(d) == LinksAt[d][At(d)]

FixupSysPermissions(e) ==
  sysfs' = IF e.action \in {"add", "change"} /\ e.dev \in present
           THEN [sysfs EXCEPT ![e.dev] = [label |-> @.label \/ ~skip,
                                          perm |-> SysPerm[e.dev]]]
           ELSE sysfs

\* A node that exists keeps its mode and group; label and owner are set again.  Without a label
\* there is no node.
MakeDevice(d) ==
  LET new == Lookup[d][At(d)]
      made == {p \in NodePaths[d] : new[p].label # "none"}
      old(p) == IF p \in DOMAIN nodes THEN nodes[p].perm ELSE new[p].perm
  IN  [p \in DOMAIN nodes \cup made |->
         IF p \in made THEN [new[p] EXCEPT !.perm = [old(p) EXCEPT !.uid = new[p].perm.uid]] ELSE nodes[p]]

\* symlink(): a link that exists stays what it is.  A mapper link needs a name.
MakeLinks(path, ls) ==
  [q \in DOMAIN links \cup {l \in ls : Last(l) # ""} |-> IF q \in DOMAIN links THEN links[q] ELSE path]

\* On removal only links to this very device go.
RemoveLinks_AllNames(path, ls, dm) == [q \in DOMAIN links \ ls |-> links[q]]
RemoveLinks(path, ls, dm) ==
  LET mapper == {q \in DOMAIN links : dm /\ IsPrefix(<<"dev", "block", "mapper">>, q)}
  IN  [q \in {r \in DOMAIN links : ~(r \in ls \cup mapper /\ links[r] = path)} |-> links[q]]

HandleDevice(e) ==
  LET d == e.dev
      path == Node[d]
      ls == LinksOf(d)
      linked == e.action = "add" \/ (e.action = "change" /\ IsMapper(d))
  IN  /\ nodes' = CASE e.action = "add" -> MakeDevice(d)
                    [] e.action = "remove" -> [q \in DOMAIN nodes \ NodePaths[d] |-> nodes[q]]
                    [] OTHER -> nodes
      /\ links' = IF linked THEN MakeLinks(path, ls)
                  ELSE IF e.action = "remove" THEN RemoveLinks(path, ls, IsMapper(d)) ELSE links

\* The firmware is loaded in a child.
FirmwareHandlerHandleUevent(e) ==
  IF IsFirmware(e.dev) /\ e.action = "add"
  THEN \/ \E n \in 1..MaxKids :
            /\ \A k \in kids : ~(k.dev = e.dev /\ k.n = n)
            /\ kids' = kids \cup {[dev |-> e.dev, n |-> n, at |-> "path", fw |-> "", booting |-> TRUE]}
            /\ UNCHANGED <<faults, doubtful>>
       \/ \* fork() fails: the request is only logged
          /\ faults < MaxFaults /\ faults' = faults + 1
          /\ kids' = kids \cup {[dev |-> e.dev, n |-> 0, at |-> "unforked", fw |-> "", booting |-> TRUE]}
          /\ UNCHANGED doubtful
  ELSE UNCHANGED <<kids, faults, doubtful>>

DeviceHandlerHandleUevent(e) ==
  /\ FixupSysPermissions(e)
  /\ IF NodePaths[e.dev] # {} THEN HandleDevice(e) ELSE UNCHANGED <<nodes, links>>

HandleUevent(e) == DeviceHandlerHandleUevent(e) /\ FirmwareHandlerHandleUevent(e)

-----------------------------------------------------------------------------
(* Cold boot.                                                                *)

\* ueventd_main(): cold boot is run once per boot, not once per ueventd.
Start ==
  /\ pc = "start"
  /\ pc' = IF done THEN "poll" ELSE "walk"
  /\ skip' = ~done
  /\ UNCHANGED <<kernelVars, sock, fsVars, coldVars, done, kids, bootVars, answer, faults, doubtful>>

Valid(q) == SelectSeq(q, LAMBDA e : ~Info[e.dev].big)

\* RegenerateUeventsForDir(): poke one uevent file, then drain the socket; a read that fails
\* (ENOBUFS after an overrun) ends the drain early.  A device that appears behind the walk is
\* not poked.
WalkPasses(d) ==
  /\ pc = "walk" /\ d \in devs \ walked
  /\ walked' = walked \cup {d}
  /\ IF d \in present
     THEN LET poke == Ev(d, "add")
              q == IF Received(poke) THEN Append(sock, poke) ELSE sock
          IN  /\ \E n \in 0..Len(q) :
                   uqueue' = uqueue \o Valid(SubSeq(q, 1, n)) /\ sock' = SubSeq(q, n + 1, Len(q))
              /\ doubtful' = IF Received(poke) /\ ~Info[d].big THEN doubtful \ {d} ELSE doubtful
     ELSE UNCHANGED <<uqueue, sock, doubtful>>
  /\ UNCHANGED <<kernelVars, fsVars, pc, worker, restq, skip, done, kids, bootVars, answer, faults>>

\* Two events of one device that different workers handle, one of them its removal.
Raced(q) ==
  {d \in devs : \E i, j \in DOMAIN q :
      q[i].dev = d /\ q[j].dev = d /\ q[i].action = "remove" /\ i % Workers # j % Workers}

Top(d) == Info[d].path[2]
GenerateRestoreCon == SetToSeq({Top(d) : d \in present})

\* UeventHandlerMain(), then RestoreConHandler(): every Workers-th element from the worker's own
\* number on.
WorkerAt(w, at, i, q, rq) ==
  IF at = "uevents" /\ i <= Len(q) THEN [at |-> at, i |-> i]
  ELSE LET j == IF at = "uevents" THEN w + 1 ELSE i
       IN  IF parallel /\ j <= Len(rq) THEN [at |-> "restorecon", i |-> j]
           ELSE [at |-> "exited", i |-> 0]

ForkSubProcesses ==
  /\ pc = "walk" /\ walked = devs
  /\ restq' = IF parallel THEN GenerateRestoreCon ELSE <<>>
  /\ worker' = [w \in WorkerIds |-> WorkerAt(w, "uevents", w + 1, uqueue, restq')]
  /\ pc' = IF parallel THEN "wait" ELSE "restorecon"
  /\ doubtful' = doubtful \cup Raced(uqueue)
  /\ UNCHANGED <<kernelVars, sock, fsVars, walked, uqueue, skip, done, kids, bootVars, answer, faults>>

Restorecon(ds) == [d \in devs |-> IF d \in ds \cap present THEN [sysfs[d] EXCEPT !.label = TRUE] ELSE sysfs[d]]

\* Without parallel_restorecon the main process walks all of /sys.
RestoreconAll ==
  /\ pc = "restorecon" /\ pc' = "wait"
  /\ sysfs' = Restorecon(devs)
  /\ UNCHANGED <<kernelVars, sock, nodes, links, coldVars, skip, done, kids, bootVars, answer, faults, doubtful>>

Advance(w) == [worker EXCEPT ![w] = WorkerAt(w, @.at, @.i + Workers, uqueue, restq)]
WorkerHandles(w) ==
  /\ worker[w].at = "uevents"
  /\ HandleUevent(uqueue[worker[w].i])
  /\ worker' = Advance(w)
  /\ UNCHANGED <<kernelVars, sock, pc, walked, uqueue, restq, skip, done, bootVars, answer>>

WorkerRestores(w) ==
  /\ worker[w].at = "restorecon"
  /\ sysfs' = Restorecon({d \in devs : Top(d) = restq[worker[w].i]})
  /\ worker' = Advance(w)
  /\ UNCHANGED <<kernelVars, sock, nodes, links, pc, walked, uqueue, restq, skip, done, kids, bootVars, answer,
                 faults, doubtful>>

WorkerDies(w) ==
  /\ faults < MaxFaults /\ faults' = faults + 1
  /\ worker[w].at \in {"uevents", "restorecon"}
  /\ worker' = [worker EXCEPT ![w] = [at |-> "crashed", i |-> 0]]
  /\ UNCHANGED <<kernelVars, sock, fsVars, pc, walked, uqueue, restq, skip, done, kids, bootVars, answer, doubtful>>

\* ueventd is gone, and its socket with what was in it.  Its workers go on for a while.
Dead == pc' = "dead" /\ sock' = <<>> /\ doubtful' = doubtful \cup {d \in devs : Pending(d)}

WaitForSubProcesses(w) ==
  /\ pc = "wait"
  /\ \/ /\ worker[w].at = "exited"
        /\ worker' = [worker EXCEPT ![w].at = "reaped"]
        /\ UNCHANGED <<pc, sock, doubtful>>
     \/ worker[w].at = "crashed" /\ Dead /\ UNCHANGED worker
  /\ UNCHANGED <<kernelVars, fsVars, walked, uqueue, restq, skip, done, kids, bootVars, answer, faults>>

ColdbootDone ==
  /\ pc = "wait" /\ \A w \in WorkerIds : worker[w].at = "reaped"
  /\ done' = TRUE /\ skip' = FALSE /\ pc' = "poll"
  /\ uqueue' = <<>> /\ worker' = Idle /\ restq' = <<>> /\ walked' = {}
  /\ UNCHANGED <<kernelVars, sock, fsVars, kids, bootVars, answer, faults, doubtful>>

\* The main loop.
Poll ==
  /\ pc = "poll" /\ sock # <<>>
  /\ sock' = Tail(sock)
  /\ IF Info[Head(sock).dev].big THEN UNCHANGED <<fsVars, kids, faults, doubtful>> ELSE HandleUevent(Head(sock))
  /\ UNCHANGED <<kernelVars, pc, coldVars, skip, done, bootVars, answer>>

UeventdDies ==
  /\ faults < MaxFaults /\ pc \notin {"start", "dead"} /\ faults' = faults + 1
  /\ Dead
  /\ UNCHANGED <<kernelVars, fsVars, coldVars, skip, done, kids, bootVars, answer>>

\* init reaps ueventd, kills the rest of its process group and starts it again.
Restart ==
  /\ pc = "dead" /\ pc' = "start"
  /\ walked' = {} /\ uqueue' = <<>> /\ worker' = Idle /\ restq' = <<>> /\ kids' = {} /\ skip' = TRUE
  /\ doubtful' = doubtful \cup {k.dev : k \in kids}
  /\ UNCHANGED <<kernelVars, sock, fsVars, done, bootVars, answer, faults>>

-----------------------------------------------------------------------------
(* Firmware.  A child looks for the file until the boot is over, then once   *)
(* more.                                                                     *)

Reachable(dir) == Available[dir] = "early" \/ (Available[dir] = "late" /\ mounted)
Directories == Config.directories \o ApexDirectories
\* ForEachFirmwareDirectory(TryLoadFirmware)
Found(fw) == \E i \in DOMAIN Directories : fw \in Firmwares[Directories[i]] /\ Reachable(Directories[i])

Kid(k, new) == kids' = (kids \ {k}) \cup {new}
Ends(k) == kids' = kids \ {k}
kidUnchanged == <<devs, parallel, named, events, fsVars, pc, coldVars, skip, done, bootVars, faults>>

\* A handler that fails, or prints a path with "..", leaves the default.  RunExternalHandler()
\* waits for its end, without a timeout, before it reads what it printed: a handler that hangs,
\* or prints more than the socket takes, holds the child for good.
HasHandler(d) == \E i \in DOMAIN Config.handlers : Match(Config.handlers[i].devpath, TRUE, Info[d].path)
GetFirmwarePath(k) ==
  /\ k.at = "path"
  /\ \/ \E fw \in {Info[k.dev].firmware} \cup (IF HasHandler(k.dev) THEN {HandlerResult} ELSE {}) :
          Kid(k, [k EXCEPT !.at = "open", !.fw = fw])
     \/ HasHandler(k.dev) /\ Kid(k, [k EXCEPT !.at = "stuck"])
  /\ UNCHANGED <<kidUnchanged, present, sock, answer, doubtful>>

OpenRequest(k) ==
  /\ k.at = "open"
  /\ IF k.dev \in present THEN Kid(k, [k EXCEPT !.at = "try", !.booting = booting]) ELSE Ends(k)
  /\ UNCHANGED <<kidUnchanged, present, sock, answer, doubtful>>

\* The kernel takes an answer: the request and its files in /sys go, and what is left of it in
\* ueventd does not matter any more.
Answered(k, code) ==
  /\ answer' = [answer EXCEPT ![k.dev] = [code |-> code, fw |-> k.fw]]
  /\ present' = present \ {k.dev}
  /\ kids' = {o \in kids \ {k} : o.dev # k.dev \/ o.at \in {"path", "open"}}
  /\ Multicast(Ev(k.dev, "remove"))

TryLoading_NoAnswer(k) ==
  /\ k.at = "try"
  /\ IF Found(k.fw) THEN Kid(k, [k EXCEPT !.at = "load"])
     ELSE IF k.booting THEN Kid(k, [k EXCEPT !.at = "sleep"])
     ELSE Ends(k)
  /\ UNCHANGED <<kidUnchanged, present, sock, answer, doubtful>>
TryLoading(k) ==
  /\ k.at = "try"
  /\ IF Found(k.fw) THEN Kid(k, [k EXCEPT !.at = "load"]) /\ UNCHANGED <<present, sock, answer, doubtful>>
     ELSE IF k.booting THEN Kid(k, [k EXCEPT !.at = "sleep"]) /\ UNCHANGED <<present, sock, answer, doubtful>>
     ELSE Answered(k, "not found")
  /\ UNCHANGED kidUnchanged

\* Every 100 ms.  A try that finds nothing while the boot goes on leads back here.
TryAgain(k) ==
  /\ k.at = "sleep" /\ (Found(k.fw) \/ ~booting)
  /\ Kid(k, [k EXCEPT !.at = "try", !.booting = booting])
  /\ UNCHANGED <<kidUnchanged, present, sock, answer, doubtful>>

\* Only a failing sendfile() aborts: the kernel is told to commit a copy cut short as well.
LoadFirmware(k) ==
  /\ k.at = "load"
  /\ \E code \in {"loaded", "short", "aborted"} : Answered(k, code)
  /\ UNCHANGED kidUnchanged

-----------------------------------------------------------------------------
(* The rest of the boot: init waits for cold boot before it mounts anything. *)

MountLate ==
  /\ done /\ ~mounted /\ mounted' = TRUE
  /\ UNCHANGED <<kernelVars, sock, fsVars, pc, coldVars, skip, done, kids, booting, answer, faults, doubtful>>

BootCompletes ==
  /\ mounted /\ booting /\ booting' = FALSE
  /\ UNCHANGED <<kernelVars, sock, fsVars, pc, coldVars, skip, done, kids, mounted, answer, faults, doubtful>>

KidStep(k) == \/ GetFirmwarePath(k) \/ OpenRequest(k) \/ TryLoading(k) \/ TryAgain(k) \/ LoadFirmware(k)
WorkerStep(w) == WorkerHandles(w) \/ WorkerRestores(w)
MainStep ==
  \/ Start \/ ForkSubProcesses \/ RestoreconAll \/ ColdbootDone \/ Poll \/ Restart
  \/ \E d \in devs : WalkPasses(d)
  \/ \E w \in WorkerIds : WaitForSubProcesses(w)
Kernel == \E d \in devs : KernelAdds(d) \/ KernelRemoves(d) \/ KernelChanges(d)
Fault == UeventdDies \/ \E w \in WorkerIds : WorkerDies(w)

\* Some process of ueventd runs, or the boot goes on; the kernel and the faults owe nothing.
\* Nothing here loops, so this weakest form of fairness is enough.
Progress ==
  \/ MainStep \/ MountLate \/ BootCompletes
  \/ \E w \in WorkerIds : WorkerStep(w)
  \/ \E k \in kids : KidStep(k)
Fairness == WF_vars(Progress)

Next == Progress \/ Kernel \/ Fault

Spec == Init /\ [][Next]_vars /\ Fairness

-----------------------------------------------------------------------------
(* Properties.                                                               *)

Settled(d) == d \notin doubtful /\ ~Pending(d)

\* The rules give a device its permissions.  A device-mapper node announced before and after it was
\* named is matched without and with its links, and the second match changes the owner only.
PermIsRight(d, p) ==
  LET expected == {Lookup[d][st][p].perm : st \in IF IsMapper(d) THEN {"gone", "new", "named"} ELSE {At(d)}}
      perm == nodes[p].perm
  IN  \E m, o \in expected : perm = [m EXCEPT !.uid = o.uid]

Owners(l) == {d \in devs : l \in LinksAt[d]["named"]}

\* In the main loop, the /dev of a device whose events were all received, and were not split
\* among workers with a removal among them, is what the kernel and ueventd.rc say: node, mode,
\* owner, labels and links when it is there, nothing when it is gone, and no link to nothing
\* (UeventHandlerMain, MakeDevice, HandleDevice, ColdbootDone).  A link two devices claim is
\* outside it: the first keeps it, and nobody makes it again for the second when the first goes.
NodesMatchKernel ==
  pc = "poll" =>
    \A d \in {x \in devs : Settled(x)} :
      LET paths == NodePaths[d]
      IN  /\ d \in present =>
               /\ sysfs[d].label
               /\ sysfs[d].perm = SysPerm[d]
               /\ \A p \in paths \ NoContext :
                    p \in DOMAIN nodes /\ PermIsRight(d, p)
               /\ \A l \in LinksOf(d) :
                    Owners(l) = {d} /\ Last(l) # "" => l \in DOMAIN links /\ links[l] = Node[d]
          /\ d \notin present => paths \cap DOMAIN nodes = {}
          /\ \A l \in DOMAIN links : links[l] \in paths \ NoContext => links[l] \in DOMAIN nodes

\* A firmware request is told "not found" only when no directory will ever have the file:
\* the directories are searched once more after /dev/.booting is gone (ProcessFirmwareEvent).
\* Nothing is said of a file that was found: a copy cut short is committed as if it were whole.
NoFirmwareMissed ==
  \A d \in devs : answer[d].code = "not found" =>
    \A i \in DOMAIN Directories :
      answer[d].fw \in Firmwares[Directories[i]] => Available[Directories[i]] = "never"

\* What no retry makes good: the request's event was lost, or its child killed with ueventd; no
\* child could be forked; the external handler of its device does not end.
Abandoned(d) == d \in doubtful \/ \E k \in kids : k.dev = d /\ k.at \in {"unforked", "stuck"}

\* Every firmware request is answered in the end unless it is abandoned in one of these ways,
\* although the child may have to wait for the end of a boot that itself waits for cold boot
\* (FirmwareHandler::HandleUevent): again and again no other request is outstanding.
FirmwareAnswered == []<>(\A d \in present : IsFirmware(d) => Abandoned(d))

\* A firmware request that is not abandoned (event lost, child killed or not forked, external
\* handler hanging) gets an answer, and "not found" only if the file is nowhere.
FirmwareServed == []NoFirmwareMissed /\ FirmwareAnswered

=============================================================================
