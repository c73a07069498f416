----------------------------- MODULE Properties -----------------------------
(***************************************************************************)
(* The property service as its clients see it (property_service.cpp) and   *)
(* the file its persistent properties live in (persistent_properties.cpp). *)
(*                                                                         *)
(* One thread serves one connection at a time: it receives a request       *)
(* within a time budget, checks permissions, writes the property area and, *)
(* for persist.* properties, rewrites the property file before it answers. *)
(* A second thread relabels the paths that clients ask for.  Power may be  *)
(* lost at any step, and any step on storage may fail.                     *)
(*                                                                         *)
(* What a set does to the main thread is the subject of module InitLoop,   *)
(* what the property files contribute at boot that of module PropertyBoot. *)
(***************************************************************************)
EXTENDS Naturals, Sequences, FiniteSets

CONSTANTS
  Persist,      \* the persist.* properties
  Others,       \* properties that are not stored
  ReadOnly,     \* the ro.* ones among them
  Values,       \* property values
  Unset,        \* the property does not exist
  Defaults,     \* [Persist -> value or Unset]: what the property files set at boot
  LocalProp,    \* Seq of <<name, value>>: /data/local.prop
  Legacy,       \* [Persist -> value or Unset]: the legacy files of the first boot
  Insecure,     \* legacy files with the wrong owner, mode or link count
  Requests,     \* what clients may send
  Granted,      \* what the SELinux policy lets them set
  IllegalNames, \* names that are not property names
  LongValues,   \* values of PROP_VALUE_MAX bytes or more
  TypeOf,       \* [Names -> type]: the types of property_contexts
  Admits,       \* [type other than string -> the values that parse as one]
  Paths,        \* paths to be relabelled
  Timeout,      \* kDefaultSocketTimeout, in milliseconds
  Grain,        \* steps of the clock in a millisecond
  PartSize,     \* [Requests -> bytes in its command, its name and its value each]
  Waits,        \* [Requests -> how long poll() may wait for a piece, in steps of the clock]
  MaxRequests,  \* bound: requests in a behaviour
  MaxLoads,     \* bound: load_persist_props commands
  MaxFaults,    \* bound: failing steps
  MaxCrashes    \* bound: power losses

Restorecon == "selinux.restorecon_recursive"
Names == Persist \cup Others
Request == [cmd : {"SETPROP", "SETPROP2", "unknown"}, name : STRING, value : Values \cup Paths]

ASSUME PropertiesConstants ==
  /\ Persist \cap Others = {} /\ ReadOnly \subseteq Others /\ Restorecon \in Others
  /\ Unset \notin Values \cup Paths
  /\ Defaults \in [Persist -> Values \cup {Unset}]
  /\ Legacy \in [Persist -> Values \cup {Unset}]
  /\ Insecure \subseteq Persist /\ LongValues \subseteq Values
  /\ \A n \in Names : TypeOf[n] # "string" => TypeOf[n] \in DOMAIN Admits
  /\ Requests \subseteq Request
  /\ \A r \in Requests : r.name # Restorecon => r.value \in Values
  /\ LocalProp \in Seq(STRING \X Values)
  /\ Timeout \in Nat \ {0}
  /\ {MaxRequests, MaxLoads, MaxFaults, MaxCrashes} \subseteq Nat

ASSUME ConnectionConstants ==
  /\ Grain \in Nat \ {0} /\ PartSize \in [Requests -> Nat \ {0}]
  /\ Waits \in [Requests -> SUBSET (0..Grain * Timeout)]

\* The empty value is one.
ASSUME EmptyIsValue == "" \in Values

VARIABLES
  mem,          \* the property area
  loaded,       \* persistent_properties_loaded
  (* the property thread *)
  pc,           \* where it is
  req,          \* the request it serves
  part,         \* the part of the request it receives next
  left,         \* bytes_left of that part
  budget,       \* timeout_ms
  job,          \* the property being stored, and where PropertySet returns to
  buf,          \* the PersistentProperties being written
  todo,         \* records still to be set by HandleInitSocket
  (* AsyncRestorecon *)
  paths,        \* paths_
  started,      \* thread_started_
  rpc,          \* where its thread is
  rpath,        \* the path it works on
  (* /data/property as a process sees it *)
  file,         \* persistent_properties: NoFile, Garbage or File(map)
  tmp,          \* persistent_properties.tmp: "none", "partial" or "complete"
  synced,       \* the data last written to the temporary file has been flushed
  legacy,       \* the legacy files
  (* what a power loss may leave of it *)
  fileAfter,    \* the contents persistent_properties may have
  legacyDisk,   \* the legacy files as of the last flush of the directory
  (* bounds and history *)
  requests, loads, faults, crashes,
  sound,        \* no step on storage has failed that the code cannot recover from
  owed,         \* [Persist -> set of values]: what a client may expect to find
  held,         \* how long the connection has been waited for, in steps of the clock
  chunks,       \* how many pieces of the request have been received
  wanted        \* paths asked for and not yet reported as relabelled

connVars == <<req, part, left, budget, held, chunks>>
threadVars == <<pc, connVars, job, buf, todo>>
asyncVars == <<paths, started, rpc, rpath, wanted>>
diskVars == <<file, tmp, synced, legacy, fileAfter, legacyDisk>>
boundVars == <<requests, loads, crashes>>
vars == <<mem, loaded, threadVars, asyncVars, diskVars, boundVars, faults, sound, owed>>

NoJob == [name |-> "", value |-> "", from |-> "idle"]
NoReq == [cmd |-> "none", name |-> "", value |-> ""]
Empty == [n \in Persist |-> Unset]

\* What persistent_properties may be: missing, impossible to parse, or a map.
NoFile == [kind |-> "none", map |-> Empty]
Garbage == [kind |-> "garbage", map |-> Empty]
File(m) == [kind |-> "map", map |-> m]
IsMap(f) == f.kind = "map"

\* What the next boot would load from a property file and a legacy directory.
Secure(l) == [n \in Persist |-> IF n \in Insecure THEN Unset ELSE l[n]]
Loads(f, l) == IF IsMap(f) THEN f.map ELSE Secure(l)

\* The legacy files a power loss may leave: unlinks that were not flushed may be undone.
LegacyAfter ==
  {l \in [Persist -> Values \cup {Unset}] : \A n \in Persist : l[n] \in {legacy[n], legacyDisk[n]}}

\* What a load finds now, and what it may find after a power loss.
Current == Loads(file, legacy)
After == {Loads(f, l) : f \in fileAfter, l \in LegacyAfter}

PersistMem == [n \in Persist |-> mem[n]]

\* PropertyInit has run: the defaults are set, nothing has been loaded.
Booted == [n \in Names |-> IF n \in Persist THEN Defaults[n] ELSE Unset]

Init ==
  /\ mem = Booted /\ loaded = FALSE
  /\ pc = "idle" /\ req = NoReq /\ part = 1 /\ left = 0 /\ budget = 0 /\ held = 0 /\ chunks = 0
  /\ job = NoJob
  /\ buf = Empty /\ todo = <<>>
  /\ paths = <<>> /\ started = FALSE /\ rpc = "none" /\ rpath = "" /\ wanted = {}
  /\ file = NoFile /\ tmp = "none" /\ synced = TRUE
  /\ legacy = Legacy /\ legacyDisk = Legacy /\ fileAfter = {NoFile}
  /\ requests = 0 /\ loads = 0 /\ faults = 0 /\ crashes = 0
  /\ sound = TRUE /\ owed = [n \in Persist |-> {Secure(Legacy)[n]}]

Fault == faults < MaxFaults /\ faults' = faults + 1
NoFault == UNCHANGED faults

-----------------------------------------------------------------------------
(* A connection.                                                             *)

\* accept4() and the credentials of the peer.
Accept(r) ==
  /\ pc = "idle" /\ requests < MaxRequests
  /\ requests' = requests + 1
  /\ req' = r /\ part' = 1 /\ left' = PartSize[r] /\ budget' = Timeout /\ pc' = "recv"
  /\ UNCHANGED <<held, chunks, mem, loaded, job, buf, todo, asyncVars, diskVars, loads, crashes,
                 faults, sound, owed>>

\* The connection is closed, with whatever answer was sent.
Close ==
  pc' = "idle" /\ req' = NoReq /\ part' = 1 /\ left' = 0 /\ budget' = 0 /\ held' = 0 /\ chunks' = 0

recvUnchanged == <<mem, loaded, job, buf, todo, asyncVars, diskVars, boundVars, faults, sound, owed>>

\* One round of RecvFully: poll() waits for w steps of the clock, whole milliseconds of
\* which are taken off the budget, and recv() gets n more bytes of the command, the name
\* or the value.  The budget is one for the whole request.
RecvFully_BudgetPerPart(w, n) ==
  /\ pc = "recv" /\ budget > 0 /\ n <= left
  /\ held' = held + w /\ chunks' = chunks + 1
  /\ IF n < left THEN left' = left - n /\ budget' = budget - w \div Grain /\ UNCHANGED <<pc, part>>
     ELSE IF part = 1 /\ req.cmd = "unknown"
     THEN pc' = "error" /\ budget' = 0 /\ UNCHANGED <<left, part>>
     ELSE IF part < 3 THEN part' = part + 1 /\ left' = PartSize[req] /\ budget' = Timeout /\ UNCHANGED pc
     ELSE pc' = "context" /\ part' = 1 /\ left' = 0 /\ budget' = 0
  /\ UNCHANGED <<req, recvUnchanged>>
RecvFully(w, n) ==
  /\ pc = "recv" /\ budget > 0 /\ n <= left
  /\ budget' = budget - w \div Grain /\ held' = held + w /\ chunks' = chunks + 1
  /\ IF n < left THEN left' = left - n /\ UNCHANGED <<pc, part>>
     ELSE IF part = 1 /\ req.cmd = "unknown" THEN pc' = "error" /\ UNCHANGED <<left, part>>
     ELSE IF part < 3 THEN part' = part + 1 /\ left' = PartSize[req] /\ UNCHANGED pc
     ELSE pc' = "context" /\ part' = 1 /\ left' = 0
  /\ UNCHANGED <<req, recvUnchanged>>

\* poll() is interrupted by a signal after w steps: what is left of the budget is rounded
\* down, so that interrupts do not prolong it.
PollInterrupted(w) ==
  /\ pc = "recv" /\ w < Grain * budget
  /\ budget' = budget - w \div Grain - 1 /\ held' = held + w
  /\ UNCHANGED <<pc, req, part, left, chunks, recvUnchanged>>

\* The budget runs out, in poll() or before it is called again.
RecvTimesOut ==
  /\ pc = "recv" /\ pc' = "error"
  /\ held' = held + Grain * budget /\ part' = 1 /\ left' = 0 /\ budget' = 0
  /\ UNCHANGED <<req, chunks, recvUnchanged>>

\* The peer is gone, or announces a string that is too long.
RecvFails ==
  /\ pc = "recv" /\ budget > 0 /\ pc' = "error"
  /\ part' = 1 /\ left' = 0 /\ budget' = 0
  /\ UNCHANGED <<req, held, chunks, recvUnchanged>>

\* The client is told, if the protocol has an answer for it.
RecvError ==
  /\ pc = "error" /\ Close
  /\ UNCHANGED recvUnchanged

\* getpeercon(), which fails when the peer is gone.
GetSourceContext ==
  /\ pc = "context"
  /\ \/ pc' = "handle" /\ held' = 0 /\ chunks' = 0 /\ budget' = 0 /\ UNCHANGED <<req, part, left>>
     \/ Close
  /\ UNCHANGED recvUnchanged

-----------------------------------------------------------------------------
(* Permissions.                                                              *)

IsControl(n) == n \in {"ctl.start", "ctl.stop", "ctl.restart", "ctl.interface_start"}

\* The legacy ctl. properties are granted by service, or by action and service.
CheckControlPropertyPerms(r) ==
  \/ r.name \in {"ctl.start", "ctl.stop", "ctl.restart"} /\ <<"ctl", r.value>> \in Granted
  \/ <<r.name, r.value>> \in Granted

IsLegalPropertyName(n) == n \notin IllegalNames

\* Only ro.* properties may have long values.
IsLegalPropertyValue(n, v) == v \in LongValues => n \in ReadOnly

\* An empty value clears the property and is of every type.
CheckType(type, v) == v = "" \/ type = "string" \/ v \in Admits[type]

CheckPermissions(r) ==
  IF ~IsLegalPropertyName(r.name) THEN "INVALID_NAME"
  ELSE IF IsControl(r.name)
  THEN IF CheckControlPropertyPerms(r) THEN "SUCCESS" ELSE "HANDLE_CONTROL_MESSAGE"
  ELSE IF <<r.name>> \notin Granted THEN "PERMISSION_DENIED"
  ELSE IF ~CheckType(TypeOf[r.name], r.value) THEN "INVALID_VALUE"
  ELSE "SUCCESS"

-----------------------------------------------------------------------------
(* PropertySet(), from a request, from local.prop or from the stored records. *)

\* Back to the caller: the answer to the client, or the next record.
Return(from) ==
  /\ job' = NoJob
  /\ IF from = "client" THEN Close ELSE pc' = from /\ UNCHANGED connVars

\* Values have a limit; ro.* properties are written once; the property area may be full.
SetRefused(n, v, from) ==
  /\ \/ ~IsLegalPropertyValue(n, v) /\ NoFault
     \/ n \in ReadOnly /\ mem[n] # Unset /\ NoFault
     \/ mem[n] = Unset /\ Fault
  /\ sound' = (sound /\ from # "records")
  /\ Return(from)
  /\ UNCHANGED <<mem, owed>>

\* The area is written, then the file, but not before the stored values were loaded.
SetAccepted(n, v, from) ==
  /\ IsLegalPropertyValue(n, v) /\ (n \in ReadOnly => mem[n] = Unset)
  /\ mem' = [mem EXCEPT ![n] = v]
  /\ IF loaded /\ n \in Persist
     THEN /\ pc' = "read" /\ job' = [name |-> n, value |-> v, from |-> from]
          /\ owed' = [owed EXCEPT ![n] = @ \cup {v}]
          /\ UNCHANGED connVars
     ELSE Return(from) /\ UNCHANGED owed
  /\ NoFault /\ UNCHANGED sound

PropertySet(n, v, from) == SetRefused(n, v, from) \/ SetAccepted(n, v, from)

-----------------------------------------------------------------------------
(* AsyncRestorecon.                                                          *)

\* mutex_ is held between steps by nobody: the thread lets go of it while it works.
RestoreconLockHeld == FALSE

TriggerRestorecon(path) ==
  /\ ~RestoreconLockHeld
  /\ paths' = Append(paths, path) /\ wanted' = wanted \cup {path}
  /\ started' = TRUE
  /\ rpc' = IF started THEN rpc ELSE "top"
  /\ UNCHANGED rpath

\* With mutex_ held: the next path, or the end of the thread.
RestoreconThread_LeavesStarted ==
  /\ rpc = "top"
  /\ IF paths = <<>>
     THEN rpc' = "none" /\ UNCHANGED <<started, paths, rpath>>
     ELSE rpc' = "restorecon" /\ rpath' = Head(paths) /\ paths' = Tail(paths) /\ UNCHANGED started
  /\ UNCHANGED <<mem, loaded, threadVars, diskVars, boundVars, faults, sound, owed, wanted>>
RestoreconThread ==
  /\ rpc = "top"
  /\ IF paths = <<>>
     THEN rpc' = "none" /\ started' = FALSE /\ UNCHANGED <<paths, rpath>>
     ELSE rpc' = "restorecon" /\ rpath' = Head(paths) /\ paths' = Tail(paths) /\ UNCHANGED started
  /\ UNCHANGED <<mem, loaded, threadVars, diskVars, boundVars, faults, sound, owed, wanted>>

\* selinux_android_restorecon(); a failure is only logged.
RestoreconDone ==
  /\ rpc = "restorecon" /\ rpc' = "set"
  /\ UNCHANGED <<mem, loaded, threadVars, paths, started, rpath, wanted, diskVars, boundVars, faults,
                 sound, owed>>

\* SetProperty(kRestoreconProperty, path) is a request of init's own, pid 1, to the
\* property thread, which takes it like any other when it is free.
RestoreconSet ==
  /\ rpc = "set" /\ pc = "idle"
  /\ mem' = [mem EXCEPT ![Restorecon] = rpath]
  /\ rpc' = "top" /\ rpath' = "" /\ wanted' = wanted \ {rpath}
  /\ UNCHANGED <<loaded, threadVars, paths, started, diskVars, boundVars, faults, sound, owed>>

-----------------------------------------------------------------------------

\* Permissions are checked; control messages are InitLoop's; a client's write
\* of a path to the restorecon property is a request to relabel.
HandlePropertySet ==
  /\ pc = "handle"
  /\ IF CheckPermissions(req) # "SUCCESS" \/ IsControl(req.name)
     THEN /\ Close /\ UNCHANGED <<mem, job, todo, asyncVars, faults, sound, owed>>
     ELSE IF req.name = Restorecon /\ req.value # ""
     THEN /\ TriggerRestorecon(req.value)
          /\ Close /\ UNCHANGED <<mem, job, todo, faults, sound, owed>>
     ELSE PropertySet(req.name, req.value, "client") /\ UNCHANGED <<todo, asyncVars>>
  /\ UNCHANGED <<loaded, buf, diskVars, boundVars>>

-----------------------------------------------------------------------------
(* LoadPersistentPropertyFile(), by WritePersistentProperty ("read") and by   *)
(* LoadPersistentProperties ("load").                                        *)

Put(m, n, v) == [m EXCEPT ![n] = v]

\* The temporary file of an earlier write is removed; an unreadable file is an error,
\* one that cannot be parsed is removed as well.
ReadOk == IsMap(file) /\ NoFault /\ tmp' = "none" /\ UNCHANGED <<file, fileAfter>>
ReadFails ==
  /\ tmp' = "none"
  /\ \/ IsMap(file) /\ Fault /\ UNCHANGED <<file, fileAfter>>
     \/ file = NoFile /\ NoFault /\ UNCHANGED <<file, fileAfter>>
     \/ /\ file = Garbage /\ NoFault
        /\ file' = NoFile /\ fileAfter' = fileAfter \cup {NoFile}

\* A set of one property starts from the file, or from memory when there is none.
ReadForWrite ==
  /\ pc = "read" /\ pc' = "open"
  /\ \/ ReadOk /\ buf' = Put(file.map, job.name, job.value) /\ UNCHANGED owed
     \/ /\ ReadFails
        /\ buf' = Put(PersistMem, job.name, job.value)
        /\ owed' = [n \in Persist |-> owed[n] \cup {mem[n]}]
  /\ UNCHANGED <<mem, loaded, connVars, job, todo, asyncVars, synced, legacy, legacyDisk,
                 boundVars, sound>>

\* The records of a map, in some order, to be set one after the other.
Records(m) ==
  {s \in UNION {[1..k -> Persist \X Values] : k \in 0..Cardinality(Persist)} :
     /\ Len(s) = Cardinality({n \in Persist : m[n] # Unset})
     /\ \A n \in Persist : m[n] # Unset => \E i \in DOMAIN s : s[i] = <<n, m[n]>>}

ReadForLoad ==
  /\ pc = "load"
  /\ \/ ReadOk /\ pc' = "records" /\ todo' \in Records(file.map) /\ UNCHANGED sound
     \/ ReadFails /\ pc' = "legacy" /\ sound' = (sound /\ ~IsMap(file)) /\ UNCHANGED todo
  /\ UNCHANGED <<mem, loaded, connVars, job, buf, asyncVars, synced, legacy, legacyDisk,
                 boundVars, owed>>

\* LoadLegacyPersistentProperties: insecure files are skipped, and so are files that
\* cannot be opened or read; when the directory cannot be opened nothing is loaded.
LoadLegacy ==
  /\ pc = "legacy"
  /\ \/ NoFault /\ buf' = Secure(legacy) /\ pc' = "open" /\ UNCHANGED <<sound, todo>>
     \/ /\ Fault
        /\ \E n \in Persist : /\ Secure(legacy)[n] # Unset
                              /\ buf' = Put(Secure(legacy), n, Unset)
        /\ pc' = "open" /\ sound' = FALSE /\ UNCHANGED todo
     \/ Fault /\ pc' = "records" /\ todo' = <<>> /\ sound' = FALSE /\ UNCHANGED buf
  /\ UNCHANGED <<mem, loaded, connVars, job, asyncVars, diskVars, boundVars, owed>>

-----------------------------------------------------------------------------
(* WritePersistentPropertyFile(), a system call at a time.                   *)

writeUnchanged == <<mem, loaded, asyncVars, boundVars>>
Stay == UNCHANGED <<connVars, job, todo, buf>>
Migrating == job = NoJob

\* A failed write is logged: the set succeeds all the same, the legacy files stay.
WriteFails ==
  /\ buf' = Empty
  /\ IF Migrating
     THEN pc' = "records" /\ todo' \in Records(buf) /\ UNCHANGED <<connVars, job>>
     ELSE Return(job.from) /\ UNCHANGED todo

OpenTemp ==
  /\ pc = "open"
  /\ \/ NoFault /\ tmp' = "partial" /\ synced' = FALSE /\ pc' = "write" /\ Stay
     \/ Fault /\ UNCHANGED <<tmp, synced>> /\ WriteFails
  /\ UNCHANGED <<writeUnchanged, file, legacy, fileAfter, legacyDisk, sound, owed>>

WriteString ==
  /\ pc = "write"
  /\ \/ NoFault /\ tmp' = "complete" /\ pc' = "fsync" /\ Stay
     \/ Fault /\ UNCHANGED tmp /\ WriteFails
  /\ UNCHANGED <<writeUnchanged, file, synced, legacy, fileAfter, legacyDisk, sound, owed>>

\* The result of fsync() is not looked at.
Fsync_Skipped ==
  /\ pc = "fsync" /\ pc' = "rename" /\ Stay
  /\ UNCHANGED <<writeUnchanged, file, tmp, synced, legacy, fileAfter, legacyDisk, sound, owed, faults>>
Fsync ==
  /\ pc = "fsync" /\ pc' = "rename" /\ Stay
  /\ \/ NoFault /\ synced' = TRUE /\ UNCHANGED sound
     \/ Fault /\ synced' = FALSE /\ sound' = FALSE
  /\ UNCHANGED <<writeUnchanged, file, tmp, legacy, fileAfter, legacyDisk, owed>>

\* What the new file may hold after a power loss: data that was not flushed may be lost.
Written == {File(buf)} \cup (IF synced THEN {} ELSE {Garbage})

Rename ==
  /\ pc = "rename" /\ tmp' = "none"
  /\ \/ /\ NoFault /\ file' = File(buf) /\ fileAfter' = fileAfter \cup Written
        /\ pc' = "opendir" /\ Stay
     \/ Fault /\ UNCHANGED <<file, fileAfter>> /\ WriteFails
  /\ UNCHANGED <<writeUnchanged, synced, legacy, legacyDisk, sound, owed>>

\* Without a descriptor for the directory there is no flush, and the write has failed.
OpenDir ==
  /\ pc = "opendir"
  /\ \/ NoFault /\ pc' = "fsyncdir" /\ Stay
     \/ Fault /\ WriteFails
  /\ UNCHANGED <<writeUnchanged, diskVars, sound, owed>>

\* The end of a write: the migration goes on to the legacy files, a set is answered.
Stored ==
  IF Migrating THEN pc' = "remove" /\ Stay /\ UNCHANGED owed
  ELSE /\ Return(job.from) /\ buf' = Empty /\ UNCHANGED todo
       /\ owed' = [owed EXCEPT ![job.name] = {job.value}]

\* The directory is flushed: the rename, and any unlink of a legacy file before it.
\* Again the result is not looked at.
FsyncDir_Skipped ==
  /\ pc = "fsyncdir" /\ NoFault
  /\ Stored
  /\ UNCHANGED <<writeUnchanged, file, tmp, synced, legacy, fileAfter, legacyDisk, sound>>
FsyncDir ==
  /\ pc = "fsyncdir"
  /\ \/ NoFault /\ fileAfter' = Written /\ legacyDisk' = legacy /\ UNCHANGED sound
     \/ Fault /\ sound' = FALSE /\ UNCHANGED <<fileAfter, legacyDisk>>
  /\ Stored
  /\ UNCHANGED <<writeUnchanged, file, tmp, synced, legacy>>

\* RemoveLegacyPersistentPropertyFiles: all of them, the ones that were skipped as well.
RemoveLegacy ==
  /\ pc = "remove" /\ pc' = "records"
  /\ legacy' = Empty /\ todo' \in Records(buf) /\ buf' = Empty
  /\ UNCHANGED <<writeUnchanged, connVars, job, file, tmp, synced, fileAfter, legacyDisk,
                 sound, owed, faults>>

-----------------------------------------------------------------------------
(* HandleInitSocket: load_override_properties, LoadPersistentProperties, the *)
(* records, ro.persistent_properties.ready.                                  *)

LoadMessage ==
  /\ pc = "idle" /\ loads < MaxLoads
  /\ loads' = loads + 1
  /\ pc' = "override" /\ todo' = LocalProp
  /\ UNCHANGED <<mem, loaded, connVars, job, buf, asyncVars, diskVars, requests, crashes,
                 faults, sound, owed>>

\* CheckPermissions for init itself, to which the policy grants every property.
InitMaySet(n, v) == IsLegalPropertyName(n) /\ CheckType(TypeOf[n], v)

\* The next record of local.prop ("override"), or of the stored properties ("records",
\* InitPropertySet); one that may not be set is logged and skipped.
SetRecord ==
  /\ pc \in {"override", "records"} /\ todo # <<>>
  /\ IF InitMaySet(todo[1][1], todo[1][2])
     THEN PropertySet(todo[1][1], todo[1][2], pc)
     ELSE /\ sound' = (sound /\ pc # "records")
          /\ UNCHANGED <<pc, connVars, job, mem, owed, faults>>
  /\ todo' = Tail(todo)
  /\ UNCHANGED <<loaded, buf, asyncVars, diskVars, boundVars>>

OverridesDone ==
  /\ pc = "override" /\ todo = <<>> /\ pc' = "load"
  /\ UNCHANGED <<mem, loaded, connVars, job, buf, todo, asyncVars, diskVars, boundVars,
                 faults, sound, owed>>

RecordsDone ==
  /\ pc = "records" /\ todo = <<>> /\ pc' = "idle"
  /\ loaded' = TRUE
  /\ UNCHANGED <<mem, connVars, job, buf, todo, asyncVars, diskVars, boundVars, faults,
                 sound, owed>>

-----------------------------------------------------------------------------

\* Power is lost and the device boots again.
PowerLoss ==
  /\ crashes < MaxCrashes /\ crashes' = crashes + 1
  /\ \E f \in fileAfter, l \in LegacyAfter :
       /\ file' = f /\ fileAfter' = {f}
       /\ legacy' = l /\ legacyDisk' = l
  /\ tmp' \in {tmp, "none"} /\ synced' = TRUE
  /\ mem' = Booted /\ loaded' = FALSE /\ loads' = 0
  /\ Close /\ job' = NoJob /\ buf' = Empty /\ todo' = <<>>
  /\ paths' = <<>> /\ started' = FALSE /\ rpc' = "none" /\ rpath' = "" /\ wanted' = {}
  /\ UNCHANGED <<requests, faults, sound, owed>>

Storage ==
  \/ ReadForWrite \/ ReadForLoad \/ LoadLegacy
  \/ OpenTemp \/ WriteString \/ Fsync \/ Rename \/ OpenDir \/ FsyncDir \/ RemoveLegacy

PropertyThread ==
  \/ RecvTimesOut \/ RecvError \/ GetSourceContext \/ HandlePropertySet
  \/ Storage
  \/ SetRecord \/ OverridesDone \/ RecordsDone

RestoreconSteps == RestoreconThread \/ RestoreconDone \/ RestoreconSet

Next ==
  \/ \E r \in Requests : Accept(r)
  \/ LoadMessage
  \/ pc = "recv" /\ \E w \in Waits[req] :
       \/ w <= Grain * budget /\ \E n \in 1..left : RecvFully(w, n)
       \/ PollInterrupted(w)
  \/ RecvFails
  \/ PropertyThread
  \/ RestoreconSteps
  \/ PowerLoss

\* Two threads that the scheduler runs, and calls that return, poll() when its time is
\* over.  A client need not send what the thread waits for, nor close its connection.
Spec ==
  /\ Init /\ [][Next]_vars
  /\ WF_vars(PropertyThread)
  /\ WF_vars(RestoreconThread) /\ WF_vars(RestoreconDone) /\ SF_vars(RestoreconSet)

-----------------------------------------------------------------------------

\* The property file and the legacy directory together are a durable map: every load
\* finds a whole map, the old one or the new one, whenever the power is lost and
\* whichever step of a write or of the migration fails.
Durable == INSTANCE DurableMap WITH
  Names <- Persist,
  memory <- PersistMem,
  current <- Current,
  after <- After
IsDurableMap == Durable!Spec

\* A set of a persist.* property that has been stored when its client is answered
\* survives a power loss; one whose write failed leaves the value before it.
AcknowledgedSurvives ==
  sound => \A m \in After, n \in Persist : m[n] \in owed[n]

\* A client holds the thread for the time budget of a connection, however it spreads its
\* bytes and its signals: the parts of a request share one budget.  Exception: PollIn drops
\* the fraction of a millisecond of each wait that ends with data, so every piece may add
\* almost one.
WaitIsBounded == held <= Grain * Timeout + (Grain - 1) * chunks

\* The thread always gets back to its clients, within the budget of each connection.
PropertyThreadIsFree == [](<>(pc = "idle") /\ WaitIsBounded)

\* Every path a client asked to have relabelled is worked on and reported, also when
\* the request comes as the thread is about to end, and neither thread waits for the
\* other with a lock held.
RestoreconHappens == \A p \in Paths : p \in wanted ~> p \notin wanted
=============================================================================
