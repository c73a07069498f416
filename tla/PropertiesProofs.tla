-------------------------- MODULE PropertiesProofs --------------------------
(***************************************************************************)
(* The property file implements DurableMap, and an acknowledged set        *)
(* survives, for every set of properties and values, every number of       *)
(* faults and power losses, and every legacy directory.                    *)
(*                                                                         *)
(* The invariant follows one write through its system calls: what buf      *)
(* holds relative to the file it will replace (Buffered), when its data    *)
(* are flushed, and which whole maps a power loss may leave.  It is kept   *)
(* only while sound holds: after a failed flush nothing is promised.       *)
(***************************************************************************)
EXTENDS Properties, TLAPS

Map == [Persist -> Values \cup {Unset}]
IsFile(f) == f = NoFile \/ f = Garbage \/ \E m \in Map : f = File(m)

\* The stages of WritePersistentPropertyFile before and after the rename.
Preparing == {"open", "write", "fsync", "rename"}
Flushing == {"opendir", "fsyncdir"}

Types ==
  /\ sound \in BOOLEAN
  /\ DOMAIN mem = Names /\ mem = [n \in Names |-> mem[n]] /\ PersistMem \in Map
  /\ buf \in Map /\ legacy \in Map /\ legacyDisk \in Map
  /\ \A f \in fileAfter : IsFile(f)
  /\ file \in fileAfter
  /\ owed \in [Persist -> SUBSET (Values \cup {Unset})]
  /\ todo \in Seq((Persist \cup STRING) \X Values)
  /\ pc \in {"recv", "error", "context", "handle"} => req \in Requests

\* The property being stored is the one that was set last, and its value is owed; once
\* the temporary file is renamed, the file is the one that was written.
JobIsSet ==
  /\ job.from \in {"client", "override", "records"}
  /\ job.name \in Persist /\ job.value \in Values
  /\ mem[job.name] = job.value /\ job.value \in owed[job.name]
Jobs ==
  /\ pc = "read" => job # NoJob
  /\ pc \notin {"read"} \cup Preparing \cup Flushing => job = NoJob
  /\ job # NoJob => JobIsSet
  /\ pc \in Flushing => file = File(buf)

\* buf brings the file up to date, or migrates the legacy directory without a change.
Buffered ==
  IF job = NoJob THEN ~IsMap(file) /\ buf = Secure(legacy)
  ELSE \/ buf = PersistMem /\ \A n \in Persist : mem[n] \in owed[n]
       \/ IsMap(file) /\ buf = Put(file.map, job.name, job.value)

Storing ==
  /\ Garbage \notin fileAfter
  /\ pc = "legacy" => ~IsMap(file)
  /\ pc \in Preparing => Buffered
  /\ pc \in {"rename"} \cup Flushing => synced = TRUE
  /\ pc \in Flushing /\ job # NoJob => buf[job.name] = job.value
  /\ pc = "remove" => fileAfter = {File(buf)}

Inv == Types /\ Jobs /\ (sound => Storing /\ AcknowledgedSurvives)

\* The steps of DurableMap in terms of the variables it is given here.
abstract == <<PersistMem, Current, After>>
AbsSet ==
  /\ \E n \in Persist, v \in Values : PersistMem' = [PersistMem EXCEPT ![n] = v]
  /\ UNCHANGED <<Current, After>>
AbsStore ==
  /\ \E n \in Persist : Current' \in {[Current EXCEPT ![n] = PersistMem[n]], PersistMem}
  /\ After' = After \cup {Current'} /\ UNCHANGED PersistMem
AbsFlush == After' = {Current} /\ UNCHANGED <<PersistMem, Current>>
AbsLoss == Current' \in After /\ After' = {Current'} /\ PersistMem' = Defaults
AbsStep ==
  sound' => /\ sound
            /\ UNCHANGED abstract \/ AbsSet \/ AbsStore \/ AbsFlush \/ AbsLoss

-----------------------------------------------------------------------------
(* Files and what a boot loads from them.                                    *)

\* A whole file is not a missing one, and holds the map it was written from.
LEMMA FileFacts ==
  /\ ~IsMap(NoFile) /\ ~IsMap(Garbage) /\ NoFile # Garbage
  /\ \A m \in Map : IsMap(File(m)) /\ File(m).map = m /\ File(m) # Garbage /\ File(m) # NoFile
BY DEF IsMap, NoFile, Garbage, File

\* A boot loads the map of the file, or else the secure legacy files.
LEMMA LoadsFacts ==
  /\ \A m \in Map : \A l : Loads(File(m), l) = m
  /\ \A l : Loads(NoFile, l) = Secure(l) /\ Loads(Garbage, l) = Secure(l)
BY FileFacts DEF Loads

\* Skipping the insecure legacy files leaves a map.
LEMMA SecureIsMap == \A l \in Map : Secure(l) \in Map
BY DEF Secure, Map

\* A change of one entry of a map leaves a map.
LEMMA PutIsMap ==
  ASSUME NEW m \in Map, NEW n \in Persist, NEW v \in Values \cup {Unset}
  PROVE  /\ Put(m, n, v) \in Map /\ Put(m, n, v)[n] = v
         /\ \A k \in Persist : k # n => Put(m, n, v)[k] = m[k]
BY DEF Put, Map

\* The empty map is one.
LEMMA EmptyIsMap == Empty \in Map
BY DEF Empty, Map

\* The legacy files as they are may survive a power loss; all that may are maps.
LEMMA LegacyStays ==
  ASSUME legacy \in Map
  PROVE  legacy \in LegacyAfter /\ \A l \in LegacyAfter : l \in Map
BY DEF LegacyAfter, Map

\* While storage is sound every file a power loss may leave is missing or whole.
LEMMA Whole ==
  ASSUME Types, Garbage \notin fileAfter, NEW f \in fileAfter
  PROVE  f = NoFile \/ \E m \in Map : f = File(m)
BY DEF Types, IsFile

\* What may be loaded depends on the file and the legacy directory only.
LEMMA DiskFrame ==
  ASSUME UNCHANGED <<file, legacy, fileAfter, legacyDisk>>
  PROVE  UNCHANGED <<Current, After, LegacyAfter>>
<1>1. UNCHANGED LegacyAfter
  BY DEF LegacyAfter
<1>2. UNCHANGED Current
  BY DEF Current
<1>3. UNCHANGED After
  BY <1>1 DEF After
<1> QED BY <1>1, <1>2, <1>3

\* What a client may expect is not lost by a step that leaves storage alone.
LEMMA AckFrame ==
  ASSUME AcknowledgedSurvives, sound' => sound,
         UNCHANGED <<file, legacy, fileAfter, legacyDisk>>,
         \A n \in Persist : owed[n] \subseteq owed'[n]
  PROVE  AcknowledgedSurvives'
<1>1. UNCHANGED After
  BY DiskFrame
<1> QED BY <1>1 DEF AcknowledgedSurvives

-----------------------------------------------------------------------------
(* Steps that leave storage alone.                                           *)

Away == {"idle", "recv", "error", "context", "handle", "override", "load", "records"}

\* The thread is not writing, storage, memory and what is owed stay as they are.
LEMMA QuietStep ==
  ASSUME Inv, Types', pc' \in Away, job' = NoJob, UNCHANGED <<PersistMem, owed>>,
         sound' => sound, UNCHANGED <<file, legacy, fileAfter, legacyDisk>>
  PROVE  Inv' /\ AbsStep
<1>1. UNCHANGED <<Current, After>>
  BY DiskFrame
<1>2. AbsStep
  BY <1>1 DEF AbsStep, abstract
<1>3. Jobs'
  BY DEF Jobs, Away, Preparing, Flushing
<1>4. sound' => Storing'
  BY DEF Inv, Storing, Away, Preparing, Flushing
<1>5. sound' => AcknowledgedSurvives'
  BY AckFrame DEF Inv
<1> QED BY <1>2, <1>3, <1>4, <1>5 DEF Inv

\* What the persist.* part of the property area is after a write to one property.
LEMMA MemWrite ==
  ASSUME Types, NEW n, NEW v, mem' = [mem EXCEPT ![n] = v]
  PROVE  /\ DOMAIN mem' = Names /\ mem' = [k \in Names |-> mem'[k]]
         /\ n \notin Persist => UNCHANGED PersistMem
         /\ n \in Persist => PersistMem' = [PersistMem EXCEPT ![n] = v] /\ mem'[n] = v
BY DEF Types, PersistMem, Names

\* A property is set from a request, local.prop or a stored record.
LEMMA PropertySetStep ==
  ASSUME Inv, NEW n, NEW v \in Values, NEW from \in {"client", "override", "records"},
         PropertySet(n, v, from), job = NoJob, UNCHANGED <<buf, diskVars>>,
         todo' \in Seq((Persist \cup STRING) \X Values)
  PROVE  Inv' /\ AbsStep
<1>0. UNCHANGED <<file, legacy, fileAfter, legacyDisk, synced, buf>> /\ Types /\ Jobs
  BY DEF diskVars, Inv
<1>1. CASE SetRefused(n, v, from)
  <2>1. pc' \in Away /\ job' = NoJob /\ pc' \notin {"recv", "error", "context", "handle"}
    BY <1>1 DEF SetRefused, Return, Close, Away
  <2>2. UNCHANGED <<mem, owed>> /\ (sound' => sound)
    BY <1>1 DEF SetRefused
  <2>3. sound' \in BOOLEAN
    BY <1>1, <1>0 DEF SetRefused, Types
  <2>4. UNCHANGED PersistMem
    BY <2>2 DEF PersistMem
  <2>5. Types'
    BY <1>0, <2>1, <2>2, <2>3, <2>4 DEF Types
  <2> QED BY <1>0, <2>1, <2>2, <2>4, <2>5, QuietStep
<1>2. CASE SetAccepted(n, v, from)
  <2>1. mem' = [mem EXCEPT ![n] = v] /\ UNCHANGED sound
    BY <1>2 DEF SetAccepted
  <2>2. /\ DOMAIN mem' = Names /\ mem' = [k \in Names |-> mem'[k]]
        /\ n \notin Persist => UNCHANGED PersistMem
        /\ n \in Persist => PersistMem' = [PersistMem EXCEPT ![n] = v] /\ mem'[n] = v
    BY <1>0, <2>1, MemWrite
  <2>3. PersistMem' \in Map
    BY <1>0, <2>2 DEF Types, Map
  <2>4. CASE loaded /\ n \in Persist
    <3>1. /\ pc' = "read" /\ job' = [name |-> n, value |-> v, from |-> from]
          /\ owed' = [owed EXCEPT ![n] = @ \cup {v}]
      BY <1>2, <2>4 DEF SetAccepted
    <3>2. /\ owed' \in [Persist -> SUBSET (Values \cup {Unset})] /\ v \in owed'[n]
          /\ \A k \in Persist : owed[k] \subseteq owed'[k]
      BY <1>0, <2>4, <3>1 DEF Types
    <3>3. Types'
      BY <1>0, <2>1, <2>2, <2>3, <3>1, <3>2 DEF Types
    <3>4. job' # NoJob
      BY <3>1 DEF NoJob
    <3>5. JobIsSet'
      BY <2>2, <2>4, <3>1, <3>2 DEF JobIsSet
    <3>6. Jobs'
      BY <3>1, <3>4, <3>5 DEF Jobs, Preparing, Flushing
    <3>7. sound' => Storing'
      BY <1>0, <2>1, <3>1 DEF Inv, Storing, Preparing, Flushing
    <3>8. sound' => AcknowledgedSurvives'
      BY <1>0, <2>1, <3>2, AckFrame DEF Inv
    <3>9. UNCHANGED <<Current, After>>
      BY <1>0, DiskFrame
    <3>10. AbsStep
      BY <2>1, <2>2, <2>4, <3>9 DEF AbsStep, AbsSet
    <3> QED BY <3>3, <3>6, <3>7, <3>8, <3>10 DEF Inv
  <2>5. CASE ~(loaded /\ n \in Persist)
    <3>1. pc' \in Away /\ job' = NoJob /\ pc' \notin {"recv", "error", "context", "handle"} /\ UNCHANGED owed
      BY <1>2, <2>5 DEF SetAccepted, Return, Close, Away
    <3>2. Types'
      BY <1>0, <2>1, <2>2, <2>3, <3>1 DEF Types
    <3>3. CASE n \notin Persist
      BY <1>0, <2>1, <2>2, <3>1, <3>2, <3>3, QuietStep
    <3>4. CASE n \in Persist
      <4>1. Jobs'
        BY <3>1 DEF Jobs, Away, Preparing, Flushing
      <4>2. sound' => Storing'
        BY <1>0, <2>1, <3>1 DEF Inv, Storing, Away, Preparing, Flushing
      <4>3. sound' => AcknowledgedSurvives'
        BY <1>0, <2>1, <3>1, AckFrame DEF Inv
      <4>4. UNCHANGED <<Current, After>>
        BY <1>0, DiskFrame
      <4>5. AbsStep
        BY <2>1, <2>2, <3>4, <4>4 DEF AbsStep, AbsSet
      <4> QED BY <3>2, <4>1, <4>2, <4>3, <4>5 DEF Inv
    <3> QED BY <3>3, <3>4
  <2> QED BY <2>4, <2>5
<1> QED BY <1>1, <1>2 DEF PropertySet

\* A client's request: denied, a control message, a path to relabel, or a set.
LEMMA HandlePropertySetStep ==
  ASSUME Inv, HandlePropertySet
  PROVE  Inv' /\ AbsStep
<1>0. pc = "handle" /\ UNCHANGED <<buf, diskVars>> /\ Types /\ Jobs
  BY DEF HandlePropertySet, Inv
<1>1. job = NoJob /\ req \in Requests /\ UNCHANGED <<file, legacy, fileAfter, legacyDisk>>
  BY <1>0 DEF Jobs, Types, Preparing, Flushing, diskVars
<1>2. CASE (CheckPermissions(req) # "SUCCESS" \/ IsControl(req.name)
              \/ (req.name = Restorecon /\ req.value # ""))
  <2>1. Close /\ UNCHANGED <<mem, job, todo, sound, owed>>
    BY <1>2 DEF HandlePropertySet
  <2>2. UNCHANGED PersistMem
    BY <2>1 DEF PersistMem
  <2>3. pc' = "idle"
    BY <2>1 DEF Close
  <2>4. Types'
    BY <1>0, <1>1, <2>1, <2>2, <2>3 DEF Types
  <2>5. pc' \in Away
    BY <2>3 DEF Away
  <2> QED BY <1>1, <2>1, <2>2, <2>4, <2>5, QuietStep
<1>3. CASE ~(CheckPermissions(req) # "SUCCESS" \/ IsControl(req.name)
               \/ (req.name = Restorecon /\ req.value # ""))
  <2>0. /\ ~(CheckPermissions(req) # "SUCCESS" \/ IsControl(req.name))
        /\ ~(req.name = Restorecon /\ req.value # "")
    BY <1>3
  <2>1. PropertySet(req.name, req.value, "client") /\ UNCHANGED todo
    BY <2>0, Zenon DEF HandlePropertySet
  <2>2. req.value \in Values
    <3>1. CASE req.name # Restorecon
      BY <1>1, <3>1, PropertiesConstants
    <3>2. CASE req.value = ""
      BY <3>2, EmptyIsValue
    <3>3. req.name # Restorecon \/ req.value = ""
      BY <2>0
    <3> QED BY <3>1, <3>2, <3>3
  <2>3. todo' \in Seq((Persist \cup STRING) \X Values)
    BY <1>0, <2>1 DEF Types
  <2> QED BY <1>0, <1>1, <2>1, <2>2, <2>3, PropertySetStep
<1> QED BY <1>2, <1>3

\* A record of local.prop or of the stored properties is set.
LEMMA SetRecordStep ==
  ASSUME Inv, SetRecord
  PROVE  Inv' /\ AbsStep
<1>0. /\ pc \in {"override", "records"} /\ todo # <<>>
      /\ todo' = Tail(todo) /\ UNCHANGED <<buf, diskVars>> /\ Types /\ Jobs
  BY DEF SetRecord, Inv
<1>1. job = NoJob
  BY <1>0 DEF Jobs, Preparing, Flushing
<1> DEFINE R == (Persist \cup STRING) \X Values
<1>2. todo \in Seq(R)
  BY <1>0 DEF Types
<1>3. todo' \in Seq(R) /\ todo[1] \in R
  <2> HIDE DEF R
  <2> QED BY <1>0, <1>2
<1>4. todo[1][2] \in Values
  BY <1>3
<1>5. CASE InitMaySet(todo[1][1], todo[1][2])
  <2>1. PropertySet(todo[1][1], todo[1][2], pc)
    BY <1>5 DEF SetRecord
  <2> QED BY <1>0, <1>1, <1>3, <1>4, <2>1, PropertySetStep
<1>6. CASE ~InitMaySet(todo[1][1], todo[1][2])
  <2>1. UNCHANGED <<pc, job, mem, owed>> /\ sound' \in BOOLEAN /\ (sound' => sound)
    BY <1>0, <1>6 DEF SetRecord, Types
  <2>2. UNCHANGED <<PersistMem, file, legacy, fileAfter, legacyDisk>> /\ pc' \in Away
    BY <1>0, <2>1 DEF PersistMem, diskVars, Away
  <2>3. Types'
    BY <1>0, <1>3, <2>1, <2>2 DEF Types
  <2> QED BY <1>1, <2>1, <2>2, <2>3, QuietStep
<1> QED BY <1>5, <1>6

\* The steps of a connection.
Connection ==
  \/ \E w, n : RecvFully(w, n)
  \/ \E w : PollInterrupted(w)
  \/ RecvTimesOut \/ RecvFails \/ RecvError \/ GetSourceContext

\* Connections, local.prop, the end of a load and the restorecon thread.
LEMMA QuietSteps ==
  ASSUME Inv,
         \/ \E r \in Requests : Accept(r)
         \/ LoadMessage \/ Connection \/ OverridesDone \/ RecordsDone
         \/ RestoreconThread \/ RestoreconDone \/ RestoreconSet
  PROVE  Inv' /\ AbsStep
<1> USE PropertiesConstants
<1> DEFINE Frame == UNCHANGED <<job, buf, file, synced, legacy, fileAfter, legacyDisk, sound, owed>>
<1>0. Types /\ Jobs
  BY DEF Inv
<1>1. CASE \E r \in Requests : Accept(r)
  <2>1. pc = "idle" /\ pc' = "recv" /\ req' \in Requests /\ UNCHANGED <<mem, todo>> /\ Frame
    BY <1>1 DEF Accept, diskVars
  <2>2. UNCHANGED PersistMem /\ pc' \in Away
    BY <2>1 DEF PersistMem, Away
  <2>3. Types'
    BY <1>0, <2>1, <2>2 DEF Types
  <2>4. job' = NoJob
    BY <1>0, <2>1 DEF Jobs, Preparing, Flushing
  <2> QED BY <2>1, <2>2, <2>3, <2>4, QuietStep
<1>2. CASE LoadMessage
  <2>1. pc = "idle" /\ pc' = "override" /\ todo' = LocalProp /\ UNCHANGED mem /\ Frame
    BY <1>2 DEF LoadMessage, diskVars
  <2>2. UNCHANGED PersistMem /\ pc' \in Away
    BY <2>1 DEF PersistMem, Away
  <2>3. todo' \in Seq((Persist \cup STRING) \X Values)
    BY <2>1
  <2>4. Types'
    BY <1>0, <2>1, <2>2, <2>3 DEF Types
  <2>5. job' = NoJob
    BY <1>0, <2>1 DEF Jobs, Preparing, Flushing
  <2> QED BY <2>1, <2>2, <2>4, <2>5, QuietStep
<1>3. CASE Connection
  <2>1. /\ pc \in {"recv", "error", "context"} /\ UNCHANGED <<mem, todo>> /\ Frame
        /\ pc' = "idle" \/ (pc' \in {"recv", "error", "context", "handle"} /\ UNCHANGED req)
    <3> USE DEF recvUnchanged, diskVars
    <3>1. CASE \E w, n : RecvFully(w, n)
      BY <3>1 DEF RecvFully
    <3>2. CASE \E w : PollInterrupted(w)
      BY <3>2 DEF PollInterrupted
    <3>3. CASE RecvTimesOut \/ RecvFails
      BY <3>3 DEF RecvTimesOut, RecvFails, connVars
    <3>4. CASE RecvError \/ GetSourceContext
      BY <3>4 DEF RecvError, GetSourceContext, Close
    <3> QED BY <1>3, <3>1, <3>2, <3>3, <3>4 DEF Connection
  <2>2. UNCHANGED PersistMem /\ pc' \in Away
    BY <2>1 DEF PersistMem, Away
  <2>3. Types'
    BY <1>0, <2>1, <2>2 DEF Types
  <2>4. job' = NoJob
    BY <1>0, <2>1 DEF Jobs, Preparing, Flushing
  <2> QED BY <2>1, <2>2, <2>3, <2>4, QuietStep
<1>4. CASE OverridesDone \/ RecordsDone
  <2>1. /\ pc \in {"override", "records"} /\ UNCHANGED <<mem, todo>> /\ Frame
        /\ pc' \in {"load", "idle"}
    BY <1>4 DEF OverridesDone, RecordsDone, diskVars
  <2>2. UNCHANGED PersistMem /\ pc' \in Away
    BY <2>1 DEF PersistMem, Away
  <2>3. Types'
    BY <1>0, <2>1, <2>2 DEF Types
  <2>4. job' = NoJob
    BY <1>0, <2>1 DEF Jobs, Preparing, Flushing
  <2> QED BY <2>1, <2>2, <2>3, <2>4, QuietStep
<1>5. CASE RestoreconSet
  <2>1. /\ pc = "idle" /\ mem' = [mem EXCEPT ![Restorecon] = rpath] /\ Frame
        /\ UNCHANGED <<pc, req, todo>>
    BY <1>5 DEF RestoreconSet, threadVars, connVars, diskVars
  <2>2. Restorecon \notin Persist
    OBVIOUS
  <2>3. DOMAIN mem' = Names /\ mem' = [k \in Names |-> mem'[k]] /\ UNCHANGED PersistMem
    BY <1>0, <2>1, <2>2, MemWrite
  <2>4. Types'
    BY <1>0, <2>1, <2>3 DEF Types
  <2>5. job' = NoJob /\ pc' \in Away
    BY <1>0, <2>1 DEF Jobs, Preparing, Flushing, Away
  <2> QED BY <2>1, <2>3, <2>4, <2>5, QuietStep
<1>6. CASE RestoreconThread \/ RestoreconDone
  <2>1. UNCHANGED <<pc, req, todo, mem, loaded>> /\ Frame
    BY <1>6 DEF RestoreconThread, RestoreconDone, threadVars, connVars, diskVars
  <2>2. UNCHANGED PersistMem
    BY <2>1 DEF PersistMem
  <2>3. UNCHANGED <<Current, After>>
    BY <2>1, DiskFrame
  <2>4. Types'
    BY <1>0, <2>1, <2>2 DEF Types
  <2>5. UNCHANGED JobIsSet /\ UNCHANGED Buffered
    BY <2>1, <2>2 DEF JobIsSet, Buffered
  <2>6. Jobs'
    BY <1>0, <2>1, <2>5 DEF Jobs
  <2>7. sound' => Storing'
    BY <2>1, <2>5 DEF Inv, Storing
  <2>8. sound' => AcknowledgedSurvives'
    BY <2>1, AckFrame DEF Inv
  <2>9. AbsStep
    BY <2>1, <2>2, <2>3 DEF AbsStep, abstract
  <2> QED BY <2>4, <2>6, <2>7, <2>8, <2>9 DEF Inv
<1> QED BY <1>1, <1>2, <1>3, <1>4, <1>5, <1>6

-----------------------------------------------------------------------------
(* Reading the file and the legacy directory.                                *)

\* The records of a map are pairs of a stored property and a value.
LEMMA RecordsAreRecords ==
  ASSUME NEW m, NEW s \in Records(m)
  PROVE  s \in Seq((Persist \cup STRING) \X Values)
<1>1. PICK k \in 0..Cardinality(Persist) : s \in [1..k -> Persist \X Values]
  BY DEF Records
<1>2. s \in Seq(Persist \X Values)
  BY <1>1
<1>3. Persist \X Values \subseteq (Persist \cup STRING) \X Values
  OBVIOUS
<1> QED BY <1>2, <1>3

\* While storage is sound a read leaves the file alone and fails on a missing one or
\* by a fault.
LEMMA ReadFailsSound ==
  ASSUME Types, Garbage \notin fileAfter, ReadFails
  PROVE  UNCHANGED <<file, fileAfter>> /\ (IsMap(file) \/ file = NoFile)
BY DEF ReadFails, Types

\* A read keeps the types of the file.
LEMMA ReadTypes ==
  ASSUME Types, ReadOk \/ ReadFails
  PROVE  (\A f \in fileAfter' : IsFile(f)) /\ file' \in fileAfter'
BY DEF Types, IsFile, ReadOk, ReadFails

\* A file that parses holds a map.
LEMMA MapOfFile ==
  ASSUME Types, IsMap(file)
  PROVE  file.map \in Map /\ file = File(file.map) /\ Current = file.map
BY FileFacts DEF Types, IsFile, Current, Loads

\* The read of a set.
LEMMA ReadForWriteStep ==
  ASSUME Inv, ReadForWrite
  PROVE  Inv' /\ AbsStep
<1>0. /\ pc = "read" /\ pc' = "open" /\ Types /\ Jobs
      /\ UNCHANGED <<mem, req, job, todo, synced, legacy, legacyDisk, sound>>
      /\ ReadOk \/ ReadFails
  BY DEF ReadForWrite, Inv, connVars
<1>1. job # NoJob /\ JobIsSet /\ UNCHANGED PersistMem
  BY <1>0 DEF Jobs, PersistMem
<1>2. /\ (\A f \in fileAfter' : IsFile(f)) /\ file' \in fileAfter'
  BY <1>0, ReadTypes
<1>3. PersistMem \in Map /\ owed \in [Persist -> SUBSET (Values \cup {Unset})]
  BY <1>0 DEF Types
<1>4. \A n \in Persist : PersistMem[n] = mem[n] /\ mem[n] \in Values \cup {Unset}
  BY <1>3 DEF PersistMem, Map
<1>5. job.name \in Persist /\ job.value \in Values /\ mem[job.name] = job.value
  BY <1>1 DEF JobIsSet
<1>6. Put(PersistMem, job.name, job.value) = PersistMem
  BY <1>3, <1>4, <1>5 DEF Put, Map
<1>7. /\ owed' \in [Persist -> SUBSET (Values \cup {Unset})]
      /\ \A n \in Persist : owed[n] \subseteq owed'[n]
  BY <1>3, <1>4 DEF ReadForWrite
<1>8. buf' \in Map
  <2>1. CASE ReadOk /\ buf' = Put(file.map, job.name, job.value)
    BY <1>0, <1>5, <2>1, MapOfFile, PutIsMap DEF ReadOk
  <2>2. CASE buf' = Put(PersistMem, job.name, job.value)
    BY <1>3, <1>6, <2>2
  <2> QED BY <2>1, <2>2 DEF ReadForWrite
<1>9. Types'
  BY <1>0, <1>1, <1>2, <1>7, <1>8 DEF Types
<1>10. JobIsSet' /\ job' # NoJob
  BY <1>0, <1>1, <1>7 DEF JobIsSet
<1>11. Jobs'
  BY <1>0, <1>10 DEF Jobs, Preparing, Flushing
<1>12. ASSUME sound'
       PROVE  Storing' /\ AcknowledgedSurvives' /\ UNCHANGED <<file, fileAfter>>
  <2>1. Storing /\ AcknowledgedSurvives
    BY <1>0, <1>12 DEF Inv
  <2>2. UNCHANGED <<file, fileAfter>>
    BY <1>0, <2>1, ReadFailsSound DEF Storing, ReadOk
  <2>3. Buffered'
    <3>1. CASE ReadOk /\ buf' = Put(file.map, job.name, job.value)
      <4>1. IsMap(file') /\ buf' = Put(file'.map, job'.name, job'.value)
        BY <1>0, <2>2, <3>1 DEF ReadOk
      <4> QED BY <1>10, <4>1 DEF Buffered
    <3>2. CASE ReadFails /\ buf' = Put(PersistMem, job.name, job.value)
               /\ owed' = [n \in Persist |-> owed[n] \cup {mem[n]}]
      <4>1. buf' = PersistMem' /\ \A n \in Persist : mem'[n] \in owed'[n]
        BY <1>0, <1>1, <1>6, <3>2
      <4> QED BY <1>10, <4>1 DEF Buffered
    <3> QED BY <3>1, <3>2 DEF ReadForWrite
  <2>4. Storing'
    BY <1>0, <2>1, <2>2, <2>3 DEF Storing, Preparing, Flushing
  <2>5. AcknowledgedSurvives'
    BY <1>0, <1>7, <2>1, <2>2, AckFrame
  <2> QED BY <2>2, <2>4, <2>5
<1>13. AbsStep
  <2> SUFFICES ASSUME sound' PROVE sound /\ UNCHANGED abstract
    BY DEF AbsStep
  <2>1. UNCHANGED <<Current, After>>
    BY <1>0, <1>12, DiskFrame
  <2> QED BY <1>0, <1>1, <2>1 DEF abstract
<1> QED BY <1>9, <1>11, <1>12, <1>13 DEF Inv

\* The read of a load, which goes on to the records or to the legacy directory.
LEMMA ReadForLoadStep ==
  ASSUME Inv, ReadForLoad
  PROVE  Inv' /\ AbsStep
<1>0. /\ pc = "load" /\ pc' \in {"records", "legacy"} /\ Types /\ Jobs
      /\ UNCHANGED <<mem, req, job, buf, synced, legacy, legacyDisk, owed>>
      /\ ReadOk \/ ReadFails
  BY DEF ReadForLoad, Inv, connVars
<1>10. sound' => sound
  <2>1. UNCHANGED sound \/ sound' = (sound /\ ~IsMap(file))
    BY DEF ReadForLoad
  <2> QED BY <2>1
<1>1. job = NoJob /\ UNCHANGED PersistMem
  BY <1>0 DEF Jobs, Preparing, Flushing, PersistMem
<1>2. (\A f \in fileAfter' : IsFile(f)) /\ file' \in fileAfter'
  BY <1>0, ReadTypes
<1>3. todo' \in Seq((Persist \cup STRING) \X Values)
  BY <1>0, RecordsAreRecords DEF ReadForLoad, Types
<1>4. sound' \in BOOLEAN
  BY <1>0 DEF ReadForLoad, Types
<1>5. Types'
  BY <1>0, <1>1, <1>2, <1>3, <1>4 DEF Types
<1>6. Jobs'
  BY <1>0, <1>1 DEF Jobs, Preparing, Flushing
<1>7. ASSUME sound'
      PROVE  Storing' /\ AcknowledgedSurvives' /\ UNCHANGED <<file, fileAfter>>
  <2>1. Storing /\ AcknowledgedSurvives
    BY <1>10, <1>7 DEF Inv
  <2>2. UNCHANGED <<file, fileAfter>>
    BY <1>0, <2>1, ReadFailsSound DEF Storing, ReadOk
  <2>3. pc' = "legacy" => ~IsMap(file')
    BY <1>7, <2>2 DEF ReadForLoad
  <2>4. Storing'
    BY <1>0, <2>1, <2>2, <2>3 DEF Storing, Preparing, Flushing
  <2>5. AcknowledgedSurvives'
    BY <1>0, <1>10, <2>1, <2>2, AckFrame
  <2> QED BY <2>2, <2>4, <2>5
<1>8. AbsStep
  <2> SUFFICES ASSUME sound' PROVE sound /\ UNCHANGED abstract
    BY DEF AbsStep
  <2>1. UNCHANGED <<Current, After>>
    BY <1>0, <1>7, DiskFrame
  <2> QED BY <1>1, <1>10, <2>1 DEF abstract
<1> QED BY <1>5, <1>6, <1>7, <1>8 DEF Inv

\* The legacy directory is read for the migration.
LEMMA LoadLegacyStep ==
  ASSUME Inv, LoadLegacy
  PROVE  Inv' /\ AbsStep
<1>0. /\ pc = "legacy" /\ pc' \in {"open", "records"} /\ Types /\ Jobs
      /\ UNCHANGED <<mem, req, job, synced, file, fileAfter, legacy, legacyDisk, owed>>
  BY DEF LoadLegacy, Inv, connVars, diskVars
<1>1. job = NoJob /\ UNCHANGED PersistMem
  BY <1>0 DEF Jobs, Preparing, Flushing, PersistMem
<1>2. UNCHANGED sound \/ sound' = FALSE
  BY DEF LoadLegacy
<1>3. sound' \in BOOLEAN /\ (sound' => sound)
  <2>1. sound \in BOOLEAN
    BY <1>0 DEF Types
  <2>2. CASE sound' = sound
    BY <2>1, <2>2, Zenon
  <2>3. CASE sound' = FALSE
    BY <2>3, Zenon
  <2> QED BY <1>2, <2>2, <2>3
<1>4. todo' \in Seq((Persist \cup STRING) \X Values)
  <2>1. UNCHANGED todo \/ todo' = <<>>
    BY DEF LoadLegacy
  <2>2. <<>> \in Seq((Persist \cup STRING) \X Values)
    OBVIOUS
  <2> QED BY <1>0, <2>1, <2>2 DEF Types
<1>5. buf' \in Map
  <2>1. Secure(legacy) \in Map /\ buf \in Map
    BY <1>0, SecureIsMap DEF Types
  <2>2. \/ buf' \in {Secure(legacy), buf}
        \/ \E n \in Persist : buf' = Put(Secure(legacy), n, Unset)
    BY DEF LoadLegacy
  <2> QED BY <2>1, <2>2, PutIsMap
<1>6. Types'
  BY <1>0, <1>1, <1>3, <1>4, <1>5 DEF Types
<1>7. Jobs'
  BY <1>0, <1>1 DEF Jobs, Preparing, Flushing
<1>8. ASSUME sound' PROVE Storing' /\ AcknowledgedSurvives'
  <2>1. Storing /\ AcknowledgedSurvives
    BY <1>3, <1>8 DEF Inv
  <2>2. buf' = Secure(legacy)
    BY <1>8 DEF LoadLegacy
  <2>3. ~IsMap(file)
    BY <1>0, <2>1 DEF Storing
  <2>4. Buffered'
    BY <1>0, <1>1, <2>2, <2>3 DEF Buffered
  <2>5. Storing'
    BY <1>0, <2>1, <2>4 DEF Storing, Preparing, Flushing
  <2>6. AcknowledgedSurvives'
    BY <1>0, <1>3, <2>1, AckFrame
  <2> QED BY <2>5, <2>6
<1>9. AbsStep
  <2>1. UNCHANGED <<Current, After>>
    BY <1>0, DiskFrame
  <2> QED BY <1>1, <1>3, <2>1 DEF abstract, AbsStep
<1> QED BY <1>6, <1>7, <1>8, <1>9 DEF Inv
-----------------------------------------------------------------------------
(* The write, a system call at a time.                                       *)

Writing == Preparing \cup Flushing

\* A write that fails is over: nothing but the thread's own state has changed.
LEMMA WriteFailsStep ==
  ASSUME Inv, pc \in Writing, WriteFails,
         UNCHANGED <<mem, owed, sound, file, legacy, fileAfter, legacyDisk>>
  PROVE  Inv' /\ AbsStep
<1>0. Types /\ Jobs /\ UNCHANGED PersistMem /\ buf' \in Map
  BY EmptyIsMap DEF Inv, PersistMem, WriteFails
<1>1. job # NoJob => job.from \in {"client", "override", "records"}
  BY <1>0 DEF Jobs, JobIsSet
<1>2. job' = NoJob /\ pc' \in {"records", "idle", "override"}
  BY <1>1 DEF WriteFails, Migrating, Return, Close
<1>3. todo' \in Seq((Persist \cup STRING) \X Values)
  BY <1>0, RecordsAreRecords DEF WriteFails, Types
<1>4. Types'
  BY <1>0, <1>2, <1>3 DEF Types
<1>5. pc' \in Away
  BY <1>2 DEF Away
<1> QED BY <1>0, <1>2, <1>4, <1>5, QuietStep

\* The temporary file: until the rename nothing that a load sees has changed.
LEMMA PrepareStep ==
  ASSUME Inv, OpenTemp \/ WriteString \/ Fsync
  PROVE  Inv' /\ AbsStep
<1>0. Types /\ Jobs /\ pc \in {"open", "write", "fsync"}
      /\ UNCHANGED <<mem, owed, file, legacy, fileAfter, legacyDisk>>
  BY DEF Inv, OpenTemp, WriteString, Fsync, writeUnchanged
<1>1. CASE WriteFails /\ UNCHANGED sound
  BY <1>0, <1>1, WriteFailsStep DEF Writing, Preparing
<1>2. CASE /\ Stay /\ pc' \in {"write", "fsync", "rename"}
           /\ UNCHANGED sound \/ sound' = FALSE
           /\ pc' = "rename" /\ sound' => synced' = TRUE
  <2>1. UNCHANGED PersistMem /\ UNCHANGED <<req, job, todo, buf>>
    BY <1>0, <1>2 DEF PersistMem, Stay, connVars
  <2>2. sound' \in BOOLEAN /\ (sound' => sound)
    <3>1. sound \in BOOLEAN
      BY <1>0 DEF Types
    <3>2. CASE sound' = sound
      BY <3>1, <3>2, Zenon
    <3>3. CASE sound' = FALSE
      BY <3>3, Zenon
    <3> QED BY <1>2, <3>2, <3>3
  <2>3. Types'
    BY <1>0, <1>2, <2>1, <2>2 DEF Types
  <2>4. UNCHANGED JobIsSet /\ UNCHANGED Buffered
    BY <1>0, <2>1 DEF JobIsSet, Buffered
  <2>5. Jobs'
    BY <1>0, <1>2, <2>1, <2>4 DEF Jobs, Preparing, Flushing
  <2>6. ASSUME sound' PROVE Storing' /\ AcknowledgedSurvives'
    <3>1. Storing /\ AcknowledgedSurvives
      BY <2>2, <2>6 DEF Inv
    <3>2. Buffered
      BY <1>0, <3>1 DEF Storing, Preparing
    <3>3. Storing'
      BY <1>0, <1>2, <2>4, <2>6, <3>1, <3>2 DEF Storing, Preparing, Flushing
    <3>4. AcknowledgedSurvives'
      BY <1>0, <2>2, <3>1, AckFrame
    <3> QED BY <3>3, <3>4
  <2>7. AbsStep
    <3>1. UNCHANGED <<Current, After>>
      BY <1>0, DiskFrame
    <3> QED BY <2>1, <2>2, <3>1 DEF abstract, AbsStep
  <2> QED BY <2>3, <2>5, <2>6, <2>7 DEF Inv
<1>3. CASE OpenTemp
  BY <1>1, <1>2, <1>3 DEF OpenTemp
<1>4. CASE WriteString
  BY <1>1, <1>2, <1>4 DEF WriteString
<1>5. CASE Fsync
  BY <1>2, <1>5 DEF Fsync
<1> QED BY <1>3, <1>4, <1>5

\* The maps a power loss may leave, when the file may also be a new one.
LEMMA AfterRename ==
  ASSUME Types, buf \in Map, fileAfter' = fileAfter \cup {File(buf)},
         UNCHANGED <<legacy, legacyDisk>>
  PROVE  After' = After \cup {buf}
<1>1. LegacyAfter' = LegacyAfter /\ legacy \in LegacyAfter
  BY LegacyStays DEF LegacyAfter, Types
<1>2. \A l \in LegacyAfter : Loads(File(buf), l) = buf
  BY LoadsFacts
<1> DEFINE L(f, l) == Loads(f, l)
<1>3. After' = {L(f, l) : f \in fileAfter', l \in LegacyAfter}
  BY <1>1 DEF After
<1>4. After = {L(f, l) : f \in fileAfter, l \in LegacyAfter}
  BY DEF After
<1>5. \A l \in LegacyAfter : L(File(buf), l) = buf
  BY <1>2
<1> HIDE DEF L
<1> QED BY <1>1, <1>3, <1>4, <1>5

\* The rename replaces the map that a load finds.
LEMMA RenameStep ==
  ASSUME Inv, Rename
  PROVE  Inv' /\ AbsStep
<1>0. /\ Types /\ Jobs /\ pc = "rename"
      /\ UNCHANGED <<mem, owed, legacy, legacyDisk, sound, synced>>
  BY DEF Inv, Rename, writeUnchanged
<1>1. CASE WriteFails /\ UNCHANGED <<file, fileAfter>>
  BY <1>0, <1>1, WriteFailsStep DEF Writing, Preparing
<1>2. CASE file' = File(buf) /\ fileAfter' = fileAfter \cup Written /\ pc' = "opendir" /\ Stay
  <2>1. UNCHANGED PersistMem /\ UNCHANGED <<req, job, todo, buf>> /\ buf \in Map
    BY <1>0, <1>2 DEF PersistMem, Stay, connVars, Types
  <2>2. (\A f \in fileAfter' : IsFile(f)) /\ file' \in fileAfter'
    BY <1>0, <1>2, <2>1 DEF Types, Written, IsFile
  <2>3. Types'
    BY <1>0, <1>2, <2>1, <2>2 DEF Types
  <2>4. UNCHANGED JobIsSet
    BY <1>0, <2>1 DEF JobIsSet
  <2>5. Jobs'
    BY <1>0, <1>2, <2>1, <2>4 DEF Jobs, Flushing
  <2>6. ASSUME sound'
        PROVE  Storing' /\ AcknowledgedSurvives' /\ (UNCHANGED abstract \/ AbsStore)
    <3>1. Storing /\ AcknowledgedSurvives
      BY <1>0, <2>6 DEF Inv
    <3>2. synced = TRUE /\ Buffered /\ Garbage \notin fileAfter
      BY <1>0, <3>1 DEF Storing, Preparing
    <3>3. fileAfter' = fileAfter \cup {File(buf)}
      BY <1>2, <3>2 DEF Written
    <3>4. After' = After \cup {buf}
      BY <1>0, <2>1, <3>3, AfterRename
    <3>5. Current' = buf
      BY <1>2, <2>1, LoadsFacts DEF Current
    <3>6. Current \in After /\ Current \in Map
      <4>1. file \in fileAfter /\ legacy \in LegacyAfter
        BY <1>0, LegacyStays DEF Types
      <4>2. Current \in After
        BY <4>1 DEF Current, After
      <4>3. file = NoFile \/ \E m \in Map : file = File(m)
        BY <1>0, <3>2, <4>1, Whole
      <4>4. Current \in Map
        BY <1>0, <4>3, LoadsFacts, SecureIsMap DEF Current, Types
      <4> QED BY <4>2, <4>4
    <3>7. \A m \in After, n \in Persist : m[n] \in owed[n]
      BY <1>0, <2>6, <3>1 DEF AcknowledgedSurvives
    <3>8. /\ \A n \in Persist : buf[n] \in owed[n]
          /\ UNCHANGED abstract \/ AbsStore
          /\ job # NoJob => buf[job.name] = job.value
      <4>1. CASE job = NoJob
        <5>1. ~IsMap(file) /\ buf = Secure(legacy)
          BY <3>2, <4>1 DEF Buffered
        <5>2. Current = buf
          BY <5>1 DEF Current, Loads
        <5>3. UNCHANGED abstract
          BY <2>1, <3>4, <3>5, <3>6, <5>2 DEF abstract
        <5>4. \A n \in Persist : buf[n] \in owed[n]
          BY <3>6, <3>7, <5>2
        <5> QED BY <4>1, <5>3, <5>4
      <4>2. CASE job # NoJob
        <5>1. job.name \in Persist /\ job.value \in Values /\ job.value \in owed[job.name]
              /\ mem[job.name] = job.value
          BY <1>0, <4>2 DEF Jobs, JobIsSet
        <5>2. PersistMem[job.name] = job.value /\ \A n \in Persist : PersistMem[n] = mem[n]
          BY <5>1 DEF PersistMem
        <5>3. CASE buf = PersistMem /\ \A n \in Persist : mem[n] \in owed[n]
          <6>1. \A n \in Persist : buf[n] \in owed[n]
            BY <5>2, <5>3
          <6>2. AbsStore
            BY <2>1, <3>4, <3>5, <5>1, <5>3 DEF AbsStore
          <6> QED BY <5>2, <5>3, <6>1, <6>2
        <5>4. CASE IsMap(file) /\ buf = Put(file.map, job.name, job.value)
          <6>1. Current = file.map
            BY <1>0, <5>4, MapOfFile
          <6>2. buf = [Current EXCEPT ![job.name] = PersistMem[job.name]]
            BY <5>2, <5>4, <6>1 DEF Put
          <6>3. \A n \in Persist : buf[n] \in owed[n]
            BY <3>6, <3>7, <5>1, <5>4, <6>1, PutIsMap
          <6>4. AbsStore
            BY <2>1, <3>4, <3>5, <5>1, <6>2 DEF AbsStore
          <6>5. buf[job.name] = job.value
            BY <3>6, <5>1, <5>4, <6>1, PutIsMap
          <6> QED BY <6>3, <6>4, <6>5
        <5>5. \/ buf = PersistMem /\ \A n \in Persist : mem[n] \in owed[n]
              \/ IsMap(file) /\ buf = Put(file.map, job.name, job.value)
          BY <3>2, <4>2 DEF Buffered
        <5> QED BY <5>3, <5>4, <5>5
      <4> QED BY <4>1, <4>2
    <3>9. Storing'
      <4>1. File(buf) # Garbage
        BY <2>1, FileFacts
      <4> QED BY <1>0, <1>2, <2>1, <3>2, <3>3, <3>8, <4>1 DEF Storing, Preparing, Flushing
    <3>10. AcknowledgedSurvives'
      <4>1. \A m \in After', n \in Persist : m[n] \in owed[n]
        BY <3>4, <3>7, <3>8
      <4> QED BY <1>0, <4>1 DEF AcknowledgedSurvives
    <3> QED BY <3>8, <3>9, <3>10
  <2>7. AbsStep
    BY <1>0, <2>6 DEF AbsStep
  <2> QED BY <2>3, <2>5, <2>6, <2>7 DEF Inv
<1> QED BY <1>1, <1>2 DEF Rename

\* The directory cannot be opened, or is open for its flush.
LEMMA OpenDirStep ==
  ASSUME Inv, OpenDir
  PROVE  Inv' /\ AbsStep
<1>0. /\ Types /\ Jobs /\ pc = "opendir"
      /\ UNCHANGED <<mem, owed, sound, synced, file, legacy, fileAfter, legacyDisk>>
  BY DEF Inv, OpenDir, writeUnchanged, diskVars
<1>1. CASE WriteFails
  BY <1>0, <1>1, WriteFailsStep DEF Writing, Flushing
<1>2. CASE pc' = "fsyncdir" /\ Stay
  <2>1. UNCHANGED PersistMem /\ UNCHANGED <<req, job, todo, buf>>
    BY <1>0, <1>2 DEF PersistMem, Stay, connVars
  <2>2. Types'
    BY <1>0, <1>2, <2>1 DEF Types
  <2>3. UNCHANGED JobIsSet
    BY <1>0, <2>1 DEF JobIsSet
  <2>4. Jobs'
    BY <1>0, <1>2, <2>1, <2>3 DEF Jobs, Flushing
  <2>5. sound' => Storing'
    BY <1>0, <1>2, <2>1 DEF Inv, Storing, Preparing, Flushing
  <2>6. sound' => AcknowledgedSurvives'
    BY <1>0, AckFrame DEF Inv
  <2>7. AbsStep
    <3>1. UNCHANGED <<Current, After>>
      BY <1>0, DiskFrame
    <3> QED BY <1>0, <2>1, <3>1 DEF abstract, AbsStep
  <2> QED BY <2>2, <2>4, <2>5, <2>6, <2>7 DEF Inv
<1> QED BY <1>1, <1>2 DEF OpenDir

\* One whole file leaves one map, whatever the legacy directory holds.
LEMMA AfterFlush ==
  ASSUME NEW m \in Map, NEW F, F = {File(m)}, NEW LA, NEW l \in LA
  PROVE  {Loads(f, k) : f \in F, k \in LA} = {m}
<1> DEFINE L(f, k) == Loads(f, k)
<1>1. \A k \in LA : L(File(m), k) = m
  BY LoadsFacts
<1> HIDE DEF L
<1>2. {L(f, k) : f \in F, k \in LA} = {m}
  BY <1>1
<1> QED BY <1>2 DEF L

\* The directory is flushed: only the new map is left, and its set is acknowledged.
LEMMA FsyncDirStep ==
  ASSUME Inv, FsyncDir
  PROVE  Inv' /\ AbsStep
<1>0. /\ Types /\ Jobs /\ pc = "fsyncdir" /\ Stored
      /\ UNCHANGED <<mem, synced, file, legacy>>
      /\ \/ fileAfter' = Written /\ legacyDisk' = legacy /\ UNCHANGED sound
         \/ sound' = FALSE /\ UNCHANGED <<fileAfter, legacyDisk>>
  BY DEF Inv, FsyncDir, writeUnchanged
<1>1. UNCHANGED PersistMem /\ buf \in Map /\ legacy \in Map
  BY <1>0 DEF PersistMem, Types
<1>2. sound' \in BOOLEAN /\ (sound' => sound)
  <2>1. sound \in BOOLEAN
    BY <1>0 DEF Types
  <2>2. CASE sound' = sound
    BY <2>1, <2>2, Zenon
  <2>3. CASE sound' = FALSE
    BY <2>3, Zenon
  <2> QED BY <1>0, <2>2, <2>3
<1>3. job # NoJob => JobIsSet
  BY <1>0 DEF Jobs
<1>4. /\ job' = NoJob /\ pc' \in {"remove", "records", "idle", "override"} /\ UNCHANGED todo
      /\ job = NoJob <=> pc' = "remove"
  BY <1>3 , <1>0 DEF Stored, Migrating, Stay, Return, Close, JobIsSet, NoJob
<1>5. buf' \in Map /\ (pc' = "remove" => buf' = buf)
  BY <1>0, <1>1, <1>4, EmptyIsMap DEF Stored, Migrating, Stay
<1>6. owed' \in [Persist -> SUBSET (Values \cup {Unset})]
  <2>1. owed \in [Persist -> SUBSET (Values \cup {Unset})]
    BY <1>0 DEF Types
  <2>2. job # NoJob => job.value \in Values
    BY <1>3 DEF JobIsSet
  <2> QED BY <1>0, <2>1, <2>2 DEF Stored, Migrating
<1>7. file = File(buf) /\ (sound => synced = TRUE)
  BY <1>0 DEF Jobs, Inv, Storing, Flushing
<1>8. (\A f \in fileAfter' : IsFile(f)) /\ file' \in fileAfter' /\ legacyDisk' \in Map
  BY <1>0, <1>1, <1>7 DEF Types, Written, IsFile
<1>9. Types'
  BY <1>0, <1>1, <1>2, <1>4, <1>5, <1>6, <1>8 DEF Types
<1>10. Jobs'
  BY <1>4 DEF Jobs, Preparing, Flushing
<1>11. ASSUME sound' PROVE Storing' /\ AcknowledgedSurvives' /\ AbsFlush
  <2>1. sound /\ Storing /\ AcknowledgedSurvives
    BY <1>2, <1>11 DEF Inv
  <2>2. fileAfter' = {File(buf)} /\ legacyDisk' = legacy
    BY <1>0, <1>7, <1>11, <2>1 DEF Written
  <2>3. After' = {buf}
    <3>1. legacy' \in LegacyAfter'
      BY <1>0, <1>1, <1>8 DEF LegacyAfter, Map
    <3> QED BY <1>1, <2>2, <3>1, AfterFlush DEF After
  <2>4. Current = buf /\ UNCHANGED Current
    BY <1>0, <1>1, <1>7, LoadsFacts DEF Current
  <2>5. AbsFlush
    BY <1>1, <2>3, <2>4 DEF AbsFlush
  <2>6. Storing'
    <3>1. File(buf) # Garbage
      BY <1>1, FileFacts
    <3> QED BY <1>4, <1>5, <2>2, <3>1 DEF Storing, Preparing, Flushing
  <2>7. \A n \in Persist : buf[n] \in owed'[n]
    <3>1. \A n \in Persist : buf[n] \in owed[n]
      <4>1. buf \in After
        <5>1. file \in fileAfter /\ legacy \in LegacyAfter
          BY <1>0, <1>1, LegacyStays DEF Types
        <5> QED BY <2>4, <5>1 DEF After, Current
      <4> QED BY <2>1, <4>1 DEF AcknowledgedSurvives
    <3>2. job # NoJob => buf[job.name] = job.value
      BY <1>0, <2>1 DEF Storing, Flushing
    <3>3. owed \in [Persist -> SUBSET (Values \cup {Unset})]
      BY <1>0 DEF Types
    <3> QED BY <1>0, <3>1, <3>2, <3>3 DEF Stored, Migrating
  <2>8. AcknowledgedSurvives'
    <3>1. \A m \in After', n \in Persist : m[n] \in owed'[n]
      BY <2>3, <2>7
    <3> QED BY <3>1 DEF AcknowledgedSurvives
  <2> QED BY <2>5, <2>6, <2>8
<1>12. AbsStep
  BY <1>2, <1>11 DEF AbsStep
<1> QED BY <1>9, <1>10, <1>11, <1>12 DEF Inv

\* The legacy files go only when the new file is the only one a power loss may leave.
LEMMA RemoveLegacyStep ==
  ASSUME Inv, RemoveLegacy
  PROVE  Inv' /\ AbsStep
<1>0. /\ Types /\ Jobs /\ pc = "remove" /\ pc' = "records" /\ legacy' = Empty /\ buf' = Empty
      /\ todo' \in Records(buf) /\ UNCHANGED <<mem, owed, sound, file, fileAfter, legacyDisk, job>>
  BY DEF Inv, RemoveLegacy, writeUnchanged
<1>1. /\ UNCHANGED PersistMem /\ buf \in Map /\ legacy \in Map /\ legacy' \in Map /\ buf' \in Map
      /\ job' = NoJob
  BY <1>0, EmptyIsMap DEF PersistMem, Types, Jobs, Preparing, Flushing
<1>2. Types'
  BY <1>0, <1>1, RecordsAreRecords DEF Types
<1>3. Jobs'
  BY <1>0, <1>1 DEF Jobs, Preparing, Flushing
<1>4. ASSUME sound' PROVE Storing' /\ AcknowledgedSurvives' /\ UNCHANGED abstract
  <2>1. Storing /\ AcknowledgedSurvives
    BY <1>0, <1>4 DEF Inv
  <2>2. fileAfter = {File(buf)} /\ file = File(buf)
    BY <1>0, <2>1 DEF Storing, Types
  <2>3. After = {buf}
    <3>1. legacy \in LegacyAfter /\ fileAfter = {File(buf)} /\ buf \in Map
      BY <1>1, <2>2, LegacyStays
    <3> DEFINE L(f, l) == Loads(f, l)
    <3>2. After = {L(f, l) : f \in fileAfter, l \in LegacyAfter}
      BY DEF After
    <3>3. \A l \in LegacyAfter : L(File(buf), l) = buf
      BY <3>1, LoadsFacts
    <3> HIDE DEF L
    <3> QED BY <3>1, <3>2, <3>3
  <2>4. After' = {buf}
    <3>1. legacy' \in LegacyAfter'
      BY <1>1 DEF LegacyAfter, Map
    <3>2. fileAfter' = {File(buf)} /\ buf \in Map
      BY <1>0, <1>1, <2>2
    <3>3. {Loads(f, l) : f \in fileAfter', l \in LegacyAfter'} = {buf}
      BY <3>1, <3>2, AfterFlush
    <3> QED BY <3>3 DEF After
  <2>5. Current = buf /\ Current' = buf
    BY <1>0, <1>1, <2>2, LoadsFacts DEF Current
  <2>6. Storing'
    BY <1>0, <2>1 DEF Storing, Preparing, Flushing
  <2>7. AcknowledgedSurvives'
    <3>1. \A m \in After, n \in Persist : m[n] \in owed[n]
      BY <1>0, <1>4, <2>1 DEF AcknowledgedSurvives
    <3>2. \A m \in After', n \in Persist : m[n] \in owed'[n]
      BY <1>0, <2>3, <2>4, <3>1
    <3> QED BY <3>2 DEF AcknowledgedSurvives
  <2> QED BY <1>1, <2>3, <2>4, <2>5, <2>6, <2>7 DEF abstract
<1>5. AbsStep
  BY <1>0, <1>4 DEF AbsStep
<1> QED BY <1>2, <1>3, <1>4, <1>5 DEF Inv

-----------------------------------------------------------------------------

\* A power loss leaves one of the maps that were on storage, and memory as at boot.
LEMMA PowerLossStep ==
  ASSUME Inv, PowerLoss
  PROVE  Inv' /\ AbsStep
<1>0. /\ Types /\ Jobs /\ pc' = "idle" /\ job' = NoJob /\ buf' = Empty /\ todo' = <<>>
      /\ mem' = Booted /\ UNCHANGED <<sound, owed>>
  BY DEF Inv, PowerLoss, Close
<1>1. PICK f \in fileAfter, l \in LegacyAfter :
        file' = f /\ fileAfter' = {f} /\ legacy' = l /\ legacyDisk' = l
  BY DEF PowerLoss
<1>2. l \in Map
  BY <1>0, LegacyStays DEF Types
<1>3. PersistMem' = Defaults /\ DOMAIN mem' = Names /\ mem' = [k \in Names |-> mem'[k]]
  BY <1>0, PropertiesConstants DEF PersistMem, Booted, Names
<1>4. PersistMem' \in Map /\ todo' \in Seq((Persist \cup STRING) \X Values)
  BY <1>0, <1>3, PropertiesConstants DEF Map
<1>5. Types'
  BY <1>0, <1>1, <1>2, <1>3, <1>4, EmptyIsMap DEF Types
<1>6. Jobs'
  BY <1>0 DEF Jobs, Preparing, Flushing
<1>7. LegacyAfter' = {l}
  <2>1. LegacyAfter' = {k \in Map : \A n \in Persist : k[n] = l[n]}
    BY <1>1 DEF LegacyAfter, Map
  <2>2. \A k \in Map : (\A n \in Persist : k[n] = l[n]) <=> k = l
    BY <1>2 DEF Map
  <2> QED BY <1>2, <2>1, <2>2
<1>8. After' = {Loads(f, l)} /\ Current' = Loads(f, l) /\ Loads(f, l) \in After
  <2> DEFINE L(x, y) == Loads(x, y)
  <2>1. After' = {L(x, y) : x \in fileAfter', y \in LegacyAfter'}
    BY DEF After
  <2>2. Current' = Loads(f, l) /\ Loads(f, l) \in After
    BY <1>1 DEF Current, After
  <2>3. After' = {L(f, l)}
    <3> HIDE DEF L
    <3> QED BY <1>1, <1>7, <2>1
  <2> QED BY <2>2, <2>3
<1>9. AbsStep
  BY <1>0, <1>3, <1>8 DEF AbsStep, AbsLoss
<1>10. ASSUME sound' PROVE Storing' /\ AcknowledgedSurvives'
  <2>1. Storing /\ AcknowledgedSurvives
    BY <1>0, <1>10 DEF Inv
  <2>2. Storing'
    BY <1>0, <1>1, <2>1 DEF Storing, Preparing, Flushing
  <2>3. AcknowledgedSurvives'
    <3>1. \A n \in Persist : Loads(f, l)[n] \in owed[n]
      BY <1>0, <1>8, <1>10, <2>1 DEF AcknowledgedSurvives
    <3> QED BY <1>0, <1>8, <3>1 DEF AcknowledgedSurvives
  <2> QED BY <2>2, <2>3
<1> QED BY <1>5, <1>6, <1>9, <1>10 DEF Inv
-----------------------------------------------------------------------------

\* A boot with an empty property area and whatever legacy files there are.
LEMMA InitInv == Init => Inv
<1> SUFFICES ASSUME Init PROVE Inv
  OBVIOUS
<1> USE PropertiesConstants
<1>1. /\ mem = Booted /\ pc = "idle" /\ job = NoJob /\ buf = Empty /\ todo = <<>>
      /\ file = NoFile /\ fileAfter = {NoFile} /\ legacy = Legacy /\ legacyDisk = Legacy
      /\ sound = TRUE /\ owed = [n \in Persist |-> {Secure(Legacy)[n]}]
  BY DEF Init
<1>2. PersistMem = Defaults /\ DOMAIN mem = Names /\ mem = [k \in Names |-> mem[k]]
  BY <1>1 DEF PersistMem, Booted, Names
<1>3. /\ PersistMem \in Map /\ todo \in Seq((Persist \cup STRING) \X Values)
      /\ legacy \in Map /\ Secure(Legacy) \in Map
  BY <1>1, <1>2, SecureIsMap DEF Map
<1>4. owed \in [Persist -> SUBSET (Values \cup {Unset})]
  BY <1>1, <1>3 DEF Map
<1>5. Types
  BY <1>1, <1>2, <1>3, <1>4, EmptyIsMap DEF Types, IsFile
<1>6. Jobs
  BY <1>1 DEF Jobs, Preparing, Flushing
<1>7. Storing
  BY <1>1, FileFacts DEF Storing, Preparing, Flushing
<1>8. \A l \in LegacyAfter : \A n \in Persist : l[n] = Legacy[n]
  BY <1>1 DEF LegacyAfter
<1>9. \A l \in LegacyAfter : \A n \in Persist : Secure(l)[n] = Secure(Legacy)[n]
  BY <1>8 DEF Secure
<1>10. AcknowledgedSurvives
  BY <1>1, <1>9, LoadsFacts DEF AcknowledgedSurvives, After
<1> QED BY <1>5, <1>6, <1>7, <1>10 DEF Inv

\* Nothing happens.
LEMMA StutterInv ==
  ASSUME Inv, UNCHANGED vars
  PROVE  Inv' /\ AbsStep
<1>1. /\ UNCHANGED <<mem, pc, req, job, buf, todo, file, synced, legacy, fileAfter, legacyDisk>>
      /\ UNCHANGED <<sound, owed>>
  BY DEF vars, threadVars, connVars, diskVars
<1>2. UNCHANGED <<PersistMem, JobIsSet, Buffered, LegacyAfter, Current, After>>
  BY <1>1, DiskFrame DEF PersistMem, JobIsSet, Buffered, LegacyAfter
<1>3. UNCHANGED <<Types, Jobs, Storing, AcknowledgedSurvives>>
  BY <1>1, <1>2 DEF Types, Jobs, Storing, AcknowledgedSurvives
<1> QED BY <1>1, <1>2, <1>3 DEF Inv, AbsStep, abstract

\* Every step keeps the invariant and is a step of the durable map.
LEMMA NextInv ==
  ASSUME Inv, [Next]_vars
  PROVE  Inv' /\ AbsStep
<1>1. CASE \/ \E r \in Requests : Accept(r)
           \/ LoadMessage \/ Connection \/ OverridesDone \/ RecordsDone
           \/ RestoreconSteps
  BY <1>1, QuietSteps DEF RestoreconSteps
<1>2. CASE HandlePropertySet
  BY <1>2, HandlePropertySetStep
<1>3. CASE SetRecord
  BY <1>3, SetRecordStep
<1>4. CASE ReadForWrite
  BY <1>4, ReadForWriteStep
<1>5. CASE ReadForLoad
  BY <1>5, ReadForLoadStep
<1>6. CASE LoadLegacy
  BY <1>6, LoadLegacyStep
<1>7. CASE OpenTemp \/ WriteString \/ Fsync
  BY <1>7, PrepareStep
<1>8. CASE Rename
  BY <1>8, RenameStep
<1>9. CASE OpenDir
  BY <1>9, OpenDirStep
<1>10. CASE FsyncDir
  BY <1>10, FsyncDirStep
<1>11. CASE RemoveLegacy
  BY <1>11, RemoveLegacyStep
<1>12. CASE PowerLoss
  BY <1>12, PowerLossStep
<1>13. CASE UNCHANGED vars
  BY <1>13, StutterInv
<1> QED BY <1>1, <1>2, <1>3, <1>4, <1>5, <1>6, <1>7, <1>8, <1>9, <1>10, <1>11, <1>12, <1>13
           DEF Next, PropertyThread, Storage, Connection

\* A set of a persist.* property that was stored when its client was answered survives
\* every power loss, and a failed one leaves the value before it, while no flush or load
\* has failed (WritePersistentProperty, WritePersistentPropertyFile).
THEOREM AcknowledgedAlwaysSurvives == Spec => []AcknowledgedSurvives
<1>1. Inv => AcknowledgedSurvives
  BY DEF Inv, AcknowledgedSurvives
<1>2. Inv /\ [Next]_vars => Inv'
  BY NextInv
<1> QED BY InitInv, <1>1, <1>2, PTL DEF Spec

\* The start of the property file is the start of a durable map.
LEMMA InitRefines == Init => Durable!Init
<1> SUFFICES ASSUME Init PROVE Durable!Init
  OBVIOUS
<1> USE PropertiesConstants
<1>1. /\ mem = Booted /\ file = NoFile /\ fileAfter = {NoFile}
      /\ legacy = Legacy /\ legacyDisk = Legacy /\ sound = TRUE
  BY DEF Init
<1>2. PersistMem = Defaults
  BY <1>1 DEF PersistMem, Booted, Names
<1>3. Legacy \in Map
  BY DEF Map
<1>4. Current = Secure(Legacy) /\ Current \in Map
  BY <1>1, <1>3, LoadsFacts, SecureIsMap DEF Current
<1>5. LegacyAfter = {Legacy}
  <2>1. LegacyAfter = {k \in Map : \A n \in Persist : k[n] = Legacy[n]}
    BY <1>1 DEF LegacyAfter, Map
  <2>2. \A k \in Map : (\A n \in Persist : k[n] = Legacy[n]) <=> k = Legacy
    BY <1>3 DEF Map
  <2> QED BY <1>3, <2>1, <2>2
<1>6. After = {Current}
  <2> DEFINE L(x, y) == Loads(x, y)
  <2>1. After = {L(x, y) : x \in fileAfter, y \in LegacyAfter} /\ Current = L(NoFile, Legacy)
    BY <1>1 DEF After, Current
  <2> HIDE DEF L
  <2> QED BY <1>1, <1>5, <2>1
<1>7. Current \in Durable!Maps
  BY <1>4 DEF Map, Durable!Maps
<1> QED BY <1>1, <1>2, <1>6, <1>7 DEF Durable!Init

\* The abstract step is one of DurableMap's.
LEMMA StepRefines ==
  ASSUME Inv, Inv', AbsStep
  PROVE  [Durable!Next]_<<PersistMem, Current, After, sound>>
<1>1. sound \in BOOLEAN /\ sound' \in BOOLEAN
  BY DEF Inv, Types
<1>2. CASE ~sound'
  <2>1. sound' = FALSE
    BY <1>1, <1>2, Zenon
  <2> QED BY <2>1 DEF Durable!Next
<1>3. CASE sound'
  <2>1. sound = TRUE /\ UNCHANGED sound
    <3>1. sound
      BY <1>3 DEF AbsStep
    <3> QED BY <1>1, <1>3, <3>1, Zenon
  <2>2. CASE UNCHANGED abstract
    BY <2>1, <2>2 DEF abstract
  <2>3. CASE AbsSet
    <3>1. PICK n \in Persist, v \in Values : PersistMem' = [PersistMem EXCEPT ![n] = v]
      BY <2>3 DEF AbsSet
    <3>2. Durable!Set(n, v)
      BY <2>3, <3>1 DEF AbsSet, Durable!Set
    <3> QED BY <2>1, <3>2 DEF Durable!Next
  <2>4. CASE AbsStore
    BY <2>1, <2>4 DEF AbsStore, Durable!Next, Durable!Store
  <2>5. CASE AbsFlush
    BY <2>1, <2>5 DEF AbsFlush, Durable!Next, Durable!Flush
  <2>6. CASE AbsLoss
    BY <2>1, <2>6 DEF AbsLoss, Durable!Next, Durable!PowerLoss
  <2> QED BY <1>3, <2>2, <2>3, <2>4, <2>5, <2>6 DEF AbsStep
<1> QED BY <1>2, <1>3

\* The property file and the legacy directory implement a durable map: a load finds a
\* whole map, the old one or the new one, whenever the power is lost and whichever step
\* of a write or of the migration fails (persistent_properties.cpp).
THEOREM FileIsDurableMap == Spec => IsDurableMap
<1>1. Inv /\ [Next]_vars => Inv'
  BY NextInv
<1>2. Inv /\ Inv' /\ [Next]_vars => [Durable!Next]_<<PersistMem, Current, After, sound>>
  BY NextInv, StepRefines
<1> QED BY InitInv, InitRefines, <1>1, <1>2, PTL DEF Spec, IsDurableMap, Durable!Spec
=============================================================================
