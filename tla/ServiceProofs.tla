--------------------------- MODULE ServiceProofs ---------------------------
(***************************************************************************)
(* Machine-checked proofs about Service, for any set of services, any rc   *)
(* configuration and any number of pids.  The first half proves type       *)
(* correctness and the invariants that tie flags_, pid_ and the process    *)
(* table together; the second half, on top of these, the start order a     *)
(* shutdown follows, the waiting of updatable services and of exec         *)
(* commands, what Reap() makes of requests, and who may reboot the device. *)
(***************************************************************************)
EXTENDS Service, Integers, TLAPS

\* The flag SVC_RUNNING and a pid always go together.
RunningIffPid ==
  \A s \in Services : "RUNNING" \in flags[s] <=> pid[s] # NoPid

\* In the middle of a Reap(), the zombie keeps its pid and no service holds it.
ReapingInv ==
  reaping # NotReaping =>
    /\ reaping.svc \in Services /\ reaping.pid \in Pids
    /\ proc[reaping.pid].st = "zombie"
    /\ \A s \in Services : pid[s] # reaping.pid

SafeInv ==
  /\ LiveChildIsTracked
  /\ PidIsOwnChild
  /\ RunningIffPid
  /\ OnlyWantedRestarts
  /\ SkippedKillIsHarmless
  /\ ReapingInv

IInv == TypeOK /\ SafeInv

\* The types of the variables SafeInv relates.
CoreTypes ==
  /\ flags \in [Services -> SUBSET Flag]
  /\ pid \in [Services -> Pids \cup {NoPid}]
  /\ cgroupEmpty \in [Services -> BOOLEAN]
  /\ listed \in SUBSET Services
  /\ proc \in [Pids -> [st : {"free", "alive", "killed", "zombie"},
                        owner : Services \cup {NoService}, ok : BOOLEAN]]

\* The types of what Start() and StopOrReset() write.
StartTypes ==
  /\ flags \in [Services -> SUBSET Flag]
  /\ pid \in [Services -> Pids \cup {NoPid}]
  /\ cgroupEmpty \in [Services -> BOOLEAN]
  /\ svcProp \in [Services -> {"", "running", "stopping", "stopped", "restarting"}]
  /\ startSeq \in Seq(Services)
  /\ execRunning \in BOOLEAN
  /\ listed \in SUBSET Services
  /\ proc \in [Pids -> [st : {"free", "alive", "killed", "zombie"},
                        owner : Services \cup {NoService}, ok : BOOLEAN]]
  /\ restartDue \in [Services -> BOOLEAN]
  /\ timeoutDue \in [Services -> BOOLEAN]
  /\ postData \in [Services -> BOOLEAN]
  /\ bootstrapNs \in [Services -> BOOLEAN]
  /\ delayed \in Seq(Services)
  /\ shutdownReq \in BOOLEAN

\* The types of everything else.
RestTypes ==
  /\ rebootTarget \in [Services -> BOOLEAN]
  /\ crashCount \in [Services -> 0..(CrashLimit + 1)]
  /\ inWindow \in [Services -> BOOLEAN]
  /\ runningAtReset \in [Services -> BOOLEAN]
  /\ servicesUpdated \in BOOLEAN
  /\ postDataMark \in BOOLEAN
  /\ work \in Seq(Call)
  /\ reaping \in [svc : Services \cup {NoService}, pid : Pids \cup {NoPid}]
  /\ aborted \in BOOLEAN
  /\ updatableCrash \in BOOLEAN
  /\ nsReady \in BOOLEAN
  /\ bootCompleted \in BOOLEAN

-----------------------------------------------------------------------------
\* Init establishes the inductive invariant: no service has a process yet.
LEMMA InitInv == Init => IInv
<1>. SUFFICES ASSUME Init PROVE IInv
  OBVIOUS
<1>1. TypeOK
  <2>1. flags \in [Services -> SUBSET Flag]
    BY ServiceConstants DEF Init, Services, Flag
  <2>2. work = <<>> /\ startSeq = <<>> /\ delayed = <<>>
    BY DEF Init
  <2>3. work \in Seq(Call) /\ startSeq \in Seq(Services) /\ delayed \in Seq(Services)
    BY <2>2
  <2>4. proc \in [Pids -> [st : {"free", "alive", "killed", "zombie"},
                           owner : Services \cup {NoService}, ok : BOOLEAN]]
    BY DEF Init, FreeSlot
  <2>5. reaping = NotReaping
    BY DEF Init
  <2>6. reaping \in [svc : Services \cup {NoService}, pid : Pids \cup {NoPid}]
    BY <2>5 DEF NotReaping
  <2>7. crashCount = [s \in Services |-> 0]
    BY DEF Init
  <2>8. crashCount \in [Services -> 0..(CrashLimit + 1)]
    BY <2>7, ServiceConstants
  <2>9. listed \in SUBSET Services
    BY DEF Init, Services
  <2>10. /\ pid \in [Services -> Pids \cup {NoPid}]
         /\ cgroupEmpty \in [Services -> BOOLEAN]
         /\ inWindow \in [Services -> BOOLEAN]
         /\ restartDue \in [Services -> BOOLEAN]
         /\ timeoutDue \in [Services -> BOOLEAN]
         /\ postData \in [Services -> BOOLEAN]
         /\ runningAtReset \in [Services -> BOOLEAN]
         /\ bootstrapNs \in [Services -> BOOLEAN]
         /\ svcProp \in [Services -> {"", "running", "stopping", "stopped", "restarting"}]
    BY DEF Init
  <2>11. /\ execRunning \in BOOLEAN /\ servicesUpdated \in BOOLEAN
         /\ postDataMark \in BOOLEAN /\ shutdownReq \in BOOLEAN
         /\ aborted \in BOOLEAN /\ updatableCrash \in BOOLEAN
         /\ nsReady \in BOOLEAN /\ bootCompleted \in BOOLEAN
    BY DEF Init
  <2>12. rebootTarget = [s \in Services |-> s \in RebootOnFailure]
    BY DEF Init
  <2>13. rebootTarget \in [Services -> BOOLEAN]
    BY <2>12
  <2>. QED
    BY <2>1, <2>3, <2>4, <2>6, <2>8, <2>9, <2>10, <2>11, <2>13 DEF TypeOK
<1>2. \A s \in Services : pid[s] = NoPid /\ "RUNNING" \notin flags[s]
                          /\ "RESTARTING" \notin flags[s]
  BY ServiceConstants DEF Init, Services
<1>3. \A p \in Pids : proc[p].st = "free"
  BY DEF Init, FreeSlot
<1>4. SafeInv
  BY <1>2, <1>3 DEF SafeInv, LiveChildIsTracked, PidIsOwnChild, RunningIffPid,
     OnlyWantedRestarts, SkippedKillIsHarmless, ReapingInv, Init
<1>. QED
  BY <1>1, <1>4 DEF IInv

\* A failed or successful Start() keeps the types, whatever flags f it starts
\* from and whatever flags x its caller adds.
LEMMA StartWithTypes ==
  ASSUME TypeOK, NEW s \in Services, NEW f \in SUBSET Flag,
         NEW x \in SUBSET {"EXEC"}, StartWith(s, f, x)
  PROVE  StartTypes'
<1>0. ClearedForStart(f) \in SUBSET Flag /\ x \in SUBSET Flag
  BY DEF ClearedForStart, Flag
<1>1. CASE StartRunning(s, f, x)
  BY <1>0, <1>1 DEF StartRunning, SetExec, StartTypes, TypeOK, timeVars, Flag
<1>2. CASE StartFails(s, f)
  <2>1. PICK why \in Failure \cup {"fork"} :
          /\ flags' = IF s \in Temps THEN flags
                      ELSE [flags EXCEPT ![s] = ClearedForStart(f) \cup
                        (IF why \in {"console", "stat"} THEN {"DISABLED"} ELSE {})]
          /\ bootstrapNs' = IF s \in Temps \/ why # "fork" THEN bootstrapNs
                            ELSE [bootstrapNs EXCEPT ![s] = @ \/ PreApexd(s)]
          /\ postData' = IF s \in Temps \/ why # "fork" THEN postData
                         ELSE [postData EXCEPT ![s] = postDataMark]
    BY <1>2, ServiceConstants DEF StartFails
  <2>2. flags' \in [Services -> SUBSET Flag]
    BY <1>0, <2>1 DEF TypeOK, Flag
  <2>3. bootstrapNs' \in [Services -> BOOLEAN] /\ postData' \in [Services -> BOOLEAN]
    BY <2>1 DEF TypeOK
  <2>4. shutdownReq' = (shutdownReq \/ rebootTarget[s])
    BY <1>2 DEF StartFails, StartFailed
  <2>5. shutdownReq' \in BOOLEAN
    BY <2>4 DEF TypeOK
  <2>6. UNCHANGED <<pid, cgroupEmpty, svcProp, startSeq, execRunning, listed, proc,
                    restartDue, timeoutDue, delayed>>
    BY <1>2 DEF StartFails, timeVars
  <2>. QED
    BY <2>2, <2>3, <2>5, <2>6 DEF StartTypes, TypeOK
<1>3. CASE StartForks(s, f, x)
  <2>1. PICK p \in Pids :
          /\ proc[p].st = "free"
          /\ proc' = [proc EXCEPT ![p] = [st |-> "alive", owner |-> s, ok |-> TRUE]]
          /\ pid' = [pid EXCEPT ![s] = p]
    BY <1>3 DEF StartForks
  <2>2. proc' \in [Pids -> [st : {"free", "alive", "killed", "zombie"},
                            owner : Services \cup {NoService}, ok : BOOLEAN]]
        /\ pid' \in [Services -> Pids \cup {NoPid}]
    BY <2>1 DEF TypeOK
  <2>3. svcProp' \in [Services -> {"", "running", "stopping", "stopped", "restarting"}]
    BY <1>3 DEF StartForks, NotifyStateChange, TypeOK
  <2>4. flags' \in [Services -> SUBSET Flag]
    BY <1>0, <1>3 DEF StartForks, TypeOK, Flag
  <2>5. /\ cgroupEmpty' \in [Services -> BOOLEAN]
        /\ restartDue' \in [Services -> BOOLEAN]
        /\ timeoutDue' \in [Services -> BOOLEAN]
        /\ postData' \in [Services -> BOOLEAN]
        /\ bootstrapNs' \in [Services -> BOOLEAN]
    BY <1>3 DEF StartForks, ResetCgroup, TypeOK
  <2>6. /\ execRunning' = (execRunning \/ x # {})
        /\ listed' = listed \cup {s}
        /\ startSeq' = Append(startSeq, s)
        /\ delayed' = delayed
        /\ shutdownReq' = shutdownReq
    BY <1>3 DEF StartForks, SetExec
  <2>7. /\ execRunning' \in BOOLEAN
        /\ delayed' \in Seq(Services)
        /\ shutdownReq' \in BOOLEAN
    BY <2>6 DEF TypeOK
  <2>8. listed' \in SUBSET Services
    BY <2>6 DEF TypeOK
  <2>9. startSeq \in Seq(Services)
    BY DEF TypeOK
  <2>10. startSeq' \in Seq(Services)
    BY <2>6, <2>9
  <2>. QED
    BY <2>2, <2>3, <2>4, <2>5, <2>7, <2>8, <2>10 DEF StartTypes
<1>. QED
  BY <1>1, <1>2, <1>3 DEF StartWith

\* Start() keeps flags, pids and the process table consistent, provided the flags
\* f it starts from agree with the service's pid.
LEMMA StartWithSafe ==
  ASSUME CoreTypes, SafeInv, NEW s \in Services, NEW f \in SUBSET Flag,
         NEW x \in SUBSET {"EXEC"}, StartWith(s, f, x),
         "RUNNING" \in f <=> pid[s] # NoPid,
         reaping' = reaping
  PROVE  SafeInv'
<1>1. CASE StartRunning(s, f, x)
  <2>1. /\ "RUNNING" \in f
        /\ flags' = [flags EXCEPT ![s] =
             ClearedForStart(f) \cup x \cup
             (IF "ONESHOT" \in f /\ f \cap {"DISABLED", "RESET"} # {}
              THEN {"RESTART"} ELSE {})]
        /\ pid' = pid /\ cgroupEmpty' = cgroupEmpty
        /\ listed' = listed /\ proc' = proc
    BY <1>1 DEF StartRunning
  <2>2. "RUNNING" \in flags'[s] /\ "RESTARTING" \notin flags'[s]
    BY <2>1 DEF CoreTypes, ClearedForStart
  <2>3. \A r \in Services : r # s => flags'[r] = flags[r]
    BY <2>1 DEF CoreTypes
  <2>4. pid[s] # NoPid
    BY <2>1
  <2>5. LiveChildIsTracked'
    BY <2>1, <2>2, <2>3 DEF SafeInv, LiveChildIsTracked, CoreTypes
  <2>6. PidIsOwnChild'
    BY <2>1, <2>2, <2>3 DEF SafeInv, PidIsOwnChild
  <2>7. RunningIffPid'
    BY <2>1, <2>2, <2>3, <2>4 DEF SafeInv, RunningIffPid
  <2>8. OnlyWantedRestarts'
    BY <2>1, <2>2, <2>3 DEF SafeInv, OnlyWantedRestarts
  <2>9. SkippedKillIsHarmless' /\ ReapingInv'
    BY <2>1 DEF SafeInv, SkippedKillIsHarmless, ReapingInv
  <2>. QED
    BY <2>5, <2>6, <2>7, <2>8, <2>9 DEF SafeInv
<1>2. CASE StartFails(s, f)
  <2>1. /\ "RUNNING" \notin f
        /\ pid' = pid /\ cgroupEmpty' = cgroupEmpty
        /\ listed' = listed /\ proc' = proc
        /\ \/ flags' = flags
           \/ \E d \in SUBSET {"DISABLED"} :
                flags' = [flags EXCEPT ![s] = ClearedForStart(f) \cup d]
    BY <1>2 DEF StartFails
  <2>2. CASE flags' = flags
    BY <2>1, <2>2 DEF SafeInv, LiveChildIsTracked, PidIsOwnChild, RunningIffPid,
       OnlyWantedRestarts, SkippedKillIsHarmless, ReapingInv
  <2>3. CASE flags' # flags
    <3>1. PICK d \in SUBSET {"DISABLED"} :
            flags' = [flags EXCEPT ![s] = ClearedForStart(f) \cup d]
      BY <2>1, <2>3
    <3>2. "RUNNING" \notin flags'[s] /\ "RESTARTING" \notin flags'[s]
      BY <2>1, <3>1 DEF CoreTypes, ClearedForStart
    <3>3. \A r \in Services : r # s => flags'[r] = flags[r]
      BY <3>1 DEF CoreTypes
    <3>4. pid[s] = NoPid
      BY <2>1
    <3>5. \A p \in Pids : p # NoPid
      BY ServiceConstants
    <3>. \A r \in listed : r \in Services
      BY DEF CoreTypes
    <3>6. LiveChildIsTracked'
      BY <2>1, <3>3, <3>4, <3>5 DEF SafeInv, LiveChildIsTracked
    <3>7. PidIsOwnChild'
      BY <2>1, <3>3, <3>4 DEF SafeInv, PidIsOwnChild
    <3>8. RunningIffPid'
      BY <2>1, <3>2, <3>3, <3>4 DEF SafeInv, RunningIffPid
    <3>9. OnlyWantedRestarts'
      BY <2>1, <3>2, <3>3 DEF SafeInv, OnlyWantedRestarts
    <3>10. SkippedKillIsHarmless' /\ ReapingInv'
      BY <2>1 DEF SafeInv, SkippedKillIsHarmless, ReapingInv
    <3>. QED
      BY <3>6, <3>7, <3>8, <3>9, <3>10 DEF SafeInv
  <2>. QED
    BY <2>2, <2>3
<1>3. CASE StartForks(s, f, x)
  <2>1. PICK p \in Pids :
          /\ proc[p].st = "free"
          /\ proc' = [proc EXCEPT ![p] = [st |-> "alive", owner |-> s, ok |-> TRUE]]
          /\ pid' = [pid EXCEPT ![s] = p]
    BY <1>3 DEF StartForks
  <2>2. /\ "RUNNING" \notin f
        /\ flags' = [flags EXCEPT ![s] = ClearedForStart(f) \cup x \cup {"RUNNING"}]
        /\ cgroupEmpty' = [cgroupEmpty EXCEPT ![s] = FALSE]
        /\ listed' = listed \cup {s}
    BY <1>3 DEF StartForks, ResetCgroup
  <2>3. "RUNNING" \in flags'[s] /\ "RESTARTING" \notin flags'[s]
    BY <2>2 DEF CoreTypes, ClearedForStart
  <2>4. \A r \in Services : r # s => flags'[r] = flags[r] /\ pid'[r] = pid[r]
                                     /\ cgroupEmpty'[r] = cgroupEmpty[r]
    BY <2>1, <2>2 DEF CoreTypes
  <2>5. /\ pid'[s] = p /\ cgroupEmpty'[s] = FALSE /\ p # NoPid
        /\ proc'[p].st = "alive" /\ proc'[p].owner = s
    BY <2>1, <2>2, ServiceConstants DEF CoreTypes
  <2>6. \A q \in Pids : q # p => proc'[q] = proc[q]
    BY <2>1 DEF CoreTypes
  <2>7. \A r \in Services : pid[r] # p
    BY <2>1, <2>5 DEF SafeInv, PidIsOwnChild
  <2>8. pid[s] = NoPid
    BY <2>2
  <2>9. \A q \in Pids : q # NoPid
    BY ServiceConstants
  <2>. \A r \in listed : r \in Services
    BY DEF CoreTypes
  <2>10. LiveChildIsTracked'
    BY <2>2, <2>3, <2>4, <2>5, <2>6, <2>8, <2>9 DEF SafeInv, LiveChildIsTracked
  <2>11. PidIsOwnChild'
    <3>1. \A r \in Services : pid[r] \in Pids \cup {NoPid}
      BY DEF CoreTypes
    <3>. QED
      BY <2>2, <2>3, <2>4, <2>5, <2>6, <2>7, <3>1 DEF SafeInv, PidIsOwnChild
  <2>12. RunningIffPid'
    BY <2>3, <2>4, <2>5 DEF SafeInv, RunningIffPid
  <2>13. SkippedKillIsHarmless'
    <3>1. \A r \in Services : pid[r] \in Pids \cup {NoPid}
      BY DEF CoreTypes
    <3>. QED
      BY <2>4, <2>5, <2>6, <2>7, <3>1 DEF SafeInv, SkippedKillIsHarmless
  <2>14. OnlyWantedRestarts'
    BY <2>3, <2>4 DEF SafeInv, OnlyWantedRestarts
  <2>15. ReapingInv'
    BY <2>1, <2>4, <2>5, <2>6 DEF SafeInv, ReapingInv, NotReaping
  <2>. QED
    BY <2>10, <2>11, <2>12, <2>13, <2>14, <2>15 DEF SafeInv
<1>. QED
  BY <1>1, <1>2, <1>3 DEF StartWith

\* KillProcessGroup() neither frees a pid nor changes whose child it is nor
\* revives it; it declares the group empty only when the main process is dead.
LEMMA KillFacts ==
  ASSUME CoreTypes, NEW s \in Services, KillProcessGroup(s),
         pid[s] # NoPid, proc[pid[s]].st # "free"
  PROVE  /\ proc' \in [Pids -> [st : {"free", "alive", "killed", "zombie"},
                                owner : Services \cup {NoService}, ok : BOOLEAN]]
         /\ cgroupEmpty' \in [Services -> BOOLEAN]
         /\ \A q \in Pids :
              /\ proc'[q].owner = proc[q].owner
              /\ proc'[q].st = "free" <=> proc[q].st = "free"
              /\ proc[q].st = "zombie" => proc'[q].st = "zombie"
              /\ proc'[q].st \in {"alive", "killed"} => proc[q].st \in {"alive", "killed"}
         /\ \A r \in Services : r # s => cgroupEmpty'[r] = cgroupEmpty[r]
         /\ cgroupEmpty'[s] => cgroupEmpty[s] \/ proc'[pid[s]].st = "zombie"
<1>0. pid[s] \in Pids
  BY DEF CoreTypes
<1>1. CASE cgroupEmpty[s]
  <2>1. proc' = proc /\ cgroupEmpty' = cgroupEmpty
    BY <1>1 DEF KillProcessGroup
  <2>. QED
    BY <2>1, <1>1 DEF CoreTypes
<1>2. CASE ~cgroupEmpty[s]
  <2>1. PICK st \in KillOutcomes(proc[pid[s]].st), empty \in BOOLEAN :
          /\ empty => st = "zombie"
          /\ proc' = [proc EXCEPT ![pid[s]].st = st,
                        ![pid[s]].ok = @ /\ proc[pid[s]].st = "zombie"]
          /\ cgroupEmpty' = [cgroupEmpty EXCEPT ![s] = empty]
    BY <1>2 DEF KillProcessGroup
  <2>2. /\ st \in {"killed", "zombie"}
        /\ proc[pid[s]].st = "zombie" => st = "zombie"
    BY <2>1 DEF KillOutcomes
  <2>3. /\ proc'[pid[s]].st = st
        /\ proc'[pid[s]].owner = proc[pid[s]].owner
        /\ \A q \in Pids : q # pid[s] => proc'[q] = proc[q]
    BY <1>0, <2>1 DEF CoreTypes
  <2>4. proc[pid[s]] \in [st : {"free", "alive", "killed", "zombie"},
                          owner : Services \cup {NoService}, ok : BOOLEAN]
    BY <1>0 DEF CoreTypes
  <2>5. proc' \in [Pids -> [st : {"free", "alive", "killed", "zombie"},
                           owner : Services \cup {NoService}, ok : BOOLEAN]]
    BY <1>0, <2>1, <2>2, <2>4 DEF CoreTypes
  <2>6. /\ cgroupEmpty' \in [Services -> BOOLEAN]
        /\ \A r \in Services : r # s => cgroupEmpty'[r] = cgroupEmpty[r]
        /\ cgroupEmpty'[s] = empty
    BY <2>1 DEF CoreTypes
  <2>7. proc[pid[s]].st \in {"alive", "killed", "zombie"}
    BY <2>4
  <2>. QED
    BY <1>0, <2>1, <2>2, <2>3, <2>5, <2>6, <2>7
<1>. QED
  BY <1>1, <1>2

\* StopOrReset() keeps the types and the invariants.
LEMMA StopTypes ==
  ASSUME TypeOK, PidIsOwnChild, NEW s \in Services,
         NEW how \in {"DISABLED", "RESET", "RESTART"}, StopOrReset(s, how)
  PROVE  StartTypes'
<1>1. flags' \in [Services -> SUBSET Flag]
  BY DEF StopOrReset, StopFlags, TypeOK, Flag
<1>2. svcProp' \in [Services -> {"", "running", "stopping", "stopped", "restarting"}]
  BY DEF StopOrReset, NotifyStateChange, TypeOK
<1>3. /\ proc' \in [Pids -> [st : {"free", "alive", "killed", "zombie"},
                             owner : Services \cup {NoService}, ok : BOOLEAN]]
      /\ cgroupEmpty' \in [Services -> BOOLEAN]
  <2>1. CASE pid[s] = NoPid
    BY <2>1 DEF StopOrReset, TypeOK
  <2>2. CASE pid[s] # NoPid
    <3>1. KillProcessGroup(s) /\ proc[pid[s]].st # "free" /\ CoreTypes
      BY <2>2 DEF StopOrReset, PidIsOwnChild, TypeOK, CoreTypes
    <3>. QED
      BY <2>2, <3>1, KillFacts
  <2>. QED
    BY <2>1, <2>2
<1>4. UNCHANGED <<pid, startSeq, execRunning, listed, restartDue, timeoutDue,
                  postData, bootstrapNs, delayed, shutdownReq>>
  BY DEF StopOrReset, timeVars
<1>. QED
  BY <1>1, <1>2, <1>3, <1>4 DEF StartTypes, TypeOK

\* StopOrReset keeps what SafeInv says of pids, flags and processes: it kills, never forgets.
LEMMA StopSafe ==
  ASSUME CoreTypes, SafeInv, NEW s \in Services,
         NEW how \in {"DISABLED", "RESET", "RESTART"}, StopOrReset(s, how),
         reaping' = reaping,
         how = "RESTART" => pid[s] # NoPid
  PROVE  SafeInv'
<1>1. /\ flags' = [flags EXCEPT ![s] = StopFlags(flags[s], how)]
      /\ pid' = pid /\ listed' = listed
  BY DEF StopOrReset
<1>2. /\ "RUNNING" \in flags'[s] <=> "RUNNING" \in flags[s]
      /\ "RESTARTING" \notin flags'[s]
  BY <1>1 DEF StopFlags, CoreTypes
<1>3. \A r \in Services : r # s => flags'[r] = flags[r]
  BY <1>1 DEF CoreTypes
<1>4. /\ \A q \in Pids :
            /\ proc'[q].owner = proc[q].owner
            /\ proc'[q].st = "free" <=> proc[q].st = "free"
            /\ proc[q].st = "zombie" => proc'[q].st = "zombie"
            /\ proc'[q].st \in {"alive", "killed"} => proc[q].st \in {"alive", "killed"}
      /\ \A r \in Services : r # s => cgroupEmpty'[r] = cgroupEmpty[r]
      /\ pid[s] # NoPid /\ cgroupEmpty'[s]
           => cgroupEmpty[s] \/ proc'[pid[s]].st = "zombie"
  <2>1. CASE pid[s] = NoPid
    BY <2>1 DEF StopOrReset
  <2>2. CASE pid[s] # NoPid
    <3>1. KillProcessGroup(s) /\ proc[pid[s]].st # "free"
      BY <2>2 DEF StopOrReset, SafeInv, PidIsOwnChild
    <3>. QED
      BY <2>2, <3>1, KillFacts
  <2>. QED
    BY <2>1, <2>2
<1>5. \A r \in Services : pid[r] \in Pids \cup {NoPid}
  BY DEF CoreTypes
<1>6. \A r \in listed : r \in Services
  BY DEF CoreTypes
<1>7. LiveChildIsTracked'
  BY <1>1, <1>2, <1>3, <1>4, <1>6 DEF SafeInv, LiveChildIsTracked
<1>8. PidIsOwnChild'
  BY <1>1, <1>2, <1>3, <1>4, <1>5 DEF SafeInv, PidIsOwnChild
<1>9. RunningIffPid'
  BY <1>1, <1>2, <1>3 DEF SafeInv, RunningIffPid
<1>10. OnlyWantedRestarts'
  BY <1>1, <1>2, <1>3 DEF SafeInv, OnlyWantedRestarts
<1>11. SkippedKillIsHarmless'
  BY <1>1, <1>4, <1>5 DEF SafeInv, SkippedKillIsHarmless
<1>12. ReapingInv'
  BY <1>1, <1>4 DEF SafeInv, ReapingInv
<1>. QED
  BY <1>7, <1>8, <1>9, <1>10, <1>11, <1>12 DEF SafeInv

\* A change of flags that touches neither SVC_RUNNING nor SVC_RESTARTING nor the
\* reasons for staying down is harmless.
LEMMA FlagsSafe ==
  ASSUME CoreTypes, SafeInv, NEW s \in Services, NEW f \in SUBSET Flag,
         flags' = [flags EXCEPT ![s] = f],
         UNCHANGED <<pid, cgroupEmpty, listed, proc, reaping>>,
         "RUNNING" \in f <=> "RUNNING" \in flags[s],
         "RESTARTING" \in f => /\ "RESTARTING" \in flags[s]
                               /\ f \cap {"DISABLED", "RESET", "RESTART"} = {}
  PROVE  SafeInv'
<1>1. /\ pid' = pid /\ cgroupEmpty' = cgroupEmpty /\ listed' = listed
      /\ proc' = proc /\ reaping' = reaping
  OBVIOUS
<1>2. flags'[s] = f /\ \A r \in Services : r # s => flags'[r] = flags[r]
  BY DEF CoreTypes
<1>3. \A r \in listed : r \in Services
  BY DEF CoreTypes
<1>4. \A r \in Services : "RUNNING" \in flags'[r] <=> "RUNNING" \in flags[r]
  BY <1>2
<1>5. LiveChildIsTracked'
  BY <1>1, <1>3, <1>4 DEF SafeInv, LiveChildIsTracked
<1>6. PidIsOwnChild'
  BY <1>1, <1>4 DEF SafeInv, PidIsOwnChild
<1>7. RunningIffPid'
  BY <1>1, <1>4 DEF SafeInv, RunningIffPid
<1>8. OnlyWantedRestarts'
  <2>. SUFFICES ASSUME NEW r \in Services, "RESTARTING" \in flags'[r]
                PROVE  /\ pid[r] = NoPid
                       /\ flags'[r] \cap {"RUNNING", "DISABLED", "RESET", "RESTART"} = {}
    BY <1>1 DEF OnlyWantedRestarts
  <2>1. "RESTARTING" \in flags[r]
    BY <1>2
  <2>2. pid[r] = NoPid /\ flags[r] \cap {"RUNNING", "DISABLED", "RESET", "RESTART"} = {}
    BY <2>1 DEF SafeInv, OnlyWantedRestarts
  <2>. QED
    BY <1>2, <1>4, <2>2
<1>9. SkippedKillIsHarmless' /\ ReapingInv'
  BY <1>1 DEF SafeInv, SkippedKillIsHarmless, ReapingInv
<1>. QED
  BY <1>5, <1>6, <1>7, <1>8, <1>9 DEF SafeInv

\* SafeInv speaks of six variables only.
LEMMA SameSafe ==
  ASSUME SafeInv, UNCHANGED <<flags, pid, cgroupEmpty, listed, proc, reaping>>
  PROVE  SafeInv'
<1>1. /\ flags' = flags /\ pid' = pid /\ cgroupEmpty' = cgroupEmpty
      /\ listed' = listed /\ proc' = proc /\ reaping' = reaping
  OBVIOUS
<1>. QED
  BY <1>1 DEF SafeInv, LiveChildIsTracked, PidIsOwnChild, RunningIffPid,
     OnlyWantedRestarts, SkippedKillIsHarmless, ReapingInv

\* A step that only sets other flags of a service, and makes no restart unwanted.
LEMMA SetFlagsOnlyInv ==
  ASSUME TypeOK, SafeInv, NEW s \in Services, NEW f \in SUBSET Flag,
         SetFlagsOnly(s, f), reaping' = reaping,
         "RUNNING" \in f <=> "RUNNING" \in flags[s],
         "RESTARTING" \in f => /\ "RESTARTING" \in flags[s]
                               /\ f \cap {"DISABLED", "RESET", "RESTART"} = {}
  PROVE  StartTypes' /\ SafeInv'
<1>1. /\ flags' = [flags EXCEPT ![s] = f]
      /\ UNCHANGED <<pid, cgroupEmpty, svcProp, startSeq, execRunning, listed, proc,
                     restartDue, timeoutDue, postData, bootstrapNs, delayed, shutdownReq>>
  BY DEF SetFlagsOnly, timeVars
<1>2. StartTypes'
  BY <1>1 DEF StartTypes, TypeOK
<1>3. SafeInv'
  BY <1>1, FlagsSafe DEF TypeOK, CoreTypes
<1>. QED
  BY <1>2, <1>3

\* A step that touches nothing that Start writes.
LEMMA SameStart ==
  ASSUME TypeOK, SafeInv, UNCHANGED startVars, reaping' = reaping
  PROVE  StartTypes' /\ SafeInv'
<1>1. /\ UNCHANGED <<flags, pid, cgroupEmpty, svcProp, startSeq, execRunning, listed>>
      /\ UNCHANGED <<proc, restartDue, timeoutDue, postData, bootstrapNs, delayed,
                     shutdownReq>>
  BY DEF startVars
<1>2. StartTypes'
  BY <1>1 DEF StartTypes, TypeOK
<1>3. SafeInv'
  BY <1>1, SameSafe
<1>. QED
  BY <1>2, <1>3

\* A delayed or refused start: only the queue and the shutdown request change.
LEMMA DelayedInv ==
  ASSUME TypeOK, SafeInv, NEW s \in Services, StartFailed(s), reaping' = reaping,
         UNCHANGED <<flags, pid, cgroupEmpty, svcProp, startSeq, execRunning, listed,
                     proc, restartDue, timeoutDue, postData, bootstrapNs>>,
         delayed' \in Seq(Services)
  PROVE  StartTypes' /\ SafeInv'
<1>1. shutdownReq' = (shutdownReq \/ rebootTarget[s])
  BY DEF StartFailed
<1>2. shutdownReq' \in BOOLEAN
  BY <1>1 DEF TypeOK
<1>3. StartTypes'
  BY <1>2 DEF StartTypes, TypeOK
<1>4. SafeInv'
  BY SameSafe
<1>. QED
  BY <1>3, <1>4

\* Start, whether it delays the service, fails at one of its checks or forks.
LEMMA StartInv ==
  ASSUME TypeOK, SafeInv, NEW s \in Services, Start(s), reaping' = reaping
  PROVE  StartTypes' /\ SafeInv'
<1>0. CoreTypes /\ flags[s] \in SUBSET Flag /\ delayed \in Seq(Services)
  BY DEF TypeOK, CoreTypes
<1>1. CASE DelayService(s)
  <2>1. delayed' = Append(delayed, s)
    BY <1>1 DEF DelayService
  <2>2. delayed' \in Seq(Services)
    BY <1>0, <2>1
  <2>3. StartFailed(s)
        /\ UNCHANGED <<flags, pid, cgroupEmpty, svcProp, startSeq, execRunning, listed,
                       proc, restartDue, timeoutDue, postData, bootstrapNs>>
    BY <1>1 DEF DelayService, timeVars
  <2>. QED
    BY <2>2, <2>3, DelayedInv
<1>2. CASE StartWith(s, flags[s], {})
  <2>1. "RUNNING" \in flags[s] <=> pid[s] # NoPid
    BY DEF SafeInv, RunningIffPid
  <2>2. StartTypes'
    BY <1>0, <1>2, StartWithTypes
  <2>3. SafeInv'
    BY <1>0, <1>2, <2>1, StartWithSafe
  <2>. QED
    BY <2>2, <2>3
<1>. QED
  BY <1>1, <1>2 DEF Start

\* TypeOK is the types of what Start writes and of the rest.
LEMMA TypeSplit == /\ TypeOK <=> StartTypes /\ RestTypes
                   /\ TypeOK' <=> StartTypes' /\ RestTypes'
<1>1. TypeOK <=> StartTypes /\ RestTypes
  BY Zenon DEF TypeOK, StartTypes, RestTypes
<1>2. TypeOK' <=> StartTypes' /\ RestTypes'
  BY Zenon DEF TypeOK, StartTypes, RestTypes
<1>. QED
  BY <1>1, <1>2

\* ExecStart, which may also refuse or fail to start.
LEMMA ExecStartInv ==
  ASSUME TypeOK, SafeInv, NEW s \in Services, ExecStart(s), reaping' = reaping
  PROVE  StartTypes' /\ SafeInv'
<1>0. CoreTypes /\ flags[s] \in SUBSET Flag /\ delayed \in Seq(Services)
  BY DEF TypeOK, CoreTypes
<1>1. CASE MustWait(s)
  <2>1. /\ StartFailed(s) /\ delayed' = delayed
        /\ UNCHANGED <<flags, pid, cgroupEmpty, svcProp, startSeq, execRunning, listed,
                       proc, restartDue, timeoutDue, postData, bootstrapNs>>
    BY <1>1 DEF ExecStart, timeVars
  <2>. QED
    BY <1>0, <2>1, DelayedInv
<1>2. CASE ~MustWait(s)
  <2>0. StartWith(s, flags[s] \cup {"ONESHOT"}, {"EXEC"})
    BY <1>2 DEF ExecStart
  <2>1. flags[s] \cup {"ONESHOT"} \in SUBSET Flag
    BY <1>0 DEF Flag
  <2>2. "RUNNING" \in flags[s] \cup {"ONESHOT"} <=> pid[s] # NoPid
    BY DEF SafeInv, RunningIffPid
  <2>3. StartTypes'
    BY <2>0, <2>1, StartWithTypes
  <2>4. SafeInv'
    BY <1>0, <2>0, <2>1, <2>2, StartWithSafe
  <2>. QED
    BY <2>3, <2>4
<1>. QED
  BY <1>1, <1>2

\* A temporary service that is not in the list has no process.
LEMMA ExecTemporaryInv ==
  ASSUME TypeOK, SafeInv, NEW s \in Services, NEW x \in SUBSET {"EXEC"},
         ExecTemporary(s, x), reaping' = reaping
  PROVE  StartTypes' /\ SafeInv'
<1>1. CASE s \in listed
  BY <1>1, SameStart DEF ExecTemporary
<1>2. CASE s \notin listed
  <2>0. StartWith(s, {"ONESHOT", "TEMPORARY"}, x) /\ CoreTypes
    BY <1>2 DEF ExecTemporary, TypeOK, CoreTypes
  <2>1. {"ONESHOT", "TEMPORARY"} \in SUBSET Flag
    BY DEF Flag
  <2>2. "RUNNING" \in {"ONESHOT", "TEMPORARY"} <=> pid[s] # NoPid
    BY <1>2 DEF SafeInv, PidIsOwnChild
  <2>3. StartTypes'
    BY <2>0, <2>1, StartWithTypes
  <2>4. SafeInv'
    BY <2>0, <2>1, <2>2, StartWithSafe
  <2>. QED
    BY <2>3, <2>4
<1>. QED
  BY <1>1, <1>2

\* Stop, Reset and the first half of Restart.
LEMMA StopInv ==
  ASSUME TypeOK, SafeInv, NEW s \in Services,
         NEW how \in {"DISABLED", "RESET", "RESTART"}, StopOrReset(s, how),
         reaping' = reaping, how = "RESTART" => pid[s] # NoPid
  PROVE  StartTypes' /\ SafeInv'
<1>1. CoreTypes /\ PidIsOwnChild
  BY DEF TypeOK, CoreTypes, SafeInv
<1>2. StartTypes'
  BY <1>1, StopTypes
<1>3. SafeInv'
  BY <1>1, StopSafe
<1>. QED
  BY <1>2, <1>3

\* Restart: of a running service a kill, of a restarting one nothing, else a start.
LEMMA RestartInv ==
  ASSUME TypeOK, SafeInv, NEW s \in Services, Restart(s), reaping' = reaping
  PROVE  StartTypes' /\ SafeInv'
<1>1. CASE Has(s, "RUNNING") /\ StopOrReset(s, "RESTART")
  <2>1. pid[s] # NoPid
    BY <1>1 DEF Has, SafeInv, RunningIffPid
  <2>. QED
    BY <1>1, <2>1, StopInv
<1>2. CASE Start(s)
  BY <1>2, StartInv
<1>3. CASE UNCHANGED startVars
  BY <1>3, SameStart
<1>. QED
  BY <1>1, <1>2, <1>3 DEF Restart

\* StartIfNotDisabled starts or remembers the wish in a flag.
LEMMA StartIfNotDisabledInv ==
  ASSUME TypeOK, SafeInv, NEW s \in Services, StartIfNotDisabled(s),
         reaping' = reaping
  PROVE  StartTypes' /\ SafeInv'
<1>1. CASE Start(s)
  BY <1>1, StartInv
<1>2. CASE Has(s, "DISABLED") /\ SetFlagsOnly(s, flags[s] \cup {"DISABLED_START"})
  <2>1. flags[s] \cup {"DISABLED_START"} \in SUBSET Flag
    BY DEF TypeOK, Flag
  <2>2. "RESTARTING" \notin flags[s] \cup {"DISABLED_START"}
    BY <1>2 DEF Has, SafeInv, OnlyWantedRestarts
  <2>3. "RUNNING" \in flags[s] \cup {"DISABLED_START"} <=> "RUNNING" \in flags[s]
    OBVIOUS
  <2>. QED
    BY <1>2, <2>1, <2>2, <2>3, SetFlagsOnlyInv
<1>. QED
  BY <1>1, <1>2 DEF StartIfNotDisabled

\* Enable clears the disabling flags and carries out a remembered start.
LEMMA EnableInv ==
  ASSUME TypeOK, SafeInv, NEW s \in Services, Enable(s), reaping' = reaping
  PROVE  StartTypes' /\ SafeInv'
<1>. DEFINE f == flags[s] \ {"DISABLED", "RC_DISABLED"}
<1>1. f \in SUBSET Flag /\ CoreTypes /\ delayed \in Seq(Services)
  BY DEF TypeOK, CoreTypes
<1>2. "RUNNING" \in f <=> "RUNNING" \in flags[s]
  OBVIOUS
<1>3. "RESTARTING" \in f => /\ "RESTARTING" \in flags[s]
                            /\ f \cap {"DISABLED", "RESET", "RESTART"} = {}
  BY DEF SafeInv, OnlyWantedRestarts
<1>4. CASE SetFlagsOnly(s, f)
  <2>. HIDE DEF f
  <2>. QED
    BY <1>1, <1>2, <1>3, <1>4, SetFlagsOnlyInv
<1>5. CASE MustWait(s) /\ "DISABLED_START" \in f
  <2>1. /\ flags' = [flags EXCEPT ![s] = f]
        /\ delayed' = Append(delayed, s)
        /\ StartFailed(s)
        /\ UNCHANGED <<pid, cgroupEmpty, svcProp, startSeq, execRunning, listed,
                       proc, restartDue, timeoutDue, postData, bootstrapNs>>
    BY <1>5 DEF Enable, SetFlagsOnly, timeVars
  <2>. HIDE DEF f
  <2>2. delayed' \in Seq(Services)
    BY <1>1, <2>1
  <2>3. shutdownReq' = (shutdownReq \/ rebootTarget[s])
    BY <2>1 DEF StartFailed
  <2>4. shutdownReq' \in BOOLEAN
    BY <2>3 DEF TypeOK
  <2>5. StartTypes'
    BY <1>1, <2>1, <2>2, <2>4 DEF StartTypes, TypeOK
  <2>6. SafeInv'
    BY <1>1, <1>2, <1>3, <2>1, FlagsSafe
  <2>. QED
    BY <2>5, <2>6
<1>6. CASE StartWith(s, f, {})
  <2>1. "RUNNING" \in f <=> pid[s] # NoPid
    BY <1>2 DEF SafeInv, RunningIffPid
  <2>. HIDE DEF f
  <2>2. StartTypes'
    BY <1>1, <1>6, StartWithTypes
  <2>3. SafeInv'
    BY <1>1, <1>6, <2>1, StartWithSafe
  <2>. QED
    BY <2>2, <2>3
<1>. QED
  BY <1>4, <1>5, <1>6 DEF Enable

\* Every call the main thread makes on a service keeps the invariant.
LEMMA ServiceCallInv ==
  ASSUME TypeOK, SafeInv, NEW c \in Call, ServiceCall(c), reaping' = reaping
  PROVE  StartTypes' /\ SafeInv'
<1>0. c.svc \in Services
  BY DEF Call
<1>1. CASE Start(c.svc)
  BY <1>0, <1>1, StartInv
<1>2. CASE StartIfNotDisabled(c.svc)
  BY <1>0, <1>2, StartIfNotDisabledInv
<1>3. CASE StartIfPostData(c.svc)
  BY <1>0, <1>3, StartInv, SameStart DEF StartIfPostData
<1>4. CASE Enable(c.svc)
  BY <1>0, <1>4, EnableInv
<1>5. CASE StopOrReset(c.svc, "DISABLED") \/ StopOrReset(c.svc, "RESET")
  BY <1>0, <1>5, StopInv
<1>6. CASE ResetIfPostData(c.svc)
  BY <1>0, <1>6, StopInv, SameStart DEF ResetIfPostData
<1>7. CASE Restart(c.svc)
  BY <1>0, <1>7, RestartInv
<1>8. CASE ExecStart(c.svc)
  BY <1>0, <1>8, ExecStartInv
<1>9. CASE ExecTemporary(c.svc, {"EXEC"}) \/ ExecTemporary(c.svc, {})
  BY <1>0, <1>9, ExecTemporaryInv
<1>10. ASSUME NEW f \in {flags[c.svc] \cup {"ONESHOT"}, flags[c.svc] \ {"ONESHOT"}},
              SetFlagsOnly(c.svc, f)
       PROVE  StartTypes' /\ SafeInv'
  <2>1. f \in SUBSET Flag
    BY <1>0 DEF TypeOK, Flag
  <2>2. "RUNNING" \in f <=> "RUNNING" \in flags[c.svc]
    OBVIOUS
  <2>3. "RESTARTING" \in f => /\ "RESTARTING" \in flags[c.svc]
                              /\ f \cap {"DISABLED", "RESET", "RESTART"} = {}
    BY <1>0 DEF SafeInv, OnlyWantedRestarts
  <2>. QED
    BY <1>0, <1>10, <2>1, <2>2, <2>3, SetFlagsOnlyInv
<1>. QED
  BY <1>1, <1>2, <1>3, <1>4, <1>5, <1>6, <1>7, <1>8, <1>9, <1>10 DEF ServiceCall

-----------------------------------------------------------------------------
(* The actions of the main thread. *)

\* A pending call of a Service method, whichever it is.
LEMMA CallServiceInv == IInv /\ CallService => IInv'
<1>. SUFFICES ASSUME TypeOK, SafeInv, CallService PROVE TypeOK' /\ SafeInv'
  BY DEF IInv
<1>1. RestTypes /\ work \in Seq(Call) /\ work # <<>>
  BY TypeSplit DEF CallService, RestTypes
<1>2. Head(work) \in Call /\ Tail(work) \in Seq(Call)
  BY <1>1
<1>3. /\ ServiceCall(Head(work)) /\ work' = Tail(work)
      /\ runningAtReset' =
           IF Head(work).op = "ResetIfPostData" /\ postData[Head(work).svc]
              /\ Has(Head(work).svc, "RUNNING")
           THEN [runningAtReset EXCEPT ![Head(work).svc] = TRUE]
           ELSE runningAtReset
      /\ UNCHANGED <<rebootTarget, reaping, crashCount, inWindow, updatableCrash,
                     aborted, postDataMark, servicesUpdated, nsReady, bootCompleted>>
  BY DEF CallService, crashVars, envVars
<1>4. runningAtReset' \in [Services -> BOOLEAN]
  BY <1>1, <1>3 DEF RestTypes
<1>5. RestTypes'
  BY <1>1, <1>2, <1>3, <1>4 DEF RestTypes
<1>6. StartTypes' /\ SafeInv'
  BY <1>2, <1>3, ServiceCallInv
<1>. QED
  BY <1>5, <1>6, TypeSplit

\* The calls on the service list, and the choice of a command, touch no process.
LEMMA ListCallInv ==
  ASSUME IInv, UNCHANGED <<startVars, rebootTarget, reaping, crashVars, runningAtReset>>,
         servicesUpdated' \in BOOLEAN, postDataMark' \in BOOLEAN,
         nsReady' \in BOOLEAN, bootCompleted' \in BOOLEAN, work' \in Seq(Call)
  PROVE  IInv'
<1>1. TypeOK /\ SafeInv /\ RestTypes
  BY TypeSplit DEF IInv
<1>2. UNCHANGED startVars /\ reaping' = reaping /\ rebootTarget' = rebootTarget
      /\ runningAtReset' = runningAtReset /\ UNCHANGED crashVars
  OBVIOUS
<1>3. UNCHANGED <<crashCount, inWindow, updatableCrash, aborted>>
  BY <1>2 DEF crashVars
<1>4. StartTypes' /\ SafeInv'
  BY <1>1, <1>2, SameStart
<1>5. RestTypes'
  BY <1>1, <1>2, <1>3 DEF RestTypes
<1>. QED
  BY <1>4, <1>5, TypeSplit DEF IInv

\* Commands that only mark services or queue calls.
LEMMA ListActionsInv ==
  ASSUME IInv,
         \/ MarkPostData \/ MarkServicesUpdate \/ SetDefaultMountNamespaceReady
         \/ ExecuteOneCommand \/ HandleControlMessage \/ BootCompletes
  PROVE  IInv'
<1>1. /\ work \in Seq(Call) /\ delayed \in Seq(Services)
      /\ servicesUpdated \in BOOLEAN /\ postDataMark \in BOOLEAN
      /\ nsReady \in BOOLEAN /\ bootCompleted \in BOOLEAN
  BY DEF IInv, TypeOK
<1>2. CASE MarkPostData
  <2>1. /\ work # <<>> /\ postDataMark' = TRUE /\ work' = Tail(work)
        /\ UNCHANGED <<startVars, rebootTarget, reaping, crashVars, runningAtReset,
                       servicesUpdated, nsReady, bootCompleted>>
    BY <1>2 DEF MarkPostData, envVars
  <2>2. work' \in Seq(Call)
    BY <1>1, <2>1
  <2>. QED
    BY <1>1, <2>1, <2>2, ListCallInv
<1>3. CASE MarkServicesUpdate
  <2>1. /\ work # <<>> /\ servicesUpdated' = TRUE
        /\ work' = DelayedStarts
             \o <<[op |-> "clear_delayed", svc |-> Head(work).svc]>> \o Tail(work)
        /\ UNCHANGED <<startVars, rebootTarget, reaping, crashVars, runningAtReset,
                       postDataMark, nsReady, bootCompleted>>
    BY <1>3 DEF MarkServicesUpdate, envVars
  <2>2. Head(work) \in Call /\ Tail(work) \in Seq(Call)
    BY <1>1, <2>1
  <2>3. [op |-> "clear_delayed", svc |-> Head(work).svc] \in Call
    BY <2>2 DEF Call, CallName
  <2>4. DelayedStarts \in Seq(Call)
    <3>1. \A i \in 1..Len(delayed) : [op |-> "Start", svc |-> delayed[i]] \in Call
      BY <1>1 DEF Call, CallName
    <3>2. Len(delayed) \in Nat
      BY <1>1
    <3>. QED
      BY <3>1, <3>2 DEF DelayedStarts
  <2>5. <<[op |-> "clear_delayed", svc |-> Head(work).svc]>> \in Seq(Call)
    BY <2>3
  <2>6. work' \in Seq(Call)
    BY <2>1, <2>2, <2>4, <2>5
  <2>. QED
    BY <1>1, <2>1, <2>6, ListCallInv
<1>4. CASE SetDefaultMountNamespaceReady
  <2>1. /\ work # <<>> /\ nsReady' = (nsReady \/ ApexUpdatable) /\ work' = Tail(work)
        /\ UNCHANGED <<startVars, rebootTarget, reaping, crashVars, runningAtReset,
                       postDataMark, servicesUpdated, bootCompleted>>
    BY <1>4 DEF SetDefaultMountNamespaceReady
  <2>2. work' \in Seq(Call)
    BY <1>1, <2>1
  <2>3. nsReady' \in BOOLEAN
    BY <2>1
  <2>. QED
    BY <1>1, <2>1, <2>2, <2>3, ListCallInv
<1>5. CASE ExecuteOneCommand \/ HandleControlMessage
  <2>1. /\ \/ work' \in Commands
           \/ \E c \in CtlCalls : work' = <<c>>
        /\ UNCHANGED <<startVars, rebootTarget, reaping, crashVars, runningAtReset,
                       postDataMark, servicesUpdated, nsReady, bootCompleted>>
    BY <1>5 DEF ExecuteOneCommand, HandleControlMessage, envVars
  <2>0. Commands \subseteq Seq(Call) /\ CtlCalls \subseteq Call
    BY ServiceConstants
  <2>2. work' \in Seq(Call)
    <3>1. CASE work' \in Commands
      BY <2>0, <3>1
    <3>2. ASSUME NEW c \in CtlCalls, work' = <<c>> PROVE work' \in Seq(Call)
      <4>1. c \in Call
        BY <2>0
      <4>. QED
        BY <3>2, <4>1
    <3>. QED
      BY <2>1, <3>1, <3>2
  <2>. QED
    BY <1>1, <2>1, <2>2, ListCallInv
<1>6. CASE BootCompletes
  <2>1. /\ bootCompleted' = TRUE
        /\ UNCHANGED <<startVars, rebootTarget, reaping, crashVars, runningAtReset,
                       postDataMark, servicesUpdated, nsReady, work>>
    BY <1>6 DEF BootCompletes
  <2>. QED
    BY <1>1, <2>1, ListCallInv
<1>. QED
  BY <1>2, <1>3, <1>4, <1>5, <1>6

\* The queue of delayed services becomes pending calls.
LEMMA ClearDelayedInv == IInv /\ ClearDelayed => IInv'
<1>. SUFFICES ASSUME TypeOK, SafeInv, ClearDelayed PROVE TypeOK' /\ SafeInv'
  BY DEF IInv
<1>0. StartTypes /\ RestTypes
  BY TypeSplit
<1>1. /\ work # <<>> /\ delayed' = <<>> /\ work' = Tail(work)
      /\ UNCHANGED <<flags, pid, cgroupEmpty, svcProp, startSeq, execRunning, listed,
                     proc, restartDue, timeoutDue, postData, bootstrapNs, shutdownReq>>
      /\ UNCHANGED <<rebootTarget, reaping, crashCount, inWindow, updatableCrash,
                     aborted, runningAtReset, postDataMark, servicesUpdated, nsReady,
                     bootCompleted>>
  BY DEF ClearDelayed, timeVars, crashVars, envVars
<1>2. delayed' \in Seq(Services)
  BY <1>1
<1>3. work' \in Seq(Call)
  BY <1>0, <1>1 DEF RestTypes
<1>4. StartTypes'
  BY <1>0, <1>1, <1>2 DEF StartTypes
<1>5. RestTypes'
  BY <1>0, <1>1, <1>3 DEF RestTypes
<1>6. SafeInv'
  BY <1>1, SameSafe
<1>. QED
  BY <1>4, <1>5, <1>6, TypeSplit

\* RestTypes does not depend on what Start() and the kernel change.
LEMMA SameRest ==
  ASSUME TypeOK,
         UNCHANGED <<work, rebootTarget, reaping, crashCount, inWindow,
                     updatableCrash, aborted, runningAtReset, postDataMark,
                     servicesUpdated, nsReady, bootCompleted>>
  PROVE  RestTypes'
<1>1. RestTypes
  BY TypeSplit
<1>. QED
  BY <1>1 DEF RestTypes

\* An expired timeout_period kills the process; the flags stay as they are.
LEMMA TimeoutInv == \A s \in Services : IInv /\ Timeout(s) => IInv'
<1>. SUFFICES ASSUME NEW s \in Services, TypeOK, SafeInv, Timeout(s)
              PROVE  TypeOK' /\ SafeInv'
  BY DEF IInv
<1>0. StartTypes /\ CoreTypes
  BY TypeSplit DEF StartTypes, CoreTypes
<1>1. /\ "RUNNING" \in flags[s] /\ KillProcessGroup(s)
      /\ UNCHANGED <<flags, pid, startSeq, execRunning, listed, restartDue, timeoutDue,
                     postData, bootstrapNs, delayed, shutdownReq>>
      /\ UNCHANGED <<work, rebootTarget, reaping, crashCount, inWindow, updatableCrash,
                     aborted, runningAtReset, postDataMark, servicesUpdated, nsReady,
                     bootCompleted>>
  BY DEF Timeout, Has, timeVars, crashVars, envVars
<1>2. svcProp' \in [Services -> {"", "running", "stopping", "stopped", "restarting"}]
  BY DEF Timeout, NotifyStateChange, TypeOK
<1>3. pid[s] # NoPid /\ proc[pid[s]].st # "free"
  BY <1>1 DEF SafeInv, RunningIffPid, PidIsOwnChild
<1>4. /\ proc' \in [Pids -> [st : {"free", "alive", "killed", "zombie"},
                             owner : Services \cup {NoService}, ok : BOOLEAN]]
      /\ cgroupEmpty' \in [Services -> BOOLEAN]
      /\ \A q \in Pids :
           /\ proc'[q].owner = proc[q].owner
           /\ proc'[q].st = "free" <=> proc[q].st = "free"
           /\ proc[q].st = "zombie" => proc'[q].st = "zombie"
           /\ proc'[q].st \in {"alive", "killed"} => proc[q].st \in {"alive", "killed"}
      /\ \A r \in Services : r # s => cgroupEmpty'[r] = cgroupEmpty[r]
      /\ cgroupEmpty'[s] => cgroupEmpty[s] \/ proc'[pid[s]].st = "zombie"
  BY <1>0, <1>1, <1>3, KillFacts
<1>5. StartTypes'
  BY <1>0, <1>1, <1>2, <1>4 DEF StartTypes
<1>6. \A r \in Services : pid[r] \in Pids \cup {NoPid}
  BY DEF TypeOK
<1>7. LiveChildIsTracked'
  BY <1>1, <1>4 DEF SafeInv, LiveChildIsTracked
<1>8. PidIsOwnChild'
  BY <1>1, <1>4, <1>6 DEF SafeInv, PidIsOwnChild
<1>9. RunningIffPid' /\ OnlyWantedRestarts'
  BY <1>1 DEF SafeInv, RunningIffPid, OnlyWantedRestarts
<1>10. SkippedKillIsHarmless'
  BY <1>1, <1>4, <1>6 DEF SafeInv, SkippedKillIsHarmless
<1>11. ReapingInv'
  BY <1>1, <1>4 DEF SafeInv, ReapingInv
<1>12. RestTypes'
  BY <1>1, SameRest
<1>. QED
  BY <1>5, <1>7, <1>8, <1>9, <1>10, <1>11, <1>12, TypeSplit DEF SafeInv

\* The loop restarts a service whose restart period is over.
LEMMA RestartDueInv == \A s \in Services : IInv /\ RestartDue(s) => IInv'
<1>. SUFFICES ASSUME NEW s \in Services, TypeOK, SafeInv, RestartDue(s)
              PROVE  TypeOK' /\ SafeInv'
  BY DEF IInv
<1>1. /\ Start(s)
      /\ UNCHANGED <<work, rebootTarget, reaping, crashCount, inWindow, updatableCrash,
                     aborted, runningAtReset, postDataMark, servicesUpdated, nsReady,
                     bootCompleted>>
  BY DEF RestartDue, crashVars, envVars
<1>2. StartTypes' /\ SafeInv'
  BY <1>1, StartInv
<1>3. RestTypes'
  BY <1>1, SameRest
<1>. QED
  BY <1>2, <1>3, TypeSplit

\* The clock only changes what is due.
LEMMA TimePassesInv == \A s \in Services : IInv /\ TimePasses(s) => IInv'
<1>. SUFFICES ASSUME NEW s \in Services, TypeOK, SafeInv, TimePasses(s)
              PROVE  TypeOK' /\ SafeInv'
  BY DEF IInv
<1>0. StartTypes /\ RestTypes
  BY TypeSplit
<1>1. /\ \E d \in [Services -> BOOLEAN], e \in [Services -> BOOLEAN],
            w \in [Services -> BOOLEAN] :
           restartDue' = d /\ timeoutDue' = e /\ inWindow' = w
      /\ UNCHANGED <<flags, pid, cgroupEmpty, svcProp, startSeq, execRunning, listed,
                     proc, postData, bootstrapNs, delayed, shutdownReq>>
      /\ UNCHANGED <<work, rebootTarget, reaping, crashCount, updatableCrash, aborted,
                     runningAtReset, postDataMark, servicesUpdated, nsReady,
                     bootCompleted>>
  BY DEF TimePasses, timeVars, envVars, TypeOK
<1>2. StartTypes'
  BY <1>0, <1>1 DEF StartTypes
<1>3. RestTypes'
  BY <1>0, <1>1 DEF RestTypes
<1>4. SafeInv'
  BY <1>1, SameSafe
<1>. QED
  BY <1>2, <1>3, <1>4, TypeSplit

-----------------------------------------------------------------------------
(* Reaping. *)

\* Removing a service from the start order leaves a sequence of services.
LEMMA WithoutServiceType ==
  ASSUME NEW seq \in Seq(Services), NEW s
  PROVE  WithoutService(seq, s) \in Seq(Services)
<1>1. CASE \A i \in DOMAIN seq : seq[i] # s
  BY <1>1 DEF WithoutService
<1>2. CASE \E i \in DOMAIN seq : seq[i] = s
  <2>. DEFINE k == CHOOSE i \in DOMAIN seq : seq[i] = s
  <2>1. k \in DOMAIN seq
    BY <1>2
  <2>2. WithoutService(seq, s)
          = [i \in 1..(Len(seq) - 1) |-> IF i < k THEN seq[i] ELSE seq[i + 1]]
    BY <1>2 DEF WithoutService
  <2>. HIDE DEF k
  <2>3. Len(seq) \in Nat /\ k \in 1..Len(seq)
    BY <2>1
  <2>4. Len(seq) - 1 \in Nat
    BY <2>3
  <2>5. \A i \in 1..(Len(seq) - 1) : (IF i < k THEN seq[i] ELSE seq[i + 1]) \in Services
    BY <2>3
  <2>. QED
    BY <2>2, <2>4, <2>5
<1>. QED
  BY <1>1, <1>2

\* What every Reap writes besides flags and pid keeps its type.
LEMMA ReapCommonTypes ==
  ASSUME TypeOK, NEW s \in Services, NEW p \in Pids, ReapCommon(s, p)
  PROVE  /\ rebootTarget' \in [Services -> BOOLEAN]
         /\ shutdownReq' \in BOOLEAN
         /\ execRunning' \in BOOLEAN
         /\ startSeq' \in Seq(Services)
         /\ UNCHANGED <<restartDue, timeoutDue, postData, runningAtReset, postDataMark,
                        servicesUpdated, delayed, nsReady, bootCompleted>>
<1>1. /\ rebootTarget' = [rebootTarget EXCEPT ![s] =
                            rebootTarget[s] /\ PolicyAction(s, p) = "reboot"]
      /\ shutdownReq' = (shutdownReq \/ (~proc[p].ok /\ rebootTarget'[s]))
      /\ execRunning' = (execRunning /\ ~Has(s, "EXEC"))
      /\ startSeq' = WithoutService(startSeq, s)
      /\ UNCHANGED <<restartDue, timeoutDue, postData, runningAtReset, postDataMark,
                     servicesUpdated, delayed, nsReady, bootCompleted>>
  BY DEF ReapCommon, UnSetExec, timeVars, postDataVars, updateVars, envVars
<1>2. rebootTarget' \in [Services -> BOOLEAN]
  BY <1>1 DEF TypeOK
<1>3. shutdownReq' \in BOOLEAN /\ execRunning' \in BOOLEAN
  BY <1>1
<1>4. startSeq' \in Seq(Services)
  BY <1>1, WithoutServiceType DEF TypeOK
<1>. QED
  BY <1>1, <1>2, <1>3, <1>4

\* The heart of Reap(): the service lets go of the pid first, then waitpid() (or
\* the end of the onrestart commands) frees it.
LEMMA DownSafe ==
  ASSUME CoreTypes, SafeInv, reaping = NotReaping,
         NEW s \in Services, NEW p \in Pids, NEW f \in SUBSET Flag,
         proc[p].st = "zombie", pid[s] = p,
         pid' = [pid EXCEPT ![s] = NoPid],
         flags' = [flags EXCEPT ![s] = f],
         "RUNNING" \notin f,
         "RESTARTING" \in f => f \cap {"DISABLED", "RESET", "RESTART"} = {},
         \A r \in Services : r # s => cgroupEmpty'[r] = cgroupEmpty[r],
         listed \ {s} \subseteq listed',
         \/ proc' = [proc EXCEPT ![p] = FreeSlot] /\ reaping' = NotReaping
         \/ proc' = proc /\ reaping' \in {NotReaping, [svc |-> s, pid |-> p]}
  PROVE  SafeInv'
<1>1. /\ pid'[s] = NoPid /\ flags'[s] = f
      /\ \A r \in Services : r # s => pid'[r] = pid[r] /\ flags'[r] = flags[r]
  BY DEF CoreTypes
<1>2. p # NoPid /\ \A q \in Pids : q # NoPid
  BY ServiceConstants
<1>3. \A r \in Services : r # s => pid[r] # p
  BY <1>2 DEF SafeInv, PidIsOwnChild
<1>4. \A q \in Pids : q # p => proc'[q] = proc[q]
  BY DEF CoreTypes
<1>5. proc'[p].st \notin {"alive", "killed"}
  BY DEF CoreTypes, FreeSlot
<1>6. \A r \in listed : r \in Services
  BY DEF CoreTypes
<1>7. \A r \in Services : pid[r] \in Pids \cup {NoPid}
  BY DEF CoreTypes
<1>8. LiveChildIsTracked'
  <2>. SUFFICES ASSUME NEW q \in Pids, proc'[q].st \in {"alive", "killed"}
                PROVE  LET r == proc'[q].owner IN
                       r \in listed' /\ pid'[r] = q /\ "RUNNING" \in flags'[r]
    BY DEF LiveChildIsTracked
  <2>1. q # p /\ proc'[q] = proc[q]
    BY <1>4, <1>5
  <2>2. /\ proc[q].owner \in listed /\ pid[proc[q].owner] = q
        /\ "RUNNING" \in flags[proc[q].owner]
    BY <2>1 DEF SafeInv, LiveChildIsTracked
  <2>3. proc[q].owner # s /\ proc[q].owner \in Services
    BY <1>6, <2>1, <2>2
  <2>. QED
    BY <1>1, <2>1, <2>2, <2>3
<1>9. PidIsOwnChild'
  <2>. SUFFICES ASSUME NEW r \in Services, pid'[r] # NoPid
                PROVE  /\ proc'[pid'[r]].st # "free" /\ proc'[pid'[r]].owner = r
                       /\ "RUNNING" \in flags'[r] /\ r \in listed'
    BY DEF PidIsOwnChild
  <2>1. r # s /\ pid'[r] = pid[r] /\ flags'[r] = flags[r]
    BY <1>1
  <2>2. proc'[pid[r]] = proc[pid[r]]
    BY <1>3, <1>4, <1>7, <2>1
  <2>3. /\ proc[pid[r]].st # "free" /\ proc[pid[r]].owner = r
        /\ "RUNNING" \in flags[r] /\ r \in listed
    BY <2>1 DEF SafeInv, PidIsOwnChild
  <2>. QED
    BY <2>1, <2>2, <2>3
<1>10. RunningIffPid'
  BY <1>1 DEF SafeInv, RunningIffPid
<1>11. OnlyWantedRestarts'
  BY <1>1 DEF SafeInv, OnlyWantedRestarts
<1>12. SkippedKillIsHarmless'
  <2>. SUFFICES ASSUME NEW r \in Services, pid'[r] # NoPid, cgroupEmpty'[r]
                PROVE  proc'[pid'[r]].st = "zombie"
    BY DEF SkippedKillIsHarmless
  <2>1. r # s /\ pid'[r] = pid[r] /\ cgroupEmpty[r]
    BY <1>1
  <2>2. proc'[pid[r]] = proc[pid[r]]
    BY <1>3, <1>4, <1>7, <2>1
  <2>. QED
    BY <2>1, <2>2 DEF SafeInv, SkippedKillIsHarmless
<1>13. ReapingInv'
  BY <1>1, <1>2, <1>3 DEF ReapingInv, NotReaping
<1>. QED
  BY <1>8, <1>9, <1>10, <1>11, <1>12, <1>13 DEF SafeInv

\* What Reap() leaves in flags_: never SVC_RUNNING, and not SVC_RESTARTING either,
\* because the service was running.
LEMMA FlagsWhenDownFacts ==
  ASSUME TypeOK, SafeInv, NEW s \in Services, NEW p \in Pids, pid[s] = p
  PROVE  /\ FlagsWhenDown(s, p) \in SUBSET Flag
         /\ "RUNNING" \notin FlagsWhenDown(s, p)
         /\ "RESTARTING" \notin FlagsWhenDown(s, p)
<1>1. pid[s] # NoPid
  BY ServiceConstants
<1>2. "RESTARTING" \notin flags[s] /\ flags[s] \in SUBSET Flag
  BY <1>1 DEF SafeInv, OnlyWantedRestarts, TypeOK
<1>3. FlagsAfterExit(s, p) \in SUBSET Flag /\ "RESTARTING" \notin FlagsAfterExit(s, p)
  BY <1>2 DEF FlagsAfterExit, Flag
<1>. QED
  BY <1>3 DEF FlagsWhenDown, Flag

\* Reap may find the process cgroup empty; other services are not concerned.
LEMMA CgroupTypes ==
  ASSUME TypeOK, NEW s \in Services, ReapCgroup(s)
  PROVE  /\ cgroupEmpty' \in [Services -> BOOLEAN]
         /\ \A r \in Services : r # s => cgroupEmpty'[r] = cgroupEmpty[r]
<1>1. cgroupEmpty \in [Services -> BOOLEAN]
  BY DEF TypeOK
<1>2. PICK e \in {cgroupEmpty[s], TRUE} : cgroupEmpty' = [cgroupEmpty EXCEPT ![s] = e]
  BY DEF ReapCgroup
<1>3. e \in BOOLEAN
  BY <1>1
<1>. QED
  BY <1>1, <1>2, <1>3

\* The crash counter saturates one above the limit.
LEMMA CountCrashTypes ==
  ASSUME TypeOK, NEW s \in Services, NEW f, CountCrash(s, f)
  PROVE  /\ crashCount' \in [Services -> 0..(CrashLimit + 1)]
         /\ inWindow' \in [Services -> BOOLEAN]
<1>0. /\ crashCount \in [Services -> 0..(CrashLimit + 1)]
      /\ inWindow \in [Services -> BOOLEAN]
      /\ CrashLimit \in Nat
  BY ServiceConstants DEF TypeOK
<1>1. \/ crashCount' = crashCount /\ inWindow' = inWindow
      \/ /\ crashCount' = [crashCount EXCEPT ![s] =
              IF crashCount[s] > CrashLimit THEN crashCount[s] ELSE crashCount[s] + 1]
         /\ inWindow' = inWindow
      \/ /\ crashCount' = [crashCount EXCEPT ![s] = 1]
         /\ inWindow' = [inWindow EXCEPT ![s] = TRUE]
  BY DEF CountCrash
<1>2. crashCount[s] \in 0..(CrashLimit + 1)
  BY <1>0
<1>3. (IF crashCount[s] > CrashLimit THEN crashCount[s] ELSE crashCount[s] + 1)
        \in 0..(CrashLimit + 1)
  BY <1>0, <1>2
<1>4. 1 \in 0..(CrashLimit + 1)
  BY <1>0
<1>. QED
  BY <1>0, <1>1, <1>3, <1>4

\* The table keeps its type when waitpid releases a slot.
LEMMA FreeProcType ==
  ASSUME CoreTypes, NEW p \in Pids, WaitPid(p)
  PROVE  proc' \in [Pids -> [st : {"free", "alive", "killed", "zombie"},
                             owner : Services \cup {NoService}, ok : BOOLEAN]]
BY DEF CoreTypes, WaitPid, FreeSlot

\* A child nobody tracks is held by no service, so its pid may be released.
LEMMA ReapUntrackedInv == \A p \in Pids : IInv /\ ReapUntracked(p) => IInv'
<1>. SUFFICES ASSUME NEW p \in Pids, TypeOK, SafeInv, ReapUntracked(p)
              PROVE  TypeOK' /\ SafeInv'
  BY DEF IInv
<1>0. StartTypes /\ CoreTypes
  BY TypeSplit DEF StartTypes, CoreTypes
<1>1. /\ reaping = NotReaping /\ proc[p].st = "zombie"
      /\ \A s \in Services : ~(s \in listed /\ pid[s] = p)
      /\ WaitPid(p) /\ proc' = [proc EXCEPT ![p] = FreeSlot]
      /\ UNCHANGED <<flags, pid, cgroupEmpty, svcProp, startSeq, execRunning, listed,
                     restartDue, timeoutDue, postData, bootstrapNs, delayed, shutdownReq>>
      /\ UNCHANGED <<work, rebootTarget, reaping, crashCount, inWindow, updatableCrash,
                     aborted, runningAtReset, postDataMark, servicesUpdated, nsReady,
                     bootCompleted>>
  BY DEF ReapUntracked, MainIdle, Zombie, Tracks, WaitPid, timeVars, crashVars, envVars
<1>2. StartTypes'
  BY <1>0, <1>1, FreeProcType DEF StartTypes
<1>3. RestTypes'
  BY <1>1, SameRest
<1>4. \A q \in Pids : q # p => proc'[q] = proc[q]
  BY <1>1 DEF CoreTypes
<1>5. proc'[p].st = "free"
  BY <1>0, <1>1 DEF CoreTypes, FreeSlot
<1>6. \A r \in Services : pid[r] \in Pids \cup {NoPid}
  BY <1>0 DEF CoreTypes
<1>7. \A r \in Services : pid[r] # p
  <2>1. p # NoPid
    BY ServiceConstants
  <2>. QED
    BY <1>1, <2>1 DEF SafeInv, PidIsOwnChild
<1>8. LiveChildIsTracked'
  BY <1>1, <1>4, <1>5 DEF SafeInv, LiveChildIsTracked
<1>9. PidIsOwnChild'
  BY <1>1, <1>4, <1>6, <1>7 DEF SafeInv, PidIsOwnChild
<1>10. RunningIffPid' /\ OnlyWantedRestarts'
  BY <1>1 DEF SafeInv, RunningIffPid, OnlyWantedRestarts
<1>11. SkippedKillIsHarmless'
  BY <1>1, <1>4, <1>6, <1>7 DEF SafeInv, SkippedKillIsHarmless
<1>12. ReapingInv'
  BY <1>1 DEF ReapingInv
<1>. QED
  BY <1>2, <1>3, <1>8, <1>9, <1>10, <1>11, <1>12, TypeSplit DEF SafeInv

\* A temporary service is removed from the list with its process.
LEMMA ReapTemporaryInv ==
  \A s \in Services, p \in Pids : IInv /\ ReapTemporary(s, p) => IInv'
<1>. SUFFICES ASSUME NEW s \in Services, NEW p \in Pids, TypeOK, SafeInv,
                     ReapTemporary(s, p)
              PROVE  TypeOK' /\ SafeInv'
  BY DEF IInv
<1>0. StartTypes /\ RestTypes /\ CoreTypes
  BY TypeSplit DEF StartTypes, CoreTypes
<1>1. /\ reaping = NotReaping /\ proc[p].st = "zombie" /\ pid[s] = p
      /\ ReapCommon(s, p) /\ WaitPid(p) /\ listed' = listed \ {s}
      /\ flags' = [flags EXCEPT ![s] = {}]
      /\ pid' = [pid EXCEPT ![s] = NoPid]
      /\ cgroupEmpty' = [cgroupEmpty EXCEPT ![s] = FALSE]
      /\ bootstrapNs' = [bootstrapNs EXCEPT ![s] = FALSE]
      /\ UNCHANGED <<svcProp, work, reaping, crashCount, inWindow, updatableCrash,
                     aborted>>
  BY DEF ReapTemporary, MainIdle, Zombie, Tracks, crashVars
<1>2. /\ rebootTarget' \in [Services -> BOOLEAN] /\ shutdownReq' \in BOOLEAN
      /\ execRunning' \in BOOLEAN /\ startSeq' \in Seq(Services)
      /\ UNCHANGED <<restartDue, timeoutDue, postData, runningAtReset, postDataMark,
                     servicesUpdated, delayed, nsReady, bootCompleted>>
  BY <1>1, ReapCommonTypes
<1>3. /\ flags' \in [Services -> SUBSET Flag]
      /\ pid' \in [Services -> Pids \cup {NoPid}]
      /\ cgroupEmpty' \in [Services -> BOOLEAN]
      /\ bootstrapNs' \in [Services -> BOOLEAN]
      /\ listed' \in SUBSET Services
  BY <1>0, <1>1 DEF StartTypes
<1>4. StartTypes'
  BY <1>0, <1>1, <1>2, <1>3, FreeProcType DEF StartTypes
<1>5. RestTypes'
  BY <1>0, <1>1, <1>2 DEF RestTypes
<1>6. /\ \A r \in Services : r # s => cgroupEmpty'[r] = cgroupEmpty[r]
      /\ proc' = [proc EXCEPT ![p] = FreeSlot] /\ reaping' = NotReaping
  BY <1>0, <1>1 DEF CoreTypes, WaitPid
<1>7. SafeInv'
  <2>. DEFINE f == {}
  <2>1. /\ f \in SUBSET Flag /\ "RUNNING" \notin f /\ "RESTARTING" \notin f
        /\ flags' = [flags EXCEPT ![s] = f] /\ listed \ {s} \subseteq listed'
    BY <1>1
  <2>. HIDE DEF f
  <2>. QED
    BY <1>0, <1>1, <1>6, <2>1, DownSafe
<1>. QED
  BY <1>4, <1>5, <1>7, TypeSplit

\* A stopped, reset or disabled service goes down and stays down.
LEMMA ReapStoppedInv ==
  \A s \in Services, p \in Pids : IInv /\ ReapStopped(s, p) => IInv'
<1>. SUFFICES ASSUME NEW s \in Services, NEW p \in Pids, TypeOK, SafeInv,
                     ReapStopped(s, p)
              PROVE  TypeOK' /\ SafeInv'
  BY DEF IInv
<1>0. StartTypes /\ RestTypes /\ CoreTypes
  BY TypeSplit DEF StartTypes, CoreTypes
<1>1. /\ reaping = NotReaping /\ proc[p].st = "zombie" /\ pid[s] = p
      /\ ReapCommon(s, p) /\ WaitPid(p) /\ ReapCgroup(s)
      /\ flags' = [flags EXCEPT ![s] = FlagsWhenDown(s, p)]
      /\ pid' = [pid EXCEPT ![s] = NoPid]
      /\ NotifyStateChange(s, "stopped")
      /\ UNCHANGED <<listed, bootstrapNs, work, reaping, crashCount, inWindow,
                     updatableCrash, aborted>>
  BY DEF ReapStopped, MainIdle, Zombie, Tracks, crashVars
<1>2. /\ rebootTarget' \in [Services -> BOOLEAN] /\ shutdownReq' \in BOOLEAN
      /\ execRunning' \in BOOLEAN /\ startSeq' \in Seq(Services)
      /\ UNCHANGED <<restartDue, timeoutDue, postData, runningAtReset, postDataMark,
                     servicesUpdated, delayed, nsReady, bootCompleted>>
  BY <1>1, ReapCommonTypes
<1>3. /\ cgroupEmpty' \in [Services -> BOOLEAN]
      /\ \A r \in Services : r # s => cgroupEmpty'[r] = cgroupEmpty[r]
  BY <1>1, CgroupTypes
<1>4. /\ FlagsWhenDown(s, p) \in SUBSET Flag
      /\ "RUNNING" \notin FlagsWhenDown(s, p)
      /\ "RESTARTING" \notin FlagsWhenDown(s, p)
  BY <1>1, FlagsWhenDownFacts
<1>5. /\ flags' \in [Services -> SUBSET Flag]
      /\ pid' \in [Services -> Pids \cup {NoPid}]
  BY <1>0, <1>1, <1>4 DEF StartTypes
<1>6. svcProp' \in [Services -> {"", "running", "stopping", "stopped", "restarting"}]
  <2>1. NotifyStateChange(s, "stopped")
    BY <1>1
  <2>2. svcProp \in [Services -> {"", "running", "stopping", "stopped", "restarting"}]
    BY <1>0 DEF StartTypes
  <2>. QED
    BY <2>1, <2>2 DEF NotifyStateChange
<1>7. StartTypes'
  BY <1>0, <1>1, <1>2, <1>3, <1>5, <1>6, FreeProcType DEF StartTypes
<1>8. RestTypes'
  BY <1>0, <1>1, <1>2 DEF RestTypes
<1>9. proc' = [proc EXCEPT ![p] = FreeSlot] /\ reaping' = NotReaping
  BY <1>1 DEF WaitPid
<1>10. SafeInv'
  BY <1>0, <1>1, <1>3, <1>4, <1>9, DownSafe
<1>. QED
  BY <1>7, <1>8, <1>10, TypeSplit

\* The exit of a critical service beyond its limit brings the device down.
LEMMA ReapFatalInv ==
  \A s \in Services, p \in Pids : IInv /\ ReapFatal(s, p) => IInv'
<1>. SUFFICES ASSUME NEW s \in Services, NEW p \in Pids, TypeOK, SafeInv,
                     ReapFatal(s, p)
              PROVE  TypeOK' /\ SafeInv'
  BY DEF IInv
<1>0. StartTypes /\ RestTypes /\ CoreTypes
  BY TypeSplit DEF StartTypes, CoreTypes
<1>1. /\ reaping = NotReaping /\ proc[p].st = "zombie" /\ pid[s] = p
      /\ ReapCommon(s, p) /\ ReapCgroup(s)
      /\ CountCrash(s, FlagsWhenDown(s, p)) /\ aborted' = TRUE
      /\ flags' = [flags EXCEPT ![s] = FlagsWhenDown(s, p)]
      /\ pid' = [pid EXCEPT ![s] = NoPid]
      /\ UNCHANGED <<svcProp, listed, bootstrapNs, proc, work, reaping, updatableCrash>>
  BY DEF ReapFatal, MainIdle, Zombie, Tracks
<1>2. /\ rebootTarget' \in [Services -> BOOLEAN] /\ shutdownReq' \in BOOLEAN
      /\ execRunning' \in BOOLEAN /\ startSeq' \in Seq(Services)
      /\ UNCHANGED <<restartDue, timeoutDue, postData, runningAtReset, postDataMark,
                     servicesUpdated, delayed, nsReady, bootCompleted>>
  BY <1>1, ReapCommonTypes
<1>3. /\ cgroupEmpty' \in [Services -> BOOLEAN]
      /\ \A r \in Services : r # s => cgroupEmpty'[r] = cgroupEmpty[r]
  BY <1>1, CgroupTypes
<1>4. /\ FlagsWhenDown(s, p) \in SUBSET Flag
      /\ "RUNNING" \notin FlagsWhenDown(s, p)
      /\ "RESTARTING" \notin FlagsWhenDown(s, p)
  BY <1>1, FlagsWhenDownFacts
<1>5. /\ flags' \in [Services -> SUBSET Flag]
      /\ pid' \in [Services -> Pids \cup {NoPid}]
  BY <1>0, <1>1, <1>4 DEF StartTypes
<1>6. /\ crashCount' \in [Services -> 0..(CrashLimit + 1)]
      /\ inWindow' \in [Services -> BOOLEAN]
  BY <1>1, CountCrashTypes
<1>7. StartTypes'
  BY <1>0, <1>1, <1>2, <1>3, <1>5 DEF StartTypes
<1>8. RestTypes'
  BY <1>0, <1>1, <1>2, <1>6 DEF RestTypes
<1>9. proc' = proc /\ reaping' = NotReaping /\ listed' = listed
  BY <1>1
<1>10. SafeInv'
  BY <1>0, <1>1, <1>3, <1>4, <1>9, DownSafe
<1>. QED
  BY <1>7, <1>8, <1>10, TypeSplit

\* A service that is to come back becomes RESTARTING.
LEMMA ReapRestartingInv ==
  \A s \in Services, p \in Pids : IInv /\ ReapRestarting(s, p) => IInv'
<1>. SUFFICES ASSUME NEW s \in Services, NEW p \in Pids, TypeOK, SafeInv,
                     ReapRestarting(s, p)
              PROVE  TypeOK' /\ SafeInv'
  BY DEF IInv
<1>. DEFINE g == FlagsWhenDown(s, p)
            f == (g \ {"RESTART"}) \cup {"RESTARTING"}
<1>0. StartTypes /\ RestTypes /\ CoreTypes
  BY TypeSplit DEF StartTypes, CoreTypes
<1>1. /\ reaping = NotReaping /\ proc[p].st = "zombie" /\ pid[s] = p
      /\ s \in Configured
      /\ ReapCommon(s, p) /\ ReapCgroup(s)
      /\ g \cap {"DISABLED", "RESET"} = {}
      /\ CountCrash(s, g)
      /\ updatableCrash' = (updatableCrash
                             \/ (CrashedTooOften(s, g) /\ "CRITICAL" \notin g))
      /\ flags' = [flags EXCEPT ![s] = f]
      /\ pid' = [pid EXCEPT ![s] = NoPid]
      /\ reaping' = [svc |-> s, pid |-> p] /\ work' = OnRestart[s]
      /\ UNCHANGED <<svcProp, listed, bootstrapNs, proc, aborted>>
  BY DEF ReapRestarting, MainIdle, Zombie, Tracks
<1>2. /\ rebootTarget' \in [Services -> BOOLEAN] /\ shutdownReq' \in BOOLEAN
      /\ execRunning' \in BOOLEAN /\ startSeq' \in Seq(Services)
      /\ UNCHANGED <<restartDue, timeoutDue, postData, runningAtReset, postDataMark,
                     servicesUpdated, delayed, nsReady, bootCompleted>>
  BY <1>1, ReapCommonTypes
<1>3. /\ cgroupEmpty' \in [Services -> BOOLEAN]
      /\ \A r \in Services : r # s => cgroupEmpty'[r] = cgroupEmpty[r]
  BY <1>1, CgroupTypes
<1>4. g \in SUBSET Flag /\ "RUNNING" \notin g /\ "RESTARTING" \notin g
  BY <1>1, FlagsWhenDownFacts
<1>. HIDE DEF g
<1>5. /\ f \in SUBSET Flag /\ "RUNNING" \notin f
      /\ f \cap {"DISABLED", "RESET", "RESTART"} = {}
  BY <1>1, <1>4 DEF Flag
<1>. HIDE DEF f
<1>6. /\ crashCount' \in [Services -> 0..(CrashLimit + 1)]
      /\ inWindow' \in [Services -> BOOLEAN]
  BY <1>1, CountCrashTypes
<1>7. work' \in Seq(Call)
  <2>1. OnRestart \in [Configured -> Seq(Call)]
    BY ServiceConstants
  <2>. QED
    BY <1>1, <2>1
<1>8. updatableCrash' \in BOOLEAN
  BY <1>1
<1>9. /\ flags' \in [Services -> SUBSET Flag]
      /\ pid' \in [Services -> Pids \cup {NoPid}]
      /\ reaping' \in [svc : Services \cup {NoService}, pid : Pids \cup {NoPid}]
  BY <1>0, <1>1, <1>5 DEF StartTypes
<1>10. StartTypes'
  BY <1>0, <1>1, <1>2, <1>3, <1>9 DEF StartTypes
<1>11. RestTypes'
  BY <1>0, <1>1, <1>2, <1>6, <1>7, <1>8, <1>9 DEF RestTypes
<1>12. proc' = proc /\ listed' = listed /\ reaping' \in {NotReaping, [svc |-> s, pid |-> p]}
  BY <1>1
<1>13. SafeInv'
  BY <1>0, <1>1, <1>3, <1>5, <1>12, DownSafe
<1>. QED
  BY <1>10, <1>11, <1>13, TypeSplit

\* waitpid releases the zombie once the onrestart commands are done.
LEMMA FinishReapInv == IInv /\ FinishReap => IInv'
<1>. SUFFICES ASSUME TypeOK, SafeInv, FinishReap PROVE TypeOK' /\ SafeInv'
  BY DEF IInv
<1>0. StartTypes /\ RestTypes /\ CoreTypes
  BY TypeSplit DEF StartTypes, CoreTypes
<1>1. /\ reaping # NotReaping /\ WaitPid(reaping.pid)
      /\ proc' = [proc EXCEPT ![reaping.pid] = FreeSlot] /\ reaping' = NotReaping
      /\ NotifyStateChange(reaping.svc, "restarting")
      /\ UNCHANGED <<flags, pid, cgroupEmpty, startSeq, execRunning, listed,
                     restartDue, timeoutDue, postData, bootstrapNs, delayed, shutdownReq>>
      /\ UNCHANGED <<work, rebootTarget, crashCount, inWindow, updatableCrash,
                     aborted, runningAtReset, postDataMark, servicesUpdated, nsReady,
                     bootCompleted>>
  BY DEF FinishReap, WaitPid, timeVars, crashVars, envVars
<1>2. /\ reaping.svc \in Services /\ reaping.pid \in Pids
      /\ proc[reaping.pid].st = "zombie"
      /\ \A r \in Services : pid[r] # reaping.pid
  BY <1>1 DEF SafeInv, ReapingInv
<1>3. svcProp' \in [Services -> {"", "running", "stopping", "stopped", "restarting"}]
  <2>1. svcProp \in [Services -> {"", "running", "stopping", "stopped", "restarting"}]
    BY <1>0 DEF StartTypes
  <2>. QED
    BY <1>1, <2>1 DEF NotifyStateChange
<1>4. StartTypes'
  BY <1>0, <1>1, <1>2, <1>3, FreeProcType DEF StartTypes
<1>5. reaping' \in [svc : Services \cup {NoService}, pid : Pids \cup {NoPid}]
  BY <1>1 DEF NotReaping
<1>6. RestTypes'
  BY <1>0, <1>1, <1>5 DEF RestTypes
<1>7. /\ \A q \in Pids : q # reaping.pid => proc'[q] = proc[q]
      /\ proc'[reaping.pid].st = "free"
  BY <1>0, <1>1, <1>2 DEF CoreTypes, FreeSlot
<1>8. \A r \in Services : pid[r] \in Pids \cup {NoPid}
  BY <1>0 DEF CoreTypes
<1>9. LiveChildIsTracked'
  BY <1>1, <1>7 DEF SafeInv, LiveChildIsTracked
<1>10. PidIsOwnChild'
  BY <1>1, <1>2, <1>7, <1>8 DEF SafeInv, PidIsOwnChild
<1>11. RunningIffPid' /\ OnlyWantedRestarts'
  BY <1>1 DEF SafeInv, RunningIffPid, OnlyWantedRestarts
<1>12. SkippedKillIsHarmless'
  BY <1>1, <1>2, <1>7, <1>8 DEF SafeInv, SkippedKillIsHarmless
<1>13. ReapingInv'
  BY <1>1 DEF ReapingInv
<1>. QED
  BY <1>4, <1>6, <1>9, <1>10, <1>11, <1>12, <1>13, TypeSplit DEF SafeInv

-----------------------------------------------------------------------------
(* The kernel. *)

\* A process that exits becomes a zombie; its service does not know yet.
LEMMA ProcessExitsInv == \A p \in Pids : IInv /\ ProcessExits(p) => IInv'
<1>. SUFFICES ASSUME NEW p \in Pids, TypeOK, SafeInv, ProcessExits(p)
              PROVE  TypeOK' /\ SafeInv'
  BY DEF IInv
<1>0. StartTypes /\ CoreTypes
  BY TypeSplit DEF StartTypes, CoreTypes
<1>1. /\ UNCHANGED <<flags, pid, cgroupEmpty, svcProp, startSeq, execRunning, listed,
                     restartDue, timeoutDue, postData, bootstrapNs, delayed, shutdownReq>>
      /\ UNCHANGED <<work, rebootTarget, reaping, crashCount, inWindow, updatableCrash,
                     aborted, runningAtReset, postDataMark, servicesUpdated, nsReady,
                     bootCompleted>>
  BY DEF ProcessExits, timeVars, crashVars, envVars
<1>2. PICK ok \in BOOLEAN :
        /\ proc[p].st \in {"alive", "killed"}
        /\ proc' = [proc EXCEPT ![p].st = "zombie", ![p].ok = ok]
  BY DEF ProcessExits
<1>3. proc[p] \in [st : {"free", "alive", "killed", "zombie"},
                   owner : Services \cup {NoService}, ok : BOOLEAN]
  BY <1>0 DEF CoreTypes
<1>4. /\ proc' \in [Pids -> [st : {"free", "alive", "killed", "zombie"},
                             owner : Services \cup {NoService}, ok : BOOLEAN]]
      /\ \A q \in Pids : q # p => proc'[q] = proc[q]
      /\ proc'[p].st = "zombie" /\ proc'[p].owner = proc[p].owner
  BY <1>0, <1>2, <1>3 DEF CoreTypes
<1>5. StartTypes'
  BY <1>0, <1>1, <1>4 DEF StartTypes
<1>6. RestTypes'
  BY <1>1, SameRest
<1>7. \A r \in Services : pid[r] \in Pids \cup {NoPid}
  BY <1>0 DEF CoreTypes
<1>8. \A q \in Pids : /\ proc'[q].owner = proc[q].owner
                      /\ proc[q].st = "zombie" => proc'[q].st = "zombie"
                      /\ proc[q].st # "free" => proc'[q].st # "free"
                      /\ proc'[q].st \in {"alive", "killed"} => proc'[q] = proc[q]
  BY <1>4
<1>9. LiveChildIsTracked'
  BY <1>1, <1>8 DEF SafeInv, LiveChildIsTracked
<1>10. PidIsOwnChild'
  BY <1>1, <1>7, <1>8 DEF SafeInv, PidIsOwnChild
<1>11. RunningIffPid' /\ OnlyWantedRestarts'
  BY <1>1 DEF SafeInv, RunningIffPid, OnlyWantedRestarts
<1>12. SkippedKillIsHarmless'
  BY <1>1, <1>7, <1>8 DEF SafeInv, SkippedKillIsHarmless
<1>13. ReapingInv'
  BY <1>1, <1>8 DEF SafeInv, ReapingInv
<1>. QED
  BY <1>5, <1>6, <1>9, <1>10, <1>11, <1>12, <1>13, TypeSplit DEF SafeInv

\* A reparented orphan belongs to no service.
LEMMA OrphanExitsInv == \A p \in Pids : IInv /\ OrphanExits(p) => IInv'
<1>. SUFFICES ASSUME NEW p \in Pids, TypeOK, SafeInv, OrphanExits(p)
              PROVE  TypeOK' /\ SafeInv'
  BY DEF IInv
<1>0. StartTypes /\ CoreTypes
  BY TypeSplit DEF StartTypes, CoreTypes
<1>1. /\ proc[p].st = "free"
      /\ proc' = [proc EXCEPT ![p] = [st |-> "zombie", owner |-> NoService, ok |-> TRUE]]
      /\ UNCHANGED <<flags, pid, cgroupEmpty, svcProp, startSeq, execRunning, listed,
                     restartDue, timeoutDue, postData, bootstrapNs, delayed, shutdownReq>>
      /\ UNCHANGED <<work, rebootTarget, reaping, crashCount, inWindow, updatableCrash,
                     aborted, runningAtReset, postDataMark, servicesUpdated, nsReady,
                     bootCompleted>>
  BY DEF OrphanExits, timeVars, crashVars, envVars
<1>2. /\ proc' \in [Pids -> [st : {"free", "alive", "killed", "zombie"},
                             owner : Services \cup {NoService}, ok : BOOLEAN]]
      /\ \A q \in Pids : q # p => proc'[q] = proc[q]
      /\ proc'[p].st = "zombie"
  BY <1>0, <1>1 DEF CoreTypes
<1>3. StartTypes'
  BY <1>0, <1>1, <1>2 DEF StartTypes
<1>4. RestTypes'
  BY <1>1, SameRest
<1>5. \A r \in Services : pid[r] \in Pids \cup {NoPid}
  BY <1>0 DEF CoreTypes
<1>6. \A r \in Services : pid[r] # p
  <2>1. p # NoPid
    BY ServiceConstants
  <2>. QED
    BY <1>1, <2>1 DEF SafeInv, PidIsOwnChild
<1>7. LiveChildIsTracked'
  BY <1>1, <1>2 DEF SafeInv, LiveChildIsTracked
<1>8. PidIsOwnChild'
  BY <1>1, <1>2, <1>5, <1>6 DEF SafeInv, PidIsOwnChild
<1>9. RunningIffPid' /\ OnlyWantedRestarts'
  BY <1>1 DEF SafeInv, RunningIffPid, OnlyWantedRestarts
<1>10. SkippedKillIsHarmless'
  BY <1>1, <1>2, <1>5, <1>6 DEF SafeInv, SkippedKillIsHarmless
<1>11. ReapingInv'
  BY <1>1, <1>2 DEF SafeInv, ReapingInv
<1>. QED
  BY <1>3, <1>4, <1>7, <1>8, <1>9, <1>10, <1>11, TypeSplit DEF SafeInv

-----------------------------------------------------------------------------
(* The inductive invariant and what follows from it. *)

\* Every step of the main thread and of the kernel keeps the invariant.
LEMMA NextInv == IInv /\ [Next]_vars => IInv'
<1>. SUFFICES ASSUME IInv, [Next]_vars PROVE IInv'
  OBVIOUS
<1>1. CASE CallService
  BY <1>1, CallServiceInv
<1>2. CASE \/ MarkPostData \/ MarkServicesUpdate \/ SetDefaultMountNamespaceReady
           \/ ExecuteOneCommand \/ HandleControlMessage \/ BootCompletes
  BY <1>2, ListActionsInv
<1>3. CASE ClearDelayed
  BY <1>3, ClearDelayedInv
<1>4. CASE \E s \in Services : Timeout(s) \/ RestartDue(s) \/ TimePasses(s)
  BY <1>4, TimeoutInv, RestartDueInv, TimePassesInv
<1>5. CASE \E p \in Pids : ReapOneProcess(p)
  BY <1>5, ReapUntrackedInv, ReapTemporaryInv, ReapStoppedInv, ReapFatalInv,
     ReapRestartingInv DEF ReapOneProcess
<1>6. CASE \E p \in Pids : ProcessExits(p) \/ OrphanExits(p)
  BY <1>6, ProcessExitsInv, OrphanExitsInv
<1>7. CASE FinishReap
  BY <1>7, FinishReapInv
<1>8. CASE UNCHANGED vars
  <2>1. /\ UNCHANGED <<flags, pid, cgroupEmpty, svcProp, startSeq, execRunning, listed>>
        /\ UNCHANGED <<proc, restartDue, timeoutDue, postData, bootstrapNs, delayed,
                       shutdownReq>>
        /\ UNCHANGED <<work, rebootTarget, reaping, crashVars, runningAtReset,
                       postDataMark, servicesUpdated, nsReady, bootCompleted>>
    BY <1>8 DEF vars, postDataVars, updateVars, timeVars, envVars
  <2>2. UNCHANGED startVars
    BY <2>1 DEF startVars
  <2>3. /\ servicesUpdated' \in BOOLEAN /\ postDataMark' \in BOOLEAN
        /\ nsReady' \in BOOLEAN /\ bootCompleted' \in BOOLEAN /\ work' \in Seq(Call)
    BY <2>1 DEF IInv, TypeOK
  <2>. QED
    BY <2>1, <2>2, <2>3, ListCallInv
<1>. QED
  BY <1>1, <1>2, <1>3, <1>4, <1>5, <1>6, <1>7, <1>8 DEF Next

\* IInv holds in every reachable state.
THEOREM Invariance == Spec => []IInv
<1>1. Init => IInv
  BY InitInv
<1>2. IInv /\ [Next]_vars => IInv'
  BY NextInv
<1>. QED
  BY <1>1, <1>2, PTL DEF Spec

\* Type correctness.
THEOREM TypeCorrect == Spec => []TypeOK
<1>1. IInv => TypeOK
  BY DEF IInv
<1>. QED
  BY <1>1, Invariance, PTL

\* init never loses track of a child it started: a live child is the process of a
\* listed service marked running with that pid.
THEOREM ChildrenAreTracked == Spec => []LiveChildIsTracked
<1>1. IInv => LiveChildIsTracked
  BY DEF IInv, SafeInv
<1>. QED
  BY <1>1, Invariance, PTL

\* A pid_ is never stale: it names a child of the service that waitpid() has not
\* released, whatever exits, is reaped and is forked in between; and a kill that
\* KillProcessGroup() skips would have hit a dead process.
THEOREM SignalsAlwaysHitTheService == Spec => []SignalsHitTheService
<1>1. IInv => SignalsHitTheService
  BY DEF IInv, SafeInv, SignalsHitTheService
<1>. QED
  BY <1>1, Invariance, PTL

\* A service that waits for its restart is down, and nobody has stopped it since.
THEOREM RestartsAreWanted == Spec => []OnlyWantedRestarts
<1>1. IInv => OnlyWantedRestarts
  BY DEF IInv, SafeInv
<1>. QED
  BY <1>1, Invariance, PTL

-----------------------------------------------------------------------------
(* The shapes of a step. *)

\* A configured service is never removed from the list.
Listed == Configured \subseteq listed

\* The flags f another flag-setting call leaves of g.
OtherFlags(f, g) ==
  /\ f \in SUBSET Flag
  /\ \A x \in {"EXEC", "RUNNING", "RESTART", "RESTARTING", "RESET", "CRITICAL"} :
       x \in f <=> x \in g
  /\ "DISABLED" \in f => "DISABLED" \in g

\* The flags f from which Start() may run on the service s.
Startable(s, f) ==
  /\ f \in SUBSET Flag
  /\ "RUNNING" \in f <=> pid[s] # NoPid
  /\ f \ {"ONESHOT", "TEMPORARY"} \subseteq flags[s]
  /\ pid[s] # NoPid /\ "EXEC" \in flags[s] => "EXEC" \in f

\* Start() of a service that has to wait: it is delayed, or refused.
PutOff(s) ==
  /\ MustWait(s)
  /\ StartFailed(s)
  /\ delayed' \in {delayed, Append(delayed, s)}
  /\ \/ flags' = flags
     \/ flags' = [flags EXCEPT ![s] = flags[s] \ {"DISABLED", "RC_DISABLED"}]
  /\ UNCHANGED <<pid, svcProp, startSeq, execRunning, listed>>

\* What a call on the service s may do; only an exec call adds the flag EXEC.
CallStep(s, exec) ==
  \/ UNCHANGED startVars
  \/ PutOff(s)
  \/ \E how \in {"DISABLED", "RESET", "RESTART"} :
       StopOrReset(s, how) /\ (how = "RESTART" => "RUNNING" \in flags[s])
  \/ \E f : SetFlagsOnly(s, f) /\ OtherFlags(f, flags[s])
  \/ /\ ~MustWait(s)
     /\ \E f : \E x \in SUBSET {"EXEC"} :
          Startable(s, f) /\ (x # {} => exec) /\ StartWith(s, f, x)

\* The four ways in which the process of a service is reaped.
Reaped(s, p) ==
  ReapTemporary(s, p) \/ ReapStopped(s, p) \/ ReapFatal(s, p) \/ ReapRestarting(s, p)

\* Everything else: it touches neither the services' flags nor their pids.
Silent ==
  /\ UNCHANGED <<flags, pid, startSeq, execRunning, listed, shutdownReq>>
  /\ UNCHANGED <<crashCount, aborted, rebootTarget>>

\* A Start() with the service's own flags, as commands and the main loop make it.
LEMMA StartShape ==
  ASSUME IInv, NEW s \in Services, Start(s)
  PROVE  CallStep(s, FALSE)
<1>1. CASE DelayService(s)
  BY <1>1 DEF DelayService, PutOff, CallStep
<1>2. CASE ~MustWait(s) /\ StartWith(s, flags[s], {})
  <2>1. Startable(s, flags[s])
    BY DEF Startable, IInv, TypeOK, SafeInv, RunningIffPid
  <2>. QED
    BY <1>2, <2>1 DEF CallStep
<1>. QED
  BY <1>1, <1>2 DEF Start

\* ExecStart() and the temporary services of exec and exec_background.
LEMMA ExecShape ==
  ASSUME IInv, Listed, NEW s \in Services
  PROVE  /\ ExecStart(s) => CallStep(s, TRUE)
         /\ ExecTemporary(s, {"EXEC"}) => CallStep(s, TRUE)
         /\ ExecTemporary(s, {}) => CallStep(s, FALSE)
<1>1. flags[s] \in SUBSET Flag /\ ("RUNNING" \in flags[s] <=> pid[s] # NoPid)
  BY DEF IInv, TypeOK, SafeInv, RunningIffPid
<1>2. ASSUME ExecStart(s) PROVE CallStep(s, TRUE)
  <2>1. CASE MustWait(s)
    BY <1>2, <2>1 DEF ExecStart, PutOff, CallStep
  <2>2. CASE ~MustWait(s)
    <3>1. Startable(s, flags[s] \cup {"ONESHOT"})
      BY <1>1 DEF Startable, Flag
    <3>2. StartWith(s, flags[s] \cup {"ONESHOT"}, {"EXEC"})
      BY <1>2, <2>2 DEF ExecStart
    <3>. QED
      BY <2>2, <3>1, <3>2 DEF CallStep
  <2>. QED
    BY <2>1, <2>2
<1>3. ASSUME NEW x \in SUBSET {"EXEC"}, ExecTemporary(s, x)
      PROVE  CallStep(s, x # {})
  <2>1. CASE s \in listed
    BY <1>3, <2>1 DEF ExecTemporary, CallStep
  <2>2. CASE s \notin listed
    <3>1. pid[s] = NoPid /\ ~MustWait(s)
      BY <2>2, ServiceConstants DEF IInv, SafeInv, PidIsOwnChild, Listed, MustWait
    <3>2. Startable(s, {"ONESHOT", "TEMPORARY"})
      BY <3>1 DEF Startable, Flag
    <3>3. StartWith(s, {"ONESHOT", "TEMPORARY"}, x)
      BY <1>3, <2>2 DEF ExecTemporary
    <3>. QED
      BY <3>1, <3>2, <3>3 DEF CallStep
  <2>. QED
    BY <2>1, <2>2
<1>. QED
  BY <1>2, <1>3

ExecOps == {"ExecStart", "exec"}

\* Every call of the main thread has one of the shapes.
LEMMA CallShape ==
  ASSUME IInv, Listed, NEW c \in Call, ServiceCall(c)
  PROVE  CallStep(c.svc, c.op \in ExecOps)
<1>. DEFINE s == c.svc
<1>1. s \in Services /\ flags[s] \in SUBSET Flag
  BY DEF Call, IInv, TypeOK
<1>2. ASSUME CallStep(s, FALSE) PROVE CallStep(s, c.op \in ExecOps)
  BY <1>2 DEF CallStep
<1>3. CASE \/ c.op = "Start" /\ Start(s)
           \/ c.op = "StartIfPostData" /\ StartIfPostData(s)
  BY <1>1, <1>2, <1>3, StartShape DEF StartIfPostData, CallStep
<1>4. CASE c.op = "StartIfNotDisabled" /\ StartIfNotDisabled(s)
  <2>1. OtherFlags(flags[s] \cup {"DISABLED_START"}, flags[s])
    BY <1>1 DEF OtherFlags, Flag
  <2>2. CASE Start(s)
    BY <1>1, <1>2, <2>2, StartShape
  <2>3. CASE SetFlagsOnly(s, flags[s] \cup {"DISABLED_START"})
    BY <2>1, <2>3 DEF CallStep
  <2>. QED
    BY <1>4, <2>2, <2>3 DEF StartIfNotDisabled
<1>5. CASE c.op = "Enable" /\ Enable(s)
  <2>. DEFINE f == flags[s] \ {"DISABLED", "RC_DISABLED"}
  <2>1. OtherFlags(f, flags[s]) /\ Startable(s, f)
    BY <1>1 DEF OtherFlags, Startable, Flag, IInv, SafeInv, RunningIffPid
  <2>2. CASE SetFlagsOnly(s, f)
    BY <2>1, <2>2 DEF CallStep
  <2>3. CASE /\ MustWait(s)
             /\ flags' = [flags EXCEPT ![s] = f]
             /\ delayed' = Append(delayed, s)
             /\ StartFailed(s)
             /\ UNCHANGED <<pid, cgroupEmpty, svcProp, startSeq, execRunning, listed,
                            proc, timeVars, postData, bootstrapNs>>
    BY <2>3 DEF CallStep, PutOff
  <2>4. CASE ~MustWait(s) /\ StartWith(s, f, {})
    BY <2>1, <2>4 DEF CallStep
  <2>. QED
    BY <1>5, <2>2, <2>3, <2>4 DEF Enable
<1>6. CASE \/ c.op = "Stop" /\ StopOrReset(s, "DISABLED")
           \/ c.op = "Reset" /\ StopOrReset(s, "RESET")
           \/ c.op = "ResetIfPostData" /\ ResetIfPostData(s)
  <2>1. \/ \E how \in {"DISABLED", "RESET", "RESTART"} :
             StopOrReset(s, how) /\ (how = "RESTART" => "RUNNING" \in flags[s])
        \/ UNCHANGED startVars
    BY <1>6 DEF ResetIfPostData
  <2>. QED
    BY <2>1 DEF CallStep
<1>7. CASE c.op = "Restart" /\ Restart(s)
  <2>1. CASE Start(s)
    BY <1>1, <1>2, <2>1, StartShape
  <2>. QED
    BY <1>7, <2>1 DEF Restart, CallStep, Has
<1>8. CASE \/ c.op = "ExecStart" /\ ExecStart(s)
           \/ c.op = "exec" /\ ExecTemporary(s, {"EXEC"})
  BY <1>1, <1>8, ExecShape DEF ExecOps
<1>9. CASE c.op = "exec_background" /\ ExecTemporary(s, {})
  BY <1>1, <1>2, <1>9, ExecShape
<1>10. CASE \/ c.op = "oneshot_on" /\ SetFlagsOnly(s, flags[s] \cup {"ONESHOT"})
            \/ c.op = "oneshot_off" /\ SetFlagsOnly(s, flags[s] \ {"ONESHOT"})
  <2>1. /\ OtherFlags(flags[s] \cup {"ONESHOT"}, flags[s])
        /\ OtherFlags(flags[s] \ {"ONESHOT"}, flags[s])
    BY <1>1 DEF OtherFlags, Flag
  <2>. QED
    BY <1>10, <2>1 DEF CallStep
<1>. QED
  BY <1>3, <1>4, <1>5, <1>6, <1>7, <1>8, <1>9, <1>10 DEF ServiceCall

\* A call made by the main thread, from its pending work or for a restart that is due.
Called(s) ==
  \E exec \in BOOLEAN :
    /\ CallStep(s, exec)
    /\ exec => work # <<>> /\ Head(work).op \in ExecOps /\ work' = Tail(work)
    /\ UNCHANGED <<crashCount, aborted, rebootTarget>>

\* Every step is silent, a call on one service, or the reaping of its process.
LEMMA NextShape ==
  ASSUME IInv, Listed, [Next]_vars
  PROVE  \/ Silent
         \/ \E s \in Services : Called(s)
         \/ \E s \in Services, p \in Pids : Reaped(s, p)
<1>1. CASE CallService
  <2>1. /\ work # <<>> /\ ServiceCall(Head(work)) /\ work' = Tail(work)
        /\ UNCHANGED <<crashCount, aborted, rebootTarget>>
    BY <1>1 DEF CallService, crashVars
  <2>2. Head(work) \in Call
    <3>1. work \in Seq(Call)
      BY DEF IInv, TypeOK
    <3>. QED
      BY <2>1, <3>1
  <2>3. CallStep(Head(work).svc, Head(work).op \in ExecOps)
    BY <2>1, <2>2, CallShape
  <2>4. Head(work).svc \in Services /\ (Head(work).op \in ExecOps) \in BOOLEAN
    BY <2>2 DEF Call
  <2>. QED
    BY <2>1, <2>3, <2>4 DEF Called
<1>2. CASE \/ MarkPostData \/ MarkServicesUpdate \/ SetDefaultMountNamespaceReady
           \/ ExecuteOneCommand \/ HandleControlMessage \/ BootCompletes
  BY <1>2 DEF MarkPostData, MarkServicesUpdate, SetDefaultMountNamespaceReady,
     ExecuteOneCommand, HandleControlMessage, BootCompletes, Silent, startVars, crashVars
<1>3. CASE ClearDelayed \/ FinishReap
  BY <1>3 DEF ClearDelayed, FinishReap, Silent, crashVars
<1>4. ASSUME NEW s \in Services, Timeout(s) \/ RestartDue(s) \/ TimePasses(s)
      PROVE  Silent \/ Called(s)
  <2>1. CASE RestartDue(s)
    <3>1. Start(s) /\ UNCHANGED <<crashCount, aborted, rebootTarget>>
      BY <2>1 DEF RestartDue, crashVars
    <3>2. CallStep(s, FALSE)
      BY <3>1, StartShape
    <3>. QED
      BY <3>1, <3>2 DEF Called
  <2>2. CASE Timeout(s) \/ TimePasses(s)
    BY <2>2 DEF Timeout, TimePasses, Silent, crashVars
  <2>. QED
    BY <1>4, <2>1, <2>2
<1>5. ASSUME NEW p \in Pids, ReapOneProcess(p) \/ ProcessExits(p) \/ OrphanExits(p)
      PROVE  Silent \/ \E s \in Services : Reaped(s, p)
  <2>1. CASE ReapUntracked(p) \/ ProcessExits(p) \/ OrphanExits(p)
    BY <2>1 DEF ReapUntracked, ProcessExits, OrphanExits, Silent, crashVars
  <2>. QED
    BY <1>5, <2>1 DEF ReapOneProcess, Reaped
<1>6. CASE UNCHANGED vars
  BY <1>6 DEF vars, crashVars, Silent
<1>. QED
  BY <1>1, <1>2, <1>3, <1>4, <1>5, <1>6 DEF Next

\* Reap() of the service s: its process is gone, it leaves the start order and is
\* no longer waited for.
LEMMA ReapShape ==
  ASSUME IInv, NEW s \in Services, NEW p \in Pids, Reaped(s, p)
  PROVE  /\ MainIdle /\ s \in listed /\ pid[s] = p /\ Zombie(p)
         /\ pid' = [pid EXCEPT ![s] = NoPid]
         /\ startSeq' = WithoutService(startSeq, s)
         /\ execRunning' = (execRunning /\ "EXEC" \notin flags[s])
         /\ shutdownReq' = (shutdownReq \/ (~proc[p].ok /\ rebootTarget'[s]))
         /\ rebootTarget' = [rebootTarget EXCEPT ![s] = @ /\ PolicyAction(s, p) = "reboot"]
         /\ \E f : flags' = [flags EXCEPT ![s] = f]
         /\ \/ s \in Configured /\ listed' = listed
            \/ s \in Temps /\ listed' = listed \ {s} /\ aborted' = aborted /\ flags'[s] = {}
BY DEF Reaped, ReapTemporary, ReapStopped, ReapFatal, ReapRestarting, ReapCommon, Tracks,
   UnSetExec, Has, IInv, TypeOK, crashVars

-----------------------------------------------------------------------------
(* The start order. *)

\* What Start() does to the pid and the start order of a service without process.
Forked(s) ==
  /\ pid[s] = NoPid /\ ~MustWait(s)
  /\ startSeq' = Append(startSeq, s)
  /\ \E p \in Pids : pid' = [pid EXCEPT ![s] = p]

\* Pids and the start order change together, by a fork or by a reaping.
LEMMA CallPids ==
  ASSUME IInv, NEW s \in Services, NEW exec, CallStep(s, exec)
  PROVE  /\ UNCHANGED <<pid, startSeq>> \/ Forked(s)
         /\ listed \subseteq listed'
<1>1. CASE UNCHANGED startVars \/ PutOff(s) \/ \E f : SetFlagsOnly(s, f)
  BY <1>1 DEF startVars, PutOff, SetFlagsOnly
<1>2. CASE \E how \in {"DISABLED", "RESET", "RESTART"} : StopOrReset(s, how)
  BY <1>2 DEF StopOrReset
<1>3. ASSUME ~MustWait(s), NEW f, NEW x, Startable(s, f), StartWith(s, f, x)
      PROVE  (UNCHANGED <<pid, startSeq>> \/ Forked(s)) /\ listed \subseteq listed'
  BY <1>3 DEF StartWith, StartRunning, StartFails, StartForks, Startable, Forked
<1>. QED
  BY <1>1, <1>2, <1>3 DEF CallStep

\* A configured service stays in the list: only temporary ones are removed.
LEMMA ListedInv == IInv /\ Listed /\ [Next]_vars => Listed'
<1>. SUFFICES ASSUME IInv, Listed, [Next]_vars PROVE Listed'
  OBVIOUS
<1>1. CASE Silent
  BY <1>1 DEF Silent, Listed
<1>2. ASSUME NEW s \in Services, Called(s) PROVE Listed'
  BY <1>2, CallPids DEF Called, Listed
<1>3. ASSUME NEW s \in Services, NEW p \in Pids, Reaped(s, p) PROVE Listed'
  BY <1>3, ReapShape, ServiceConstants DEF Listed
<1>. QED
  BY <1>1, <1>2, <1>3, NextShape

\* The list always holds every configured service.
LEMMA AlwaysListed == Spec => [](IInv /\ Listed)
<1>1. Init => Listed
  BY DEF Init, Listed
<1>. QED
  BY <1>1, ListedInv, Invariance, PTL DEF Spec

\* start_order_ = 0 takes the service out of the order and keeps the others.
LEMMA OrderWithout ==
  ASSUME NEW A, NEW q \in Seq(A), NEW s,
         \A i, j \in DOMAIN q : q[i] = q[j] => i = j
  PROVE  LET w == WithoutService(q, s) IN
         /\ {w[i] : i \in DOMAIN w} = {q[i] : i \in DOMAIN q} \ {s}
         /\ \A i, j \in DOMAIN w : w[i] = w[j] => i = j
<1>. DEFINE w == WithoutService(q, s)
<1>1. Len(q) \in Nat /\ DOMAIN q = 1..Len(q)
  OBVIOUS
<1>2. CASE \A i \in DOMAIN q : q[i] # s
  BY <1>2 DEF WithoutService
<1>3. CASE \E i \in DOMAIN q : q[i] = s
  <2>. DEFINE k == CHOOSE i \in DOMAIN q : q[i] = s
  <2>1. k \in 1..Len(q) /\ q[k] = s
    BY <1>1, <1>3
  <2>2. w = [i \in 1..(Len(q) - 1) |-> IF i < k THEN q[i] ELSE q[i + 1]]
    BY <1>3 DEF WithoutService
  <2>. HIDE DEF k, w
  <2>3. DOMAIN w = 1..(Len(q) - 1)
    BY <1>1, <2>2
  <2>4. ASSUME NEW i \in DOMAIN w
        PROVE  \E n \in DOMAIN q : /\ n # k /\ w[i] = q[n]
                                   /\ n = IF i < k THEN i ELSE i + 1
    BY <1>1, <2>1, <2>2, <2>3
  <2>5. ASSUME NEW n \in DOMAIN q, n # k
        PROVE  \E i \in DOMAIN w : w[i] = q[n]
    <3>1. CASE n < k
      <4>1. n \in DOMAIN w /\ w[n] = q[n]
        BY <1>1, <2>1, <2>2, <2>3, <3>1
      <4>. QED
        BY <4>1
    <3>2. CASE n > k
      <4>1. n - 1 \in DOMAIN w /\ w[n - 1] = q[n]
        BY <1>1, <2>1, <2>2, <2>3, <3>2
      <4>. QED
        BY <4>1
    <3>. QED
      BY <1>1, <2>1, <2>5, <3>1, <3>2
  <2>6. \A n \in DOMAIN q : n # k => q[n] # s
    BY <1>1, <2>1
  <2>7. {w[i] : i \in DOMAIN w} = {q[i] : i \in DOMAIN q} \ {s}
    BY <2>1, <2>4, <2>5, <2>6
  <2>8. ASSUME NEW i \in DOMAIN w, NEW j \in DOMAIN w, w[i] = w[j] PROVE i = j
    <3>1. PICK m \in DOMAIN q : w[i] = q[m] /\ m = IF i < k THEN i ELSE i + 1
      BY <2>4
    <3>2. PICK n \in DOMAIN q : w[j] = q[n] /\ n = IF j < k THEN j ELSE j + 1
      BY <2>4
    <3>3. m = n
      BY <2>8, <3>1, <3>2
    <3>. QED
      BY <1>1, <2>1, <2>3, <3>1, <3>2, <3>3
  <2>. QED
    BY <2>7, <2>8 DEF w
<1>. QED
  BY <1>2, <1>3

\* A fork appends a service that was not in the order.
LEMMA OrderAppend ==
  ASSUME NEW A, NEW q \in Seq(A), NEW s \in A,
         \A i, j \in DOMAIN q : q[i] = q[j] => i = j,
         s \notin {q[i] : i \in DOMAIN q}
  PROVE  LET w == Append(q, s) IN
         /\ {w[i] : i \in DOMAIN w} = {q[i] : i \in DOMAIN q} \cup {s}
         /\ \A i, j \in DOMAIN w : w[i] = w[j] => i = j
<1>. DEFINE w == Append(q, s)
<1>1. /\ Len(q) \in Nat /\ DOMAIN q = 1..Len(q)
      /\ DOMAIN w = 1..(Len(q) + 1) /\ w[Len(q) + 1] = s
      /\ \A i \in DOMAIN q : w[i] = q[i]
  OBVIOUS
<1>. HIDE DEF w
<1>2. \A i \in DOMAIN w : i \in DOMAIN q \/ i = Len(q) + 1
  BY <1>1
<1>3. {w[i] : i \in DOMAIN w} = {q[i] : i \in DOMAIN q} \cup {s}
  <2>1. \A i \in DOMAIN w : w[i] \in {q[n] : n \in DOMAIN q} \cup {s}
    BY <1>1, <1>2
  <2>2. \A n \in DOMAIN q : n \in DOMAIN w /\ q[n] = w[n]
    BY <1>1
  <2>3. Len(q) + 1 \in DOMAIN w
    BY <1>1
  <2>. QED
    BY <1>1, <2>1, <2>2, <2>3
<1>4. \A i, j \in DOMAIN w : w[i] = w[j] => i = j
  BY <1>1, <1>2
<1>. QED
  BY <1>3, <1>4 DEF w

\* The services with a process are kept in the order by every step.
LEMMA OrderInv ==
  IInv /\ Listed /\ ShutdownOrderIsComplete /\ [Next]_vars => ShutdownOrderIsComplete'
<1>. SUFFICES ASSUME IInv, Listed, ShutdownOrderIsComplete, [Next]_vars
              PROVE  ShutdownOrderIsComplete'
  OBVIOUS
<1>. DEFINE Up == {s \in Services : pid[s] # NoPid}
<1>1. /\ startSeq \in Seq(Services) /\ pid \in [Services -> Pids \cup {NoPid}]
      /\ NoPid \notin Pids
  BY ServiceConstants DEF IInv, TypeOK
<1>2. /\ {startSeq[i] : i \in DOMAIN startSeq} = Up
      /\ \A i, j \in DOMAIN startSeq : startSeq[i] = startSeq[j] => i = j
  BY DEF ShutdownOrderIsComplete
<1>3. CASE UNCHANGED <<pid, startSeq>>
  BY <1>3 DEF ShutdownOrderIsComplete
<1>4. ASSUME NEW s \in Services, Forked(s) PROVE ShutdownOrderIsComplete'
  <2>1. PICK p \in Pids : pid' = [pid EXCEPT ![s] = p]
    BY <1>4 DEF Forked
  <2>2. s \notin Up /\ startSeq' = Append(startSeq, s)
    BY <1>4 DEF Forked
  <2>3. Up' = Up \cup {s}
    BY <1>1, <2>1
  <2>4. /\ {startSeq'[i] : i \in DOMAIN startSeq'} = Up \cup {s}
        /\ \A i, j \in DOMAIN startSeq' : startSeq'[i] = startSeq'[j] => i = j
    BY <1>1, <1>2, <2>2, OrderAppend
  <2>. QED
    BY <2>3, <2>4 DEF ShutdownOrderIsComplete
<1>5. ASSUME NEW s \in Services, NEW p \in Pids, Reaped(s, p)
      PROVE  ShutdownOrderIsComplete'
  <2>1. pid' = [pid EXCEPT ![s] = NoPid] /\ startSeq' = WithoutService(startSeq, s)
    BY <1>5, ReapShape
  <2>2. Up' = Up \ {s}
    BY <1>1, <2>1
  <2>. DEFINE w == WithoutService(startSeq, s)
  <2>3. /\ {w[i] : i \in DOMAIN w} = {startSeq[i] : i \in DOMAIN startSeq} \ {s}
        /\ \A i, j \in DOMAIN w : w[i] = w[j] => i = j
    BY <1>1, <1>2, OrderWithout
  <2>4. startSeq' = w
    BY <2>1
  <2>. HIDE DEF w
  <2>5. /\ {startSeq'[i] : i \in DOMAIN startSeq'} = Up \ {s}
        /\ \A i, j \in DOMAIN startSeq' : startSeq'[i] = startSeq'[j] => i = j
    BY <1>2, <2>3, <2>4
  <2>. QED
    BY <2>2, <2>5 DEF ShutdownOrderIsComplete
<1>6. CASE Silent
  BY <1>3, <1>6 DEF Silent
<1>7. ASSUME NEW s \in Services, Called(s) PROVE ShutdownOrderIsComplete'
  BY <1>3, <1>4, <1>7, CallPids DEF Called
<1>. QED
  BY <1>5, <1>6, <1>7, NextShape

\* The order in which a shutdown stops services names each service that has a
\* process once, and no other, whatever is started, killed and reaped before.
THEOREM ShutdownOrderAlwaysComplete == Spec => []ShutdownOrderIsComplete
<1>1. ASSUME Init PROVE ShutdownOrderIsComplete
  <2>1. DOMAIN startSeq = {} /\ \A s \in Services : pid[s] = NoPid
    <3>1. startSeq = <<>> /\ pid = [s \in Services |-> NoPid]
      BY <1>1 DEF Init
    <3>2. DOMAIN startSeq = 1..0
      BY <3>1
    <3>. QED
      BY <3>1, <3>2
  <2>2. {s \in Services : pid[s] # NoPid} = {} /\ {startSeq[i] : i \in DOMAIN startSeq} = {}
    BY <2>1
  <2>. QED
    BY <2>1, <2>2 DEF ShutdownOrderIsComplete
<1>. QED
  BY <1>1, OrderInv, AlwaysListed, PTL DEF Spec

-----------------------------------------------------------------------------
(* Updatable services wait for the APEX configs. *)

\* Delayed starts are forgotten only by the clear_delayed that MarkServicesUpdate
\* puts behind them in the work of the main thread.
WaitInv ==
  /\ \A s \in Updatable : pid[s] # NoPid => servicesUpdated
  /\ servicesUpdated /\ delayed # <<>> =>
       \E i \in DOMAIN work : work[i].op = "clear_delayed"

\* An element behind the head is in the tail.
LEMMA InTail ==
  ASSUME NEW A, NEW q \in Seq(A), q # <<>>, NEW i \in DOMAIN q, NEW x, q[i].op = x,
         Head(q).op # x
  PROVE  \E j \in DOMAIN Tail(q) : Tail(q)[j].op = x
<1>1. /\ Len(q) \in Nat \ {0} /\ DOMAIN q = 1..Len(q) /\ Head(q) = q[1]
      /\ Tail(q) \in Seq(A) /\ Len(Tail(q)) = Len(q) - 1
      /\ \A j \in 1..(Len(q) - 1) : Tail(q)[j] = q[j + 1]
  OBVIOUS
<1>2. i # 1 /\ i - 1 \in 1..(Len(q) - 1) /\ DOMAIN Tail(q) = 1..(Len(q) - 1)
  BY <1>1
<1>3. Tail(q)[i - 1] = q[i]
  BY <1>1, <1>2
<1>. QED
  BY <1>2, <1>3

\* The calls that MarkServicesUpdate puts in front of the rest.
LEMMA WithDelayedStarts ==
  ASSUME NEW d \in Seq(Services), NEW c \in Call, NEW r \in Seq(Call)
  PROVE  LET q == [i \in 1..Len(d) |-> [op |-> "Start", svc |-> d[i]]]
             w == q \o <<c>> \o r IN
         /\ DOMAIN w = 1..(Len(d) + 1 + Len(r))
         /\ \A i \in 1..Len(d) : w[i].op = "Start"
         /\ w[Len(d) + 1] = c
         /\ \A i \in 1..Len(r) : w[Len(d) + 1 + i] = r[i]
<1>. DEFINE q == [i \in 1..Len(d) |-> [op |-> "Start", svc |-> d[i]]]
            w == q \o <<c>> \o r
<1>1. Len(d) \in Nat /\ Len(r) \in Nat
  OBVIOUS
<1>2. /\ \A i \in 1..Len(d) : q[i] \in Call /\ q[i].op = "Start"
      /\ q \in Seq(Call) /\ Len(q) = Len(d)
  BY <1>1 DEF Call, CallName
<1>. HIDE DEF q
<1>3. /\ q \o <<c>> \in Seq(Call) /\ Len(q \o <<c>>) = Len(d) + 1
      /\ \A i \in 1..Len(d) : (q \o <<c>>)[i] = q[i]
      /\ (q \o <<c>>)[Len(d) + 1] = c
  BY <1>1, <1>2
<1>. DEFINE u == q \o <<c>>
<1>. HIDE DEF u
<1>4. /\ u \in Seq(Call) /\ Len(u) = Len(d) + 1
      /\ \A i \in 1..Len(d) : u[i] = q[i]
      /\ u[Len(d) + 1] = c
  BY <1>3 DEF u
<1>5. w = u \o r
  BY DEF u
<1>6. /\ DOMAIN (u \o r) = 1..(Len(d) + 1 + Len(r))
      /\ \A i \in 1..(Len(d) + 1) : (u \o r)[i] = u[i]
      /\ \A i \in 1..Len(r) : (u \o r)[Len(d) + 1 + i] = r[i]
  BY <1>1, <1>4
<1>. HIDE DEF w
<1>7. /\ DOMAIN w = 1..(Len(d) + 1 + Len(r))
      /\ \A i \in 1..(Len(d) + 1) : w[i] = u[i]
      /\ \A i \in 1..Len(r) : w[Len(d) + 1 + i] = r[i]
  BY <1>5, <1>6
<1>8. \A i \in 1..Len(d) : w[i].op = "Start"
  <2>1. \A i \in 1..Len(d) : i \in 1..(Len(d) + 1)
    BY <1>1
  <2>. QED
    BY <1>2, <1>4, <1>7, <2>1
<1>9. w[Len(d) + 1] = c
  <2>1. Len(d) + 1 \in 1..(Len(d) + 1)
    BY <1>1
  <2>. QED
    BY <1>4, <1>7, <2>1
<1>. QED
  BY <1>7, <1>8, <1>9 DEF w, q

\* Nobody waits any more once the configs are parsed.
LEMMA NoMoreDelays ==
  ASSUME NEW s, NEW exec, CallStep(s, exec), servicesUpdated
  PROVE  delayed' = delayed
BY DEF CallStep, startVars, PutOff, MustWait, StopOrReset, SetFlagsOnly, StartWith,
   StartRunning, StartFails, StartForks

\* Every step keeps updatable services and delayed starts waiting, or releases them.
LEMMA WaitStep == IInv /\ Listed /\ WaitInv /\ [Next]_vars => WaitInv'
<1>. SUFFICES ASSUME IInv, Listed, WaitInv, [Next]_vars PROVE WaitInv'
  OBVIOUS
<1>0. /\ work \in Seq(Call) /\ pid \in [Services -> Pids \cup {NoPid}]
      /\ servicesUpdated \in BOOLEAN /\ delayed \in Seq(Services)
      /\ Updatable \subseteq Services
  BY ServiceConstants DEF IInv, TypeOK, Services
<1>. DEFINE Up(s) == pid[s] # NoPid => servicesUpdated
            Due == servicesUpdated /\ delayed # <<>> =>
                     \E i \in DOMAIN work : work[i].op = "clear_delayed"
<1>1. servicesUpdated => servicesUpdated'
  <2>1. CASE CallService \/ MarkPostData \/ ClearDelayed \/ SetDefaultMountNamespaceReady
    BY <2>1 DEF CallService, MarkPostData, ClearDelayed, SetDefaultMountNamespaceReady
  <2>2. CASE MarkServicesUpdate
    BY <2>2 DEF MarkServicesUpdate
  <2>3. CASE ExecuteOneCommand \/ HandleControlMessage \/ FinishReap \/ BootCompletes
    BY <2>3 DEF ExecuteOneCommand, HandleControlMessage, FinishReap, BootCompletes
  <2>4. ASSUME NEW s \in Services, Timeout(s) \/ RestartDue(s) \/ TimePasses(s)
        PROVE  servicesUpdated' = servicesUpdated
    BY <2>4 DEF Timeout, RestartDue, TimePasses
  <2>5. ASSUME NEW p \in Pids, ReapOneProcess(p) \/ ProcessExits(p) \/ OrphanExits(p)
        PROVE  servicesUpdated' = servicesUpdated
    BY <2>5 DEF ReapOneProcess, ReapUntracked, ReapTemporary, ReapStopped, ReapFatal,
       ReapRestarting, ReapCommon, ProcessExits, OrphanExits, updateVars
  <2>6. CASE UNCHANGED vars
    BY <2>6 DEF vars, updateVars
  <2>. QED
    BY <2>1, <2>2, <2>3, <2>4, <2>5, <2>6 DEF Next
<1>2. \A s \in Updatable : Up(s)'
  <2>1. CASE UNCHANGED pid
    BY <1>1, <2>1 DEF WaitInv
  <2>2. ASSUME NEW r \in Services, Forked(r) PROVE \A s \in Updatable : Up(s)'
    BY <1>0, <1>1, <2>2 DEF Forked, MustWait, WaitInv
  <2>3. ASSUME NEW r \in Services, NEW p \in Pids, Reaped(r, p)
        PROVE  \A s \in Updatable : Up(s)'
    BY <1>0, <1>1, <2>3, ReapShape DEF WaitInv
  <2>. QED
    BY <2>1, <2>2, <2>3, NextShape, CallPids DEF Silent, Called
<1>3. Due'
  <2>1. CASE CallService
    <3>1. /\ work # <<>> /\ ServiceCall(Head(work)) /\ work' = Tail(work)
          /\ servicesUpdated' = servicesUpdated /\ Head(work).op # "clear_delayed"
      BY <2>1 DEF CallService, ListOps
    <3>2. Head(work) \in Call
      BY <1>0, <3>1
    <3>3. servicesUpdated => delayed' = delayed
      BY <3>1, <3>2, CallShape, NoMoreDelays
    <3>. QED
      BY <1>0, <3>1, <3>3, InTail DEF WaitInv
  <2>2. CASE MarkPostData \/ SetDefaultMountNamespaceReady
    <3>1. /\ work # <<>> /\ work' = Tail(work) /\ Head(work).op # "clear_delayed"
          /\ servicesUpdated' = servicesUpdated /\ delayed' = delayed
      BY <2>2 DEF MarkPostData, SetDefaultMountNamespaceReady, startVars
    <3>2. work \in Seq(Call)
      BY <1>0
    <3>3. ASSUME NEW i \in DOMAIN work, work[i].op = "clear_delayed"
          PROVE  \E j \in DOMAIN work' : work'[j].op = "clear_delayed"
      BY <3>1, <3>2, <3>3, InTail
    <3>. QED
      BY <3>1, <3>3 DEF WaitInv
  <2>3. CASE MarkServicesUpdate
    <3>. DEFINE c == [op |-> "clear_delayed", svc |-> Head(work).svc]
    <3>1. work # <<>> /\ work' = DelayedStarts \o <<c>> \o Tail(work)
      BY <2>3 DEF MarkServicesUpdate
    <3>0. Head(work) \in Call /\ Tail(work) \in Seq(Call)
      BY <1>0, <3>1
    <3>2. c \in Call /\ c.op = "clear_delayed" /\ Tail(work) \in Seq(Call)
      BY <3>0 DEF Call, CallName
    <3>. HIDE DEF c
    <3>3. LET w == DelayedStarts \o <<c>> \o Tail(work) IN
          DOMAIN w = 1..(Len(delayed) + 1 + Len(Tail(work))) /\ w[Len(delayed) + 1] = c
      BY <1>0, <3>2, WithDelayedStarts DEF DelayedStarts
    <3>4. /\ DOMAIN work' = 1..(Len(delayed) + 1 + Len(Tail(work)))
          /\ work'[Len(delayed) + 1] = c
      BY <3>1, <3>3
    <3>5. Len(delayed) \in Nat /\ Len(Tail(work)) \in Nat
      BY <1>0, <3>2
    <3>6. Len(delayed) + 1 \in DOMAIN work'
      <4>1. \A m, n \in Nat : m + 1 \in 1..(m + 1 + n)
        OBVIOUS
      <4>. QED
        BY <3>4, <3>5, <4>1
    <3>. QED
      BY <3>2, <3>4, <3>6
  <2>4. CASE ClearDelayed
    BY <2>4 DEF ClearDelayed
  <2>5. CASE /\ MainIdle /\ servicesUpdated' = servicesUpdated
             /\ servicesUpdated => delayed' = delayed
    <3>1. work = <<>>
      BY <2>5 DEF MainIdle
    <3>2. DOMAIN work = {}
      <4>1. DOMAIN work = 1..0
        BY <3>1
      <4>. QED
        BY <4>1
    <3>. QED
      BY <2>5, <3>2 DEF WaitInv
  <2>6. CASE UNCHANGED <<work, servicesUpdated, delayed>>
    BY <2>6 DEF WaitInv
  <2>7. CASE ExecuteOneCommand \/ HandleControlMessage
    BY <2>5, <2>7 DEF ExecuteOneCommand, HandleControlMessage, startVars
  <2>8. ASSUME NEW s \in Services, Timeout(s) \/ RestartDue(s) \/ TimePasses(s)
        PROVE  Due'
    <3>1. CASE Timeout(s) \/ TimePasses(s)
      BY <2>6, <3>1 DEF Timeout, TimePasses
    <3>2. CASE RestartDue(s)
      <4>1. MainIdle /\ servicesUpdated' = servicesUpdated /\ Start(s)
        BY <3>2 DEF RestartDue
      <4>. QED
        BY <2>5, <4>1, StartShape, NoMoreDelays
    <3>. QED
      BY <2>8, <3>1, <3>2
  <2>9. ASSUME NEW p \in Pids, ReapOneProcess(p) \/ ProcessExits(p) \/ OrphanExits(p)
        PROVE  Due'
    <3>1. CASE ReapUntracked(p) \/ ProcessExits(p) \/ OrphanExits(p)
      BY <2>6, <3>1 DEF ReapUntracked, ProcessExits, OrphanExits
    <3>2. ASSUME NEW s \in Services, Reaped(s, p) PROVE Due'
      BY <2>5, <3>2 DEF Reaped, ReapTemporary, ReapStopped, ReapFatal, ReapRestarting,
         ReapCommon, updateVars
    <3>. QED
      BY <2>9, <3>1, <3>2 DEF ReapOneProcess, Reaped
  <2>10. CASE FinishReap \/ BootCompletes \/ UNCHANGED vars
    BY <2>6, <2>10 DEF FinishReap, BootCompletes, startVars, vars, updateVars
  <2>. QED
    BY <2>1, <2>2, <2>3, <2>4, <2>7, <2>8, <2>9, <2>10 DEF Next
<1>. QED
  BY <1>2, <1>3 DEF WaitInv

\* No updatable service has a process before the APEX configs are parsed; after
\* that, the main loop comes back with no start left delayed.
THEOREM UpdatablesAlwaysWait == Spec => []UpdatableWaits
<1>1. ASSUME Init PROVE WaitInv
  <2>1. /\ \A s \in Services : pid[s] = NoPid
        /\ ~servicesUpdated /\ Updatable \subseteq Services
    BY <1>1, ServiceConstants DEF Init, Services
  <2>. QED
    BY <2>1 DEF WaitInv
<1>2. ASSUME WaitInv PROVE UpdatableWaits
  <2>1. CASE work = <<>>
    <3>1. DOMAIN work = 1..0
      BY <2>1
    <3>2. ~ \E i \in DOMAIN work : work[i].op = "clear_delayed"
      BY <3>1
    <3>. QED
      BY <1>2, <3>2 DEF WaitInv, UpdatableWaits
  <2>. QED
    BY <1>2, <2>1 DEF WaitInv, UpdatableWaits, MainIdle
<1>. QED
  BY <1>1, <1>2, WaitStep, AlwaysListed, PTL DEF Spec

-----------------------------------------------------------------------------
(* Requests survive the reaping of the old process. *)

\* A service that is to be restarted is neither stopped nor reset.
Exclusive(f) == "RESTART" \in f => f \cap {"DISABLED", "RESET"} = {}

ExclusiveInv == \A s \in Services : Exclusive(flags[s])

\* No failure rule disables the service, as log and ignore rules do.
NoDisablingRule ==
  \A s \in Configured : PolicyActive => FailureAction[s] \notin {"log", "ignore"}

\* What a call makes of the flags of the service.
LEMMA CallFlags ==
  ASSUME IInv, NEW s \in Services, NEW exec, CallStep(s, exec)
  PROVE  \/ flags' = flags
         \/ \E g : /\ flags' = [flags EXCEPT ![s] = g]
                   /\ Exclusive(flags[s]) => Exclusive(g)
                   /\ "CRITICAL" \in g => "CRITICAL" \in flags[s]
<1>0. flags \in [Services -> SUBSET Flag]
  BY DEF IInv, TypeOK
<1>1. CASE UNCHANGED startVars \/ PutOff(s)
  BY <1>1 DEF startVars, PutOff, Exclusive
<1>2. ASSUME NEW how \in {"DISABLED", "RESET", "RESTART"}, StopOrReset(s, how)
      PROVE  \E g : /\ flags' = [flags EXCEPT ![s] = g]
                    /\ Exclusive(flags[s]) => Exclusive(g)
                    /\ "CRITICAL" \in g => "CRITICAL" \in flags[s]
  <2>1. flags' = [flags EXCEPT ![s] = StopFlags(flags[s], how)]
    BY <1>2 DEF StopOrReset
  <2>2. /\ Exclusive(StopFlags(flags[s], how))
        /\ "CRITICAL" \in StopFlags(flags[s], how) => "CRITICAL" \in flags[s]
    BY <1>0 DEF StopFlags, Exclusive
  <2>. QED
    BY <2>1, <2>2
<1>3. CASE \E f : SetFlagsOnly(s, f) /\ OtherFlags(f, flags[s])
  <2>1. PICK f : SetFlagsOnly(s, f) /\ OtherFlags(f, flags[s])
    BY <1>3
  <2>2. /\ "RESTART" \in f => "RESTART" \in flags[s]
        /\ "DISABLED" \in f => "DISABLED" \in flags[s]
        /\ "RESET" \in f => "RESET" \in flags[s]
        /\ "CRITICAL" \in f => "CRITICAL" \in flags[s]
    BY <2>1 DEF OtherFlags
  <2>3. Exclusive(flags[s]) => Exclusive(f)
    BY <2>2 DEF Exclusive
  <2>4. flags' = [flags EXCEPT ![s] = f]
    BY <2>1 DEF SetFlagsOnly
  <2>. QED BY <2>2, <2>3, <2>4
<1>4. ASSUME NEW f, NEW x \in SUBSET {"EXEC"}, Startable(s, f), StartWith(s, f, x)
      PROVE  \/ flags' = flags
             \/ \E g : /\ flags' = [flags EXCEPT ![s] = g]
                       /\ Exclusive(flags[s]) => Exclusive(g)
                       /\ "CRITICAL" \in g => "CRITICAL" \in flags[s]
  <2>1. \/ flags' = flags
        \/ \E y \in (SUBSET {"EXEC", "RUNNING", "RESTART"}) \cup {{"DISABLED"}} :
             flags' = [flags EXCEPT ![s] = ClearedForStart(f) \cup y]
    <3>1. CASE StartRunning(s, f, x)
      <4>. DEFINE y == x \cup (IF "ONESHOT" \in f /\ f \cap {"DISABLED", "RESET"} # {}
                               THEN {"RESTART"} ELSE {})
      <4>1. flags' = [flags EXCEPT ![s] = ClearedForStart(f) \cup y]
        <5>1. ClearedForStart(f) \cup y = ClearedForStart(f) \cup x \cup
                (IF "ONESHOT" \in f /\ f \cap {"DISABLED", "RESET"} # {}
                 THEN {"RESTART"} ELSE {})
          OBVIOUS
        <5>. QED
          BY <3>1, <5>1 DEF StartRunning
      <4>2. y \in SUBSET {"EXEC", "RUNNING", "RESTART"}
        OBVIOUS
      <4>. QED
        BY <4>1, <4>2
    <3>2. CASE StartFails(s, f)
      BY <3>2 DEF StartFails
    <3>3. CASE StartForks(s, f, x)
      <4>1. flags' = [flags EXCEPT ![s] = ClearedForStart(f) \cup (x \cup {"RUNNING"})]
        <5>1. ClearedForStart(f) \cup x \cup {"RUNNING"}
                = ClearedForStart(f) \cup (x \cup {"RUNNING"})
          OBVIOUS
        <5>. QED
          BY <3>3, <5>1 DEF StartForks
      <4>2. x \cup {"RUNNING"} \in SUBSET {"EXEC", "RUNNING", "RESTART"}
        OBVIOUS
      <4>. QED
        BY <4>1, <4>2
    <3>. QED
      BY <1>4, <3>1, <3>2, <3>3 DEF StartWith
  <2>2. \A y \in (SUBSET {"EXEC", "RUNNING", "RESTART"}) \cup {{"DISABLED"}} :
          /\ Exclusive(ClearedForStart(f) \cup y)
          /\ "CRITICAL" \in ClearedForStart(f) \cup y => "CRITICAL" \in flags[s]
    BY <1>4 DEF ClearedForStart, Exclusive, Startable
  <2>. QED
    BY <2>1, <2>2
<1>. QED
  BY <1>1, <1>2, <1>3, <1>4 DEF CallStep

\* What Reap() makes of them, by the way the process is reaped.
LEMMA ReapFlags ==
  ASSUME IInv, NEW s \in Configured, NEW p \in Pids, Reaped(s, p)
  PROVE  LET f == FlagsWhenDown(s, p) IN
         \/ /\ f \cap {"DISABLED", "RESET"} # {}
            /\ flags' = [flags EXCEPT ![s] = f]
            /\ UNCHANGED <<crashCount, aborted>>
         \/ /\ f \cap {"DISABLED", "RESET"} = {}
            /\ FatalCrash(s, f) /\ CountCrash(s, f) /\ aborted'
            /\ flags' = [flags EXCEPT ![s] = f]
         \/ /\ f \cap {"DISABLED", "RESET"} = {}
            /\ ~FatalCrash(s, f) /\ CountCrash(s, f) /\ aborted' = aborted
            /\ flags' = [flags EXCEPT ![s] = (f \ {"RESTART"}) \cup {"RESTARTING"}]
BY ServiceConstants DEF Reaped, ReapTemporary, ReapStopped, ReapFatal, ReapRestarting, crashVars

\* The flags a failure rule that does not disable the service leaves of a request.
LEMMA RequestsWhenDown ==
  ASSUME IInv, NoDisablingRule, NEW s \in Configured, NEW p \in Pids
  PROVE  LET f == FlagsWhenDown(s, p) IN
         /\ "RESTART" \in f <=> "RESTART" \in flags[s]
         /\ "RESET" \in f <=> "RESET" \in flags[s]
         /\ "DISABLED" \in flags[s] => "DISABLED" \in f
         /\ "RESTART" \in flags[s] \/ "RESET" \in flags[s] =>
              ("DISABLED" \in f <=> "DISABLED" \in flags[s])
<1>1. PolicyAction(s, p) \notin {"log", "ignore"}
  BY DEF PolicyAction, NoDisablingRule
<1>2. flags[s] \in SUBSET Flag
  BY DEF IInv, TypeOK, Services
<1>. QED
  BY <1>1, <1>2 DEF FlagsWhenDown, FlagsAfterExit

\* Every step keeps restart requests apart from stop and reset requests.
LEMMA ExclusiveStep ==
  ASSUME NoDisablingRule, IInv, Listed, ExclusiveInv, [Next]_vars
  PROVE  ExclusiveInv'
<1>0. flags \in [Services -> SUBSET Flag]
  BY DEF IInv, TypeOK
<1>1. ASSUME NEW s \in Services, NEW g, flags' = [flags EXCEPT ![s] = g], Exclusive(g)
      PROVE  ExclusiveInv'
  BY <1>0, <1>1 DEF ExclusiveInv
<1>2. CASE flags' = flags
  BY <1>2 DEF ExclusiveInv
<1>3. CASE Silent
  BY <1>2, <1>3 DEF Silent
<1>4. ASSUME NEW s \in Services, Called(s) PROVE ExclusiveInv'
  BY <1>1, <1>2, <1>4, CallFlags DEF Called, ExclusiveInv
<1>5. ASSUME NEW s \in Services, NEW p \in Pids, Reaped(s, p) PROVE ExclusiveInv'
  <2>1. CASE s \in Configured
    <3>. DEFINE f == FlagsWhenDown(s, p)
    <3>1. /\ "RESTART" \in f <=> "RESTART" \in flags[s]
          /\ "RESET" \in f <=> "RESET" \in flags[s]
          /\ "RESTART" \in flags[s] => ("DISABLED" \in f <=> "DISABLED" \in flags[s])
      BY <2>1, RequestsWhenDown
    <3>. HIDE DEF f
    <3>2. Exclusive(f) /\ Exclusive((f \ {"RESTART"}) \cup {"RESTARTING"})
      BY <3>1 DEF ExclusiveInv, Exclusive
    <3>3. \/ flags' = [flags EXCEPT ![s] = f]
          \/ flags' = [flags EXCEPT ![s] = (f \ {"RESTART"}) \cup {"RESTARTING"}]
      BY <1>5, <2>1, ReapFlags DEF f
    <3>. QED
      BY <1>1, <3>2, <3>3
  <2>2. CASE s \in Temps
    <3>1. flags' = [flags EXCEPT ![s] = {}]
      BY <1>0, <1>5, <2>2, ReapShape, ServiceConstants
    <3>. QED
      BY <1>1, <3>1 DEF Exclusive
  <2>. QED
    BY <2>1, <2>2 DEF Services
<1>. QED
  BY <1>3, <1>4, <1>5, NextShape

\* A step that takes the pid of a configured service is its reaping.
LEMMA DownIsReaped ==
  ASSUME IInv, Listed, [Next]_vars, NEW s \in Configured, pid[s] # NoPid, pid'[s] = NoPid
  PROVE  Reaped(s, pid[s])
<1>0. pid \in [Services -> Pids \cup {NoPid}] /\ NoPid \notin Pids /\ s \in Services
  BY ServiceConstants DEF IInv, TypeOK, Services
<1>1. CASE UNCHANGED pid
  BY <1>1
<1>2. ASSUME NEW r \in Services, Forked(r) PROVE FALSE
  BY <1>0, <1>2 DEF Forked
<1>3. ASSUME NEW r \in Services, NEW p \in Pids, Reaped(r, p) PROVE Reaped(s, pid[s])
  <2>1. pid' = [pid EXCEPT ![r] = NoPid] /\ pid[r] = p
    BY <1>3, ReapShape
  <2>2. r = s
    BY <1>0, <2>1
  <2>. QED
    BY <1>3, <2>1, <2>2
<1>. QED
  BY <1>1, <1>2, <1>3, NextShape, CallPids DEF Silent, Called

\* Start() may give a service no process.
NoProcess ==
  StartFailures \ {"console", "stat"} # {} \/ \A p \in Pids : proc[p].st # "free"

\* A call that ends the wait of a restarting service starts it or stops it.
LEMMA RestartingIsServed ==
  ASSUME IInv, NEW s \in Services, NEW exec, CallStep(s, exec), "RESTARTING" \in flags[s],
         "RESTARTING" \notin flags'[s]
  PROVE  \/ "RUNNING" \in flags'[s]
         \/ flags'[s] \cap {"DISABLED", "RESET"} # {}
         \/ NoProcess
<1>0. /\ flags \in [Services -> SUBSET Flag]
      /\ "RUNNING" \notin flags[s]
  BY DEF IInv, TypeOK, SafeInv, OnlyWantedRestarts
<1>1. CASE UNCHANGED startVars \/ PutOff(s)
  BY <1>0, <1>1 DEF startVars, PutOff
<1>2. ASSUME NEW how \in {"DISABLED", "RESET"}, StopOrReset(s, how)
      PROVE  flags'[s] \cap {"DISABLED", "RESET"} # {}
  <2>1. flags'[s] = StopFlags(flags[s], how)
    BY <1>0, <1>2 DEF StopOrReset
  <2>. QED
    BY <2>1 DEF StopFlags
<1>3. CASE \E f : SetFlagsOnly(s, f) /\ OtherFlags(f, flags[s])
  BY <1>0, <1>3 DEF SetFlagsOnly, OtherFlags
<1>4. ASSUME NEW f, NEW x \in SUBSET {"EXEC"}, StartWith(s, f, x)
      PROVE  \/ "RUNNING" \in flags'[s] \/ "DISABLED" \in flags'[s] \/ NoProcess
  <2>1. CASE StartRunning(s, f, x)
    BY <1>0, <2>1 DEF StartRunning, ClearedForStart
  <2>2. CASE StartForks(s, f, x)
    BY <1>0, <2>2 DEF StartForks
  <2>3. CASE StartFails(s, f)
    <3>1. PICK why \in StartFailures
                       \cup {w \in {"fork"} : \A p \in Pids : proc[p].st # "free"} :
            flags' = IF s \in Temps THEN flags
                     ELSE [flags EXCEPT ![s] = ClearedForStart(f) \cup
                       (IF why \in {"console", "stat"} THEN {"DISABLED"} ELSE {})]
      BY <2>3 DEF StartFails
    <3>2. CASE why \in {"console", "stat"}
      BY <1>0, <3>1, <3>2
    <3>3. CASE why \notin {"console", "stat"}
      BY <3>1, <3>3 DEF NoProcess
    <3>. QED
      BY <3>2, <3>3
  <2>. QED
    BY <1>4, <2>1, <2>2, <2>3 DEF StartWith
<1>. QED
  BY <1>0, <1>1, <1>2, <1>3, <1>4 DEF CallStep

\* So does every step.
LEMMA RestartingEnds ==
  ASSUME IInv, Listed, [Next]_vars, NEW s \in Services,
         "RESTARTING" \in flags[s], "RESTARTING" \notin flags'[s]
  PROVE  \/ "RUNNING" \in flags'[s]
         \/ flags'[s] \cap {"DISABLED", "RESET"} # {}
         \/ NoProcess
<1>0. /\ flags \in [Services -> SUBSET Flag]
      /\ pid[s] = NoPid /\ NoPid \notin Pids
  BY ServiceConstants DEF IInv, TypeOK, SafeInv, OnlyWantedRestarts
<1>1. CASE Silent
  BY <1>1 DEF Silent
<1>2. ASSUME NEW r \in Services, Called(r), r # s PROVE FALSE
  BY <1>0, <1>2, CallFlags DEF Called
<1>3. CASE Called(s)
  BY <1>3, RestartingIsServed DEF Called
<1>4. ASSUME NEW r \in Services, NEW p \in Pids, Reaped(r, p) PROVE FALSE
  <2>1. pid[r] = p /\ \E f : flags' = [flags EXCEPT ![r] = f]
    BY <1>4, ReapShape
  <2>. QED
    BY <1>0, <2>1
<1>. QED
  BY <1>1, <1>2, <1>3, <1>4, NextShape

\* When the old process is reaped a service to be restarted is restarting, and one
\* that was reset is not disabled, whatever stop, start and restart calls came
\* between the signal and Reap(), unless a failure rule disables it; and a service
\* that is restarting is started or stopped, unless Start() gets no process.
THEOREM RequestsAlwaysSurvive ==
  ASSUME NoDisablingRule
  PROVE  Spec => RequestsSurvive
<1>. DEFINE Kept(s) == "RESTART" \in flags[s] /\ pid[s] # NoPid /\ pid'[s] = NoPid =>
                         "RESTARTING" \in flags'[s]
            Enabled(s) == "RESET" \in flags[s] /\ "DISABLED" \notin flags[s]
                          /\ pid[s] # NoPid /\ pid'[s] = NoPid => "DISABLED" \notin flags'[s]
            Served(s) == "RESTARTING" \in flags[s] /\ "RESTARTING" \notin flags'[s] =>
                           \/ "RUNNING" \in flags'[s]
                           \/ flags'[s] \cap {"DISABLED", "RESET"} # {}
                           \/ StartFailures \ {"console", "stat"} # {}
                           \/ \A p \in Pids : proc[p].st # "free"
<1>1. ASSUME Init PROVE ExclusiveInv
  <2>1. flags = [s \in Services |-> IF s \in Configured THEN RcFlags[s] ELSE {}]
    BY <1>1 DEF Init
  <2>2. \A s \in Services : "RESTART" \notin flags[s]
    BY <2>1, ServiceConstants
  <2>. QED
    BY <2>2 DEF ExclusiveInv, Exclusive
<1>2. IInv /\ Listed /\ ExclusiveInv /\ [Next]_vars => ExclusiveInv'
  BY ExclusiveStep
<1>3. ASSUME IInv, Listed, ExclusiveInv, [Next]_vars
      PROVE  /\ [\A s \in Configured : Kept(s)]_vars /\ [\A s \in Services : Enabled(s)]_vars
             /\ [\A s \in Services : Served(s)]_vars
  <2>0. flags \in [Services -> SUBSET Flag] /\ pid \in [Services -> Pids \cup {NoPid}]
    BY <1>3 DEF IInv, TypeOK
  <2>1. ASSUME NEW s \in Configured, pid[s] # NoPid, pid'[s] = NoPid
        PROVE  Kept(s) /\ Enabled(s)
    <3>. DEFINE p == pid[s]
                f == FlagsWhenDown(s, p)
    <3>1. Reaped(s, p) /\ p \in Pids /\ s \in Services
      BY <1>3, <2>0, <2>1, DownIsReaped DEF Services
    <3>2. /\ "RESTART" \in f <=> "RESTART" \in flags[s]
          /\ "RESET" \in f <=> "RESET" \in flags[s]
          /\ "RESTART" \in flags[s] \/ "RESET" \in flags[s] =>
               ("DISABLED" \in f <=> "DISABLED" \in flags[s])
      BY <1>3, <3>1, RequestsWhenDown
    <3>3. \/ f \cap {"DISABLED", "RESET"} # {} /\ flags' = [flags EXCEPT ![s] = f]
          \/ "RESTART" \notin f /\ flags' = [flags EXCEPT ![s] = f]
          \/ flags' = [flags EXCEPT ![s] = (f \ {"RESTART"}) \cup {"RESTARTING"}]
      BY <1>3, <3>1, ReapFlags DEF FatalCrash, CrashedTooOften, CountsCrashes
    <3>. HIDE DEF f
    <3>. QED
      BY <1>3, <2>0, <3>1, <3>2, <3>3 DEF ExclusiveInv, Exclusive
  <2>2. ASSUME NEW s \in Temps, pid[s] # NoPid, pid'[s] = NoPid PROVE Enabled(s)
    <3>1. s \in Services
      BY DEF Services
    <3>2. ASSUME NEW r \in Services, NEW p \in Pids, Reaped(r, p) PROVE Enabled(s)
      <4>1. pid' = [pid EXCEPT ![r] = NoPid]
        BY <1>3, <3>2, ReapShape
      <4>2. r = s
        BY <2>0, <2>2, <3>1, <4>1
      <4>. QED
        BY <1>3, <3>2, <4>2, ReapShape, ServiceConstants
    <3>3. ASSUME NEW r \in Services, Forked(r) PROVE FALSE
      BY <2>0, <2>2, <3>1, <3>3, ServiceConstants DEF Forked
    <3>. QED
      BY <1>3, <2>2, <3>2, <3>3, NextShape, CallPids DEF Silent, Called
  <2>3. ASSUME NEW s \in Services PROVE Served(s)
    BY <1>3, RestartingEnds DEF NoProcess
  <2>. QED
    BY <2>1, <2>2, <2>3 DEF Services
<1>. QED
  BY <1>1, <1>2, <1>3, AlwaysListed, PTL
  DEF Spec, RequestsSurvive, RestartSurvivesReap, ResetKeepsEnabled, RestartIsNotDropped

-----------------------------------------------------------------------------
(* Who reboots the device. *)

\* As long as init lives, no critical service has crashed too often.
CrashInv ==
  aborted \/ \A s \in Configured :
               "CRITICAL" \in flags[s] /\ s \notin NoFatal => crashCount[s] <= CrashLimit

\* Crash accounting keeps the count of a critical service within the limit, or
\* aborts init.
LEMMA CrashStep ==
  ASSUME CrashLimit > 0, IInv, Listed, CrashInv, [Next]_vars
  PROVE  CrashInv'
<1>0. /\ flags \in [Services -> SUBSET Flag] /\ CrashLimit \in Nat
      /\ crashCount \in [Services -> 0..(CrashLimit + 1)] /\ Configured \subseteq Services
  BY ServiceConstants DEF IInv, TypeOK, Services
<1>1. CASE Silent
  BY <1>1 DEF Silent, CrashInv
<1>2. ASSUME NEW s \in Services, Called(s) PROVE CrashInv'
  <2>1. UNCHANGED <<crashCount, aborted>>
    BY <1>2 DEF Called
  <2>2. \A r \in Services : "CRITICAL" \in flags'[r] => "CRITICAL" \in flags[r]
    BY <1>0, <1>2, CallFlags DEF Called
  <2>. QED
    BY <1>0, <2>1, <2>2 DEF CrashInv
<1>3. ASSUME NEW s \in Configured, NEW p \in Pids, Reaped(s, p) PROVE CrashInv'
  <2>. DEFINE f == FlagsWhenDown(s, p)
  <2>1. "CRITICAL" \in f => "CRITICAL" \in flags[s]
    BY DEF FlagsWhenDown, FlagsAfterExit
  <2>2. \A r \in Configured : r # s => flags'[r] = flags[r]
    BY <1>0, <1>3, ReapFlags
  <2>3. ~aborted
    BY <1>0, <1>3, ReapShape DEF MainIdle
  <2>. HIDE DEF f
  <2>4. CASE /\ flags' = [flags EXCEPT ![s] = f] /\ UNCHANGED <<crashCount, aborted>>
    BY <1>0, <2>1, <2>2, <2>3, <2>4 DEF CrashInv
  <2>5. CASE aborted'
    BY <2>5 DEF CrashInv
  <2>6. CASE /\ ~FatalCrash(s, f) /\ CountCrash(s, f) /\ aborted' = aborted
             /\ flags' = [flags EXCEPT ![s] = (f \ {"RESTART"}) \cup {"RESTARTING"}]
    <3>1. \A r \in Configured : r # s => crashCount'[r] = crashCount[r]
      BY <1>0, <2>6 DEF CountCrash
    <3>2. "CRITICAL" \in flags'[s] => "CRITICAL" \in f
      BY <1>0, <2>6
    <3>3. ASSUME "CRITICAL" \in f, s \notin NoFatal PROVE crashCount'[s] <= CrashLimit
      <4>1. crashCount[s] \in Nat /\ crashCount[s] <= CrashLimit
        BY <1>0, <2>1, <2>3, <3>3 DEF CrashInv
      <4>2. CASE ~CountsCrashes(s, f)
        BY <2>6, <4>1, <4>2 DEF CountCrash
      <4>3. CASE CountsCrashes(s, f) /\ (inWindow[s] \/ ~bootCompleted)
        <5>1. ~(crashCount[s] + 1 > CrashLimit)
          BY <2>6, <3>3, <4>3 DEF FatalCrash, CrashedTooOften
        <5>2. crashCount' = [crashCount EXCEPT ![s] =
                               IF crashCount[s] > CrashLimit THEN crashCount[s]
                               ELSE crashCount[s] + 1]
          BY <2>6, <4>3 DEF CountCrash
        <5>. QED
          BY <1>0, <4>1, <5>1, <5>2
      <4>4. CASE CountsCrashes(s, f) /\ ~(inWindow[s] \/ ~bootCompleted)
        <5>1. crashCount' = [crashCount EXCEPT ![s] = 1]
          BY <2>6, <4>4 DEF CountCrash
        <5>. QED
          BY <1>0, <5>1
      <4>. QED
        BY <4>2, <4>3, <4>4
    <3>. QED
      BY <2>2, <2>3, <3>1, <3>2, <3>3 DEF CrashInv
  <2>. QED
    BY <1>3, <2>4, <2>5, <2>6, ReapFlags DEF f
<1>4. ASSUME NEW s \in Temps, NEW p \in Pids, Reaped(s, p) PROVE CrashInv'
  <2>1. /\ UNCHANGED <<crashCount, aborted>> /\ s \in Services /\ s \notin Configured
        /\ \E f : flags' = [flags EXCEPT ![s] = f]
    BY <1>4, ServiceConstants DEF Reaped, ReapTemporary, ReapStopped, ReapFatal,
       ReapRestarting, crashVars, Services
  <2>. QED
    BY <1>0, <2>1 DEF CrashInv
<1>. QED
  BY <1>1, <1>2, <1>3, <1>4, NextShape DEF Services

\* A call is made by CallService only: no other step shortens the work.
LEMMA OnlyCalls ==
  ASSUME IInv, [Next]_vars, work # <<>>, work' = Tail(work), Head(work).op \notin ListOps
  PROVE  ServiceCall(Head(work))
<1>1. work \in Seq(Call)
  BY DEF IInv, TypeOK
<1>2. work' # work
  <2>1. Len(Tail(work)) = Len(work) - 1 /\ Len(work) \in Nat
    BY <1>1
  <2>2. SUFFICES ASSUME Tail(work) = work PROVE FALSE
    OBVIOUS
  <2>3. Len(work) = Len(work) - 1
    BY <2>1, <2>2
  <2>. QED
    BY <2>1, <2>3
<1>3. CASE CallService
  BY <1>3 DEF CallService
<1>4. CASE MarkPostData \/ MarkServicesUpdate \/ ClearDelayed \/ SetDefaultMountNamespaceReady
  BY <1>4 DEF MarkPostData, MarkServicesUpdate, ClearDelayed, SetDefaultMountNamespaceReady,
     ListOps
<1>5. CASE MainIdle \/ FinishReap
  BY <1>5 DEF MainIdle, FinishReap
<1>6. CASE UNCHANGED work
  BY <1>2, <1>6
<1>7. CASE ExecuteOneCommand \/ HandleControlMessage \/ BootCompletes
  BY <1>5, <1>6, <1>7 DEF ExecuteOneCommand, HandleControlMessage, BootCompletes
<1>8. ASSUME NEW s \in Services, Timeout(s) \/ RestartDue(s) \/ TimePasses(s)
      PROVE  UNCHANGED work
  BY <1>8 DEF Timeout, RestartDue, TimePasses
<1>9. ASSUME NEW p \in Pids, ReapOneProcess(p) \/ ProcessExits(p) \/ OrphanExits(p)
      PROVE  MainIdle \/ UNCHANGED work
  BY <1>9 DEF ReapOneProcess, ReapUntracked, ReapTemporary, ReapStopped, ReapFatal,
     ReapRestarting, ProcessExits, OrphanExits
<1>10. CASE UNCHANGED vars
  BY <1>6, <1>10 DEF vars
<1>. QED
  BY <1>3, <1>4, <1>5, <1>6, <1>7, <1>8, <1>9, <1>10 DEF Next

\* Only services with the option have a reboot_on_failure target.
TargetInv == \A s \in Services : rebootTarget[s] => s \in RebootOnFailure

\* A target is only ever dropped.
LEMMA TargetStep == ASSUME IInv, Listed, TargetInv, [Next]_vars PROVE TargetInv'
<1>0. rebootTarget \in [Services -> BOOLEAN]
  BY DEF IInv, TypeOK
<1>1. CASE rebootTarget' = rebootTarget
  BY <1>1 DEF TargetInv
<1>2. ASSUME NEW s \in Services, NEW p \in Pids, Reaped(s, p) PROVE TargetInv'
  <2>1. rebootTarget' = [rebootTarget EXCEPT
                           ![s] = rebootTarget[s] /\ PolicyAction(s, p) = "reboot"]
    BY <1>2, ReapShape
  <2>. QED
    BY <1>0, <2>1 DEF TargetInv
<1>. QED
  BY <1>1, <1>2, NextShape DEF Silent, Called

\* Start() gives the service a process, or fails and leaves it without one.
LEMMA StartOutcome ==
  ASSUME IInv, NEW s \in Services, NEW f, NEW x,
         "RUNNING" \in f <=> "RUNNING" \in flags[s], StartWith(s, f, x)
  PROVE  \/ shutdownReq' = shutdownReq /\ pid'[s] # NoPid
         \/ StartFailed(s) /\ pid'[s] = NoPid
<1>1. /\ pid \in [Services -> Pids \cup {NoPid}] /\ NoPid \notin Pids
      /\ "RUNNING" \in flags[s] <=> pid[s] # NoPid
  BY ServiceConstants DEF IInv, TypeOK, SafeInv, RunningIffPid
<1>. QED
  BY <1>1 DEF StartWith, StartRunning, StartFails, StartForks

\* So does a start that may have to wait.
LEMMA DelayOutcome ==
  ASSUME IInv, UpdatableWaits, NEW s \in Services, Start(s)
  PROVE  \/ shutdownReq' = shutdownReq /\ pid'[s] # NoPid
         \/ StartFailed(s) /\ pid'[s] = NoPid
<1>1. CASE DelayService(s)
  BY <1>1 DEF DelayService, MustWait, UpdatableWaits
<1>2. CASE StartWith(s, flags[s], {})
  BY <1>2, StartOutcome
<1>. QED
  BY <1>1, <1>2 DEF Start

\* What a call does to the reboot request: one that comes to Start() and leaves the
\* service without a process is a failed start, and nothing else touches it.
LEMMA CallReboots ==
  ASSUME IInv, Listed, TargetInv, UpdatableWaits, NEW c \in Call, ServiceCall(c)
  PROVE  IF AsksForStart(c) /\ pid'[c.svc] = NoPid THEN StartFailed(c.svc)
         ELSE shutdownReq' = shutdownReq
<1>. DEFINE s == c.svc
            Waits == MustWait(s) /\ StartFailed(s) /\ UNCHANGED pid
            Outcome == \/ shutdownReq' = shutdownReq /\ pid'[s] # NoPid
                       \/ StartFailed(s) /\ pid'[s] = NoPid
<1>0. s \in Services /\ shutdownReq \in BOOLEAN /\ rebootTarget[s] \in BOOLEAN
  BY DEF Call, IInv, TypeOK
<1>1. ASSUME Waits PROVE Outcome
  BY <1>1 DEF MustWait, UpdatableWaits
<1>2. ASSUME ExecStart(s) PROVE Outcome
  <2>1. CASE MustWait(s)
    BY <1>1, <1>2, <2>1 DEF ExecStart
  <2>2. CASE ~MustWait(s)
    <3>1. StartWith(s, flags[s] \cup {"ONESHOT"}, {"EXEC"})
      BY <1>2, <2>2 DEF ExecStart
    <3>2. "RUNNING" \in flags[s] \cup {"ONESHOT"} <=> "RUNNING" \in flags[s]
      OBVIOUS
    <3>. QED
      BY <1>0, <3>1, <3>2, StartOutcome
  <2>. QED
    BY <2>1, <2>2
<1>3. ASSUME Enable(s), "DISABLED_START" \in flags[s] PROVE Outcome
  <2>. DEFINE f == flags[s] \ {"DISABLED", "RC_DISABLED"}
  <2>1. "DISABLED_START" \in f /\ ("RUNNING" \in f <=> "RUNNING" \in flags[s])
    BY <1>3
  <2>2. Waits \/ StartWith(s, f, {})
    BY <1>3, <2>1 DEF Enable
  <2>. QED
    BY <1>0, <1>1, <2>1, <2>2, StartOutcome
<1>4. ASSUME AsksForStart(c) PROVE Outcome
  <2>1. Start(s) \/ ExecStart(s) \/ (Enable(s) /\ "DISABLED_START" \in flags[s])
    BY <1>4 DEF AsksForStart, ServiceCall, StartIfNotDisabled, StartIfPostData, Restart, Has
  <2>. QED
    BY <1>0, <1>2, <1>3, <2>1, DelayOutcome
<1>5. ASSUME ~AsksForStart(c) PROVE shutdownReq' = shutdownReq
  <2>1. \/ UNCHANGED startVars
        \/ \E how : StopOrReset(s, how)
        \/ \E f : SetFlagsOnly(s, f)
        \/ \E x : ExecTemporary(s, x)
    BY <1>5 DEF AsksForStart, ServiceCall, StartIfNotDisabled, StartIfPostData, Restart, Has,
       Enable, ResetIfPostData
  <2>2. ASSUME NEW x, ExecTemporary(s, x) PROVE shutdownReq' = shutdownReq
    <3>1. CASE s \in listed
      BY <2>2, <3>1 DEF ExecTemporary, startVars
    <3>2. CASE s \notin listed
      <4>1. s \notin Configured
        BY <3>2 DEF Listed
      <4>2. ~rebootTarget[s]
        BY <1>0, <4>1, ServiceConstants DEF TargetInv
      <4>3. shutdownReq' \in {shutdownReq, shutdownReq \/ rebootTarget[s]}
        BY <2>2, <3>2 DEF ExecTemporary, StartWith, StartRunning, StartFails, StartForks,
           StartFailed
      <4>. QED
        BY <1>0, <4>2, <4>3
    <3>. QED
      BY <3>1, <3>2
  <2>. QED
    BY <2>1, <2>2 DEF startVars, StopOrReset, SetFlagsOnly
<1>. QED
  BY <1>4, <1>5

\* Whoever acts, from an idle main thread: only HandleProcessActions starts a service.
LEMMA IdleStep ==
  ASSUME MainIdle, [Next]_vars
  PROVE  \/ UNCHANGED <<flags, delayed>>
         \/ \E s \in Services : RestartDue(s)
         \/ \E s \in Services, p \in Pids : Reaped(s, p) /\ delayed' = delayed
<1>1. CASE \/ CallService \/ MarkPostData \/ MarkServicesUpdate \/ ClearDelayed
           \/ SetDefaultMountNamespaceReady \/ FinishReap
  BY <1>1 DEF CallService, MarkPostData, MarkServicesUpdate, ClearDelayed,
     SetDefaultMountNamespaceReady, FinishReap, MainIdle
<1>2. CASE ExecuteOneCommand \/ HandleControlMessage \/ BootCompletes
  BY <1>2 DEF ExecuteOneCommand, HandleControlMessage, BootCompletes, startVars
<1>3. ASSUME NEW s \in Services, Timeout(s) \/ TimePasses(s) PROVE UNCHANGED <<flags, delayed>>
  BY <1>3 DEF Timeout, TimePasses
<1>4. ASSUME NEW p \in Pids, ReapOneProcess(p) \/ ProcessExits(p) \/ OrphanExits(p)
      PROVE  \/ UNCHANGED <<flags, delayed>>
             \/ \E s \in Services : Reaped(s, p) /\ delayed' = delayed
  BY <1>4 DEF ReapOneProcess, ReapUntracked, ProcessExits, OrphanExits, Reaped,
     ReapTemporary, ReapStopped, ReapFatal, ReapRestarting, ReapCommon, updateVars
<1>5. CASE UNCHANGED vars
  BY <1>5 DEF vars, updateVars
<1>. QED
  BY <1>1, <1>2, <1>3, <1>4, <1>5 DEF Next

\* A step that touches the reboot request is a call, a restart that is due, or the
\* reaping of a process.
LEMMA WhoReboots ==
  ASSUME IInv, Listed, [Next]_vars
  PROVE  \/ shutdownReq' = shutdownReq
         \/ CallService
         \/ \E s \in Services : RestartDue(s)
         \/ \E s \in Services, p \in Pids : Reaped(s, p)
<1>1. CASE \/ MarkPostData \/ MarkServicesUpdate \/ ClearDelayed \/ FinishReap
           \/ SetDefaultMountNamespaceReady \/ ExecuteOneCommand \/ HandleControlMessage
           \/ BootCompletes
  BY <1>1 DEF MarkPostData, MarkServicesUpdate, ClearDelayed, FinishReap, ExecuteOneCommand,
     SetDefaultMountNamespaceReady, HandleControlMessage, BootCompletes, startVars
<1>2. ASSUME NEW s \in Services, Timeout(s) \/ TimePasses(s) PROVE shutdownReq' = shutdownReq
  BY <1>2 DEF Timeout, TimePasses
<1>3. ASSUME NEW p \in Pids, ReapOneProcess(p) \/ ProcessExits(p) \/ OrphanExits(p)
      PROVE  shutdownReq' = shutdownReq \/ \E s \in Services : Reaped(s, p)
  BY <1>3 DEF ReapOneProcess, ReapUntracked, ProcessExits, OrphanExits, Reaped
<1>4. CASE UNCHANGED vars
  BY <1>4 DEF vars
<1>. QED
  BY <1>1, <1>2, <1>3, <1>4 DEF Next

\* A restart that is due starts its service, and shows in its flags or the delayed starts.
LEMMA DueStart ==
  ASSUME IInv, NEW s \in Configured, RestartDue(s)
  PROVE  Start(s) /\ StartRequested(s)
<1>0. flags \in [Services -> SUBSET Flag] /\ s \in Services /\ s \notin Temps
  BY ServiceConstants DEF IInv, TypeOK, Services
<1>1. MainIdle /\ "RESTARTING" \in flags[s] /\ Start(s)
  BY DEF RestartDue, Has
<1>2. CASE DelayService(s)
  BY <1>1, <1>2 DEF DelayService, StartRequested, Has
<1>3. CASE StartWith(s, flags[s], {})
  <2>1. \E y \in SUBSET {"RUNNING", "DISABLED", "RESTART"} :
          flags' = [flags EXCEPT ![s] = ClearedForStart(flags[s]) \cup y]
    <3>1. CASE StartRunning(s, flags[s], {})
      <4>. DEFINE y == IF "ONESHOT" \in flags[s] /\ flags[s] \cap {"DISABLED", "RESET"} # {}
                       THEN {"RESTART"} ELSE {}
      <4>1. flags' = [flags EXCEPT ![s] = ClearedForStart(flags[s]) \cup y]
        <5>1. ClearedForStart(flags[s]) \cup {} \cup y = ClearedForStart(flags[s]) \cup y
          OBVIOUS
        <5>. QED
          BY <3>1, <5>1 DEF StartRunning
      <4>2. y \in SUBSET {"RUNNING", "DISABLED", "RESTART"}
        OBVIOUS
      <4>. QED
        BY <4>1, <4>2
    <3>2. CASE StartFails(s, flags[s])
      BY <1>0, <3>2 DEF StartFails
    <3>3. CASE StartForks(s, flags[s], {})
      <4>1. ClearedForStart(flags[s]) \cup {} \cup {"RUNNING"}
              = ClearedForStart(flags[s]) \cup {"RUNNING"}
        OBVIOUS
      <4>. QED
        BY <3>3, <4>1 DEF StartForks
    <3>. QED
      BY <1>3, <3>1, <3>2, <3>3 DEF StartWith
  <2>2. "RESTARTING" \notin flags'[s]
    BY <1>0, <2>1 DEF ClearedForStart
  <2>. QED
    BY <1>1, <2>2 DEF StartRequested, Has
<1>. QED
  BY <1>1, <1>2, <1>3 DEF Start

\* A requested start that leaves its service without a process has failed.
LEMMA RequestedStart ==
  ASSUME IInv, Listed, TargetInv, UpdatableWaits, [Next]_vars, NEW s \in Configured,
         StartDidNotStart(s)
  PROVE  StartFailed(s)
<1>0. /\ work \in Seq(Call) /\ delayed \in Seq(Services) /\ s \in Services
      /\ flags \in [Services -> SUBSET Flag]
  BY DEF IInv, TypeOK, Services
<1>1. pid'[s] = NoPid
  BY DEF StartDidNotStart
<1>2. CASE work # <<>> /\ work' = Tail(work) /\ Head(work).svc = s /\ AsksForStart(Head(work))
  <2>1. Head(work) \in Call
    BY <1>0, <1>2
  <2>2. Head(work).op \notin ListOps
    BY <1>2 DEF AsksForStart, ListOps
  <2>3. ServiceCall(Head(work))
    BY <1>2, <2>2, OnlyCalls
  <2>. QED
    BY <1>1, <1>2, <2>1, <2>3, CallReboots
<1>3. CASE /\ MainIdle /\ "RESTARTING" \in flags[s]
           /\ "RESTARTING" \notin flags'[s] \/ delayed' = Append(delayed, s)
  <2>1. delayed # Append(delayed, s)
    <3>1. Len(Append(delayed, s)) = Len(delayed) + 1 /\ Len(delayed) \in Nat
      BY <1>0
    <3>2. Len(delayed) # Len(delayed) + 1
      BY <3>1
    <3>. QED
      BY <3>1, <3>2
  <2>2. CASE UNCHANGED <<flags, delayed>>
    BY <1>3, <2>1, <2>2
  <2>3. ASSUME NEW r \in Services, NEW p \in Pids, Reaped(r, p), delayed' = delayed
        PROVE  FALSE
    <3>1. pid[r] = p /\ NoPid \notin Pids /\ \E f : flags' = [flags EXCEPT ![r] = f]
      BY <2>3, ReapShape, ServiceConstants
    <3>2. r # s
      BY <1>0, <1>3, <3>1 DEF IInv, SafeInv, OnlyWantedRestarts
    <3>. QED
      BY <1>0, <1>3, <2>1, <2>3, <3>1, <3>2
  <2>4. ASSUME NEW r \in Services, RestartDue(r) PROVE StartFailed(s)
    <3>1. Start(r)
      BY <2>4 DEF RestartDue
    <3>2. CASE r = s
      <4>1. \/ shutdownReq' = shutdownReq /\ pid'[s] # NoPid
            \/ StartFailed(s) /\ pid'[s] = NoPid
        BY <1>0, <3>1, <3>2, DelayOutcome
      <4>. QED
        BY <1>1, <4>1
    <3>3. CASE r # s
      <4>1. CallStep(r, FALSE)
        BY <3>1, StartShape
      <4>2. flags'[s] = flags[s]
        BY <1>0, <3>3, <4>1, CallFlags
      <4>3. delayed' = Append(delayed, s)
        BY <1>3, <4>2
      <4>4. delayed' \in {delayed, Append(delayed, r)}
        BY <3>1 DEF Start, DelayService, StartWith, StartRunning, StartFails, StartForks
      <4>5. Append(delayed, r) # Append(delayed, s)
        <5>1. /\ Append(delayed, r)[Len(delayed) + 1] = r
              /\ Append(delayed, s)[Len(delayed) + 1] = s
          BY <1>0
        <5>. QED
          BY <3>3, <5>1
      <4>. QED
        BY <2>1, <4>3, <4>4, <4>5
    <3>. QED
      BY <3>2, <3>3
  <2>. QED
    BY <1>3, <2>2, <2>3, <2>4, IdleStep
<1>. QED
  BY <1>2, <1>3 DEF StartDidNotStart, StartRequested, Has

\* What the reboot theorems rest on.
LEMMA AlwaysTargets == Spec => [](IInv /\ Listed /\ TargetInv /\ UpdatableWaits)
<1>1. ASSUME Init PROVE TargetInv
  BY <1>1 DEF Init, TargetInv
<1>2. IInv /\ Listed /\ TargetInv /\ [Next]_vars => TargetInv'
  BY TargetStep
<1>. QED
  BY <1>1, <1>2, AlwaysListed, UpdatablesAlwaysWait, PTL DEF Spec

\* init aborts only for a critical service that crashed beyond the limit without
\* having been told to stop or restart it; a failure rule suppresses the reboot of
\* the exit it handles; and a shutdown is requested only for a service with a
\* reboot_on_failure target, at the step in which a start leaves it without a process
\* or its failed process is reaped.  (The limit of the code is 4.)
THEOREM RebootsAreJustified ==
  ASSUME CrashLimit > 0
  PROVE  Spec => RebootIsJustified
<1>. DEFINE Abort ==
       ~aborted /\ aborted' => \E s \in Configured :
         /\ pid[s] # NoPid /\ pid'[s] = NoPid
         /\ flags[s] \cap {"DISABLED", "RESET", "RESTART"} = {}
         /\ crashCount[s] = CrashLimit
            Suppressed ==
       \A s \in Configured :
         /\ PolicyActive /\ FailureAction[s] # "reboot"
         /\ pid[s] # NoPid /\ pid'[s] = NoPid /\ ~proc[pid[s]].ok
         => shutdownReq' = shutdownReq /\ aborted' = aborted
            Cause ==
       ~shutdownReq /\ shutdownReq' => \E s \in Configured :
         rebootTarget[s] /\ (StartDidNotStart(s) \/ (ExitFailed(s) /\ rebootTarget'[s]))
<1>1. ASSUME Init PROVE CrashInv
  <2>1. crashCount = [s \in Services |-> 0] /\ CrashLimit \in Nat /\ Configured \subseteq Services
    BY <1>1, ServiceConstants DEF Init, Services
  <2>. QED
    BY <2>1 DEF CrashInv
<1>2. IInv /\ Listed /\ CrashInv /\ [Next]_vars => CrashInv'
  BY CrashStep
<1>3. ASSUME IInv, Listed, TargetInv, UpdatableWaits, CrashInv, [Next]_vars
      PROVE  [Abort]_vars /\ [Suppressed]_vars /\ [Cause]_vars
  <2>0. /\ flags \in [Services -> SUBSET Flag] /\ CrashLimit \in Nat
        /\ crashCount \in [Services -> 0..(CrashLimit + 1)] /\ Configured \subseteq Services
        /\ pid \in [Services -> Pids \cup {NoPid}] /\ NoPid \notin Pids
        /\ rebootTarget \in [Services -> BOOLEAN] /\ shutdownReq \in BOOLEAN
        /\ work \in Seq(Call) /\ RebootOnFailure \subseteq Services
    BY <1>3, ServiceConstants DEF IInv, TypeOK, Services
  <2>1. ASSUME ~aborted, aborted' PROVE Abort
    <3>1. PICK s \in Services, p \in Pids : Reaped(s, p)
      BY <1>3, <2>1, NextShape DEF Silent, Called
    <3>2. /\ pid[s] = p /\ pid' = [pid EXCEPT ![s] = NoPid]
          /\ s \in Configured
      BY <1>3, <2>1, <3>1, ReapShape
    <3>. DEFINE f == FlagsWhenDown(s, p)
    <3>3. f \cap {"DISABLED", "RESET"} = {} /\ FatalCrash(s, f)
      BY <1>3, <2>1, <3>1, <3>2, ReapFlags
    <3>4. /\ "DISABLED" \in flags[s] => "DISABLED" \in f
          /\ "RESET" \in flags[s] => "RESET" \in f
          /\ "RESTART" \in flags[s] => "RESTART" \in f
          /\ "CRITICAL" \in f => "CRITICAL" \in flags[s]
      BY DEF FlagsWhenDown, FlagsAfterExit
    <3>. HIDE DEF f
    <3>5. /\ "RESTART" \notin f /\ "CRITICAL" \in f /\ s \notin NoFatal
          /\ crashCount[s] + 1 > CrashLimit
      BY <3>3 DEF FatalCrash, CrashedTooOften, CountsCrashes
    <3>6. crashCount[s] = CrashLimit
      <4>1. crashCount[s] <= CrashLimit /\ crashCount[s] \in Nat
        BY <1>3, <2>0, <2>1, <3>2, <3>4, <3>5 DEF CrashInv
      <4>. QED
        BY <2>0, <3>5, <4>1
    <3>7. flags[s] \cap {"DISABLED", "RESET", "RESTART"} = {}
      BY <3>3, <3>4, <3>5
    <3>8. pid[s] # NoPid /\ pid'[s] = NoPid
      BY <2>0, <3>2
    <3>. QED
      BY <3>2, <3>6, <3>7, <3>8
  <2>2. ASSUME NEW s \in Configured, PolicyActive, FailureAction[s] # "reboot",
               pid[s] # NoPid, pid'[s] = NoPid, ~proc[pid[s]].ok
        PROVE  shutdownReq' = shutdownReq /\ aborted' = aborted
    <3>. DEFINE p == pid[s]
    <3>1. Reaped(s, p) /\ p \in Pids /\ s \in Services
      BY <1>3, <2>0, <2>2, DownIsReaped
    <3>2. PolicyAction(s, p) # "reboot" /\ "CRITICAL" \notin FlagsWhenDown(s, p)
      BY <2>2 DEF PolicyAction, FlagsWhenDown, FlagsAfterExit
    <3>3. aborted' = aborted
      BY <1>3, <3>1, <3>2, ReapFlags DEF FatalCrash
    <3>4. /\ rebootTarget' = [rebootTarget EXCEPT
                                ![s] = rebootTarget[s] /\ PolicyAction(s, p) = "reboot"]
          /\ shutdownReq' = (shutdownReq \/ (~proc[p].ok /\ rebootTarget'[s]))
      BY <1>3, <3>1, ReapShape
    <3>5. rebootTarget'[s] = FALSE
      BY <2>0, <3>1, <3>2, <3>4
    <3>. QED
      BY <2>0, <3>3, <3>4, <3>5
  <2>3. ASSUME ~shutdownReq, shutdownReq' PROVE Cause
    <3>1. ASSUME NEW s \in Services, StartFailed(s), StartDidNotStart(s) PROVE Cause
      <4>1. rebootTarget[s]
        BY <2>3, <3>1 DEF StartFailed
      <4>2. s \in Configured
        BY <1>3, <3>1, <4>1, ServiceConstants DEF TargetInv
      <4>. QED
        BY <3>1, <4>1, <4>2
    <3>2. CASE CallService
      <4>1. work # <<>> /\ work' = Tail(work) /\ ServiceCall(Head(work))
        BY <3>2 DEF CallService
      <4>2. Head(work) \in Call /\ Head(work).svc \in Services
        <5>1. Head(work) \in Call
          BY <2>0, <4>1
        <5>. QED
          BY <5>1 DEF Call
      <4>3. /\ AsksForStart(Head(work)) /\ pid'[Head(work).svc] = NoPid
            /\ StartFailed(Head(work).svc)
        BY <1>3, <2>3, <4>1, <4>2, CallReboots
      <4>. QED
        BY <3>1, <4>1, <4>2, <4>3 DEF StartDidNotStart, StartRequested
    <3>3. ASSUME NEW s \in Services, RestartDue(s) PROVE Cause
      <4>1. Start(s)
        BY <3>3 DEF RestartDue
      <4>2. StartFailed(s) /\ pid'[s] = NoPid
        BY <1>3, <2>3, <4>1, DelayOutcome
      <4>3. rebootTarget[s] /\ s \in Configured
        BY <1>3, <2>3, <4>2, ServiceConstants DEF StartFailed, TargetInv
      <4>. QED
        BY <1>3, <3>1, <3>3, <4>2, <4>3, DueStart DEF StartDidNotStart
    <3>4. ASSUME NEW s \in Services, NEW p \in Pids, Reaped(s, p) PROVE Cause
      <4>1. /\ pid[s] = p /\ pid' = [pid EXCEPT ![s] = NoPid]
            /\ shutdownReq' = (shutdownReq \/ (~proc[p].ok /\ rebootTarget'[s]))
            /\ rebootTarget' = [rebootTarget EXCEPT
                                  ![s] = rebootTarget[s] /\ PolicyAction(s, p) = "reboot"]
        BY <1>3, <3>4, ReapShape
      <4>2. rebootTarget'[s] /\ rebootTarget[s] /\ ExitFailed(s)
        BY <2>0, <2>3, <4>1 DEF ExitFailed
      <4>3. s \in Configured
        BY <1>3, <4>2, ServiceConstants DEF TargetInv
      <4>. QED
        BY <4>2, <4>3
    <3>. QED
      BY <1>3, <2>3, <3>2, <3>3, <3>4, WhoReboots
  <2>. QED
    BY <2>1, <2>2, <2>3
<1>. QED
  BY <1>1, <1>2, <1>3, AlwaysTargets, PTL
  DEF Spec, RebootIsJustified, AbortOnlyOnCrash, SuppressedNeverReboots, ShutdownHasCause

\* A service with a reboot_on_failure target that a start leaves without a process,
\* whichever of the calls and of the steps of Start() it was, or whose process fails
\* and is not handled by a failure rule, brings the device down.
THEOREM FailuresAlwaysReboot == Spec => FailuresReboot
<1>. DEFINE Started == \A s \in Configured : rebootTarget[s] /\ StartDidNotStart(s) => shutdownReq'
            Exited == \A s \in Configured :
                        rebootTarget[s] /\ ExitFailed(s) /\ PolicyAction(s, pid[s]) = "reboot"
                          => shutdownReq'
<1>1. ASSUME IInv, Listed, TargetInv, UpdatableWaits, [Next]_vars
      PROVE  [Started]_vars /\ [Exited]_vars
  <2>0. /\ Configured \subseteq Services /\ rebootTarget \in [Services -> BOOLEAN]
        /\ pid \in [Services -> Pids \cup {NoPid}]
    BY <1>1 DEF IInv, TypeOK, Services
  <2>1. Started
    BY <1>1, RequestedStart DEF StartFailed
  <2>2. ASSUME NEW s \in Configured, rebootTarget[s], ExitFailed(s),
               PolicyAction(s, pid[s]) = "reboot"
        PROVE  shutdownReq'
    <3>. DEFINE p == pid[s]
    <3>1. pid[s] # NoPid /\ pid'[s] = NoPid /\ ~proc[p].ok
      BY <2>2 DEF ExitFailed
    <3>2. Reaped(s, p) /\ p \in Pids
      BY <1>1, <2>0, <3>1, DownIsReaped
    <3>3. /\ shutdownReq' = (shutdownReq \/ (~proc[p].ok /\ rebootTarget'[s]))
          /\ rebootTarget' = [rebootTarget EXCEPT
                                ![s] = rebootTarget[s] /\ PolicyAction(s, p) = "reboot"]
      BY <1>1, <2>0, <3>2, ReapShape
    <3>4. rebootTarget'[s]
      BY <2>0, <2>2, <3>3
    <3>. QED
      BY <3>1, <3>3, <3>4
  <2>. QED
    BY <2>1, <2>2
<1>. QED
  BY <1>1, AlwaysTargets, PTL DEF Spec, FailuresReboot, FailedStartReboots, FailedExitReboots

-----------------------------------------------------------------------------
(* init.svc.<name> tells the truth. *)

\* No call of the sequence acts on the service s.
Spares(seq, s) ==
  \A i \in DOMAIN seq : seq[i].svc # s /\ seq[i].op # "MarkServicesUpdate"

Told(s) ==
  /\ svcProp[s] \in {"running", "stopping"} <=> pid[s] # NoPid
  /\ "RESTARTING" \in flags[s] => svcProp[s] = "restarting"

\* While a service is being reaped its property still says what it was; it has no
\* process, and nothing init has still to do acts on it.
PropInv ==
  aborted \/ \A s \in Configured : RestartsItself(s) \/
    IF reaping.svc = s THEN pid[s] = NoPid /\ Spares(work, s) ELSE Told(s)

\* What is left of the work spares what all of it spares.
LEMMA SparesTail ==
  ASSUME NEW q \in Seq(Call), q # <<>>, NEW s, Spares(q, s)
  PROVE  Spares(Tail(q), s) /\ Head(q).svc # s /\ Head(q).op # "MarkServicesUpdate"
<1>1. /\ Len(q) \in Nat \ {0} /\ DOMAIN q = 1..Len(q) /\ Head(q) = q[1]
      /\ DOMAIN Tail(q) = 1..(Len(q) - 1)
      /\ \A j \in 1..(Len(q) - 1) : Tail(q)[j] = q[j + 1]
  OBVIOUS
<1>2. 1 \in DOMAIN q /\ \A j \in 1..(Len(q) - 1) : j + 1 \in DOMAIN q
  BY <1>1
<1>. QED
  BY <1>1, <1>2 DEF Spares

\* What a call does to the property of its service.
LEMMA CallProp ==
  ASSUME IInv, NEW s \in Services, NEW exec, CallStep(s, exec)
  PROVE  /\ \A r \in Services : r # s =>
              svcProp'[r] = svcProp[r] /\ pid'[r] = pid[r] /\ flags'[r] = flags[r]
         /\ s \in Configured /\ Told(s) => Told(s)'
<1>0. /\ flags \in [Services -> SUBSET Flag] /\ pid \in [Services -> Pids \cup {NoPid}]
      /\ svcProp \in [Services -> {"", "running", "stopping", "stopped", "restarting"}]
      /\ NoPid \notin Pids /\ (s \in Configured => s \notin Temps)
  BY ServiceConstants DEF IInv, TypeOK
<1>1. CASE UNCHANGED startVars
  BY <1>1 DEF startVars, Told
<1>2. CASE PutOff(s)
  <2>1. flags'[s] \subseteq flags[s] /\ \A r \in Services : r # s => flags'[r] = flags[r]
    BY <1>0, <1>2 DEF PutOff
  <2>. QED
    BY <1>2, <2>1 DEF PutOff, Told
<1>3. ASSUME NEW how \in {"DISABLED", "RESET", "RESTART"}, StopOrReset(s, how)
      PROVE  /\ \A r \in Services : r # s =>
                  svcProp'[r] = svcProp[r] /\ pid'[r] = pid[r] /\ flags'[r] = flags[r]
             /\ s \in Configured /\ Told(s) => Told(s)'
  <2>1. flags' = [flags EXCEPT ![s] = StopFlags(flags[s], how)] /\ pid' = pid
    BY <1>3 DEF StopOrReset
  <2>2. "RESTARTING" \notin StopFlags(flags[s], how)
    BY DEF StopFlags
  <2>3. svcProp' = IF s \in Temps THEN svcProp
                   ELSE [svcProp EXCEPT ![s] = IF pid[s] # NoPid THEN "stopping" ELSE "stopped"]
    BY <1>3 DEF StopOrReset, NotifyStateChange
  <2>4. "RESTARTING" \notin flags'[s]
    BY <1>0, <2>1, <2>2
  <2>. QED
    BY <1>0, <2>1, <2>3, <2>4 DEF Told
<1>4. ASSUME NEW f, SetFlagsOnly(s, f), OtherFlags(f, flags[s])
      PROVE  /\ \A r \in Services : r # s =>
                  svcProp'[r] = svcProp[r] /\ pid'[r] = pid[r] /\ flags'[r] = flags[r]
             /\ s \in Configured /\ Told(s) => Told(s)'
  BY <1>0, <1>4 DEF SetFlagsOnly, OtherFlags, Told
<1>5. ASSUME NEW f, NEW x \in SUBSET {"EXEC"}, Startable(s, f), StartWith(s, f, x)
      PROVE  /\ \A r \in Services : r # s =>
                  svcProp'[r] = svcProp[r] /\ pid'[r] = pid[r] /\ flags'[r] = flags[r]
             /\ s \in Configured /\ Told(s) => Told(s)'
  <2>1. CASE StartRunning(s, f, x)
    <3>1. "RESTARTING" \notin flags'[s] /\ \A r \in Services : r # s => flags'[r] = flags[r]
      BY <1>0, <2>1 DEF StartRunning, ClearedForStart
    <3>. QED
      BY <2>1, <3>1 DEF StartRunning, Told
  <2>2. CASE StartFails(s, f)
    <3>1. /\ s \in Configured => "RESTARTING" \notin flags'[s]
          /\ \A r \in Services : r # s => flags'[r] = flags[r]
      <4>1. PICK y \in SUBSET {"DISABLED"} :
              flags' = IF s \in Temps THEN flags
                       ELSE [flags EXCEPT ![s] = ClearedForStart(f) \cup y]
        BY <2>2 DEF StartFails
      <4>2. "RESTARTING" \notin ClearedForStart(f) \cup y
        BY DEF ClearedForStart
      <4>. QED
        BY <1>0, <4>1, <4>2
    <3>. QED
      BY <2>2, <3>1 DEF StartFails, Told
  <2>3. CASE StartForks(s, f, x)
    <3>1. /\ "RESTARTING" \notin flags'[s] /\ \A r \in Services : r # s => flags'[r] = flags[r]
      BY <1>0, <2>3 DEF StartForks, ClearedForStart
    <3>2. /\ \E p \in Pids : pid' = [pid EXCEPT ![s] = p]
          /\ svcProp' = IF s \in Temps THEN svcProp ELSE [svcProp EXCEPT ![s] = "running"]
      BY <2>3 DEF StartForks, NotifyStateChange
    <3>. QED
      BY <1>0, <3>1, <3>2 DEF Told
  <2>. QED
    BY <1>5, <2>1, <2>2, <2>3 DEF StartWith
<1>. QED
  BY <1>1, <1>2, <1>3, <1>4, <1>5 DEF CallStep

\* Every step keeps the properties true.
LEMMA PropStep == IInv /\ Listed /\ PropInv /\ [Next]_vars => PropInv'
<1>. SUFFICES ASSUME IInv, Listed, PropInv, [Next]_vars PROVE PropInv'
  OBVIOUS
<1>0. /\ flags \in [Services -> SUBSET Flag] /\ pid \in [Services -> Pids \cup {NoPid}]
      /\ svcProp \in [Services -> {"", "running", "stopping", "stopped", "restarting"}]
      /\ NoPid \notin Pids /\ Configured \subseteq Services /\ NoService \notin Configured
      /\ work \in Seq(Call) /\ Configured \cap Temps = {}
  BY ServiceConstants DEF IInv, TypeOK, Services
<1>. DEFINE Same(r) == svcProp'[r] = svcProp[r] /\ pid'[r] = pid[r] /\ flags'[r] = flags[r]
<1>1. ASSUME UNCHANGED <<svcProp, pid, flags, aborted>>,
             UNCHANGED <<work, reaping>> \/ (MainIdle /\ reaping' = reaping)
      PROVE  PropInv'
  <2>1. CASE UNCHANGED <<work, reaping>>
    BY <1>1, <2>1 DEF PropInv, Told
  <2>2. CASE MainIdle /\ reaping' = reaping
    BY <1>0, <1>1, <2>2 DEF PropInv, Told, MainIdle, NotReaping
  <2>. QED
    BY <1>1, <2>1, <2>2
<1>2. ASSUME NEW s \in Services, NEW exec, CallStep(s, exec), UNCHANGED <<aborted, reaping>>,
             \/ work # <<>> /\ Head(work).svc = s /\ work' = Tail(work)
             \/ MainIdle /\ UNCHANGED work
      PROVE  PropInv'
  <2>1. ASSUME ~aborted, NEW r \in Configured, ~RestartsItself(r)
        PROVE  (IF reaping.svc = r THEN pid[r] = NoPid /\ Spares(work, r) ELSE Told(r))'
    <3>1. CASE reaping.svc = r
      <4>0. ~MainIdle
        <5>1. NotReaping.svc = NoService /\ NoService # r
          BY <1>0, <2>1 DEF NotReaping
        <5>. QED
          BY <3>1, <5>1 DEF MainIdle
      <4>1. pid[r] = NoPid /\ Spares(work, r) /\ ~MainIdle
        BY <2>1, <3>1, <4>0 DEF PropInv
      <4>2. Spares(Tail(work), r) /\ s # r
        BY <1>0, <1>2, <4>1, SparesTail
      <4>. QED
        BY <1>0, <1>2, <3>1, <4>1, <4>2, CallProp
    <3>2. CASE reaping.svc # r
      <4>1. Told(r)
        BY <2>1, <3>2 DEF PropInv
      <4>2. Told(r)'
        <5>1. CASE r = s
          BY <1>2, <4>1, <5>1, CallProp
        <5>2. CASE r # s
          BY <1>0, <1>2, <4>1, <5>2, CallProp DEF Told
        <5>. QED
          BY <5>1, <5>2
      <4>. QED
        BY <1>2, <3>2, <4>2
    <3>. QED
      BY <3>1, <3>2
  <2>. QED
    BY <1>2, <2>1 DEF PropInv
<1>3. CASE CallService
  <2>1. /\ work # <<>> /\ ServiceCall(Head(work)) /\ work' = Tail(work)
        /\ UNCHANGED <<aborted, reaping>>
    BY <1>3 DEF CallService, crashVars
  <2>2. Head(work) \in Call
    <3>1. work \in Seq(Call)
      BY <1>0
    <3>. QED
      BY <2>1, <3>1
  <2>3. Head(work).svc \in Services /\ CallStep(Head(work).svc, Head(work).op \in ExecOps)
    BY <2>1, <2>2, CallShape DEF Call
  <2>. QED
    BY <1>2, <2>1, <2>3
<1>4. CASE MarkPostData \/ ClearDelayed \/ SetDefaultMountNamespaceReady \/ MarkServicesUpdate
  <2>1. UNCHANGED <<svcProp, pid, flags, aborted, reaping>> /\ work # <<>>
    BY <1>4 DEF MarkPostData, ClearDelayed, SetDefaultMountNamespaceReady, MarkServicesUpdate,
       startVars, crashVars
  <2>2. work' = Tail(work) \/ Head(work).op = "MarkServicesUpdate"
    BY <1>4 DEF MarkPostData, ClearDelayed, SetDefaultMountNamespaceReady, MarkServicesUpdate
  <2>3. ASSUME NEW r, Spares(work, r) PROVE Spares(work', r)
    <3>1. work \in Seq(Call)
      BY <1>0
    <3>2. Spares(Tail(work), r) /\ Head(work).op # "MarkServicesUpdate"
      BY <2>1, <2>3, <3>1, SparesTail
    <3>. QED
      BY <2>2, <3>2
  <2>. QED
    BY <2>1, <2>3 DEF PropInv, Told
<1>5. CASE ExecuteOneCommand \/ HandleControlMessage \/ BootCompletes
  BY <1>1, <1>5 DEF ExecuteOneCommand, HandleControlMessage, BootCompletes, startVars, crashVars
<1>6. ASSUME NEW s \in Services, Timeout(s) PROVE PropInv'
  <2>1. /\ MainIdle /\ "RUNNING" \in flags[s] /\ UNCHANGED <<flags, pid, work, reaping, aborted>>
        /\ svcProp' = IF s \in Temps THEN svcProp ELSE [svcProp EXCEPT ![s] = "stopping"]
    BY <1>6 DEF Timeout, Has, NotifyStateChange, crashVars
  <2>2. pid[s] # NoPid /\ "RESTARTING" \notin flags[s]
    BY <2>1 DEF IInv, SafeInv, RunningIffPid, OnlyWantedRestarts
  <2>. QED
    BY <1>0, <2>1, <2>2 DEF PropInv, Told
<1>7. ASSUME NEW s \in Services, RestartDue(s) PROVE PropInv'
  <2>1. Start(s) /\ MainIdle /\ UNCHANGED <<work, reaping, aborted>>
    BY <1>7 DEF RestartDue, crashVars
  <2>. QED
    BY <1>2, <2>1, StartShape
<1>8. ASSUME NEW s \in Services, TimePasses(s) PROVE PropInv'
  BY <1>1, <1>8 DEF TimePasses
<1>9. ASSUME NEW p \in Pids, ReapUntracked(p) \/ ProcessExits(p) \/ OrphanExits(p)
      PROVE  PropInv'
  BY <1>1, <1>9 DEF ReapUntracked, ProcessExits, OrphanExits, crashVars
<1>10. ASSUME NEW s \in Services, NEW p \in Pids, Reaped(s, p) PROVE PropInv'
  <2>1. /\ MainIdle /\ pid' = [pid EXCEPT ![s] = NoPid] /\ pid[s] = p
        /\ \E f : flags' = [flags EXCEPT ![s] = f]
    BY <1>10, ReapShape
  <2>2. ~aborted /\ reaping.svc \notin Configured
    BY <1>0, <2>1 DEF MainIdle, NotReaping
  <2>3. \A r \in Configured : RestartsItself(r) \/ Told(r)
    BY <2>2 DEF PropInv
  <2>4. \A r \in Configured : r # s => pid'[r] = pid[r] /\ flags'[r] = flags[r]
    BY <1>0, <2>1
  <2>5. CASE ReapTemporary(s, p)
    BY <1>0, <2>2, <2>3, <2>4, <2>5 DEF ReapTemporary, PropInv, Told
  <2>6. CASE ReapStopped(s, p)
    <3>1. /\ flags' = [flags EXCEPT ![s] = FlagsWhenDown(s, p)] /\ s \in Configured
          /\ svcProp' = [svcProp EXCEPT ![s] = "stopped"] /\ reaping' = reaping
      BY <1>0, <2>6 DEF ReapStopped, NotifyStateChange
    <3>2. "RESTARTING" \notin flags[s]
      BY <1>0, <2>1 DEF IInv, SafeInv, OnlyWantedRestarts
    <3>3. "RESTARTING" \notin FlagsWhenDown(s, p)
      BY <3>2 DEF FlagsWhenDown, FlagsAfterExit
    <3>4. Told(s)'
      BY <1>0, <2>1, <3>1, <3>3 DEF Told
    <3>5. \A r \in Configured : r # s => svcProp'[r] = svcProp[r]
      BY <1>0, <3>1
    <3>. QED
      BY <2>2, <2>3, <2>4, <3>1, <3>4, <3>5 DEF PropInv, Told
  <2>7. CASE ReapFatal(s, p)
    BY <2>7 DEF ReapFatal, PropInv
  <2>8. CASE ReapRestarting(s, p)
    <3>1. /\ reaping' = [svc |-> s, pid |-> p] /\ work' = OnRestart[s] /\ svcProp' = svcProp
          /\ s \in Configured
      BY <2>8 DEF ReapRestarting
    <3>2. RestartsItself(s) \/ Spares(work', s)
      BY <3>1 DEF RestartsItself, Spares
    <3>3. reaping'.svc = s /\ pid'[s] = NoPid
      BY <1>0, <2>1, <3>1
    <3>. QED
      BY <2>3, <2>4, <3>1, <3>2, <3>3 DEF PropInv, Told
  <2>. QED
    BY <1>10, <2>5, <2>6, <2>7, <2>8 DEF Reaped
<1>11. CASE FinishReap
  <2>1. /\ ~aborted /\ UNCHANGED <<pid, flags, aborted>> /\ reaping' = NotReaping
        /\ svcProp' = IF reaping.svc \in Temps THEN svcProp
                      ELSE [svcProp EXCEPT ![reaping.svc] = "restarting"]
    BY <1>11 DEF FinishReap, NotifyStateChange, crashVars
  <2>2. ASSUME NEW r \in Configured, ~RestartsItself(r) PROVE Told(r)'
    <3>1. CASE reaping.svc = r
      BY <1>0, <2>1, <2>2, <3>1 DEF PropInv, Told
    <3>2. CASE reaping.svc # r
      BY <1>0, <2>1, <2>2, <3>2 DEF PropInv, Told
    <3>. QED
      BY <3>1, <3>2
  <2>. QED
    BY <1>0, <2>1, <2>2 DEF PropInv, NotReaping
<1>12. CASE UNCHANGED vars
  BY <1>1, <1>12 DEF vars, crashVars
<1>13. ASSUME NEW p \in Pids, ReapOneProcess(p) PROVE PropInv'
  BY <1>9, <1>10, <1>13 DEF ReapOneProcess, Reaped
<1>. QED
  BY <1>3, <1>4, <1>5, <1>6, <1>7, <1>8, <1>9, <1>11, <1>12, <1>13 DEF Next

\* Whenever the main loop is between two iterations, init.svc.<name> says whether the
\* service has a process, and a service that waits for its restart says so, whatever
\* starts have failed, for every service whose onrestart commands leave it alone.
THEOREM SvcPropIsAlwaysTrue == Spec => []SvcPropIsTrue
<1>1. ASSUME Init PROVE PropInv
  <2>1. /\ \A s \in Configured : pid[s] = NoPid /\ svcProp[s] = "" /\ flags[s] = RcFlags[s]
        /\ reaping.svc \notin Configured
    BY <1>1, ServiceConstants DEF Init, Services, NotReaping
  <2>2. \A s \in Configured : "RESTARTING" \notin RcFlags[s]
    BY ServiceConstants
  <2>. QED
    BY <2>1, <2>2 DEF PropInv, Told
<1>2. ASSUME PropInv PROVE SvcPropIsTrue
  BY <1>2, ServiceConstants DEF PropInv, SvcPropIsTrue, Told, MainIdle, NotReaping, Services
<1>. QED
  BY <1>1, <1>2, PropStep, AlwaysListed, PTL DEF Spec

-----------------------------------------------------------------------------
(* Commands wait for exec services. *)

\* exec and exec_start are commands of their own (do_exec, do_exec_start), which no
\* control message makes, and which are not used as onrestart commands: these run
\* while another exec service may be running, and is_exec_service_running_ is one
\* flag for all.
OneExecAtATime ==
  /\ \A c \in Commands : (\E i \in DOMAIN c : c[i].op \in ExecOps) => Len(c) = 1
  /\ \A c \in CtlCalls : c.op \notin ExecOps
  /\ \A s \in Configured : \A i \in DOMAIN OnRestart[s] : OnRestart[s][i].op \notin ExecOps

\* The flag of an exec service: at most one service has it, while it has a process,
\* and then no exec call is pending.
ExecFlags ==
  /\ execRunning <=> \E s \in Services : "EXEC" \in flags[s]
  /\ \A s \in Services : "EXEC" \in flags[s] => pid[s] # NoPid
  /\ \A r, s \in Services : "EXEC" \in flags[r] /\ "EXEC" \in flags[s] => r = s

ExecPending ==
  (\E i \in DOMAIN work : work[i].op \in ExecOps) => Len(work) = 1 /\ ~execRunning

ExecInv == ExecFlags /\ ExecPending

\* A call keeps the flag EXEC of the service and waits for it as before, or it is an
\* exec call that starts the wait.
LEMMA CallExec ==
  ASSUME IInv, NEW s \in Services, NEW exec, CallStep(s, exec),
         "EXEC" \in flags[s] => pid[s] # NoPid
  PROVE  /\ \A r \in Services : /\ r # s => flags'[r] = flags[r]
                                /\ pid[r] # NoPid => pid'[r] # NoPid
         /\ \/ /\ "EXEC" \in flags'[s] <=> "EXEC" \in flags[s]
               /\ execRunning' = execRunning
            \/ exec /\ "EXEC" \in flags'[s] /\ pid'[s] # NoPid /\ execRunning'
<1>0. /\ flags \in [Services -> SUBSET Flag] /\ pid \in [Services -> Pids \cup {NoPid}]
      /\ NoPid \notin Pids /\ execRunning \in BOOLEAN
  BY ServiceConstants DEF IInv, TypeOK
<1>1. CASE UNCHANGED startVars \/ PutOff(s)
  BY <1>0, <1>1 DEF startVars, PutOff
<1>2. ASSUME NEW how \in {"DISABLED", "RESET", "RESTART"}, StopOrReset(s, how)
      PROVE  /\ UNCHANGED <<pid, execRunning>>
             /\ \A r \in Services : r # s => flags'[r] = flags[r]
             /\ "EXEC" \in flags'[s] <=> "EXEC" \in flags[s]
  <2>1. /\ flags' = [flags EXCEPT ![s] = StopFlags(flags[s], how)]
        /\ UNCHANGED <<pid, execRunning>>
    BY <1>2 DEF StopOrReset
  <2>2. "EXEC" \in StopFlags(flags[s], how) <=> "EXEC" \in flags[s]
    BY <1>0 DEF StopFlags
  <2>. QED
    BY <1>0, <2>1, <2>2
<1>3. CASE \E f : SetFlagsOnly(s, f) /\ OtherFlags(f, flags[s])
  BY <1>0, <1>3 DEF SetFlagsOnly, OtherFlags
<1>4. ASSUME NEW f, NEW x \in SUBSET {"EXEC"}, Startable(s, f), x # {} => exec,
             StartWith(s, f, x)
      PROVE  /\ \A r \in Services : /\ r # s => flags'[r] = flags[r]
                                    /\ pid[r] # NoPid => pid'[r] # NoPid
             /\ \/ /\ "EXEC" \in flags'[s] <=> "EXEC" \in flags[s]
                   /\ execRunning' = execRunning
                \/ exec /\ "EXEC" \in flags'[s] /\ pid'[s] # NoPid /\ execRunning'
  <2>1. "EXEC" \in ClearedForStart(f) <=> "EXEC" \in flags[s]
    BY <1>0, <1>4 DEF ClearedForStart, Startable
  <2>2. x = {} \/ x = {"EXEC"}
    OBVIOUS
  <2>3. CASE StartRunning(s, f, x)
    <3>1. /\ pid[s] # NoPid /\ pid' = pid /\ execRunning' = (execRunning \/ x # {})
          /\ \E y \in {{}, {"RESTART"}} :
               flags' = [flags EXCEPT ![s] = ClearedForStart(f) \cup x \cup y]
      BY <1>4, <2>3 DEF StartRunning, SetExec, Startable
    <3>2. PICK y \in {{}, {"RESTART"}} :
            flags' = [flags EXCEPT ![s] = ClearedForStart(f) \cup x \cup y]
      BY <3>1
    <3>3. flags'[s] = ClearedForStart(f) \cup x \cup y /\ "EXEC" \notin y
      BY <1>0, <3>2
    <3>4. "EXEC" \in flags'[s] <=> "EXEC" \in flags[s] \/ x # {}
      BY <2>1, <2>2, <3>3
    <3>. QED
      BY <1>0, <1>4, <2>2, <3>1, <3>4
  <2>4. CASE StartFails(s, f)
    <3>1. /\ UNCHANGED <<pid, execRunning>>
          /\ \/ flags' = flags
             \/ \E y \in {{}, {"DISABLED"}} :
                  flags' = [flags EXCEPT ![s] = ClearedForStart(f) \cup y]
      BY <2>4 DEF StartFails
    <3>. QED
      BY <1>0, <2>1, <3>1
  <2>5. CASE StartForks(s, f, x)
    <3>1. /\ \E p \in Pids : pid' = [pid EXCEPT ![s] = p]
          /\ execRunning' = (execRunning \/ x # {})
          /\ flags' = [flags EXCEPT ![s] = ClearedForStart(f) \cup x \cup {"RUNNING"}]
      BY <2>5 DEF StartForks, SetExec
    <3>2. "EXEC" \in flags'[s] <=> "EXEC" \in flags[s] \/ x # {}
      BY <1>0, <2>1, <2>2, <3>1
    <3>3. pid'[s] # NoPid /\ \A r \in Services : pid[r] # NoPid => pid'[r] # NoPid
      BY <1>0, <3>1
    <3>4. \A r \in Services : r # s => flags'[r] = flags[r]
      BY <1>0, <3>1
    <3>. QED
      BY <1>0, <1>4, <2>2, <3>1, <3>2, <3>3, <3>4
  <2>. QED
    BY <1>4, <2>3, <2>4, <2>5 DEF StartWith
<1>. QED
  BY <1>1, <1>2, <1>3, <1>4 DEF CallStep

\* A pending exec call is the only one: when the head is another call, there is none.
LEMMA NoneInTail ==
  ASSUME NEW A, NEW q \in Seq(A), q # <<>>,
         (\E i \in DOMAIN q : q[i].op \in ExecOps) => Len(q) = 1
  PROVE  \A i \in DOMAIN Tail(q) : Tail(q)[i].op \notin ExecOps
<1>1. /\ Len(q) \in Nat \ {0} /\ DOMAIN q = 1..Len(q)
      /\ Tail(q) \in Seq(A) /\ Len(Tail(q)) = Len(q) - 1
      /\ \A j \in 1..(Len(q) - 1) : Tail(q)[j] = q[j + 1]
  OBVIOUS
<1>2. DOMAIN Tail(q) = 1..(Len(q) - 1)
  BY <1>1
<1>3. SUFFICES ASSUME NEW i \in 1..(Len(q) - 1), q[i + 1].op \in ExecOps PROVE FALSE
  BY <1>1, <1>2
<1>4. i + 1 \in DOMAIN q
  BY <1>1, <1>3
<1>5. Len(q) = 1
  BY <1>3, <1>4
<1>. QED
  BY <1>3, <1>5

\* Every step keeps the flag and what is waited for together.
LEMMA ExecFlagsStep ==
  ASSUME IInv, Listed, ExecInv, [Next]_vars
  PROVE  ExecFlags'
<1>0. /\ flags \in [Services -> SUBSET Flag] /\ pid \in [Services -> Pids \cup {NoPid}]
      /\ NoPid \notin Pids /\ execRunning \in BOOLEAN /\ work \in Seq(Call)
  BY ServiceConstants DEF IInv, TypeOK
<1>1. CASE Silent
  BY <1>1 DEF Silent, ExecInv, ExecFlags
<1>2. ASSUME NEW s \in Services, Called(s) PROVE ExecFlags'
  <2>1. PICK exec \in BOOLEAN :
          /\ CallStep(s, exec)
          /\ exec => work # <<>> /\ Head(work).op \in ExecOps
    BY <1>2 DEF Called
  <2>2. "EXEC" \in flags[s] => pid[s] # NoPid
    BY DEF ExecInv, ExecFlags
  <2>3. /\ \A r \in Services : /\ r # s => flags'[r] = flags[r]
                               /\ pid[r] # NoPid => pid'[r] # NoPid
        /\ \/ /\ "EXEC" \in flags'[s] <=> "EXEC" \in flags[s]
              /\ execRunning' = execRunning
           \/ exec /\ "EXEC" \in flags'[s] /\ pid'[s] # NoPid /\ execRunning'
    BY <2>1, <2>2, CallExec
  <2>4. CASE /\ "EXEC" \in flags'[s] <=> "EXEC" \in flags[s]
             /\ execRunning' = execRunning
    <3>1. \A r \in Services : "EXEC" \in flags'[r] <=> "EXEC" \in flags[r]
      BY <2>3, <2>4
    <3>. QED
      BY <2>3, <2>4, <3>1 DEF ExecInv, ExecFlags
  <2>5. CASE exec /\ "EXEC" \in flags'[s] /\ pid'[s] # NoPid /\ execRunning'
    <3>1. ~execRunning
      <4>1. 1 \in DOMAIN work /\ work[1].op \in ExecOps
        BY <1>0, <2>1, <2>5
      <4>. QED
        BY <4>1 DEF ExecInv, ExecPending
    <3>2. \A r \in Services : "EXEC" \notin flags[r]
      BY <3>1 DEF ExecInv, ExecFlags
    <3>. QED
      BY <2>3, <2>5, <3>2 DEF ExecFlags
  <2>. QED
    BY <2>3, <2>4, <2>5
<1>3. ASSUME NEW s \in Services, NEW p \in Pids, Reaped(s, p) PROVE ExecFlags'
  <2>1. /\ pid' = [pid EXCEPT ![s] = NoPid]
        /\ execRunning' = (execRunning /\ "EXEC" \notin flags[s])
        /\ \E f : flags' = [flags EXCEPT ![s] = f]
    BY <1>3, ReapShape
  <2>2. "EXEC" \notin flags'[s]
    <3>1. CASE s \in Configured
      <4>1. "EXEC" \notin FlagsWhenDown(s, p)
        BY DEF FlagsWhenDown, FlagsAfterExit
      <4>. QED
        BY <1>0, <1>3, <3>1, <4>1, ReapFlags
    <3>2. CASE s \in Temps
      BY <1>3, <3>2, ReapShape, ServiceConstants
    <3>. QED
      BY <3>1, <3>2 DEF Services
  <2>3. \A r \in Services : r # s => flags'[r] = flags[r] /\ pid'[r] = pid[r]
    BY <1>0, <2>1
  <2>. QED
    BY <1>0, <2>1, <2>2, <2>3 DEF ExecInv, ExecFlags
<1>. QED
  BY <1>1, <1>2, <1>3, NextShape

\* Calls are queued so that an exec call is pending alone and while nothing is
\* waited for.
LEMMA ExecPendingStep ==
  ASSUME OneExecAtATime, IInv, Listed, ExecInv, [Next]_vars
  PROVE  ExecPending'
<1>0. /\ work \in Seq(Call) /\ delayed \in Seq(Services) /\ execRunning \in BOOLEAN
  BY DEF IInv, TypeOK
<1>1. CASE work' = <<>> \/ \A i \in DOMAIN work' : work'[i].op \notin ExecOps
  <2>1. CASE work' = <<>>
    <3>1. DOMAIN work' = 1..0
      BY <2>1
    <3>. QED
      BY <3>1 DEF ExecPending
  <2>. QED
    BY <1>1, <2>1 DEF ExecPending
<1>2. CASE work # <<>> /\ work' = Tail(work)
  BY <1>0, <1>1, <1>2, NoneInTail DEF ExecInv, ExecPending
<1>3. CASE UNCHANGED <<work, execRunning>>
  BY <1>3 DEF ExecInv, ExecPending
<1>4. CASE CallService \/ MarkPostData \/ ClearDelayed \/ SetDefaultMountNamespaceReady
  BY <1>2, <1>4 DEF CallService, MarkPostData, ClearDelayed, SetDefaultMountNamespaceReady
<1>5. CASE MarkServicesUpdate
  <2>. DEFINE c == [op |-> "clear_delayed", svc |-> Head(work).svc]
              t == Tail(work)
  <2>1. work # <<>> /\ work' = DelayedStarts \o <<c>> \o t
    BY <1>5 DEF MarkServicesUpdate
  <2>2. Head(work) \in Call /\ t \in Seq(Call)
    BY <1>0, <2>1
  <2>3. c \in Call /\ c.op \notin ExecOps
    BY <2>2 DEF Call, CallName, ExecOps
  <2>4. \A i \in DOMAIN t : t[i].op \notin ExecOps
    BY <1>0, <2>1, NoneInTail DEF ExecInv, ExecPending
  <2>. HIDE DEF c, t
  <2>. DEFINE w == DelayedStarts \o <<c>> \o t
  <2>5. /\ DOMAIN w = 1..(Len(delayed) + 1 + Len(t))
        /\ \A i \in 1..Len(delayed) : w[i].op = "Start"
        /\ w[Len(delayed) + 1] = c
        /\ \A i \in 1..Len(t) : w[Len(delayed) + 1 + i] = t[i]
    BY <1>0, <2>2, <2>3, WithDelayedStarts DEF DelayedStarts
  <2>6. work' = w
    BY <2>1
  <2>. HIDE DEF w
  <2>7. Len(delayed) \in Nat /\ Len(t) \in Nat /\ DOMAIN t = 1..Len(t)
    BY <1>0, <2>2
  <2>8. ASSUME NEW i \in DOMAIN w PROVE w[i].op \notin ExecOps
    <3>1. CASE i \in 1..Len(delayed)
      BY <2>5, <3>1 DEF ExecOps
    <3>2. CASE i = Len(delayed) + 1
      BY <2>3, <2>5, <3>2
    <3>3. CASE i > Len(delayed) + 1
      <4>1. i - Len(delayed) - 1 \in 1..Len(t)
        BY <2>5, <2>7, <3>3
      <4>2. i = Len(delayed) + 1 + (i - Len(delayed) - 1)
        <5>1. \A m \in Int, n \in Nat : m = n + 1 + (m - n - 1)
          OBVIOUS
        <5>2. i \in Int
          BY <2>5
        <5>. QED
          BY <2>7, <5>1, <5>2
      <4>3. w[i] = t[i - Len(delayed) - 1]
        BY <2>5, <4>1, <4>2
      <4>. QED
        BY <2>4, <2>7, <4>1, <4>3
    <3>. QED
      BY <2>5, <2>7, <3>1, <3>2, <3>3
  <2>. QED
    BY <1>1, <2>6, <2>8
<1>6. CASE ExecuteOneCommand
  <2>1. work' \in Commands /\ ~execRunning /\ execRunning' = execRunning
    BY <1>6 DEF ExecuteOneCommand, startVars
  <2>. QED
    BY <2>1 DEF OneExecAtATime, ExecPending
<1>7. CASE HandleControlMessage
  <2>1. PICK c \in CtlCalls : work' = <<c>>
    BY <1>7 DEF HandleControlMessage
  <2>2. \A i \in DOMAIN work' : work'[i] = c
    BY <2>1
  <2>. QED
    BY <1>1, <2>2 DEF OneExecAtATime
<1>8. ASSUME NEW s \in Services, Timeout(s) \/ RestartDue(s) \/ TimePasses(s)
      PROVE  ExecPending'
  <2>1. CASE Timeout(s) \/ TimePasses(s)
    BY <1>3, <2>1 DEF Timeout, TimePasses
  <2>2. CASE RestartDue(s)
    BY <1>1, <2>2 DEF RestartDue, MainIdle
  <2>. QED
    BY <1>8, <2>1, <2>2
<1>9. ASSUME NEW p \in Pids, ReapOneProcess(p) \/ ProcessExits(p) \/ OrphanExits(p)
      PROVE  ExecPending'
  <2>1. CASE ReapUntracked(p) \/ ProcessExits(p) \/ OrphanExits(p)
    BY <1>3, <2>1 DEF ReapUntracked, ProcessExits, OrphanExits
  <2>2. ASSUME NEW s \in Services, ReapTemporary(s, p) \/ ReapStopped(s, p) \/ ReapFatal(s, p)
        PROVE  ExecPending'
    BY <1>1, <2>2 DEF ReapTemporary, ReapStopped, ReapFatal, MainIdle
  <2>3. ASSUME NEW s \in Services, ReapRestarting(s, p) PROVE ExecPending'
    BY <1>1, <2>3 DEF ReapRestarting, OneExecAtATime
  <2>. QED
    BY <1>9, <2>1, <2>2, <2>3 DEF ReapOneProcess
<1>10. CASE FinishReap \/ BootCompletes \/ UNCHANGED vars
  BY <1>3, <1>10 DEF FinishReap, BootCompletes, startVars, vars
<1>. QED
  BY <1>4, <1>5, <1>6, <1>7, <1>8, <1>9, <1>10 DEF Next

\* Commands are held back exactly while a listed service that was started by exec or
\* exec_start has a process: init neither waits for a child that is gone nor goes on
\* while one runs.
THEOREM ExecAlwaysWaits ==
  ASSUME OneExecAtATime
  PROVE  Spec => []ExecCommands
<1>1. ASSUME Init PROVE ExecInv
  <2>1. /\ flags = [s \in Services |-> IF s \in Configured THEN RcFlags[s] ELSE {}]
        /\ work = <<>> /\ execRunning = FALSE
    BY <1>1 DEF Init
  <2>2. \A s \in Services : "EXEC" \notin flags[s]
    BY <2>1, ServiceConstants
  <2>3. DOMAIN work = 1..0
    BY <2>1
  <2>. QED
    BY <2>1, <2>2, <2>3 DEF ExecInv, ExecFlags, ExecPending
<1>2. IInv /\ Listed /\ ExecInv /\ [Next]_vars => ExecInv'
  BY ExecFlagsStep, ExecPendingStep DEF ExecInv
<1>3. IInv /\ ExecInv => ExecCommands
  BY DEF ExecInv, ExecFlags, ExecCommands, ExecHasProcess, ExecHoldsCommands, IInv, SafeInv,
     PidIsOwnChild
<1>. QED
  BY <1>1, <1>2, <1>3, AlwaysListed, PTL DEF Spec
=============================================================================
