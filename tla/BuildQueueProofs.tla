--------------------------- MODULE BuildQueueProofs ---------------------------
(***************************************************************************)
(* Proofs about BuildQueue for any number of administrators, workers,      *)
(* profiles, platforms and jobs, with processes that die anywhere, over    *)
(* both stores: types, and every safety property its runs check.           *)
(***************************************************************************)
EXTENDS BuildQueue, TLAPS

-----------------------------------------------------------------------------
(* The inductive invariant *)

Events ==
  [action : {"create_build_profile", "update_build_profile", "delete_build_profile"},
   id : Profiles]
  \cup [action : {"create_build_job"}, id : JobIds]

Deletion == [action : {"delete_build_profile"}, id : Profiles]

(* What a request in flight still relies on: a job it is to retry has      *)
(* ended, and so has the source of a job it is to insert; one it is to     *)
(* cancel exists                                                           *)
TaskOf(a) ==
  /\ apc[a] = "insert" =>
       /\ task[a] \in Order
       /\ task[a].source # None => status[task[a].source] \in Ended
  /\ apc[a] = "retry" => task[a].id \in JobIds /\ status[task[a].id] \in Ended
  /\ apc[a] = "cancel" => task[a].id \in JobIds /\ status[task[a].id] # "none"
  /\ apc[a] = "delete" => task[a] \in Deletion
  /\ apc[a] = "audit" => task[a] \in Events

(* Rows are inserted in the order of their ids, and a job that has been    *)
(* started is never queued again; before, nothing is recorded of it        *)
JobOf(j) ==
  /\ status[j] = "none" <=> j >= nextJob
  /\ status[j] # "none" => jobOf[j] \in Order
  /\ started[j] => status[j] \notin {"none", "queued"}
  /\ ~started[j] => artifacts[j] = 0 /\ reported[j] = 0

(* A worker's job has been started and is running, unless it was canceled  *)
(* since; the artifacts it has still to record are all that are missing    *)
WorkOf(w) ==
  /\ wpc[w] = "idle" => job[w] = None
  /\ wpc[w] # "idle" => /\ job[w] \in JobIds
                        /\ started[job[w]]
                        /\ status[job[w]] \in {"running", "canceled"}
  /\ wpc[w] \in {"load", "build"} => artifacts[job[w]] = 0 /\ reported[job[w]] = 0
  /\ wpc[w] = "record" => artifacts[job[w]] + left[w] = reported[job[w]]

(* A job that has been retried is not queued or running *)
SourcesEnded ==
  \A j \in JobIds :
    status[j] # "none" /\ jobOf[j].source # None => status[jobOf[j].source] \in Ended

TaskInv == DOMAIN task = Admins /\ \A a \in Admins : TaskOf(a)
JobInv == \A j \in JobIds : JobOf(j)
WorkInv == \A w \in Workers : WorkOf(w)

Inv ==
  /\ TypeOK
  /\ TaskInv
  /\ JobInv
  /\ WorkInv
  /\ OneWorkerPerJob
  /\ NoOvertaking
  /\ SucceededComplete
  /\ SourcesEnded
  /\ ForeignKeys => JobsHaveProfile

(* Nothing has been asked for at the start *)
LEMMA InvInit == Init => Inv
<1> SUFFICES ASSUME Init PROVE Inv
  OBVIOUS
<1>1. MaxJobs \in Nat /\ MaxArtifacts \in Nat /\ None \notin Nat
  BY BoundAssumption, NoneAssumption
<1>2. TypeOK
  BY <1>1 DEF Init, TypeOK, Order, Statuses, JobIds
<1>3. TaskInv /\ WorkInv
  BY DEF Init, TaskInv, TaskOf, WorkInv, WorkOf
<1>4. JobInv
  BY <1>1 DEF Init, JobInv, JobOf, JobIds
<1> QED
  BY <1>2, <1>3, <1>4 DEF Init, Inv, OneWorkerPerJob, NoOvertaking, SucceededComplete,
     SourcesEnded, JobsHaveProfile

-----------------------------------------------------------------------------
(* Administrator requests *)

Rows == <<nextJob, status, jobOf, started, artifacts>>

(* A step of a request that leaves the jobs alone has only to show what    *)
(* its own task relies on, and that no job has lost its profile            *)
LEMMA RequestKeepsInv ==
  ASSUME Inv, NEW a \in Admins, NEW from, NEW to, NEW t, Step(a, from, to, t),
         UNCHANGED Rows,
         to \in {"idle", "audit", "delete", "insert", "retry", "cancel"},
         profiles' \in [Profiles -> {"absent", "present", "deleted"}],
         enabled' \in [Profiles -> SUBSET Platforms],
         auditLog' \subseteq Events,
         TaskOf(a)',
         ForeignKeys => JobsHaveProfile'
  PROVE  Inv'
<1>1. /\ UNCHANGED worker /\ task' = [task EXCEPT ![a] = t]
      /\ apc' = [apc EXCEPT ![a] = to]
  BY DEF Step
<1>2. TypeOK'
  BY <1>1 DEF Inv, TypeOK, Rows, worker, Events
<1>3. ASSUME NEW b \in Admins PROVE TaskOf(b)'
  <2>1. CASE b # a
    <3>1. apc'[b] = apc[b]
      BY <1>1, <2>1 DEF Inv, TypeOK
    <3>2. ASSUME apc[b] # "idle" PROVE task'[b] = task[b]
      BY <1>1, <2>1
    <3>3. TaskOf(b)
      BY DEF Inv, TaskInv
    <3> QED
      BY <3>1, <3>2, <3>3 DEF TaskOf, Rows
  <2> QED
    BY <2>1
<1>4. JobInv' /\ WorkInv'
  BY <1>1 DEF Inv, JobInv, JobOf, WorkInv, WorkOf, Rows, worker
<1>5. OneWorkerPerJob' /\ NoOvertaking' /\ SucceededComplete' /\ SourcesEnded'
  BY <1>1 DEF Inv, OneWorkerPerJob, NoOvertaking, SucceededComplete, SourcesEnded,
     Rows, worker
<1>6. DOMAIN task' = Admins
  BY <1>1 DEF Inv, TaskInv
<1> QED
  BY <1>2, <1>3, <1>4, <1>5, <1>6 DEF Inv, TaskInv

(* Requests of administrators other than the insert and the cancellation *)
LEMMA QuietRequests ==
  ASSUME Inv, NEW a \in Admins,
         \/ Request(a)
         \/ DeleteRow(a) \/ DeleteRefused(a) \/ RetryLoadProfile(a) \/ CreateRefused(a)
         \/ WriteAudit(a)
         \/ Drop(a)
  PROVE  Inv'
<1>1. Inv /\ TypeOK /\ TaskOf(a) /\ (ForeignKeys => JobsHaveProfile)
  BY DEF Inv, TaskInv
<1>2. apc[a] \in {"idle", "audit", "delete", "insert", "retry", "cancel"}
  BY <1>1 DEF TypeOK
<1>3. /\ profiles \in [Profiles -> {"absent", "present", "deleted"}]
      /\ enabled \in [Profiles -> SUBSET Platforms]
      /\ auditLog \subseteq Events
  BY <1>1 DEF TypeOK, Events
<1>4. ASSUME NEW from, NEW to, NEW t, Step(a, from, to, t)
      PROVE  apc'[a] = to /\ task'[a] = t
  BY <1>1, <1>4 DEF Step, TypeOK, Inv, TaskInv
<1>5. ASSUME NEW p \in Profiles, NEW event, WriteProfile(a, p, event),
             event \in {"create_build_profile", "update_build_profile"}
      PROVE  Inv'
  <2>1. PICK platforms \in (SUBSET Platforms) \ {{}} :
          /\ profiles' = [profiles EXCEPT ![p] = "present"]
          /\ enabled' = [enabled EXCEPT ![p] = platforms]
          /\ Step(a, "idle", "audit", Event(event, p))
          /\ UNCHANGED <<nextJob, status, jobOf, started, artifacts, auditLog>>
    BY <1>5 DEF WriteProfile
  <2>2. TaskOf(a)'
    BY <1>4, <1>5, <2>1 DEF TaskOf, Event, Events
  <2>3. ForeignKeys => JobsHaveProfile'
    BY <1>1, <1>3, <2>1 DEF JobsHaveProfile, Exists
  <2> QED
    BY <1>1, <1>3, <2>1, <2>2, <2>3, RequestKeepsInv DEF Rows
<1>6. ASSUME NEW p \in Profiles, NEW from, RemoveProfile(a, from, p), ~Referenced(p)
      PROVE  Inv'
  <2>1. /\ profiles' = [profiles EXCEPT ![p] = "deleted"]
        /\ Step(a, from, "audit", Event("delete_build_profile", p))
        /\ UNCHANGED <<enabled, nextJob, status, jobOf, started, artifacts, auditLog>>
    BY <1>6 DEF RemoveProfile
  <2>2. TaskOf(a)'
    BY <1>4, <2>1 DEF TaskOf, Event, Events
  <2>3. ForeignKeys => JobsHaveProfile'
    BY <1>1, <1>3, <1>6, <2>1 DEF JobsHaveProfile, Exists, Referenced
  <2> QED
    BY <1>1, <1>3, <2>1, <2>2, <2>3, RequestKeepsInv DEF Rows
<1>7. ASSUME NEW from, NEW to, NEW t, Step(a, from, to, t), UNCHANGED store,
             to \in {"idle", "audit", "delete", "insert", "retry", "cancel"}, TaskOf(a)'
      PROVE  Inv'
  <2>1. UNCHANGED Rows /\ profiles' = profiles /\ enabled' = enabled /\ auditLog' = auditLog
    BY <1>7 DEF store, Rows
  <2>2. ForeignKeys => JobsHaveProfile'
    BY <1>1, <2>1 DEF JobsHaveProfile, Exists, Rows
  <2> QED
    BY <1>1, <1>3, <1>7, <2>1, <2>2, RequestKeepsInv
<1>8. ASSUME NEW from, Step(a, from, "idle", None), UNCHANGED store PROVE Inv'
  BY <1>4, <1>7, <1>8 DEF TaskOf
<1>9. CASE Request(a)
  <2>1. CASE CreateBuildProfile(a)
    BY <1>5, <2>1 DEF CreateBuildProfile
  <2>2. CASE UpdateBuildProfile(a)
    BY <1>5, <2>2 DEF UpdateBuildProfile
  <2>3. CASE DeleteInMemory(a)
    BY <1>6, <2>3 DEF DeleteInMemory
  <2>4. CASE CountReferences(a)
    <3>1. PICK p \in Profiles : /\ Step(a, "idle", "delete", Event("delete_build_profile", p))
                                /\ UNCHANGED store
      BY <2>4 DEF CountReferences
    <3>2. TaskOf(a)'
      BY <1>4, <3>1 DEF TaskOf, Event, Deletion
    <3> QED
      BY <1>7, <3>1, <3>2
  <2>5. CASE RequestJob(a)
    <3>1. PICK p \in Profiles, f \in Platforms :
            /\ Step(a, "idle", "insert", [profile |-> p, platform |-> f, source |-> None])
            /\ UNCHANGED store
      BY <2>5 DEF RequestJob
    <3>2. TaskOf(a)'
      BY <1>4, <3>1 DEF TaskOf, Order
    <3> QED
      BY <1>7, <3>1, <3>2
  <2>6. CASE RequestCancel(a)
    <3>1. PICK j \in JobIds : /\ status[j] = "queued"
                              /\ Step(a, "idle", "cancel", Event("cancel_build_job", j))
                              /\ UNCHANGED store
      BY <2>6 DEF RequestCancel
    <3>2. TaskOf(a)'
      BY <1>4, <3>1 DEF TaskOf, Event, store
    <3> QED
      BY <1>7, <3>1, <3>2
  <2>7. CASE RetryJob(a)
    <3>1. PICK j \in JobIds : /\ status[j] \notin {"none", "queued", "running"}
                              /\ Step(a, "idle", "retry", Event("retry_build_job", j))
                              /\ UNCHANGED store
      BY <2>7 DEF RetryJob
    <3>2. status[j] \in Ended
      BY <1>1, <3>1 DEF TypeOK, Statuses, Ended
    <3>3. TaskOf(a)'
      BY <1>4, <3>1, <3>2 DEF TaskOf, Event, store
    <3> QED
      BY <1>7, <3>1, <3>3
  <2> QED
    BY <1>9, <2>1, <2>2, <2>3, <2>4, <2>5, <2>6, <2>7 DEF Request
<1>10. CASE DeleteRow(a)
  BY <1>1, <1>6, <1>10 DEF DeleteRow, TaskOf, Deletion
<1>11. CASE DeleteRefused(a)
  BY <1>8, <1>11 DEF DeleteRefused
<1>12. CASE RetryLoadProfile(a)
  <2> DEFINE o == jobOf[task[a].id]
  <2>1. /\ apc[a] = "retry" /\ UNCHANGED store
        /\ \/ Step(a, "retry", "insert", [o EXCEPT !.source = task[a].id])
           \/ Step(a, "retry", "idle", None)
    BY <1>12 DEF RetryLoadProfile
  <2>2. task[a].id \in JobIds /\ status[task[a].id] \in Ended /\ o \in Order
    BY <1>1, <2>1 DEF TaskOf, Inv, JobInv, JobOf, Ended
  <2>3. CASE Step(a, "retry", "insert", [o EXCEPT !.source = task[a].id])
    <3> DEFINE t == [o EXCEPT !.source = task[a].id]
    <3>1. t \in Order /\ t.source = task[a].id
      BY <2>2 DEF Order
    <3>2. Step(a, "retry", "insert", t)
      BY <2>3
    <3> HIDE DEF t
    <3>3. apc'[a] = "insert" /\ task'[a] = t /\ status' = status
      BY <1>4, <2>1, <3>2 DEF store
    <3>4. TaskOf(a)'
      BY <2>2, <3>1, <3>3 DEF TaskOf
    <3> QED
      BY <1>7, <2>1, <3>2, <3>4
  <2> QED
    BY <1>8, <2>1, <2>3
<1>13. CASE CreateRefused(a)
  BY <1>8, <1>13 DEF CreateRefused
<1>14. CASE WriteAudit(a)
  <2>1. /\ Step(a, "audit", "idle", None) /\ UNCHANGED Rows
        /\ profiles' = profiles /\ enabled' = enabled
        /\ auditLog' = auditLog \cup {task[a]} /\ task[a] \in Events
    BY <1>1, <1>14 DEF WriteAudit, Step, TaskOf, Rows
  <2>2. TaskOf(a)'
    BY <1>4, <2>1 DEF TaskOf
  <2>3. ForeignKeys => JobsHaveProfile'
    BY <1>1, <2>1 DEF JobsHaveProfile, Exists, Rows
  <2> QED
    BY <1>1, <1>3, <2>1, <2>2, <2>3, RequestKeepsInv
<1>15. CASE Drop(a)
  BY <1>8, <1>15 DEF Drop
<1> QED
  BY <1>9, <1>10, <1>11, <1>12, <1>13, <1>14, <1>15

(* The next job is one that nobody has asked about or worked on *)
LEMMA InsertKeepsInv ==
  ASSUME Inv, NEW a \in Admins, CreateBuildJob(a)
  PROVE  Inv'
<1>1. /\ TypeOK /\ TaskOf(a) /\ JobInv /\ WorkInv /\ TaskInv
      /\ OneWorkerPerJob /\ NoOvertaking /\ SucceededComplete /\ SourcesEnded
      /\ MaxJobs \in Nat /\ None \notin Nat
  BY BoundAssumption, NoneAssumption DEF Inv, TaskInv
<1>2. /\ apc[a] = "insert" /\ task[a] \in Order
      /\ task[a].source # None => status[task[a].source] \in Ended
      /\ ForeignKeys => Exists(task[a].profile)
  BY <1>1 DEF CreateBuildJob, InsertJob, Step, Acceptable, TaskOf
<1>3. /\ nextJob \in JobIds
      /\ status' = [status EXCEPT ![nextJob] = "queued"]
      /\ jobOf' = [jobOf EXCEPT ![nextJob] = task[a]]
      /\ nextJob' = nextJob + 1
      /\ UNCHANGED <<profiles, enabled, started, artifacts, auditLog>>
      /\ UNCHANGED <<wpc, job, left, reported>>
      /\ apc' = [apc EXCEPT ![a] = "audit"]
      /\ task' = [task EXCEPT ![a] = Event("create_build_job", nextJob)]
  BY DEF CreateBuildJob, InsertJob, Step, worker
<1>4. status[nextJob] = "none" /\ ~started[nextJob]
  BY <1>1, <1>3 DEF JobInv, JobOf, JobIds
<1>5. TypeOK'
  BY <1>1, <1>2, <1>3 DEF TypeOK, Statuses, JobIds
<1>6. TaskInv'
  <2>1. ASSUME NEW b \in Admins PROVE TaskOf(b)'
    <3>1. TaskOf(b)
      BY <1>1 DEF TaskInv
    <3>2. CASE b = a
      BY <1>1, <1>3, <3>2 DEF TaskOf, TaskInv, TypeOK, Event, Events
    <3>3. CASE b # a
      <4>1. apc'[b] = apc[b] /\ task'[b] = task[b]
        BY <1>1, <1>3, <3>3 DEF TypeOK, TaskInv
      <4>2. \A j \in JobIds : status[j] # "none" => status'[j] = status[j]
        BY <1>1, <1>3, <1>4 DEF TypeOK
      <4> QED
        BY <3>1, <4>1, <4>2 DEF TaskOf, Ended, Order
    <3> QED
      BY <3>2, <3>3
  <2> QED
    BY <1>1, <1>3, <2>1 DEF TaskInv
<1>7. JobInv'
  BY <1>1, <1>2, <1>3, <1>4 DEF TypeOK, JobInv, JobOf, JobIds
<1>8. WorkInv'
  BY <1>1, <1>3, <1>4 DEF TypeOK, WorkInv, WorkOf
<1>9. OneWorkerPerJob' /\ SucceededComplete'
  BY <1>1, <1>3 DEF TypeOK, OneWorkerPerJob, SucceededComplete
<1>10. NoOvertaking'
  BY <1>1, <1>3, <1>4 DEF TypeOK, NoOvertaking, JobInv, JobOf, JobIds
<1>11. SourcesEnded'
  BY <1>1, <1>2, <1>3, <1>4 DEF TypeOK, SourcesEnded, JobInv, JobOf, Ended, Order
<1>12. ForeignKeys => JobsHaveProfile'
  BY <1>1, <1>2, <1>3 DEF TypeOK, JobsHaveProfile, Exists, Inv
<1> QED
  BY <1>5, <1>6, <1>7, <1>8, <1>9, <1>10, <1>11, <1>12 DEF Inv

-----------------------------------------------------------------------------
(* Jobs that end, and workers *)

(* Whoever writes the outcome of a job that exists, no request or other    *)
(* worker relies on the status it replaces                                 *)
LEMMA EndingKeeps ==
  ASSUME Inv, NEW j \in JobIds, NEW s \in Ended, status[j] # "none",
         status' = [status EXCEPT ![j] = s],
         UNCHANGED <<profiles, enabled, nextJob, jobOf, started, artifacts, auditLog,
                     reported>>
  PROVE  /\ status' \in [JobIds -> Statuses \cup {"none"}]
         /\ \A i \in JobIds : JobOf(i)'
         /\ \A a \in Admins : apc'[a] = apc[a] /\ task'[a] = task[a] => TaskOf(a)'
         /\ NoOvertaking' /\ SourcesEnded' /\ (ForeignKeys => JobsHaveProfile')
<1>1. TypeOK /\ JobInv /\ TaskInv
  BY DEF Inv
<1>2. /\ \A i \in JobIds : status'[i] = IF i = j THEN s ELSE status[i]
      /\ status' \in [JobIds -> Statuses \cup {"none"}]
      /\ s # "none" /\ s # "queued"
  BY <1>1 DEF TypeOK, Statuses, Ended
<1>3. ASSUME NEW i \in JobIds PROVE JobOf(i)'
  BY <1>1, <1>2 DEF JobInv, JobOf
<1>4. ASSUME NEW a \in Admins, apc'[a] = apc[a], task'[a] = task[a] PROVE TaskOf(a)'
  BY <1>1, <1>2, <1>4 DEF TaskInv, TaskOf, Order
<1>5. NoOvertaking'
  BY <1>2 DEF Inv, NoOvertaking
<1>6. SourcesEnded'
  BY <1>1, <1>2 DEF Inv, SourcesEnded, JobInv, JobOf, Order
<1>7. ForeignKeys => JobsHaveProfile'
  BY <1>2 DEF Inv, JobsHaveProfile, Exists
<1> QED
  BY <1>2, <1>3, <1>4, <1>5, <1>6, <1>7

(* A cancellation overwrites whatever has become of its job since it was   *)
(* read, but lets its worker finish what it has to record                  *)
LEMMA CancelKeepsInv ==
  ASSUME Inv, NEW a \in Admins, CancelBuildJob(a)
  PROVE  Inv'
<1> DEFINE j == task[a].id
<1>1. /\ TypeOK /\ TaskOf(a) /\ WorkInv /\ TaskInv
      /\ OneWorkerPerJob /\ SucceededComplete
  BY DEF Inv, TaskInv
<1>2. /\ apc[a] = "cancel" /\ j \in JobIds /\ status[j] # "none"
      /\ status' = [status EXCEPT ![j] = "canceled"]
      /\ UNCHANGED <<profiles, enabled, nextJob, jobOf, started, artifacts, auditLog>>
      /\ UNCHANGED <<wpc, job, left, reported>>
      /\ apc' = [apc EXCEPT ![a] = "idle"]
      /\ task' = [task EXCEPT ![a] = None]
  BY <1>1 DEF CancelBuildJob, FinishBuildJob, Step, worker, TaskOf
<1>3. "canceled" \in Ended
  BY DEF Ended
<1> HIDE DEF j
<1>4. /\ status' \in [JobIds -> Statuses \cup {"none"}]
      /\ \A i \in JobIds : JobOf(i)'
      /\ \A b \in Admins : apc'[b] = apc[b] /\ task'[b] = task[b] => TaskOf(b)'
      /\ NoOvertaking' /\ SourcesEnded' /\ (ForeignKeys => JobsHaveProfile')
  BY <1>2, <1>3, EndingKeeps
<1>5. \A i \in JobIds : status'[i] = IF i = j THEN "canceled" ELSE status[i]
  BY <1>1, <1>2 DEF TypeOK
<1>6. TypeOK'
  BY <1>1, <1>2, <1>4 DEF TypeOK
<1>7. TaskInv'
  <2>1. TaskOf(a)'
    BY <1>1, <1>2 DEF TaskOf, TypeOK
  <2>2. ASSUME NEW b \in Admins, b # a PROVE apc'[b] = apc[b] /\ task'[b] = task[b]
    BY <1>1, <1>2, <2>2 DEF TypeOK, TaskInv
  <2>3. DOMAIN task' = Admins
    BY <1>1, <1>2 DEF TaskInv
  <2> QED
    BY <1>4, <2>1, <2>2, <2>3 DEF TaskInv
<1>8. WorkInv' /\ OneWorkerPerJob' /\ SucceededComplete'
  BY <1>1, <1>2, <1>5 DEF WorkInv, WorkOf, OneWorkerPerJob, SucceededComplete
<1> QED
  BY <1>4, <1>6, <1>7, <1>8 DEF Inv, JobInv

(* A worker that writes the outcome of its job lets it go; it succeeds     *)
(* only with all of its artifacts                                          *)
LEMMA FinishKeepsInv ==
  ASSUME Inv, NEW w \in Workers, NEW from, NEW s \in Ended, from # "idle",
         Finish(w, from, s),
         s = "succeeded" => from = "record" /\ left[w] = 0
  PROVE  Inv'
<1> DEFINE j == job[w]
<1>1. /\ TypeOK /\ WorkOf(w) /\ WorkInv /\ TaskInv /\ JobInv
      /\ OneWorkerPerJob /\ SucceededComplete
  BY DEF Inv, WorkInv
<1>2. /\ wpc[w] = from
      /\ wpc' = [wpc EXCEPT ![w] = "idle"]
      /\ status' = [status EXCEPT ![j] = s]
      /\ job' = [job EXCEPT ![w] = None]
      /\ left' = [left EXCEPT ![w] = 0]
      /\ UNCHANGED <<profiles, enabled, nextJob, jobOf, started, artifacts, auditLog,
                     reported>>
      /\ apc' = apc /\ task' = task
  BY DEF Finish, Move, FinishBuildJob, admin
<1>3. /\ j \in JobIds /\ started[j] /\ status[j] # "none"
      /\ s = "succeeded" => artifacts[j] = reported[j]
  <2>1. j \in JobIds /\ started[j]
    BY <1>1, <1>2 DEF WorkOf
  <2>2. status[j] # "none"
    BY <1>1, <2>1 DEF JobInv, JobOf
  <2>3. artifacts[j] \in Nat
    BY <1>1, <2>1, BoundAssumption DEF TypeOK
  <2> QED
    BY <1>1, <1>2, <2>1, <2>2, <2>3 DEF WorkOf
<1>4. ASSUME NEW v \in Workers, v # w, job[v] # None PROVE job[v] # j
  BY <1>1, <1>3, <1>4 DEF OneWorkerPerJob
<1> HIDE DEF j
<1>5. /\ status' \in [JobIds -> Statuses \cup {"none"}]
      /\ \A i \in JobIds : JobOf(i)'
      /\ \A b \in Admins : apc'[b] = apc[b] /\ task'[b] = task[b] => TaskOf(b)'
      /\ NoOvertaking' /\ SourcesEnded' /\ (ForeignKeys => JobsHaveProfile')
  BY <1>2, <1>3, EndingKeeps
<1>6. \A i \in JobIds : status'[i] = IF i = j THEN s ELSE status[i]
  BY <1>1, <1>2 DEF TypeOK
<1>7. TypeOK'
  BY <1>1, <1>2, <1>5, BoundAssumption DEF TypeOK
<1>8. TaskInv'
  BY <1>1, <1>2, <1>5 DEF TaskInv
<1>9. ASSUME NEW v \in Workers PROVE WorkOf(v)'
  <2>1. CASE v = w
    BY <1>1, <1>2, <2>1 DEF TypeOK, WorkOf
  <2>2. CASE v # w
    <3>1. wpc'[v] = wpc[v] /\ job'[v] = job[v] /\ left'[v] = left[v]
      BY <1>1, <1>2, <2>2 DEF TypeOK
    <3>2. WorkOf(v)
      BY <1>1 DEF WorkInv
    <3>3. wpc[v] # "idle" => job[v] # None
      BY <3>2, NoneAssumption DEF WorkOf, JobIds
    <3> QED
      BY <1>2, <1>4, <1>6, <2>2, <3>1, <3>2, <3>3 DEF WorkOf
  <2> QED
    BY <2>1, <2>2
<1>10. OneWorkerPerJob' /\ SucceededComplete'
  BY <1>1, <1>2, <1>3, <1>6 DEF TypeOK, OneWorkerPerJob, SucceededComplete
<1> QED
  BY <1>5, <1>7, <1>8, <1>9, <1>10 DEF Inv, JobInv, WorkInv

(* A worker is handed a job nobody has started, the oldest that waits *)
LEMMA ClaimKeepsInv ==
  ASSUME Inv, NEW w \in Workers, ClaimNextBuildJob(w)
  PROVE  Inv'
<1>1. /\ TypeOK /\ TaskInv /\ JobInv /\ WorkInv
      /\ OneWorkerPerJob /\ NoOvertaking /\ SucceededComplete /\ SourcesEnded
  BY DEF Inv
<1>2. PICK j \in JobIds :
        /\ status[j] = "queued" /\ \A i \in JobIds : status[i] = "queued" => j <= i
        /\ wpc[w] = "idle" /\ wpc' = [wpc EXCEPT ![w] = "load"]
        /\ status' = [status EXCEPT ![j] = "running"]
        /\ started' = [started EXCEPT ![j] = TRUE]
        /\ job' = [job EXCEPT ![w] = j]
        /\ UNCHANGED <<profiles, enabled, nextJob, jobOf, artifacts, auditLog, left,
                       reported>>
        /\ apc' = apc /\ task' = task
  BY DEF ClaimNextBuildJob, OldestQueued, Move, admin
<1>3. ~started[j] /\ artifacts[j] = 0 /\ reported[j] = 0
  BY <1>1, <1>2 DEF JobInv, JobOf
<1>4. ASSUME NEW v \in Workers PROVE job[v] # j
  BY <1>1, <1>2, <1>3, NoneAssumption DEF WorkInv, WorkOf, JobIds
<1>5. /\ \A i \in JobIds : status'[i] = IF i = j THEN "running" ELSE status[i]
      /\ \A i \in JobIds : started'[i] = IF i = j THEN TRUE ELSE started[i]
  BY <1>1, <1>2 DEF TypeOK
<1>6. TypeOK'
  BY <1>1, <1>2 DEF TypeOK, Statuses
<1>7. TaskInv'
  BY <1>1, <1>2, <1>5 DEF TaskInv, TaskOf, Ended, Order
<1>8. JobInv'
  BY <1>1, <1>2, <1>5 DEF JobInv, JobOf
<1>9. ASSUME NEW v \in Workers PROVE WorkOf(v)'
  <2>1. CASE v = w
    BY <1>1, <1>2, <1>3, <1>5, <2>1 DEF TypeOK, WorkOf
  <2>2. CASE v # w
    BY <1>1, <1>2, <1>5, <2>2 DEF TypeOK, WorkInv, WorkOf
  <2> QED
    BY <2>1, <2>2
<1>10. OneWorkerPerJob'
  BY <1>1, <1>2, <1>4 DEF TypeOK, OneWorkerPerJob
<1>11. NoOvertaking'
  BY <1>1, <1>2, <1>5 DEF NoOvertaking, JobIds
<1>12. SucceededComplete' /\ SourcesEnded'
  BY <1>1, <1>2, <1>5 DEF SucceededComplete, SourcesEnded, Ended, JobInv, JobOf, Order
<1>13. ForeignKeys => JobsHaveProfile'
  BY <1>2, <1>5 DEF Inv, JobsHaveProfile, Exists
<1> QED
  BY <1>6, <1>7, <1>8, <1>9, <1>10, <1>11, <1>12, <1>13 DEF Inv, WorkInv

(* What a worker does with its own job changes the counts of no other job *)
LEMMA WorkerKeepsInv ==
  ASSUME Inv, NEW w \in Workers,
         UNCHANGED <<profiles, enabled, nextJob, status, jobOf, started, auditLog>>,
         UNCHANGED admin,
         wpc' \in [Workers -> {"idle", "load", "build", "record"}],
         job' \in [Workers -> JobIds \cup {None}],
         left' \in [Workers -> 0 .. MaxArtifacts],
         artifacts' \in [JobIds -> 0 .. MaxArtifacts],
         reported' \in [JobIds -> 0 .. MaxArtifacts],
         \A v \in Workers \ {w} :
           wpc'[v] = wpc[v] /\ job'[v] = job[v] /\ left'[v] = left[v],
         wpc[w] # "idle",
         job'[w] \in {job[w], None},
         \A j \in JobIds \ {job[w]} : artifacts'[j] = artifacts[j] /\ reported'[j] = reported[j],
         WorkOf(w)'
  PROVE  Inv'
<1>1. /\ TypeOK /\ TaskInv /\ JobInv /\ WorkInv /\ WorkOf(w)
      /\ OneWorkerPerJob /\ SucceededComplete
  BY DEF Inv, WorkInv
<1>2. job[w] \in JobIds /\ started[job[w]] /\ status[job[w]] # "succeeded"
  BY <1>1 DEF WorkOf
<1>3. TypeOK'
  BY <1>1 DEF TypeOK, admin
<1>4. TaskInv'
  BY <1>1 DEF TaskInv, TaskOf, admin
<1>5. JobInv'
  BY <1>1, <1>2 DEF JobInv, JobOf
<1>6. ASSUME NEW v \in Workers \ {w} PROVE WorkOf(v)'
  <2>1. WorkOf(v)
    BY <1>1 DEF WorkInv
  <2>2. wpc[v] # "idle" => job[v] \in JobIds /\ job[v] # job[w]
    BY <1>1, <1>2, <2>1, NoneAssumption DEF OneWorkerPerJob, WorkOf, JobIds
  <2> QED
    BY <2>1, <2>2 DEF WorkOf
<1>7. OneWorkerPerJob'
  BY <1>1 DEF OneWorkerPerJob
<1>8. SucceededComplete'
  BY <1>1, <1>2 DEF SucceededComplete
<1>9. NoOvertaking' /\ SourcesEnded' /\ (ForeignKeys => JobsHaveProfile')
  BY DEF Inv, NoOvertaking, SourcesEnded, JobsHaveProfile, Exists
<1> QED
  BY <1>3, <1>4, <1>5, <1>6, <1>7, <1>8, <1>9 DEF Inv, WorkInv

(* Every step of a run, and its death *)
LEMMA WorkKeepsInv ==
  ASSUME Inv, NEW w \in Workers, Work(w) \/ Abandon(w)
  PROVE  Inv'
<1>1. TypeOK /\ WorkOf(w) /\ MaxArtifacts \in Nat /\ None \notin Nat
  BY BoundAssumption, NoneAssumption DEF Inv, WorkInv
<1>2. "failed" \in Ended /\ "succeeded" \in Ended
  BY DEF Ended
<1>3. CASE FindBuildProfile(w)
  <2>1. /\ wpc[w] = "load" /\ wpc' = [wpc EXCEPT ![w] = "build"]
        /\ UNCHANGED <<store, job, left, reported>> /\ UNCHANGED admin
    BY <1>3 DEF FindBuildProfile, Move
  <2>2. WorkOf(w)'
    BY <1>1, <2>1 DEF TypeOK, WorkOf, store
  <2> QED
    BY <1>1, <2>1, <2>2, WorkerKeepsInv DEF TypeOK, store
<1>4. CASE ProfileGone(w)
  BY <1>2, <1>4, FinishKeepsInv DEF ProfileGone
<1>5. CASE Run(w)
  <2>1. PICK n \in 0 .. MaxArtifacts :
          /\ wpc[w] = "build" /\ wpc' = [wpc EXCEPT ![w] = "record"]
          /\ left' = [left EXCEPT ![w] = n]
          /\ reported' = [reported EXCEPT ![job[w]] = n]
          /\ UNCHANGED <<store, job>> /\ UNCHANGED admin
    BY <1>5 DEF Run, Move
  <2>2. WorkOf(w)'
    BY <1>1, <2>1 DEF TypeOK, WorkOf, store
  <2> QED
    BY <1>1, <2>1, <2>2, WorkerKeepsInv DEF TypeOK, store
<1>6. CASE RunFails(w)
  BY <1>2, <1>6, FinishKeepsInv DEF RunFails
<1>7. CASE CreateBuildArtifact(w)
  <2>1. /\ wpc[w] = "record" /\ left[w] > 0 /\ wpc' = [wpc EXCEPT ![w] = "record"]
        /\ left' = [left EXCEPT ![w] = @ - 1]
        /\ artifacts' = [artifacts EXCEPT ![job[w]] = @ + 1]
        /\ UNCHANGED <<profiles, enabled, nextJob, status, jobOf, started, auditLog, job,
                       reported>>
        /\ UNCHANGED admin
    BY <1>7 DEF CreateBuildArtifact, AddArtifact, Move
  <2>2. /\ job[w] \in JobIds /\ left[w] \in 1 .. MaxArtifacts
        /\ reported[job[w]] \in 0 .. MaxArtifacts /\ artifacts[job[w]] \in 0 .. MaxArtifacts
        /\ artifacts[job[w]] + left[w] = reported[job[w]]
    BY <1>1, <2>1 DEF TypeOK, WorkOf
  <2>3. /\ left' \in [Workers -> 0 .. MaxArtifacts] /\ left'[w] = left[w] - 1
        /\ artifacts' \in [JobIds -> 0 .. MaxArtifacts]
        /\ artifacts'[job[w]] = artifacts[job[w]] + 1
    BY <1>1, <2>1, <2>2 DEF TypeOK
  <2>4. WorkOf(w)'
    BY <1>1, <2>1, <2>2, <2>3 DEF TypeOK, WorkOf
  <2> QED
    BY <1>1, <2>1, <2>3, <2>4, WorkerKeepsInv DEF TypeOK
<1>8. CASE ArtifactFails(w)
  BY <1>2, <1>8, FinishKeepsInv DEF ArtifactFails
<1>9. CASE CompleteBuildJob(w)
  BY <1>2, <1>9, FinishKeepsInv DEF CompleteBuildJob
<1>10. CASE Abandon(w)
  <2>1. /\ wpc[w] # "idle" /\ wpc' = [wpc EXCEPT ![w] = "idle"]
        /\ job' = [job EXCEPT ![w] = None] /\ left' = [left EXCEPT ![w] = 0]
        /\ UNCHANGED <<store, reported>> /\ UNCHANGED admin
    BY <1>10 DEF Abandon, Move
  <2>2. WorkOf(w)'
    BY <1>1, <2>1 DEF TypeOK, WorkOf
  <2> QED
    BY <1>1, <2>1, <2>2, WorkerKeepsInv DEF TypeOK, store
<1> QED
  BY <1>3, <1>4, <1>5, <1>6, <1>7, <1>8, <1>9, <1>10 DEF Work

-----------------------------------------------------------------------------
(* The theorems *)

(* Every step keeps the invariant *)
LEMMA InvStep == Inv /\ [Next]_vars => Inv'
<1> SUFFICES ASSUME Inv, [Next]_vars PROVE Inv'
  OBVIOUS
<1>1. ASSUME NEW a \in Admins, Request(a) \/ Proceed(a) \/ Drop(a) PROVE Inv'
  BY <1>1, QuietRequests, InsertKeepsInv, CancelKeepsInv DEF Proceed
<1>2. ASSUME NEW w \in Workers, ClaimNextBuildJob(w) \/ Work(w) \/ Abandon(w) PROVE Inv'
  BY <1>2, ClaimKeepsInv, WorkKeepsInv
<1>3. CASE UNCHANGED vars
  BY <1>3 DEF vars, store, admin, worker, Inv, TypeOK, TaskInv, TaskOf, JobInv, JobOf, WorkInv,
     WorkOf, OneWorkerPerJob, NoOvertaking, SucceededComplete, SourcesEnded,
     JobsHaveProfile, Exists
<1> QED
  BY <1>1, <1>2, <1>3 DEF Next

(* The invariant the theorems rest on holds in every reachable state *)
THEOREM QueueInvariant == Spec => []Inv
BY InvInit, InvStep, PTL DEF Spec

(* TypeOK: the queue keeps its types, the counts of artifacts included, for *)
(* any number of jobs, whoever dies.                                        *)
THEOREM QueueTypes == Spec => []TypeOK
<1>1. Inv => TypeOK
  BY DEF Inv
<1> QED
  BY <1>1, QueueInvariant, PTL

(* OneWorkerPerJob: no two workers build one job, since a job that has been *)
(* claimed is never queued again, canceled or retried as it may be.         *)
THEOREM OneBuilder == Spec => []OneWorkerPerJob
<1>1. Inv => OneWorkerPerJob
  BY DEF Inv
<1> QED
  BY <1>1, QueueInvariant, PTL

(* NoOvertaking: no job is started while an older one waits. *)
THEOREM InOrder == Spec => []NoOvertaking
<1>1. Inv => NoOvertaking
  BY DEF Inv
<1> QED
  BY <1>1, QueueInvariant, PTL

(* SucceededComplete: a job that reads succeeded has all the artifacts its  *)
(* builder reported, also when a cancellation has met its worker.           *)
THEOREM SuccessComplete == Spec => []SucceededComplete
<1>1. Inv => SucceededComplete
  BY DEF Inv
<1> QED
  BY <1>1, QueueInvariant, PTL

(* RetriedHaveEnded: a job that was retried is never queued or running      *)
(* again, and only a cancellation after the claim leaves its worker at it.  *)
THEOREM RetriesOfEnded == Spec => []RetriedHaveEnded
<1>1. Inv => RetriedHaveEnded
  <2> SUFFICES ASSUME Inv, NEW j \in JobIds, status[j] # "none", jobOf[j].source # None
               PROVE  /\ status[jobOf[j].source] \in Ended
                      /\ \A w \in Workers : job[w] = jobOf[j].source =>
                           status[jobOf[j].source] = "canceled"
    BY DEF RetriedHaveEnded
  <2>1. status[jobOf[j].source] \in Ended
    BY DEF Inv, SourcesEnded
  <2>2. ASSUME NEW w \in Workers, job[w] = jobOf[j].source
        PROVE  status[job[w]] = "canceled"
    <3>1. wpc[w] # "idle"
      BY <2>2 DEF Inv, WorkInv, WorkOf
    <3>2. status[job[w]] \in {"running", "canceled"}
      BY <3>1 DEF Inv, WorkInv, WorkOf
    <3> QED BY <2>1, <2>2, <3>2 DEF Ended
  <2> QED BY <2>1, <2>2
<1> QED
  BY <1>1, QueueInvariant, PTL

(* JobsHaveProfile: with MySQL's foreign key, no job is left without its    *)
(* profile, whenever requests have looked for jobs and profiles.            *)
THEOREM ProfilesKept == ASSUME ForeignKeys PROVE Spec => []JobsHaveProfile
<1>1. Inv => JobsHaveProfile
  BY DEF Inv
<1> QED
  BY <1>1, QueueInvariant, PTL

-----------------------------------------------------------------------------
(* The queue implements the ledger of jobs *)

(* At the start no job waits *)
LEMMA LedgerInit == Init => Jobs!Init
BY DEF Init, Jobs!Init, Having, Ended

(* A new status of one job moves it from one of the ledger's sets to another *)
LEMMA LedgerMoves ==
  ASSUME TypeOK, NEW j \in JobIds, NEW s, status' = [status EXCEPT ![j] = s], NEW S
  PROVE  Having(S)' = IF s \in S THEN Having(S) \cup {j} ELSE Having(S) \ {j}
BY DEF TypeOK, Having

(* An outcome shuts its job *)
LEMMA LedgerShuts ==
  ASSUME TypeOK, NEW j \in JobIds, NEW s \in Ended, status' = [status EXCEPT ![j] = s]
  PROVE  Jobs!Shut(j)
<1>1. s \notin {"queued"} /\ s \notin {"running"}
  BY DEF Ended
<1> QED
  BY <1>1, LedgerMoves DEF Jobs!Shut

(* What touches neither a status nor a worker's job is no step of the ledger *)
LEMMA LedgerStutter ==
  ASSUME UNCHANGED <<status, job>>
  PROVE  UNCHANGED Jobs!ledger
BY DEF Jobs!ledger, Having

(* Inserting is queueing, cancelling is closing, all else leaves the ledger *)
LEMMA RequestImplements ==
  ASSUME Inv, NEW a \in Admins, Request(a) \/ Proceed(a) \/ Drop(a)
  PROVE  Jobs!Next \/ UNCHANGED Jobs!ledger
<1>1. TypeOK /\ JobInv /\ TaskOf(a)
  BY DEF Inv, TaskInv
<1>2. CASE CreateBuildJob(a)
  <2>1. /\ nextJob \in JobIds /\ status' = [status EXCEPT ![nextJob] = "queued"]
        /\ job' = job
    BY <1>2 DEF CreateBuildJob, InsertJob, Step, worker
  <2>2. \A i \in Jobs!Known : i < nextJob
    BY <1>1, <2>1 DEF Jobs!Known, Having, JobInv, JobOf, JobIds, Ended
  <2>3. nextJob \notin Jobs!Known
    BY <2>1, <2>2 DEF JobIds
  <2>4. /\ Having({"queued"})' = Having({"queued"}) \cup {nextJob}
        /\ Having({"running"})' = Having({"running"}) /\ Having(Ended)' = Having(Ended)
    <3>1. "queued" \in {"queued"} /\ "queued" \notin {"running"} /\ "queued" \notin Ended
      BY DEF Ended
    <3>2. nextJob \notin Having({"running"}) /\ nextJob \notin Having(Ended)
      BY <2>3 DEF Jobs!Known
    <3>3. /\ Having({"queued"})' = Having({"queued"}) \cup {nextJob}
          /\ Having({"running"})' = Having({"running"}) \ {nextJob}
          /\ Having(Ended)' = Having(Ended) \ {nextJob}
      <4>1. \A S : Having(S)' = IF "queued" \in S THEN Having(S) \cup {nextJob}
                               ELSE Having(S) \ {nextJob}
        BY <1>1, <2>1, LedgerMoves
      <4> QED
        BY <3>1, <4>1
    <3> QED
      BY <3>2, <3>3
  <2> QED
    BY <2>1, <2>2, <2>4 DEF Jobs!Queue, Jobs!Next
<1>3. CASE CancelBuildJob(a)
  <2>1. /\ task[a].id \in JobIds /\ status[task[a].id] # "none" /\ "canceled" \in Ended
        /\ status' = [status EXCEPT ![task[a].id] = "canceled"] /\ job' = job
    BY <1>1, <1>3 DEF CancelBuildJob, FinishBuildJob, Step, worker, TaskOf, Ended
  <2>2. task[a].id \in Jobs!Known
    BY <1>1, <2>1 DEF TypeOK, Statuses, Jobs!Known, Having
  <2> QED
    BY <1>1, <2>1, <2>2, LedgerShuts DEF Jobs!Close, Jobs!Next
<1>4. CASE ~CreateBuildJob(a) /\ ~CancelBuildJob(a)
  <2>1. UNCHANGED <<status, job>>
    BY <1>4
       DEF Request, Proceed, Drop, CreateBuildProfile, UpdateBuildProfile, WriteProfile,
           DeleteInMemory, RemoveProfile, CountReferences, RequestJob, RequestCancel, RetryJob,
           DeleteRow, DeleteRefused, RetryLoadProfile, CreateRefused, WriteAudit, Step, store,
           worker
  <2> QED
    BY <2>1, LedgerStutter
<1> QED
  BY <1>2, <1>3, <1>4

(* A claim hands a job out; a worker lets go of it with an outcome, or dies *)
LEMMA WorkImplements ==
  ASSUME Inv, NEW w \in Workers, ClaimNextBuildJob(w) \/ Work(w) \/ Abandon(w)
  PROVE  Jobs!Next \/ UNCHANGED Jobs!ledger
<1>1. TypeOK /\ WorkOf(w)
  BY DEF Inv, WorkInv
<1>2. wpc[w] # "idle" => job[w] \in JobIds /\ job[w] # None
  BY <1>1, NoneAssumption DEF WorkOf, JobIds
<1>3. CASE ClaimNextBuildJob(w)
  <2>1. PICK j \in JobIds :
          /\ OldestQueued(j) /\ wpc[w] = "idle"
          /\ status' = [status EXCEPT ![j] = "running"]
          /\ job' = [job EXCEPT ![w] = j]
    BY <1>3 DEF ClaimNextBuildJob, Move
  <2>2. /\ job[w] = None /\ j \in Having({"queued"})
        /\ \A i \in Having({"queued"}) : j <= i
    BY <1>1, <2>1 DEF WorkOf, OldestQueued, Having
  <2>3. /\ Having({"queued"})' = Having({"queued"}) \ {j}
        /\ Having({"running"})' = Having({"running"}) \cup {j}
        /\ Having(Ended)' = Having(Ended) \ {j}
    <3>1. "running" \notin {"queued"} /\ "running" \in {"running"} /\ "running" \notin Ended
      BY DEF Ended
    <3> QED
      BY <1>1, <2>1, <3>1, LedgerMoves
  <2>4. j \notin Having(Ended)
    BY <2>2 DEF Having, Ended
  <2>5. Jobs!HandOut(w, j)
    BY <2>1, <2>2, <2>3, <2>4 DEF Jobs!HandOut
  <2> QED
    BY <2>5 DEF Jobs!Next
<1>4. ASSUME NEW from, NEW s \in Ended, from # "idle", Finish(w, from, s) PROVE Jobs!Next
  <2>1. /\ wpc[w] = from /\ status' = [status EXCEPT ![job[w]] = s]
        /\ job' = [job EXCEPT ![w] = None]
    BY <1>4 DEF Finish, Move, FinishBuildJob
  <2> QED
    BY <1>1, <1>2, <1>4, <2>1, LedgerShuts DEF Jobs!LetGo, Jobs!Next
<1>5. "failed" \in Ended /\ "succeeded" \in Ended
  BY DEF Ended
<1>6. CASE ProfileGone(w) \/ RunFails(w) \/ ArtifactFails(w) \/ CompleteBuildJob(w)
  BY <1>4, <1>5, <1>6 DEF ProfileGone, RunFails, ArtifactFails, CompleteBuildJob
<1>7. CASE FindBuildProfile(w) \/ Run(w) \/ CreateBuildArtifact(w)
  <2>1. UNCHANGED <<status, job>>
    BY <1>7 DEF FindBuildProfile, Run, CreateBuildArtifact, AddArtifact, store
  <2> QED
    BY <2>1, LedgerStutter
<1>8. CASE Abandon(w)
  <2>1. /\ wpc[w] # "idle" /\ status' = status /\ job' = [job EXCEPT ![w] = None]
    BY <1>8 DEF Abandon, store
  <2>2. UNCHANGED <<Having({"queued"}), Having({"running"}), Having(Ended)>>
    BY <2>1 DEF Having
  <2> QED
    BY <1>2, <2>1, <2>2 DEF Jobs!LetGo, Jobs!Next
<1> QED
  BY <1>3, <1>6, <1>7, <1>8 DEF Work

(* ImplementsJobLedger: whatever requests and workers do at the same time,  *)
(* and whoever dies, a job is handed out once and an ended one stays ended. *)
THEOREM QueueImplementsLedger == Spec => ImplementsJobLedger
<1>1. Inv /\ [Next]_vars => [Jobs!Next]_(Jobs!ledger)
  <2> SUFFICES ASSUME Inv, [Next]_vars PROVE Jobs!Next \/ UNCHANGED Jobs!ledger
    OBVIOUS
  <2>1. CASE UNCHANGED vars
    BY <2>1, LedgerStutter DEF vars, store, worker
  <2> QED
    BY <2>1, RequestImplements, WorkImplements DEF Next
<1> QED
  BY <1>1, LedgerInit, QueueInvariant, PTL DEF Spec, ImplementsJobLedger, Jobs!Spec
=============================================================================
