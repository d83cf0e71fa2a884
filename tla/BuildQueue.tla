----------------------------- MODULE BuildQueue -----------------------------
(***************************************************************************)
(* Custom client builds: administrators keep build profiles and queue,     *)
(* cancel and retry build jobs through the API, and workers (POST          *)
(* /build-jobs/run-next and the opendesk-worker command) claim the oldest  *)
(* queued job, run the builder and record its artifacts.                   *)
(*                                                                         *)
(* One action is one store access together with what the handler decides   *)
(* from it, since no lock spans two accesses: an administrator's request   *)
(* acts on what it read before.  A request that is refused without         *)
(* changing anything is the request not being made.  Drop and Abandon are  *)
(* a process that dies, a client that hangs up (its context ends the       *)
(* builder and the store calls of run-next), and a store error on the      *)
(* write that would have told the outcome.                                 *)
(***************************************************************************)
EXTENDS Integers

CONSTANTS
  Admins,       \* administrator requests in flight
  Workers,      \* processes that call RunOnce
  Profiles,     \* build profile ids
  Platforms,    \* platforms a profile can enable
  None,         \* no job, no profile
  ForeignKeys,  \* TRUE: MySQL store; FALSE: memory store
  Failures,     \* TRUE: Drop and Abandon can happen
  MaxJobs,      \* bound on the jobs ever queued
  MaxArtifacts  \* bound on the artifacts one build reports

ASSUME NoneAssumption == None \notin Profiles \cup Nat
ASSUME BoundAssumption ==
  /\ MaxJobs \in Nat
  /\ MaxArtifacts \in Nat
  /\ ForeignKeys \in BOOLEAN
  /\ Failures \in BOOLEAN

JobIds == 1 .. MaxJobs

VARIABLES
  profiles,   \* build_profiles: "absent", "present" or "deleted"
  enabled,    \* the platforms a profile enables
  nextJob,    \* the id of the next build_jobs row
  status,     \* build_jobs.status, "none" before the row exists
  jobOf,      \* build_jobs.profile_id, platform and the job it retries
  started,    \* build_jobs.started_at is set
  artifacts,  \* the number of build_artifacts rows of a job
  auditLog,   \* audit events
  apc,        \* an administrator request's next step
  task,       \* what that request is about
  wpc,        \* a worker's next step
  job,        \* the job a worker has claimed
  left,       \* artifacts it has still to record
  reported    \* history: artifacts the builder reported for a job

store == <<profiles, enabled, nextJob, status, jobOf, started, artifacts, auditLog>>
admin == <<apc, task>>
worker == <<wpc, job, left, reported>>
vars == <<store, admin, worker>>

Ended == {"succeeded", "failed", "canceled"}
Statuses == {"queued", "running"} \cup Ended
Order == [profile : Profiles, platform : Platforms, source : JobIds \cup {None}]

Init ==
  /\ profiles = [p \in Profiles |-> "absent"]
  /\ enabled = [p \in Profiles |-> {}]
  /\ nextJob = 1
  /\ status = [j \in JobIds |-> "none"]
  /\ jobOf = [j \in JobIds |-> None]
  /\ started = [j \in JobIds |-> FALSE]
  /\ artifacts = [j \in JobIds |-> 0]
  /\ auditLog = {}
  /\ apc = [a \in Admins |-> "idle"]
  /\ task = [a \in Admins |-> None]
  /\ wpc = [w \in Workers |-> "idle"]
  /\ job = [w \in Workers |-> None]
  /\ left = [w \in Workers |-> 0]
  /\ reported = [j \in JobIds |-> 0]

-----------------------------------------------------------------------------
(* Store *)

Exists(p) == profiles[p] = "present"

Referenced(p) == \E j \in JobIds : status[j] # "none" /\ jobOf[j].profile = p

(* finishBuildJob: the status being replaced is not tested *)
FinishBuildJob(j, s) == status' = [status EXCEPT ![j] = s]

-----------------------------------------------------------------------------
(* Administrator requests *)

Step(a, from, to, t) ==
  /\ apc[a] = from
  /\ apc' = [apc EXCEPT ![a] = to]
  /\ task' = [task EXCEPT ![a] = t]
  /\ UNCHANGED worker

Event(name, x) == [action |-> name, id |-> x]

WriteProfile(a, p, event) ==
  \E platforms \in (SUBSET Platforms) \ {{}} :
    /\ profiles' = [profiles EXCEPT ![p] = "present"]
    /\ enabled' = [enabled EXCEPT ![p] = platforms]
    /\ Step(a, "idle", "audit", Event(event, p))
    /\ UNCHANGED <<nextJob, status, jobOf, started, artifacts, auditLog>>

CreateBuildProfile(a) ==
  \E p \in Profiles :
    profiles[p] = "absent" /\ WriteProfile(a, p, "create_build_profile")

UpdateBuildProfile(a) ==
  \E p \in Profiles : Exists(p) /\ WriteProfile(a, p, "update_build_profile")

RemoveProfile(a, from, p) ==
  /\ Exists(p)
  /\ profiles' = [profiles EXCEPT ![p] = "deleted"]
  /\ Step(a, from, "audit", Event("delete_build_profile", p))
  /\ UNCHANGED <<enabled, nextJob, status, jobOf, started, artifacts, auditLog>>

(* The memory store counts the jobs and deletes under one lock *)
DeleteInMemory(a) ==
  \E p \in Profiles : ~ForeignKeys /\ ~Referenced(p) /\ RemoveProfile(a, "idle", p)

(* MySQL counts first; the DELETE is a statement of its own, which the  *)
(* foreign key of build_jobs makes fail.                                *)
CountReferences(a) ==
  \E p \in Profiles :
    /\ ForeignKeys
    /\ ~Referenced(p)
    /\ Step(a, "idle", "delete", Event("delete_build_profile", p))
    /\ UNCHANGED store

DeleteRow(a) ==
  /\ apc[a] = "delete"
  /\ ~Referenced(task[a].id)
  /\ RemoveProfile(a, "delete", task[a].id)

DeleteRefused(a) ==
  /\ Step(a, "delete", "idle", None)
  /\ Referenced(task[a].id) \/ ~Exists(task[a].id)
  /\ UNCHANGED store

(* POST /build-jobs: the profile is read here and the job inserted later *)
RequestJob(a) ==
  \E p \in Profiles, f \in Platforms :
    /\ Exists(p)
    /\ f \in enabled[p]
    /\ Step(a, "idle", "insert", [profile |-> p, platform |-> f, source |-> None])
    /\ UNCHANGED store

RetryAnyJob(a) ==
  \E j \in JobIds :
    /\ status[j] # "none"
    /\ Step(a, "idle", "retry", Event("retry_build_job", j))
    /\ UNCHANGED store

RetryRequeues(a) ==
  \E j \in JobIds :
    /\ status[j] \in Ended
    /\ status' = [status EXCEPT ![j] = "queued"]
    /\ Step(a, "idle", "audit", Event("create_build_job", j))
    /\ UNCHANGED <<profiles, enabled, nextJob, jobOf, started, artifacts, auditLog>>

RetryJob(a) ==
  \E j \in JobIds :
    /\ status[j] \notin {"none", "queued", "running"}
    /\ Step(a, "idle", "retry", Event("retry_build_job", j))
    /\ UNCHANGED store

(* The profile must exist; that it still enables the platform is not asked *)
RetryLoadProfile(a) ==
  LET o == jobOf[task[a].id] IN
  /\ apc[a] = "retry"
  /\ \/ /\ Exists(o.profile)
        /\ Step(a, "retry", "insert", [o EXCEPT !.source = task[a].id])
     \/ /\ ~Exists(o.profile)
        /\ Step(a, "retry", "idle", None)
  /\ UNCHANGED store

Acceptable(a) == ForeignKeys => Exists(task[a].profile)

InsertJob(a, to) ==
  /\ nextJob \in JobIds
  /\ status' = [status EXCEPT ![nextJob] = "queued"]
  /\ jobOf' = [jobOf EXCEPT ![nextJob] = task[a]]
  /\ nextJob' = nextJob + 1
  /\ Step(a, "insert", to, Event("create_build_job", nextJob))
  /\ UNCHANGED <<profiles, enabled, started, artifacts, auditLog>>

CreateUnchecked(a) == InsertJob(a, "audit")

CreateUnaudited(a) == InsertJob(a, "idle") /\ Acceptable(a)

CreateBuildJob(a) == InsertJob(a, "audit") /\ Acceptable(a)

CreateRefused(a) ==
  /\ Step(a, "insert", "idle", None)
  /\ ~Acceptable(a)
  /\ UNCHANGED store

RequestCancel(a) ==
  \E j \in JobIds :
    /\ status[j] = "queued"
    /\ Step(a, "idle", "cancel", Event("cancel_build_job", j))
    /\ UNCHANGED store

CancelBuildJob(a) ==
  /\ Step(a, "cancel", "idle", None)
  /\ FinishBuildJob(task[a].id, "canceled")
  /\ UNCHANGED <<profiles, enabled, nextJob, jobOf, started, artifacts, auditLog>>

WriteAudit(a) ==
  /\ Step(a, "audit", "idle", None)
  /\ auditLog' = auditLog \cup {task[a]}
  /\ UNCHANGED <<profiles, enabled, nextJob, status, jobOf, started, artifacts>>

Drop(a) ==
  /\ Failures
  /\ apc[a] # "idle"
  /\ Step(a, apc[a], "idle", None)
  /\ UNCHANGED store

-----------------------------------------------------------------------------
(* Workers *)

Move(w, from, to) ==
  /\ wpc[w] = from
  /\ wpc' = [wpc EXCEPT ![w] = to]
  /\ UNCHANGED admin

AfterSuccesses(j) ==
  status[j] = "queued" /\ \A i \in JobIds : i < j => status[i] = "succeeded"

NewestQueued(j) ==
  status[j] = "queued" /\ \A i \in JobIds : status[i] = "queued" => i <= j

QueuedOrRunning(j) ==
  /\ status[j] \in {"queued", "running"}
  /\ \A i \in JobIds : status[i] \in {"queued", "running"} => j <= i

OldestQueued(j) ==
  status[j] = "queued" /\ \A i \in JobIds : status[i] = "queued" => j <= i

ClaimNextBuildJob(w) ==
  \E j \in JobIds :
    /\ OldestQueued(j)
    /\ Move(w, "idle", "load")
    /\ status' = [status EXCEPT ![j] = "running"]
    /\ started' = [started EXCEPT ![j] = TRUE]
    /\ job' = [job EXCEPT ![w] = j]
    /\ UNCHANGED <<profiles, enabled, nextJob, jobOf, artifacts, auditLog, left,
                   reported>>

(* The worker lets the job go, having written its outcome *)
Finish(w, from, s) ==
  /\ Move(w, from, "idle")
  /\ FinishBuildJob(job[w], s)
  /\ job' = [job EXCEPT ![w] = None]
  /\ left' = [left EXCEPT ![w] = 0]
  /\ UNCHANGED <<profiles, enabled, nextJob, jobOf, started, artifacts, auditLog,
                 reported>>

FindBuildProfile(w) ==
  /\ Move(w, "load", "build")
  /\ Exists(jobOf[job[w]].profile)
  /\ UNCHANGED <<store, job, left, reported>>

ProfileAwaited(w) ==
  /\ Move(w, "load", "load")
  /\ ~Exists(jobOf[job[w]].profile)
  /\ UNCHANGED <<store, job, left, reported>>

ProfileGone(w) ==
  /\ Finish(w, "load", "failed")
  /\ ~Exists(jobOf[job[w]].profile)

(* The builder ran and its report was parsed *)
Run(w) ==
  \E n \in 0 .. MaxArtifacts :
    /\ Move(w, "build", "record")
    /\ left' = [left EXCEPT ![w] = n]
    /\ reported' = [reported EXCEPT ![job[w]] = n]
    /\ UNCHANGED <<store, job>>

(* No work directory, a builder that fails or times out, no report *)
RunFails(w) == Finish(w, "build", "failed")

ArtifactSkipped(w) ==
  /\ left[w] > 0
  /\ Move(w, "record", "record")
  /\ left' = [left EXCEPT ![w] = @ - 1]
  /\ UNCHANGED <<store, job, reported>>

AddArtifact(w) ==
  /\ left[w] > 0
  /\ Move(w, "record", "record")
  /\ artifacts' = [artifacts EXCEPT ![job[w]] = @ + 1]
  /\ UNCHANGED <<profiles, enabled, nextJob, status, jobOf, started, auditLog, job,
                 reported>>

ArtifactRepeated(w) == AddArtifact(w) /\ UNCHANGED left

CreateBuildArtifact(w) == AddArtifact(w) /\ left' = [left EXCEPT ![w] = @ - 1]

(* The artifacts recorded before the failing one stay recorded *)
ArtifactFails(w) ==
  /\ left[w] > 0
  /\ Finish(w, "record", "failed")

CompleteBuildJob(w) ==
  /\ left[w] = 0
  /\ Finish(w, "record", "succeeded")

Abandon(w) ==
  /\ Failures
  /\ wpc[w] # "idle"
  /\ Move(w, wpc[w], "idle")
  /\ job' = [job EXCEPT ![w] = None]
  /\ left' = [left EXCEPT ![w] = 0]
  /\ UNCHANGED <<store, reported>>

-----------------------------------------------------------------------------

Request(a) ==
  CreateBuildProfile(a) \/ UpdateBuildProfile(a) \/ DeleteInMemory(a)
  \/ CountReferences(a) \/ RequestJob(a) \/ RequestCancel(a) \/ RetryJob(a)

Proceed(a) ==
  DeleteRow(a) \/ DeleteRefused(a) \/ RetryLoadProfile(a) \/ CreateBuildJob(a)
  \/ CreateRefused(a) \/ CancelBuildJob(a) \/ WriteAudit(a)

Work(w) ==
  FindBuildProfile(w) \/ ProfileGone(w) \/ Run(w) \/ RunFails(w)
  \/ CreateBuildArtifact(w) \/ ArtifactFails(w) \/ CompleteBuildJob(w)

Next ==
  \/ \E a \in Admins : Request(a) \/ Proceed(a) \/ Drop(a)
  \/ \E w \in Workers : ClaimNextBuildJob(w) \/ Work(w) \/ Abandon(w)

Spec == Init /\ [][Next]_vars

(* A request in flight is carried on, a run that claimed a job is carried  *)
(* on (BUILDER_TIMEOUT ends the builder), and the operator, whom each      *)
(* run-next or run-once serves for one job only, runs them again and again.*)
FairSpec ==
  /\ Spec
  /\ \A a \in Admins : WF_vars(Proceed(a))
  /\ \A w \in Workers : WF_vars(Work(w)) /\ WF_vars(ClaimNextBuildJob(w))

-----------------------------------------------------------------------------
(* Properties *)

(* Types of the state: one status per job, one step per request and worker. *)
TypeOK ==
  /\ profiles \in [Profiles -> {"absent", "present", "deleted"}]
  /\ enabled \in [Profiles -> SUBSET Platforms]
  /\ nextJob \in 1 .. MaxJobs + 1
  /\ status \in [JobIds -> Statuses \cup {"none"}]
  /\ jobOf \in [JobIds -> Order \cup {None}]
  /\ started \in [JobIds -> BOOLEAN]
  /\ artifacts \in [JobIds -> 0 .. MaxArtifacts]
  /\ auditLog \subseteq
       [action : {"create_build_profile", "update_build_profile",
                  "delete_build_profile"}, id : Profiles]
       \cup [action : {"create_build_job"}, id : JobIds]
  /\ apc \in [Admins -> {"idle", "audit", "delete", "insert", "retry", "cancel"}]
  /\ wpc \in [Workers -> {"idle", "load", "build", "record"}]
  /\ job \in [Workers -> JobIds \cup {None}]
  /\ left \in [Workers -> 0 .. MaxArtifacts]
  /\ reported \in [JobIds -> 0 .. MaxArtifacts]

(* ClaimNextBuildJob hands a job to one worker: no two workers ever build  *)
(* the same job, whatever cancellations and retries do meanwhile.          *)
OneWorkerPerJob ==
  \A v, w \in Workers : job[v] = job[w] /\ job[v] # None => v = w

(* Workers serve jobs in the order they were queued: none is started while *)
(* an older one still waits.                                               *)
NoOvertaking ==
  \A i, j \in JobIds : i < j /\ started[j] => status[i] # "queued"

(* A job reads succeeded only when every artifact its builder reported is  *)
(* recorded: an artifact that could not be recorded fails the job.         *)
SucceededComplete ==
  \A j \in JobIds : status[j] = "succeeded" => artifacts[j] = reported[j]

(* docs/custom-client-builder.md: "Build Profiles can be deleted only when *)
(* no Build Jobs reference them" (with MySQL, whose foreign key closes the *)
(* window between reading the profile and inserting the job).              *)
JobsHaveProfile ==
  \A j \in JobIds : status[j] # "none" => Exists(jobOf[j].profile)

(* retryJob: a job that has been retried reads an outcome from then on,    *)
(* never queued or running again.  Its worker may still be at it, and may  *)
(* yet overwrite the outcome, only if a cancellation came after the claim. *)
RetriedHaveEnded ==
  \A j \in JobIds : status[j] # "none" /\ jobOf[j].source # None =>
    LET source == jobOf[j].source IN
    /\ status[source] \in Ended
    /\ (\E w \in Workers : job[w] = source) => status[source] = "canceled"

Having(S) == {j \in JobIds : status[j] \in S}

Jobs == INSTANCE JobLedger WITH
  Jobs <- JobIds,
  waiting <- Having({"queued"}),
  running <- Having({"running"}),
  closed <- Having(Ended),
  building <- job

(* ClaimNextBuildJob, finishBuildJob and the handlers implement the ledger *)
(* of jobs: a job that was claimed or has ended is never queued or claimed *)
(* again, by a retry, a cancellation or a late worker, although its        *)
(* outcome may be overwritten.                                             *)
ImplementsJobLedger == Jobs!Spec

(* "Queued jobs can be canceled before a worker claims them": a job that   *)
(* reads canceled was never started.                                       *)
CanceledBeforeClaim ==
  \A j \in JobIds : status[j] = "canceled" => ~started[j]

(* A claimed job ends, whatever its run, as long as no process dies and no *)
(* store write fails; otherwise nothing in the code ends it.               *)
ClaimedJobsEnd == \A j \in JobIds : status[j] = "running" ~> status[j] \in Ended

(* Every queued job is claimed or canceled: no later job and no stuck one  *)
(* keeps it waiting.                                                       *)
QueuedJobsServed == \A j \in JobIds : status[j] = "queued" ~> status[j] # "queued"

(* Every queued job, also one a retry created, gets its audit event.       *)
JobsAudited ==
  \A j \in JobIds : status[j] # "none" ~> Event("create_build_job", j) \in auditLog
=============================================================================
