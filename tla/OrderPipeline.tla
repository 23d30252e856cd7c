---------------------------- MODULE OrderPipeline ----------------------------
(***************************************************************************)
(* The order pipeline of platform-api: OrdersController.submit_order files *)
(* a row and schedules a BackgroundTask; the task runs                     *)
(* OrchestratorService.execute, which drives edp-api, the S3 bucket and    *)
(* the mail provider and writes the row's status at the start and the end. *)
(*                                                                         *)
(* One action is the code between two awaits that others can observe.  A   *)
(* call to another service either returns, or raises; one that raises may  *)
(* have taken effect all the same (the answer was lost).  The process may  *)
(* crash between any two steps; its tasks are in memory and are not        *)
(* resumed, the rows, the bucket and the mails stay.                       *)
(***************************************************************************)
EXTENDS Naturals

CONSTANTS
  Order,                  \* order ids
  Artifact,               \* the file names edp-api may give its artifacts
  ReleaseFilesReachable,  \* do the APK and gateway URLs of cfg.yml resolve?
  MaxPolls,               \* bound: polls of an edp-api job within POLL_TIMEOUT_SECONDS
  MaxCallFaults,          \* bound: calls to edp-api, S3 or the mail provider that raise
  MaxDbFaults,            \* bound: database calls that raise
  MaxCrashes              \* bound: process crashes

DTM_FILE == "dtm.json"
OwnFile  == {"ems-stack.yaml", "arcnode-ems.iso", "arcnode.zip",
             "manifest.json", "index.html"}
File     == Artifact \cup OwnFile

\* edp-api names its files itself; the code relies on the DTM's name and on no
\* artifact taking a name the order's own files use.
ASSUME ArtifactAssumption == DTM_FILE \in Artifact /\ Artifact \cap OwnFile = {}
ASSUME ReachableAssumption == ReleaseFilesReachable \in BOOLEAN
ASSUME BoundsAssumption ==
  /\ MaxPolls \in Nat
  /\ MaxCallFaults \in Nat
  /\ MaxDbFaults \in Nat
  /\ MaxCrashes \in Nat

VARIABLES
  request,    \* what each order asks for: its delivery path; does its site name slugify?
  row,        \* status column of the orders table, "none" without a row
  saved,      \* ems_delivery column: the path delivered, "none" before completion
  pc,         \* where the order's background task is
  cause,      \* the step whose exception execute() caught, "none" if none
  polls,      \* polls of the edp-api job so far
  archived,   \* local of _run_pipeline: the artifacts re-archived so far
  job,        \* the order's job at edp-api
  bucket,     \* the objects under orders/{id}/
  listed,     \* the files the published index.html links to
  mail,       \* the mails the provider accepted
  callFaults, dbFaults, crashes

tables == <<row, saved>>
outside == <<job, bucket, listed, mail>>
vars == <<request, row, saved, pc, cause, polls, archived, job, bucket, listed, mail,
          callFaults, dbFaults, crashes>>

-----------------------------------------------------------------------------
(* The steps of a background task, in the order execute() takes them. *)

Pipeline == {"setup_aws", "submit", "poll", "archive", "deliver", "bundle",
             "manifest", "index", "notify"}
Live  == {"scheduled", "mark_running", "mark_failed", "notify_failed",
          "mark_complete"} \cup Pipeline
\* "refused": submit raised; "unloaded": reading the row raised before execute()
\* of the orchestrator began; "escaped": an exception left that execute().
Ended == {"done", "refused", "unloaded", "escaped", "crashed"}

Status    == {"none", "pending", "running", "complete", "failed"}
Mail      == {"ready", "failed"}
Path      == {"cfn", "iso"}
Request   == [path : Path, named : BOOLEAN]
NoJob     == [state |-> "none", files |-> {}]
Job       == [state : {"none", "running", "complete", "failed"}, files : SUBSET Artifact]

\* The per-order deliverable: a CloudFormation template, or the installer.
DeliveryFile(o) == IF request[o].path = "cfn" THEN "ems-stack.yaml" ELSE "arcnode-ems.iso"

\* The order's own files the portal page links to and the zip holds.
PageFiles(o) == archived[o] \cup {DeliveryFile(o)}

TypeOK ==
  /\ request \in [Order -> Request]
  /\ row \in [Order -> Status]
  /\ saved \in [Order -> Path \cup {"none"}]
  /\ pc \in [Order -> {"none"} \cup Live \cup Ended]
  /\ cause \in [Order -> Pipeline \cup {"none"}]
  /\ polls \in [Order -> 0..MaxPolls]
  /\ archived \in [Order -> SUBSET Artifact]
  /\ job \in [Order -> Job]
  /\ bucket \in [Order -> SUBSET File]
  /\ listed \in [Order -> SUBSET File]
  /\ mail \in [Order -> SUBSET Mail]
  /\ callFaults \in 0..MaxCallFaults
  /\ dbFaults \in 0..MaxDbFaults
  /\ crashes \in 0..MaxCrashes

Init ==
  /\ request \in [Order -> Request]
  /\ row = [o \in Order |-> "none"]
  /\ saved = [o \in Order |-> "none"]
  /\ pc = [o \in Order |-> "none"]
  /\ cause = [o \in Order |-> "none"]
  /\ polls = [o \in Order |-> 0]
  /\ archived = [o \in Order |-> {}]
  /\ job = [o \in Order |-> NoJob]
  /\ bucket = [o \in Order |-> {}]
  /\ listed = [o \in Order |-> {}]
  /\ mail = [o \in Order |-> {}]
  /\ callFaults = 0
  /\ dbFaults = 0
  /\ crashes = 0

-----------------------------------------------------------------------------
(* How a step ends. *)

\* The awaited call returned; the task goes on.
Return(o, next) ==
  /\ pc' = [pc EXCEPT ![o] = next]
  /\ UNCHANGED <<cause, callFaults, dbFaults>>

\* Faulty variant of Caught: the failure mail goes out before the row is saved.
CaughtMailFirst(o) ==
  /\ pc' = [pc EXCEPT ![o] = "notify_failed"]
  /\ cause' = [cause EXCEPT ![o] = pc[o]]

\* The except clause of execute() catches whatever the pipeline raises.
Caught(o) ==
  /\ pc' = [pc EXCEPT ![o] = "mark_failed"]
  /\ cause' = [cause EXCEPT ![o] = pc[o]]

\* The code itself refuses to go on.
Refuse(o) == Caught(o) /\ UNCHANGED <<callFaults, dbFaults>>

\* A call to edp-api, S3 or the mail provider raises inside the pipeline.
CallRaises(o) ==
  /\ callFaults < MaxCallFaults
  /\ callFaults' = callFaults + 1
  /\ Caught(o)
  /\ UNCHANGED dbFaults

\* A database call raises.  Every one of them is outside the try block.
DbRaises(o, end) ==
  /\ dbFaults < MaxDbFaults
  /\ dbFaults' = dbFaults + 1
  /\ pc' = [pc EXCEPT ![o] = end]
  /\ UNCHANGED <<cause, callFaults>>

SetRow(o, status) == row' = [row EXCEPT ![o] = status]
Put(o, file) == bucket' = [bucket EXCEPT ![o] = @ \cup {file}]
Send(o, kind) == mail' = [mail EXCEPT ![o] = @ \cup {kind}]

-----------------------------------------------------------------------------
(* The request handler. *)

\* submit_order: Order.create, then add_task.  When create raises the client
\* gets a 500, no task is scheduled, and the row may exist all the same.
Submit(o) ==
  /\ pc[o] = "none"
  /\ \/ SetRow(o, "pending") /\ Return(o, "scheduled")
     \/ DbRaises(o, "refused") /\ (SetRow(o, "pending") \/ UNCHANGED row)
  /\ UNCHANGED <<request, saved, polls, archived, outside, crashes>>

-----------------------------------------------------------------------------
(* The background task: OrdersService.execute and OrchestratorService.execute. *)

\* Order.get_or_none; rows are never deleted, so it finds the order's row.
LoadOrder(o) ==
  /\ pc[o] = "scheduled"
  /\ Return(o, "mark_running") \/ DbRaises(o, "unloaded")
  /\ UNCHANGED <<request, tables, polls, archived, outside, crashes>>

MarkRunning(o) ==
  /\ pc[o] = "mark_running"
  /\ \/ SetRow(o, "running") /\ Return(o, "setup_aws")
     \/ DbRaises(o, "escaped") /\ (SetRow(o, "running") \/ UNCHANGED row)
  /\ UNCHANGED <<request, saved, polls, archived, outside, crashes>>

\* ensure_bucket and verify_sender.
SetupAws(o) ==
  /\ pc[o] = "setup_aws"
  /\ Return(o, "submit") \/ CallRaises(o)
  /\ UNCHANGED <<request, tables, polls, archived, outside, crashes>>

\* Faulty variant of SubmitJob: the job is submitted outside the try block.
SubmitJobUncaught(o) ==
  /\ pc[o] = "submit"
  /\ LET JobStarts == job' = [job EXCEPT ![o].state = "running"]
     IN  \/ JobStarts /\ Return(o, "poll")
         \/ /\ callFaults < MaxCallFaults
            /\ callFaults' = callFaults + 1
            /\ pc' = [pc EXCEPT ![o] = "escaped"]
            /\ UNCHANGED <<cause, dbFaults, job>>
  /\ UNCHANGED <<request, tables, polls, archived, bucket, listed, mail, crashes>>

\* POST /edp-api/jobs.
SubmitJob(o) ==
  /\ pc[o] = "submit"
  /\ LET JobStarts == job' = [job EXCEPT ![o].state = "running"]
     IN  \/ JobStarts /\ Return(o, "poll")
         \/ CallRaises(o) /\ (JobStarts \/ UNCHANGED job)
  /\ UNCHANGED <<request, tables, polls, archived, bucket, listed, mail, crashes>>

\* The loop over a complete job's artifacts; a job may have made none.
AfterPoll(o) == IF job[o].files = {} THEN "deliver" ELSE "archive"

\* Faulty variant of Poll: the loop has no deadline.
PollWithoutDeadline(o) ==
  /\ pc[o] = "poll"
  /\ \/ job[o].state = "complete" /\ Return(o, AfterPoll(o))
     \/ job[o].state = "failed" /\ Refuse(o)
     \/ CallRaises(o)
  /\ UNCHANGED <<request, tables, polls, archived, outside, crashes>>

\* One turn of the polling loop: the deadline is looked at before each GET.
Poll(o) ==
  /\ pc[o] = "poll"
  /\ \/ job[o].state = "complete" /\ Return(o, AfterPoll(o)) /\ UNCHANGED polls
     \/ job[o].state = "failed" /\ Refuse(o) /\ UNCHANGED polls
     \/ /\ job[o].state = "running"
        /\ polls[o] < MaxPolls
        /\ polls' = [polls EXCEPT ![o] = @ + 1]
        /\ Return(o, "poll")
     \/ Refuse(o) /\ UNCHANGED polls                  \* TimeoutError
     \/ CallRaises(o) /\ UNCHANGED polls
  /\ UNCHANGED <<request, tables, archived, outside, crashes>>

\* Re-archive one artifact of the job; the last one ends the loop.
Archive(o) ==
  /\ pc[o] = "archive"
  /\ \E file \in job[o].files \ archived[o] :
       LET got == archived[o] \cup {file}
       IN  \/ /\ Put(o, file)
              /\ archived' = [archived EXCEPT ![o] = got]
              /\ Return(o, IF got = job[o].files THEN "deliver" ELSE "archive")
           \/ /\ CallRaises(o)
              /\ Put(o, file) \/ UNCHANGED bucket
              /\ UNCHANGED archived
  /\ UNCHANGED <<request, tables, polls, job, listed, mail, crashes>>

\* Faulty variant of Deliver: nobody checks that the DTM was among the artifacts.
DeliverWithoutDtmCheck(o) ==
  /\ pc[o] = "deliver"
  /\ request[o].named /\ Put(o, DeliveryFile(o)) /\ Return(o, "bundle")
  /\ UNCHANGED <<request, tables, polls, archived, job, listed, mail, crashes>>

\* Render the template or bake the ISO, and upload it.  Both need a site id
\* and the DTM among the archived files.
Deliver(o) ==
  /\ pc[o] = "deliver"
  /\ LET deliverable == request[o].named /\ DTM_FILE \in archived[o]
     IN  \/ deliverable /\ Put(o, DeliveryFile(o)) /\ Return(o, "bundle")
         \/ /\ deliverable
            /\ CallRaises(o)
            /\ Put(o, DeliveryFile(o)) \/ UNCHANGED bucket
         \/ ~deliverable /\ Refuse(o) /\ UNCHANGED bucket
  /\ UNCHANGED <<request, tables, polls, archived, job, listed, mail, crashes>>

\* Download every file of the manifest, the release files included, and
\* upload the zip.
Bundle(o) ==
  /\ pc[o] = "bundle"
  /\ LET available == ReleaseFilesReachable /\ PageFiles(o) \subseteq bucket[o]
     IN  \/ available /\ Put(o, "arcnode.zip") /\ Return(o, "manifest")
         \/ /\ available
            /\ CallRaises(o)
            /\ Put(o, "arcnode.zip") \/ UNCHANGED bucket
         \/ ~available /\ Refuse(o) /\ UNCHANGED bucket
  /\ UNCHANGED <<request, tables, polls, archived, job, listed, mail, crashes>>

\* Faulty variant of UploadManifest: the contact is told before the page is up.
UploadManifestThenNotify(o) ==
  /\ pc[o] = "manifest"
  /\ Put(o, "manifest.json") /\ Return(o, "notify")
  /\ UNCHANGED <<request, tables, polls, archived, job, listed, mail, crashes>>

\* manifest.json, written with the zip already in place.
UploadManifest(o) ==
  /\ pc[o] = "manifest"
  /\ \/ Put(o, "manifest.json") /\ Return(o, "index")
     \/ CallRaises(o) /\ (Put(o, "manifest.json") \/ UNCHANGED bucket)
  /\ UNCHANGED <<request, tables, polls, archived, job, listed, mail, crashes>>

\* Upload the portal page, then sign its link.
UploadIndex(o) ==
  /\ pc[o] = "index"
  /\ LET PublishPage ==
           Put(o, "index.html") /\ listed' = [listed EXCEPT ![o] = PageFiles(o)]
     IN  \/ PublishPage /\ Return(o, "notify")
         \/ CallRaises(o) /\ (PublishPage \/ UNCHANGED <<bucket, listed>>)
  /\ UNCHANGED <<request, tables, polls, archived, job, mail, crashes>>

\* Faulty variant of Notify: an error of the mail provider is swallowed.
NotifyBestEffort(o) ==
  /\ pc[o] = "notify"
  /\ Send(o, "ready") \/ UNCHANGED mail
  /\ Return(o, "mark_complete")
  /\ UNCHANGED <<request, tables, polls, archived, job, bucket, listed, crashes>>

\* Mail the link.  The last step of the pipeline.
Notify(o) ==
  /\ pc[o] = "notify"
  /\ \/ Send(o, "ready") /\ Return(o, "mark_complete")
     \/ CallRaises(o) /\ (Send(o, "ready") \/ UNCHANGED mail)
  /\ UNCHANGED <<request, tables, polls, archived, job, bucket, listed, crashes>>

\* Faulty variant of MarkComplete: the save is inside the try block.
MarkCompleteInTry(o) ==
  /\ pc[o] = "mark_complete"
  /\ \/ /\ SetRow(o, "complete")
        /\ saved' = [saved EXCEPT ![o] = request[o].path]
        /\ Return(o, "done")
     \/ /\ dbFaults < MaxDbFaults
        /\ dbFaults' = dbFaults + 1
        /\ Caught(o)
        /\ UNCHANGED <<tables, callFaults>>
  /\ UNCHANGED <<request, polls, archived, outside, crashes>>

\* One save writes the status and the delivery columns together.
MarkComplete(o) ==
  /\ pc[o] = "mark_complete"
  /\ LET SaveComplete ==
           SetRow(o, "complete") /\ saved' = [saved EXCEPT ![o] = request[o].path]
     IN  \/ SaveComplete /\ Return(o, "done")
         \/ DbRaises(o, "escaped") /\ (SaveComplete \/ UNCHANGED tables)
  /\ UNCHANGED <<request, polls, archived, outside, crashes>>

\* Faulty variant of MarkFailed: the contact is never told.
MarkFailedSilently(o) ==
  /\ pc[o] = "mark_failed"
  /\ SetRow(o, "failed") /\ Return(o, "done")
  /\ UNCHANGED <<request, saved, polls, archived, outside, crashes>>

MarkFailed(o) ==
  /\ pc[o] = "mark_failed"
  /\ \/ SetRow(o, "failed") /\ Return(o, "notify_failed")
     \/ DbRaises(o, "escaped") /\ (SetRow(o, "failed") \/ UNCHANGED row)
  /\ UNCHANGED <<request, saved, polls, archived, outside, crashes>>

\* The failure mail; nothing catches its exception.
NotifyFailed(o) ==
  /\ pc[o] = "notify_failed"
  /\ \/ Send(o, "failed") /\ Return(o, "done")
     \/ /\ callFaults < MaxCallFaults
        /\ callFaults' = callFaults + 1
        /\ pc' = [pc EXCEPT ![o] = "escaped"]
        /\ Send(o, "failed") \/ UNCHANGED mail
        /\ UNCHANGED <<cause, dbFaults>>
  /\ UNCHANGED <<request, tables, polls, archived, job, bucket, listed, crashes>>

-----------------------------------------------------------------------------
(* The world around the task. *)

\* edp-api finishes a job, with the files it made, or fails it.
EdpFinishes(o) ==
  /\ job[o].state = "running"
  /\ \/ \E files \in SUBSET Artifact :
          job' = [job EXCEPT ![o] = [state |-> "complete", files |-> files]]
     \/ job' = [job EXCEPT ![o].state = "failed"]
  /\ UNCHANGED <<request, tables, pc, cause, polls, archived, bucket, listed, mail,
                 callFaults, dbFaults, crashes>>

\* The process dies and comes back: the tasks are gone, nothing resumes them.
Crash ==
  /\ crashes < MaxCrashes
  /\ crashes' = crashes + 1
  /\ \E o \in Order : pc[o] \in Live
  /\ pc' = [o \in Order |-> IF pc[o] \in Live THEN "crashed" ELSE pc[o]]
  /\ UNCHANGED <<request, tables, cause, polls, archived, outside, callFaults, dbFaults>>

Task(o) ==
  \/ LoadOrder(o) \/ MarkRunning(o)
  \/ SetupAws(o) \/ SubmitJob(o) \/ Poll(o) \/ Archive(o) \/ Deliver(o)
  \/ Bundle(o) \/ UploadManifest(o) \/ UploadIndex(o) \/ Notify(o)
  \/ MarkComplete(o) \/ MarkFailed(o) \/ NotifyFailed(o)

Next ==
  \/ \E o \in Order : Submit(o) \/ Task(o) \/ EdpFinishes(o)
  \/ Crash

Spec == Init /\ [][Next]_vars

\* A scheduled task runs until it ends: the event loop resumes every task, and
\* every call it awaits returns or times out.  edp-api owes nothing, and no
\* call is bound to raise.
GoesOn(o) == Task(o) /\ UNCHANGED <<callFaults, dbFaults>>
FairSpec == Spec /\ \A o \in Order : WF_vars(GoesOn(o))

-----------------------------------------------------------------------------
(* What must hold. *)

\* A contact who has the ready mail can open the page and fetch everything on
\* it: the page, the zip, the manifest and every file the page links to are in
\* the bucket, the DTM and the order's deliverable among them (_run_pipeline
\* publishes all of it, in its order, before _notify).
Published(o) ==
  /\ {"index.html", "arcnode.zip", "manifest.json"} \subseteq bucket[o]
  /\ listed[o] \subseteq bucket[o]
  /\ {DTM_FILE, DeliveryFile(o)} \subseteq listed[o]

ReadyMailHasFiles == \A o \in Order : "ready" \in mail[o] => Published(o)

\* A complete order was delivered: its contact has the ready mail and no
\* failure mail, and the row names the path the order asked for (_mark_complete
\* runs after _notify returned, and no step follows it).
CompleteMeansDelivered ==
  \A o \in Order :
    row[o] = "complete" => mail[o] = {"ready"} /\ saved[o] = request[o].path

\* A contact gets both mails only when the provider accepted the ready mail
\* and its answer was lost: no step that can fail follows _notify inside the
\* try block of execute.
BothMailsNeedALostAnswer ==
  \A o \in Order : mail[o] = {"ready", "failed"} => cause[o] = "notify"

\* An order is left pending or running with no task behind it only by a crash
\* or by a database error: whatever edp-api, S3 or the mail provider do, the
\* handlers of execute bring the row to complete or failed.
Unfinished(o) == row[o] \in {"pending", "running"}

StrandedOnlyByDbOrCrash ==
  \A o \in Order : Unfinished(o) /\ pc[o] \notin Live => dbFaults + crashes > 0

\* The code implements the order's promise: statuses only move forward, complete
\* only after the ready mail, a failure mail only once the row says failed.
Lifecycle == INSTANCE OrderLifecycle WITH status <- row, told <- mail
ImplementsLifecycle == Lifecycle!LifecycleSpec

\* A database error or a crash has happened.
Disturbed == dbFaults + crashes > 0

\* Every scheduled order reaches a final status, as long as the database answers
\* and the process lives: the polling loop has a deadline and execute catches
\* whatever its pipeline raises.
ScheduledOrderFinishes ==
  \A o \in Order : pc[o] = "scheduled" ~> row[o] \in {"complete", "failed"} \/ Disturbed

\* ... and its contact hears of it, unless the call that sends the failure mail
\* raises itself: the mail is the only word the contact gets.
ContactIsTold ==
  \A o \in Order : pc[o] = "scheduled" ~> mail[o] # {} \/ pc[o] = "escaped" \/ Disturbed

-----------------------------------------------------------------------------
(* The inductive invariant behind the safety properties. *)

BeforeMail == {"none", "scheduled", "mark_running"} \cup Pipeline
Zipped     == {"manifest", "index", "notify", "mark_complete"}

\* The row says how far the task is.
RowFollowsTask(o) ==
  /\ pc[o] = "none" => row[o] = "none"
  /\ pc[o] \in {"scheduled", "mark_running"} => row[o] = "pending"
  /\ pc[o] \in Pipeline \cup {"mark_complete", "mark_failed"} => row[o] = "running"
  /\ pc[o] = "notify_failed" => row[o] = "failed"
  /\ pc[o] = "done" => ~Unfinished(o)

\* Which mails can be out at each step.
MailFollowsTask(o) ==
  /\ pc[o] \in BeforeMail => mail[o] = {} /\ cause[o] = "none"
  /\ pc[o] = "mark_complete" => mail[o] = {"ready"}
  /\ pc[o] \in {"mark_failed", "notify_failed"} =>
        mail[o] = {} \/ (mail[o] = {"ready"} /\ cause[o] = "notify")
  /\ mail[o] = {"ready", "failed"} => cause[o] = "notify"
  /\ row[o] = "complete" => mail[o] = {"ready"} /\ saved[o] = request[o].path

\* Which files are in the bucket at each step.
FilesFollowTask(o) ==
  /\ archived[o] \subseteq bucket[o]
  /\ pc[o] \in Zipped \cup {"bundle"} =>
        DTM_FILE \in archived[o] /\ DeliveryFile(o) \in bucket[o]
  /\ pc[o] \in Zipped => "arcnode.zip" \in bucket[o]
  /\ pc[o] \in Zipped \ {"manifest"} => "manifest.json" \in bucket[o]
  /\ pc[o] = "notify" => "index.html" \in bucket[o] /\ listed[o] = PageFiles(o)
  /\ "ready" \in mail[o] => Published(o)

OrderInv(o) == RowFollowsTask(o) /\ MailFollowsTask(o) /\ FilesFollowTask(o)

PipelineInv ==
  /\ TypeOK
  /\ \A o \in Order : OrderInv(o)
  /\ StrandedOnlyByDbOrCrash

=============================================================================
