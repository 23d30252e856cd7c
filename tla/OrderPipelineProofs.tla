------------------------- MODULE OrderPipelineProofs -------------------------
(***************************************************************************)
(* Proofs about the order pipeline, for every set of orders and artifacts  *)
(* and every bound on faults, polls and crashes.  PipelineInv is the       *)
(* inductive invariant; the named safety properties follow from it, and so *)
(* does the step simulation of OrderLifecycle.                             *)
(***************************************************************************)
EXTENDS OrderPipeline, TLAPS


(***************************************************************************)
(* Type correctness: every variable keeps its type, whatever raises and    *)
(* whenever the process crashes.                                           *)
(***************************************************************************)
LEMMA InitType == Init => TypeOK
  BY BoundsAssumption
  DEF Init, TypeOK, NoJob, Job, Status, Path, Live, Ended, Pipeline, Mail, File

LEMMA TaskType ==
  ASSUME TypeOK, NEW o \in Order, Task(o)
  PROVE  TypeOK'
<1> USE ArtifactAssumption, BoundsAssumption
    DEF TypeOK, Return, Refuse, CallRaises, DbRaises, Caught, SetRow, Put, Send,
        Live, Ended, Pipeline, Status, Mail, tables, outside
<1>1. CASE LoadOrder(o)      BY <1>1 DEF LoadOrder
<1>2. CASE MarkRunning(o)    BY <1>2 DEF MarkRunning
<1>3. CASE SetupAws(o)       BY <1>3 DEF SetupAws
<1>4. CASE SubmitJob(o)
  <2>1. job' \in [Order -> Job]
    <3>1. CASE UNCHANGED job BY <3>1
    <3>2. CASE job' = [job EXCEPT ![o].state = "running"]
      <4>1. [job[o] EXCEPT !.state = "running"] \in Job
        BY DEF Job
      <4>2. QED BY <3>2, <4>1
    <3>3. QED BY <1>4, <3>1, <3>2 DEF SubmitJob
  <2>2. QED BY <1>4, <2>1 DEF SubmitJob
<1>5. CASE Poll(o)           BY <1>5 DEF Poll, AfterPoll
<1>6. CASE Archive(o)
  <2>1. PICK file \in job[o].files \ archived[o] :
          \/ /\ Put(o, file)
             /\ archived' = [archived EXCEPT ![o] = archived[o] \cup {file}]
             /\ \/ Return(o, "deliver")
                \/ Return(o, "archive")
          \/ /\ CallRaises(o)
             /\ Put(o, file) \/ UNCHANGED bucket
             /\ UNCHANGED archived
    BY <1>6 DEF Archive
  <2>2. file \in Artifact
    BY <2>1 DEF Job
  <2>3. QED BY <1>6, <2>1, <2>2 DEF Archive, File
<1>7. CASE Deliver(o)        BY <1>7 DEF Deliver, DeliveryFile, File, OwnFile
<1>8. CASE Bundle(o)         BY <1>8 DEF Bundle, File, OwnFile
<1>9. CASE UploadManifest(o) BY <1>9 DEF UploadManifest, File, OwnFile
<1>10. CASE UploadIndex(o)
  BY <1>10 DEF UploadIndex, PageFiles, DeliveryFile, File, OwnFile
<1>11. CASE Notify(o)        BY <1>11 DEF Notify
<1>12. CASE MarkComplete(o)
  <2>1. request[o].path \in Path
    BY DEF Request
  <2>2. QED BY <1>12, <2>1 DEF MarkComplete
<1>13. CASE MarkFailed(o)    BY <1>13 DEF MarkFailed
<1>14. CASE NotifyFailed(o)  BY <1>14 DEF NotifyFailed
<1>15. QED
  BY <1>1, <1>2, <1>3, <1>4, <1>5, <1>6, <1>7, <1>8, <1>9, <1>10, <1>11, <1>12, <1>13,
     <1>14 DEF Task

LEMMA NextType == TypeOK /\ [Next]_vars => TypeOK'
<1> SUFFICES ASSUME TypeOK, [Next]_vars PROVE TypeOK'
  OBVIOUS
<1>1. ASSUME NEW o \in Order, Submit(o) PROVE TypeOK'
  BY <1>1, BoundsAssumption
  DEF TypeOK, Submit, Return, DbRaises, SetRow, Status, Live, Ended, tables, outside
<1>2. ASSUME NEW o \in Order, Task(o) PROVE TypeOK'
  BY <1>2, TaskType
<1>3. ASSUME NEW o \in Order, EdpFinishes(o) PROVE TypeOK'
  <2>1. job' \in [Order -> Job]
    <3>1. ASSUME NEW files \in SUBSET Artifact,
                 job' = [job EXCEPT ![o] = [state |-> "complete", files |-> files]]
          PROVE  job' \in [Order -> Job]
      BY <3>1 DEF TypeOK, Job
    <3>2. CASE job' = [job EXCEPT ![o].state = "failed"]
      <4>1. [job[o] EXCEPT !.state = "failed"] \in Job
        BY DEF TypeOK, Job
      <4>2. QED BY <3>2, <4>1 DEF TypeOK
    <3>3. QED BY <1>3, <3>1, <3>2 DEF EdpFinishes
  <2>2. QED BY <1>3, <2>1 DEF EdpFinishes, TypeOK, tables
<1>4. CASE Crash
  BY <1>4, BoundsAssumption DEF TypeOK, Crash, Ended, tables, outside
<1>5. CASE UNCHANGED vars
  BY <1>5 DEF TypeOK, vars
<1>6. QED BY <1>1, <1>2, <1>3, <1>4, <1>5 DEF Next

THEOREM TypeCorrect == Spec => []TypeOK
<1>1. QED BY InitType, NextType, PTL DEF Spec

(***************************************************************************)
(* The inductive invariant.  A step of one order's task leaves every other *)
(* order alone (OthersUntouched), so it is enough to look at that order.   *)
(***************************************************************************)
Untouched(p) ==
  /\ request'[p] = request[p]
  /\ row'[p] = row[p]
  /\ saved'[p] = saved[p]
  /\ pc'[p] = pc[p]
  /\ cause'[p] = cause[p]
  /\ archived'[p] = archived[p]
  /\ bucket'[p] = bucket[p]
  /\ listed'[p] = listed[p]
  /\ mail'[p] = mail[p]

LEMMA UntouchedKeepsInv ==
  ASSUME NEW p \in Order, OrderInv(p), Untouched(p)
  PROVE  OrderInv(p)'
<1>1. RowFollowsTask(p)'
  BY DEF OrderInv, RowFollowsTask, Untouched, Unfinished
<1>2. MailFollowsTask(p)'
  BY DEF OrderInv, MailFollowsTask, Untouched
<1>3. FilesFollowTask(p)'
  BY DEF OrderInv, FilesFollowTask, Untouched, Published, PageFiles, DeliveryFile
<1>4. QED BY <1>1, <1>2, <1>3 DEF OrderInv

LEMMA OthersUntouched ==
  ASSUME TypeOK, NEW o \in Order, NEW p \in Order \ {o},
         Submit(o) \/ Task(o) \/ EdpFinishes(o)
  PROVE  Untouched(p)
<1> USE DEF TypeOK, Untouched, Return, Refuse, CallRaises, DbRaises, Caught, SetRow, Put,
            Send, tables, outside
<1>1. CASE Submit(o)         BY <1>1 DEF Submit
<1>2. CASE LoadOrder(o)      BY <1>2 DEF LoadOrder
<1>3. CASE MarkRunning(o)    BY <1>3 DEF MarkRunning
<1>4. CASE SetupAws(o)       BY <1>4 DEF SetupAws
<1>5. CASE SubmitJob(o)      BY <1>5 DEF SubmitJob
<1>6. CASE Poll(o)           BY <1>6 DEF Poll, AfterPoll
<1>7. CASE Archive(o)        BY <1>7 DEF Archive
<1>8. CASE Deliver(o)        BY <1>8 DEF Deliver
<1>9. CASE Bundle(o)         BY <1>9 DEF Bundle
<1>10. CASE UploadManifest(o) BY <1>10 DEF UploadManifest
<1>11. CASE UploadIndex(o)   BY <1>11 DEF UploadIndex
<1>12. CASE Notify(o)        BY <1>12 DEF Notify
<1>13. CASE MarkComplete(o)  BY <1>13 DEF MarkComplete
<1>14. CASE MarkFailed(o)    BY <1>14 DEF MarkFailed
<1>15. CASE NotifyFailed(o)  BY <1>15 DEF NotifyFailed
<1>16. CASE EdpFinishes(o)   BY <1>16 DEF EdpFinishes
<1>17. QED
  BY <1>1, <1>2, <1>3, <1>4, <1>5, <1>6, <1>7, <1>8, <1>9, <1>10, <1>11, <1>12, <1>13,
     <1>14, <1>15, <1>16 DEF Task

LEMMA RowStep ==
  ASSUME TypeOK, NEW o \in Order, OrderInv(o), Submit(o) \/ Task(o) \/ EdpFinishes(o)
  PROVE  RowFollowsTask(o)'
<1> USE DEF TypeOK, OrderInv, RowFollowsTask, Return, Refuse, CallRaises, DbRaises, Caught,
            SetRow, Unfinished, Pipeline, tables
<1>1. CASE Submit(o)         BY <1>1 DEF Submit
<1>2. CASE LoadOrder(o)      BY <1>2 DEF LoadOrder
<1>3. CASE MarkRunning(o)    BY <1>3 DEF MarkRunning
<1>4. CASE SetupAws(o)       BY <1>4 DEF SetupAws
<1>5. CASE SubmitJob(o)      BY <1>5 DEF SubmitJob
<1>6. CASE Poll(o)           BY <1>6 DEF Poll, AfterPoll
<1>7. CASE Archive(o)        BY <1>7 DEF Archive
<1>8. CASE Deliver(o)        BY <1>8 DEF Deliver
<1>9. CASE Bundle(o)         BY <1>9 DEF Bundle
<1>10. CASE UploadManifest(o) BY <1>10 DEF UploadManifest
<1>11. CASE UploadIndex(o)   BY <1>11 DEF UploadIndex
<1>12. CASE Notify(o)        BY <1>12 DEF Notify
<1>13. CASE MarkComplete(o)  BY <1>13 DEF MarkComplete
<1>14. CASE MarkFailed(o)    BY <1>14 DEF MarkFailed
<1>15. CASE NotifyFailed(o)  BY <1>15 DEF NotifyFailed
<1>16. CASE EdpFinishes(o)   BY <1>16 DEF EdpFinishes
<1>17. QED
  BY <1>1, <1>2, <1>3, <1>4, <1>5, <1>6, <1>7, <1>8, <1>9, <1>10, <1>11, <1>12, <1>13,
     <1>14, <1>15, <1>16 DEF Task

LEMMA MailStep ==
  ASSUME TypeOK, NEW o \in Order, OrderInv(o), Submit(o) \/ Task(o) \/ EdpFinishes(o)
  PROVE  MailFollowsTask(o)'
<1> USE DEF TypeOK, OrderInv, RowFollowsTask, MailFollowsTask, BeforeMail, Return, Refuse,
            CallRaises, DbRaises, Caught, SetRow, Send, Pipeline, tables, outside
<1>1. CASE Submit(o)         BY <1>1 DEF Submit
<1>2. CASE LoadOrder(o)      BY <1>2 DEF LoadOrder
<1>3. CASE MarkRunning(o)    BY <1>3 DEF MarkRunning
<1>4. CASE SetupAws(o)       BY <1>4 DEF SetupAws
<1>5. CASE SubmitJob(o)      BY <1>5 DEF SubmitJob
<1>6. CASE Poll(o)           BY <1>6 DEF Poll, AfterPoll
<1>7. CASE Archive(o)        BY <1>7 DEF Archive
<1>8. CASE Deliver(o)        BY <1>8 DEF Deliver
<1>9. CASE Bundle(o)         BY <1>9 DEF Bundle
<1>10. CASE UploadManifest(o) BY <1>10 DEF UploadManifest
<1>11. CASE UploadIndex(o)   BY <1>11 DEF UploadIndex
<1>12. CASE Notify(o)        BY <1>12 DEF Notify
<1>13. CASE MarkComplete(o)  BY <1>13 DEF MarkComplete
<1>14. CASE MarkFailed(o)    BY <1>14 DEF MarkFailed
<1>15. CASE NotifyFailed(o)
  <2>1. row'[o] = "failed" /\ pc'[o] \in {"done", "escaped"} /\ cause'[o] = cause[o]
    BY <1>15 DEF NotifyFailed
  <2>2. mail'[o] = {"ready", "failed"} => "ready" \in mail[o]
    BY <1>15 DEF NotifyFailed
  <2>3. "ready" \in mail[o] => cause[o] = "notify"
    BY <1>15 DEF NotifyFailed
  <2>4. QED BY <2>1, <2>2, <2>3
<1>16. CASE EdpFinishes(o)   BY <1>16 DEF EdpFinishes
<1>17. QED
  BY <1>1, <1>2, <1>3, <1>4, <1>5, <1>6, <1>7, <1>8, <1>9, <1>10, <1>11, <1>12, <1>13,
     <1>14, <1>15, <1>16 DEF Task

LEMMA FilesStep ==
  ASSUME TypeOK, NEW o \in Order, OrderInv(o), Submit(o) \/ Task(o) \/ EdpFinishes(o)
  PROVE  FilesFollowTask(o)'
<1> USE DEF TypeOK, OrderInv, MailFollowsTask, BeforeMail, FilesFollowTask, Published,
            Zipped, Return, Refuse, CallRaises, DbRaises, Caught, Put, Send, Pipeline,
            PageFiles, DeliveryFile, tables, outside
<1>1. CASE Submit(o)         BY <1>1 DEF Submit
<1>2. CASE LoadOrder(o)      BY <1>2 DEF LoadOrder
<1>3. CASE MarkRunning(o)    BY <1>3 DEF MarkRunning
<1>4. CASE SetupAws(o)       BY <1>4 DEF SetupAws
<1>5. CASE SubmitJob(o)      BY <1>5 DEF SubmitJob
<1>6. CASE Poll(o)           BY <1>6 DEF Poll, AfterPoll
<1>7. CASE Archive(o)
  <2>1. PICK file \in job[o].files \ archived[o] :
          \/ /\ Put(o, file)
             /\ archived' = [archived EXCEPT ![o] = archived[o] \cup {file}]
             /\ Return(o, "deliver") \/ Return(o, "archive")
          \/ /\ CallRaises(o)
             /\ Put(o, file) \/ UNCHANGED bucket
             /\ UNCHANGED archived
    BY <1>7 DEF Archive
  <2>2. pc[o] = "archive" /\ UNCHANGED <<request, listed, mail>>
    BY <1>7 DEF Archive
  <2>3. mail[o] = {}
    BY <2>2
  <2>4. archived'[o] \subseteq bucket'[o]
    <3>1. CASE UNCHANGED archived BY <2>1, <3>1
    <3>2. CASE Put(o, file) /\ archived' = [archived EXCEPT ![o] = archived[o] \cup {file}]
      BY <3>2
    <3>3. QED BY <2>1, <3>1, <3>2
  <2>5. pc'[o] \in {"deliver", "archive", "mark_failed"}
    BY <2>1
  <2>6. QED BY <2>2, <2>3, <2>4, <2>5
<1>8. CASE Deliver(o)        BY <1>8 DEF Deliver
<1>9. CASE Bundle(o)         BY <1>9 DEF Bundle
<1>10. CASE UploadManifest(o) BY <1>10 DEF UploadManifest
<1>11. CASE UploadIndex(o)   BY <1>11 DEF UploadIndex
<1>12. CASE Notify(o)        BY <1>12 DEF Notify
<1>13. CASE MarkComplete(o)  BY <1>13 DEF MarkComplete
<1>14. CASE MarkFailed(o)    BY <1>14 DEF MarkFailed
<1>15. CASE NotifyFailed(o)  BY <1>15 DEF NotifyFailed
<1>16. CASE EdpFinishes(o)   BY <1>16 DEF EdpFinishes
<1>17. QED
  BY <1>1, <1>2, <1>3, <1>4, <1>5, <1>6, <1>7, <1>8, <1>9, <1>10, <1>11, <1>12, <1>13,
     <1>14, <1>15, <1>16 DEF Task

\* A step of the order's own task strands the order only when a database call
\* raised on that step, and the counts of faults and crashes never go down.
LEMMA StrandedStep ==
  ASSUME PipelineInv, NEW o \in Order, Submit(o) \/ Task(o) \/ EdpFinishes(o)
  PROVE  /\ dbFaults' + crashes' >= dbFaults + crashes
         /\ Unfinished(o)' /\ pc'[o] \notin Live => dbFaults' + crashes' > 0
<1>1. OrderInv(o) /\ TypeOK /\ dbFaults \in Nat /\ crashes \in Nat
  BY BoundsAssumption DEF PipelineInv, TypeOK
<1>2. CASE UNCHANGED dbFaults /\ UNCHANGED crashes
  <2>1. RowFollowsTask(o)'
    BY <1>1, RowStep
  <2>2. CASE pc'[o] \in Live \cup {"none", "done"}
    BY <1>1, <1>2, <2>1, <2>2 DEF RowFollowsTask, Unfinished
  <2>3. CASE pc'[o] \notin Live \cup {"none", "done"}
    <3>1. CASE Submit(o)
      BY <1>1, <1>2, <2>3, <3>1 DEF Submit, Return, DbRaises, TypeOK, Live
    <3>2. CASE EdpFinishes(o)
      BY <1>1, <1>2, <2>3, <3>2
      DEF EdpFinishes, PipelineInv, StrandedOnlyByDbOrCrash, Unfinished, tables
    <3>3. CASE NotifyFailed(o)
      BY <1>1, <1>2, <3>3
      DEF NotifyFailed, OrderInv, RowFollowsTask, Unfinished, tables, TypeOK
    <3>4. CASE Task(o) /\ ~NotifyFailed(o)
      BY <1>1, <1>2, <2>3, <3>4
      DEF Task, LoadOrder, MarkRunning, SetupAws, SubmitJob, Poll, AfterPoll, Archive, Deliver,
          Bundle, UploadManifest, UploadIndex, Notify, MarkComplete, MarkFailed, Return,
          Refuse, CallRaises, DbRaises, Caught, TypeOK, Live, Pipeline
    <3>5. QED BY <3>1, <3>2, <3>3, <3>4
  <2>4. QED BY <2>2, <2>3, <1>2, <1>1
<1>3. CASE dbFaults' = dbFaults + 1 /\ UNCHANGED crashes
  BY <1>1, <1>3
<1>4. (UNCHANGED dbFaults \/ dbFaults' = dbFaults + 1) /\ UNCHANGED crashes
  BY DEF Submit, Task, EdpFinishes, LoadOrder, MarkRunning, SetupAws, SubmitJob, Poll, AfterPoll,
         Archive, Deliver, Bundle, UploadManifest, UploadIndex, Notify, MarkComplete,
         MarkFailed, NotifyFailed, Return, Refuse, CallRaises, DbRaises
<1>5. QED BY <1>2, <1>3, <1>4

\* A sum that does not shrink stays positive.
LEMMA StillPositive ==
  ASSUME NEW a \in Nat, NEW b \in Nat, NEW c \in Nat, NEW d \in Nat,
         a + b > 0, c + d >= a + b
  PROVE  c + d > 0
OBVIOUS

LEMMA InitInv == Init => PipelineInv
<1> SUFFICES ASSUME Init PROVE PipelineInv
  OBVIOUS
<1>1. TypeOK
  BY InitType
<1>2. ASSUME NEW o \in Order PROVE OrderInv(o)
  BY DEF Init, OrderInv, RowFollowsTask, MailFollowsTask, FilesFollowTask, BeforeMail,
         Pipeline, Zipped, Unfinished
<1>3. StrandedOnlyByDbOrCrash
  BY DEF Init, StrandedOnlyByDbOrCrash, Unfinished
<1>4. QED BY <1>1, <1>2, <1>3 DEF PipelineInv

LEMMA NextInv == PipelineInv /\ [Next]_vars => PipelineInv'
<1> SUFFICES ASSUME PipelineInv, [Next]_vars PROVE PipelineInv'
  OBVIOUS
<1>1. TypeOK /\ TypeOK'
  BY NextType DEF PipelineInv
<1>2. dbFaults \in Nat /\ crashes \in Nat
  BY <1>1, BoundsAssumption DEF TypeOK
<1>3. ASSUME NEW o \in Order, Submit(o) \/ Task(o) \/ EdpFinishes(o)
      PROVE  PipelineInv'
  <2>1. OrderInv(o)'
    BY <1>1, <1>3, RowStep, MailStep, FilesStep DEF PipelineInv, OrderInv
  <2>2. ASSUME NEW p \in Order \ {o}
        PROVE  Untouched(p) /\ OrderInv(p)'
    BY <1>1, <1>3, OthersUntouched, UntouchedKeepsInv DEF PipelineInv
  <2>3. dbFaults' + crashes' >= dbFaults + crashes
    BY <1>3, StrandedStep
  <2>4. dbFaults' \in Nat /\ crashes' \in Nat
    BY <1>1, BoundsAssumption DEF TypeOK
  <2>5. ASSUME NEW p \in Order, Unfinished(p)', pc'[p] \notin Live
        PROVE  dbFaults' + crashes' > 0
    <3>1. CASE p = o
      BY <1>3, <2>5, <3>1, StrandedStep
    <3>2. CASE p # o
      <4>1. Untouched(p)
        BY <2>2, <3>2
      <4>2. Unfinished(p) /\ pc[p] \notin Live
        BY <2>5, <4>1 DEF Untouched, Unfinished
      <4>3. dbFaults + crashes > 0
        BY <4>2 DEF PipelineInv, StrandedOnlyByDbOrCrash
      <4>4. QED BY <1>2, <2>3, <2>4, <4>3, StillPositive
    <3>3. QED BY <3>1, <3>2
  <2>6. StrandedOnlyByDbOrCrash'
    BY <2>5 DEF StrandedOnlyByDbOrCrash, Live, Pipeline
  <2>7. QED BY <1>1, <2>1, <2>2, <2>6 DEF PipelineInv
<1>4. CASE Crash
  <2>1. ASSUME NEW p \in Order PROVE OrderInv(p)'
    <3>1. OrderInv(p) /\ pc'[p] \in {pc[p], "crashed"}
      BY <1>1, <1>4 DEF PipelineInv, Crash, TypeOK
    <3>2. UNCHANGED <<request, row, saved, cause, archived, bucket, listed, mail>>
      BY <1>4 DEF Crash, tables, outside
    <3>3. CASE pc'[p] = pc[p]
      BY <3>1, <3>2, <3>3, UntouchedKeepsInv DEF Untouched
    <3>4. CASE pc'[p] = "crashed"
      BY <3>1, <3>2, <3>4
      DEF OrderInv, RowFollowsTask, MailFollowsTask, FilesFollowTask, BeforeMail,
          Pipeline, Zipped, Unfinished, Published, PageFiles, DeliveryFile
    <3>5. QED BY <3>1, <3>3, <3>4
  <2>2. StrandedOnlyByDbOrCrash'
    BY <1>2, <1>4 DEF Crash, StrandedOnlyByDbOrCrash
  <2>3. QED BY <1>1, <2>1, <2>2 DEF PipelineInv
<1>5. CASE UNCHANGED vars
  <2>1. ASSUME NEW p \in Order PROVE OrderInv(p)'
    BY <1>5, UntouchedKeepsInv DEF PipelineInv, vars, Untouched
  <2>2. StrandedOnlyByDbOrCrash'
    BY <1>5 DEF PipelineInv, vars, StrandedOnlyByDbOrCrash, Unfinished
  <2>3. QED BY <1>1, <2>1, <2>2 DEF PipelineInv
<1>6. QED BY <1>3, <1>4, <1>5 DEF Next

THEOREM InvariantHolds == Spec => []PipelineInv
<1>1. QED BY InitInv, NextInv, PTL DEF Spec

-----------------------------------------------------------------------------
(***************************************************************************)
(* The properties the runs check, for every instance.                      *)
(***************************************************************************)

\* A contact who has the ready mail finds every file of the page in the bucket.
THEOREM ReadyMailFindsItsFiles == Spec => []ReadyMailHasFiles
<1>1. PipelineInv => ReadyMailHasFiles
  BY DEF PipelineInv, OrderInv, FilesFollowTask, ReadyMailHasFiles
<1>2. QED BY <1>1, InvariantHolds, PTL

\* A complete order was delivered, by the path it asked for, and never also
\* reported as failed.
THEOREM CompleteOrdersAreDelivered == Spec => []CompleteMeansDelivered
<1>1. PipelineInv => CompleteMeansDelivered
  BY DEF PipelineInv, OrderInv, MailFollowsTask, CompleteMeansDelivered
<1>2. QED BY <1>1, InvariantHolds, PTL

\* Both mails for one order need a ready mail whose answer was lost.
THEOREM BothMailsOnlyByALostAnswer == Spec => []BothMailsNeedALostAnswer
<1>1. PipelineInv => BothMailsNeedALostAnswer
  BY DEF PipelineInv, OrderInv, MailFollowsTask, BothMailsNeedALostAnswer
<1>2. QED BY <1>1, InvariantHolds, PTL

\* No failure of edp-api, S3 or the mail provider leaves an order unfinished.
THEOREM OnlyDbOrCrashStrands == Spec => []StrandedOnlyByDbOrCrash
<1>1. PipelineInv => StrandedOnlyByDbOrCrash
  BY DEF PipelineInv
<1>2. QED BY <1>1, InvariantHolds, PTL

(***************************************************************************)
(* The pipeline implements the order's promise: its initial states map to  *)
(* the promise's, and each of its steps to a step of the promise or to a   *)
(* stutter.                                                                *)
(***************************************************************************)
LEMMA TaskSimulation ==
  ASSUME PipelineInv, NEW o \in Order, Task(o)
  PROVE  [Lifecycle!LifecycleNext]_(Lifecycle!lifecycleVars)
<1>1. TypeOK /\ OrderInv(o)
  BY DEF PipelineInv
<1> USE <1>1 DEF OrderInv, RowFollowsTask, MailFollowsTask, Lifecycle!lifecycleVars, tables,
      outside, Pipeline
<1>2. CASE MarkRunning(o)
  <2>1. Lifecycle!Start(o) \/ UNCHANGED <<row, mail>>
    BY <1>2 DEF MarkRunning, SetRow, Lifecycle!Start, Lifecycle!Become
  <2>2. QED BY <2>1 DEF Lifecycle!LifecycleNext
<1>3. CASE Notify(o)
  <2>1. Lifecycle!TellReady(o) \/ UNCHANGED <<row, mail>>
    BY <1>3 DEF Notify, Send, Lifecycle!TellReady, Lifecycle!Tell
  <2>2. QED BY <2>1 DEF Lifecycle!LifecycleNext
<1>4. CASE MarkComplete(o)
  <2>1. Lifecycle!Complete(o) \/ UNCHANGED <<row, mail>>
    BY <1>4 DEF MarkComplete, SetRow, Lifecycle!Complete, Lifecycle!Become
  <2>2. QED BY <2>1 DEF Lifecycle!LifecycleNext
<1>5. CASE MarkFailed(o)
  <2>1. Lifecycle!Fail(o) \/ UNCHANGED <<row, mail>>
    BY <1>5 DEF MarkFailed, SetRow, Lifecycle!Fail, Lifecycle!Become
  <2>2. QED BY <2>1 DEF Lifecycle!LifecycleNext
<1>6. CASE NotifyFailed(o)
  <2>1. Lifecycle!TellFailed(o) \/ UNCHANGED <<row, mail>>
    BY <1>6 DEF NotifyFailed, Send, Lifecycle!TellFailed, Lifecycle!Tell
  <2>2. QED BY <2>1 DEF Lifecycle!LifecycleNext
<1>7. CASE \/ LoadOrder(o) \/ SetupAws(o) \/ SubmitJob(o) \/ Poll(o) \/ Archive(o)
           \/ Deliver(o) \/ Bundle(o) \/ UploadManifest(o) \/ UploadIndex(o)
  BY <1>7 DEF LoadOrder, SetupAws, SubmitJob, Poll, AfterPoll, Archive, Deliver, Bundle,
              UploadManifest, UploadIndex
<1>8. QED BY <1>2, <1>3, <1>4, <1>5, <1>6, <1>7 DEF Task

LEMMA StepSimulation ==
  PipelineInv /\ [Next]_vars => [Lifecycle!LifecycleNext]_(Lifecycle!lifecycleVars)
<1> SUFFICES ASSUME PipelineInv, [Next]_vars
             PROVE  [Lifecycle!LifecycleNext]_(Lifecycle!lifecycleVars)
  OBVIOUS
<1> USE DEF Lifecycle!lifecycleVars
<1>1. ASSUME NEW o \in Order, Submit(o)
      PROVE  [Lifecycle!LifecycleNext]_(Lifecycle!lifecycleVars)
  <2>1. row[o] = "none" /\ TypeOK
    BY <1>1 DEF PipelineInv, OrderInv, RowFollowsTask, Submit
  <2>2. Lifecycle!Accept(o) \/ UNCHANGED <<row, mail>>
    BY <1>1, <2>1 DEF Submit, SetRow, outside, Lifecycle!Accept, Lifecycle!Become
  <2>3. QED BY <2>2 DEF Lifecycle!LifecycleNext
<1>2. ASSUME NEW o \in Order, Task(o)
      PROVE  [Lifecycle!LifecycleNext]_(Lifecycle!lifecycleVars)
  BY <1>2, TaskSimulation
<1>3. ASSUME NEW o \in Order, EdpFinishes(o)
      PROVE  [Lifecycle!LifecycleNext]_(Lifecycle!lifecycleVars)
  BY <1>3 DEF EdpFinishes, tables
<1>4. CASE Crash \/ UNCHANGED vars
  BY <1>4 DEF Crash, tables, outside, vars
<1>5. QED BY <1>1, <1>2, <1>3, <1>4 DEF Next

THEOREM PipelineImplementsLifecycle == Spec => ImplementsLifecycle
<1>1. Init => Lifecycle!LifecycleInit
  BY DEF Init, Lifecycle!LifecycleInit
<1>2. QED
  BY <1>1, InvariantHolds, StepSimulation, PTL
  DEF Spec, ImplementsLifecycle, Lifecycle!LifecycleSpec

=============================================================================
