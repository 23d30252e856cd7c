--------------------------- MODULE OrderLifecycle ---------------------------
(***************************************************************************)
(* What an order promises its customer, whatever the pipeline behind it    *)
(* does: the status a poll of GET /platform-api/orders/{id} may show, and  *)
(* the mails that may have gone out by then.  The readme calls the mail    *)
(* the delivery, so the promise ties the two together.  OrderPipeline, the *)
(* specification of the code, is shown to implement this one.              *)
(***************************************************************************)

CONSTANT Order      \* the ids orders are filed under

VARIABLES
  status,           \* the status column of each order's row, "none" without a row
  told              \* the mails each order's contact has been sent

lifecycleVars == <<status, told>>

Status == {"none", "pending", "running", "complete", "failed"}
Mail   == {"ready", "failed"}

LifecycleTypeOK ==
  /\ status \in [Order -> Status]
  /\ told \in [Order -> SUBSET Mail]

-----------------------------------------------------------------------------

LifecycleInit ==
  /\ status = [o \in Order |-> "none"]
  /\ told = [o \in Order |-> {}]

Become(o, from, to) ==
  /\ status[o] = from
  /\ status' = [status EXCEPT ![o] = to]
  /\ UNCHANGED told

Tell(o, during, mail) ==
  /\ status[o] = during
  /\ told' = [told EXCEPT ![o] = @ \cup {mail}]
  /\ UNCHANGED status

\* The contact learns of the package while the order is still running, and
\* only then may the order become complete; a failure is told only once the
\* row says so.
Accept(o)     == Become(o, "none", "pending")
Start(o)      == Become(o, "pending", "running")
TellReady(o)  == Tell(o, "running", "ready")
Complete(o)   == "ready" \in told[o] /\ Become(o, "running", "complete")
Fail(o)       == Become(o, "running", "failed")
TellFailed(o) == Tell(o, "failed", "failed")

LifecycleNext ==
  \E o \in Order :
    \/ Accept(o)
    \/ Start(o)
    \/ TellReady(o)
    \/ Complete(o)
    \/ Fail(o)
    \/ TellFailed(o)

LifecycleSpec == LifecycleInit /\ [][LifecycleNext]_lifecycleVars

=============================================================================
