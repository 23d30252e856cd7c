----------------------------- MODULE StackSweep -----------------------------
(***************************************************************************)
(* The daily sweep for what smoke tests leave behind (tools/gc), next to   *)
(* one stack of StackCreate in the account it sweeps.  It lists the stacks *)
(* that are alive, deletes old smoke stacks, and then deletes the old      *)
(* secrets and parameters of every stack that is not in its list.  What    *)
(* becomes of the stack after its creation is CloudFormation's and the     *)
(* customer's affair: its status takes any of CloudFormation's moves.      *)
(***************************************************************************)
EXTENDS StackCreate

VARIABLES
  smoke,            \* it has the name of a smoke test's (looked at, and chosen, when old)
  old,              \* it was created more than MAX_AGE_HOURS ago
  strayed,          \* it has had a status the sweep does not ask for
  sweep             \* where the sweep is, whether its list has the stack, and whether
                    \* the stack is older than its cutoff

sweepVars == <<smoke, old, strayed, sweep>>
vars == <<stackVars, sweepVars>>

ALIVE_STACK_STATUSES ==
  {"CREATE_IN_PROGRESS", "CREATE_COMPLETE", "CREATE_FAILED", "ROLLBACK_IN_PROGRESS",
   "ROLLBACK_COMPLETE", "UPDATE_IN_PROGRESS", "UPDATE_COMPLETE",
   "UPDATE_ROLLBACK_IN_PROGRESS", "UPDATE_ROLLBACK_COMPLETE", "DELETE_IN_PROGRESS",
   "DELETE_FAILED"}

\* CloudFormation's moves, after the creation that StackCreate models.
Moves ==
  [CREATE_COMPLETE       |-> {"UPDATE_IN_PROGRESS", "DELETE_IN_PROGRESS"},
   UPDATE_IN_PROGRESS    |-> {"UPDATE_COMPLETE_CLEANUP_IN_PROGRESS", "UPDATE_ROLLBACK_IN_PROGRESS"},
   UPDATE_COMPLETE_CLEANUP_IN_PROGRESS |-> {"UPDATE_COMPLETE"},
   UPDATE_COMPLETE       |-> {"UPDATE_IN_PROGRESS", "DELETE_IN_PROGRESS"},
   UPDATE_ROLLBACK_IN_PROGRESS |-> {"UPDATE_ROLLBACK_COMPLETE", "UPDATE_ROLLBACK_FAILED"},
   ROLLBACK_IN_PROGRESS  |-> {"ROLLBACK_COMPLETE", "ROLLBACK_FAILED"},
   ROLLBACK_COMPLETE     |-> {"DELETE_IN_PROGRESS"},
   ROLLBACK_FAILED       |-> {"DELETE_IN_PROGRESS"},
   DELETE_IN_PROGRESS    |-> {"DELETE_COMPLETE", "DELETE_FAILED"},
   DELETE_FAILED         |-> {"DELETE_IN_PROGRESS"}]

\* One secret or parameter of each group the template makes alike.
OnePerGroup ==
  {"AuroraSliceVectorSecret", "TimeseriesUrlSecret", "GridstatusApiKeySecret",
   "MqttServicePwSecret", "DerControlTruststoreSecret", "NeptuneHostParam"}

Idle == [at |-> "idle", knows |-> FALSE, aged |-> FALSE]
Listed == stack \in ALIVE_STACK_STATUSES
Kept  == (created \cap ReadBy[plan]) \ gone   \* the secrets and parameters there are

-----------------------------------------------------------------------------
SweepInit ==
  /\ Init
  /\ smoke = FALSE /\ old = FALSE /\ strayed = FALSE
  /\ sweep = Idle

\* Its creation is over long before (the waits of StackCreate add up to less).
Age ==
  /\ ~old /\ stack \notin {"none", "CREATE_IN_PROGRESS"}
  /\ old' = TRUE /\ smoke' \in BOOLEAN
  /\ UNCHANGED <<stackVars, strayed, sweep>>

Move ==
  /\ stack \in DOMAIN Moves
  /\ stack' \in Moves[stack]
  /\ strayed' = (strayed \/ stack' \notin ALIVE_STACK_STATUSES)
  /\ created' = IF stack' \in {"ROLLBACK_COMPLETE", "DELETE_COMPLETE"} THEN {} ELSE created
  /\ UNCHANGED <<plan, account, call, answer, ready, written, gone, boot, env, early, faults>>
  /\ UNCHANGED <<smoke, old, sweep>>

\* handler: the cutoff, and the names of the stacks alive.
StartSweep ==
  /\ sweep.at = "idle"
  /\ sweep' = [at |-> "stacks", knows |-> Listed, aged |-> old]
  /\ UNCHANGED <<stackVars, smoke, old, strayed>>

\* _sweep_stacks lists again; a deletion takes the name from the first list.
SweepStacks ==
  /\ sweep.at = "stacks"
  /\ LET due == /\ smoke /\ Listed /\ sweep.aged
                /\ stack # "DELETE_IN_PROGRESS"
     IN
     \/ /\ due
        /\ stack' = "DELETE_IN_PROGRESS"
        /\ sweep' = [sweep EXCEPT !.at = "secrets", !.knows = FALSE]
        /\ UNCHANGED faults
     \/ /\ IF due THEN Fault ELSE UNCHANGED faults
        /\ sweep' = [sweep EXCEPT !.at = "secrets"]
        /\ UNCHANGED stack
  /\ UNCHANGED <<plan, account, created, call, answer, ready, written, gone, boot, env, early>>
  /\ UNCHANGED <<smoke, old, strayed>>

\* Faulty variant of SweepSecrets: secrets of any age.
SweepSecretsOfAnyAge ==
  /\ sweep.at = "secrets"
  /\ gone' = gone \cup (IF sweep.knows THEN {} ELSE Kept)
  /\ sweep' = Idle
  /\ UNCHANGED <<plan, account, stack, created, call, answer, ready, written, boot, env, early, faults>>
  /\ UNCHANGED <<smoke, old, strayed>>

\* _sweep_secrets and _sweep_ssm_params: a deletion that fails is logged.
SweepSecrets ==
  /\ sweep.at = "secrets"
  /\ LET due == IF sweep.aged /\ ~sweep.knows THEN Kept ELSE {} IN
     \/ gone' = gone \cup due /\ UNCHANGED faults
     \/ (\E s \in due \cap OnePerGroup : gone' = gone \cup (due \ {s})) /\ Fault
  /\ sweep' = Idle
  /\ UNCHANGED <<plan, account, stack, created, call, answer, ready, written, boot, env, early>>
  /\ UNCHANGED <<smoke, old, strayed>>

-----------------------------------------------------------------------------
SweepNext ==
  \/ Next /\ UNCHANGED sweepVars
  \/ Age \/ Move \/ StartSweep \/ SweepStacks \/ SweepSecrets

SweepSpec == SweepInit /\ [][SweepNext]_vars /\ WF_vars(Creating /\ UNCHANGED sweepVars /\ Next)

-----------------------------------------------------------------------------
(* Properties.                                                             *)

\* A customer's stack that was never outside ALIVE_STACK_STATUSES keeps its
\* secrets and parameters: not even a list of names taken before it was created
\* loses them, for then its secrets are younger than the cutoff.
KeepsSecrets == gone # {} => smoke \/ strayed

=============================================================================
