----------------------------- MODULE StackCreate -----------------------------
(***************************************************************************)
(* The customer's create-stack (src/cfn): CloudFormation creates the       *)
(* resources of StackTemplate, three of them by calling a Lambda of ours   *)
(* and waiting for its answer, and one, the instance, by waiting for the   *)
(* signal its UserData sends.  CloudFormation, Lambda and Secrets Manager  *)
(* are modelled from what the template and the handlers rely on: an answer *)
(* counts once, an invocation that ends in an exception or at its timeout  *)
(* is tried twice more, and whoever waits gives up in the end.             *)
(***************************************************************************)
EXTENDS StackTemplate, FiniteSets

CONSTANTS
  Plans,            \* the orders: a subset of Plan
  Stragglers,       \* what may come later than the rest: sets of logical ids
  MaxFaults         \* what is wrong from the start, what fails, and timeouts

ASSUME CreateAssumption ==
  /\ Plans \subseteq Plan
  /\ {} \in Stragglers
  /\ MaxFaults \in Nat

VARIABLES
  plan,             \* the order
  account,          \* what is right from the start
  stack,            \* the stack's status
  created,          \* the logical ids CloudFormation has created
  call,             \* each custom resource's Lambda: try, step, answer to send
  answer,           \* the first answer CloudFormation got for each of them
  ready,            \* how far the databases are: "databases", "extensions", ...
  written,          \* the slices whose secret has its URL
  gone,             \* the secrets and parameters somebody deleted
  boot,             \* UserData: where it is, and the first cfn-signal to arrive
  env,              \* secrets.env: what each slot's line holds
  early,            \* has a step failed for want of a route or endpoint to come?
  faults

stackVars ==
  <<plan, account, stack, created, call, answer, ready, written, gone, boot, env, early, faults>>

\* The three custom resources.
Custom == {"BedrockPreflightCustomResource", "CustomerUrlPreflightCustomResource",
           "AuroraBootstrapCustomResource"}

\* Resources that come at any time after what they need, each on its own: the
\* ways out of the subnet, for which nothing waits, and what takes its time.
\* The others are there after a moment, but for the Stragglers among them.
Late ==
  {"EmsDefaultRoute", "EmsSubnetRouteTableAssociation", "S3VpcEndpoint",
   "SecretsManagerVpcEndpoint", "AuroraInstance", "NeptuneInstance", "AossCollection",
   "EmsInstance", "EmsEipAssociation"} \cup Custom
Plain == Late \ (Custom \cup {"EmsInstance"})

\* What the customer may have got wrong.
Account == {"models_granted", "urls_reachable", "delivery_fresh"}

\* The order's template and UserData, worked out once.
ByPlan(F(_)) == [commercial |-> F("commercial"), e2e |-> F("e2e"), defense |-> F("defense")]
Templates == ByPlan(Template)
Resources == ByPlan(LAMBDA p : DOMAIN Templates[p])
Quick     == ByPlan(LAMBDA p : DOMAIN Templates[p] \ Late)
Scripts   == ByPlan(UserData)
Secrets   == ByPlan(SecretOf)
ReadBy    == ByPlan(Read)
Needs(r)  == Templates[plan][r]
Present   == Resources[plan]
Due(r)    == r \in Present /\ r \notin created /\ Needs(r) \subseteq created
Creating  == stack = "CREATE_IN_PROGRESS"

Fault == faults < MaxFaults /\ faults' = faults + 1

-----------------------------------------------------------------------------
(* The Lambdas: their steps, and what each step needs.                     *)

\* Both models are asked for, one after the other; so are both URLs.
BedrockSteps == <<"models", "answer">>
UrlSteps     == <<"urls", "answer">>

\* Every slice's URL is written after all databases and schemas are there.
BootstrapSteps(p) ==
  <<"password", "databases", "extensions">> \o
  (IF p = "defense" THEN <<"maintenance">> ELSE <<>>) \o Slices(p) \o <<"answer">>

StepsOf(c) ==
  CASE c = "BedrockPreflightCustomResource"     -> BedrockSteps
    [] c = "CustomerUrlPreflightCustomResource" -> UrlSteps
    [] c = "AuroraBootstrapCustomResource"      -> BootstrapSteps(plan)

NoCall  == [at |-> "none", try |-> 1, pc |-> 1, says |-> "SUCCESS"]
Tries   == 3

Now(c)      == StepsOf(c)[call[c].pc]
Running(c)  == Creating /\ call[c].at = "running"
Working(c)  == Running(c) /\ Now(c) # "answer"
Answering(c) == Running(c) /\ Now(c) = "answer"

\* The bootstrap's function is in the stack's subnet, without a NAT: Secrets
\* Manager and the response URL are reached by the endpoints alone.
Inside(c)  == c = "AuroraBootstrapCustomResource"
SecretsReachable == "SecretsManagerVpcEndpoint" \in created
AnswerReachable(c) ==
  Inside(c) => {"S3VpcEndpoint", "EmsSubnetRouteTableAssociation"} \subseteq created

\* What a step needs: an answer at all, or the right one.
Hangs(c) ==
  \/ Inside(c) /\ Working(c) /\ Now(c) \in {"password"} \cup DOMAIN SliceSecret /\ ~SecretsReachable
  \/ Answering(c) /\ ~AnswerReachable(c)
Right(c) ==
  /\ Now(c) = "models"   => "models_granted" \in account
  /\ Now(c) = "urls"     => "urls_reachable" \in account
  /\ Now(c) = "password" => "AuroraMasterSecret" \in created
  /\ Now(c) \in {"databases", "extensions", "maintenance"} => "AuroraInstance" \in created
  /\ Now(c) \in DOMAIN SliceSecret => SliceSecret[Now(c)] \in created \ gone

-----------------------------------------------------------------------------
NoCalls   == [c \in Custom |-> NoCall]
NoAnswers == [c \in Custom |-> "none"]
NoBoot    == [pc |-> 0, signal |-> "none"]
NoEnv     == [s \in DOMAIN Secrets[plan] |-> "unread"]

Init ==
  /\ plan \in Plans
  /\ account \in SUBSET Account
  /\ faults = Cardinality(Account \ account) /\ faults <= MaxFaults
  /\ stack = "none"
  /\ created = {} /\ gone = {}
  /\ call = NoCalls /\ answer = NoAnswers
  /\ ready = {} /\ written = {}
  /\ boot = NoBoot /\ env = NoEnv /\ early = FALSE

\* The customer launches the template.
CreateStack ==
  /\ stack = "none"
  /\ stack' = "CREATE_IN_PROGRESS"
  /\ UNCHANGED <<plan, account, created, call, answer, ready, written, gone, boot, env, early, faults>>

\* Everything that takes no time and has what it needs, at once, but for those
\* that straggle: with enough Stragglers, in any order at all.
CreateQuick ==
  /\ Creating
  /\ \E late \in Stragglers :
       LET new == {r \in Quick[plan] : Due(r)} \ late IN
       new # {} /\ created' = created \cup new
  /\ UNCHANGED <<plan, account, stack, call, answer, ready, written, gone, boot, env, early, faults>>

CreateLate(r) ==
  /\ Creating /\ Due(r)
  /\ created' = created \cup {r}
  /\ UNCHANGED <<plan, account, stack, call, answer, ready, written, gone, boot, env, early, faults>>

Finish ==
  /\ Creating /\ created = Present
  /\ stack' = "CREATE_COMPLETE"
  /\ UNCHANGED <<plan, account, created, call, answer, ready, written, gone, boot, env, early, faults>>

\* The databases, the instance and what runs go; the secrets go when it ends.
RollBack ==
  /\ stack' = "ROLLBACK_IN_PROGRESS"
  /\ call' = NoCalls /\ answer' = NoAnswers
  /\ ready' = {} /\ written' = {}
  /\ boot' = NoBoot /\ env' = NoEnv
  /\ UNCHANGED <<plan, account, created, gone, early>>

\* The first failure rolls the stack back.
Fail ==
  /\ Creating
  /\ \/ (\E c \in Custom : answer[c] = "FAILED") /\ UNCHANGED faults
     \/ boot.signal = "failure" /\ UNCHANGED faults
     \/ (\E r \in Plain : Due(r)) /\ Fault
  /\ RollBack

\* CloudFormation waits an hour for a custom resource's answer.
GiveUp(c) ==
  /\ Creating /\ answer[c] = "none" /\ call[c].at = "dead"
  /\ RollBack /\ UNCHANGED faults

-----------------------------------------------------------------------------
(* Custom resources.                                                       *)

Invoke(c) ==
  /\ Creating /\ c \in Present /\ Due(c) /\ call[c].at = "none"
  /\ call' = [call EXCEPT ![c].at = "running"]
  /\ UNCHANGED <<plan, account, stack, created, answer, ready, written, gone, boot, env, early, faults>>

Work(c) ==
  /\ Working(c) /\ ~Hangs(c) /\ Right(c)
  /\ ready'   = IF Now(c) \in {"databases", "extensions", "maintenance"} THEN ready \cup {Now(c)} ELSE ready
  /\ written' = IF Now(c) \in DOMAIN SliceSecret THEN written \cup {Now(c)} ELSE written
  /\ call' = [call EXCEPT ![c].pc = @ + 1]
  /\ UNCHANGED <<plan, account, stack, created, answer, gone, boot, env, early, faults>>

\* Faulty variant of WorkRaises: the answer is sent from a finally, as it was.
WorkRaisesQuietly(c) ==
  /\ Working(c) /\ ~Hangs(c)
  /\ IF Right(c) THEN Fault ELSE UNCHANGED faults
  /\ call' = [call EXCEPT ![c].pc = Len(StepsOf(c))]
  /\ UNCHANGED <<plan, account, stack, created, answer, ready, written, gone, boot, env, early>>

\* The handler's except: the answer is FAILED.
WorkRaises(c) ==
  /\ Working(c) /\ ~Hangs(c)
  /\ IF Right(c) THEN Fault ELSE UNCHANGED faults
  /\ call' = [call EXCEPT ![c].pc = Len(StepsOf(c)), ![c].says = "FAILED"]
  /\ UNCHANGED <<plan, account, stack, created, answer, ready, written, gone, boot, env, early>>

First(c) == IF answer[c] = "none" THEN call[c].says ELSE answer[c]

Answer(c) ==
  /\ Answering(c) /\ AnswerReachable(c)
  /\ answer' = [answer EXCEPT ![c] = First(c)]
  /\ call' = [call EXCEPT ![c].at = "done"]
  /\ UNCHANGED <<plan, account, stack, created, ready, written, gone, boot, env, early, faults>>

\* Lambda starts the event over, or has tried often enough.
Again(c) ==
  call' = [call EXCEPT ![c] =
    IF call[c].try < Tries
    THEN [NoCall EXCEPT !.at = "running", !.try = call[c].try + 1]
    ELSE [NoCall EXCEPT !.at = "dead"]]

\* The PUT raises, though it may have arrived.  Inside the try a SUCCESS that
\* raises is followed by a FAILED; a FAILED that raises leaves the handler.
AnswerRaises(c) ==
  /\ Answering(c) /\ AnswerReachable(c) /\ Fault
  /\ answer' \in {answer, [answer EXCEPT ![c] = First(c)]}
  /\ IF call[c].says = "SUCCESS" THEN call' = [call EXCEPT ![c].says = "FAILED"] ELSE Again(c)
  /\ UNCHANGED <<plan, account, stack, created, ready, written, gone, boot, env, early>>

\* The function's Timeout ends it in the middle of whatever it does.  The URL
\* preflight has an alarm of its own in time before its checks would end so.
TimesOut(c) ==
  /\ Running(c)
  /\ c = "CustomerUrlPreflightCustomResource" => Answering(c)
  /\ IF Hangs(c) THEN early' = TRUE /\ UNCHANGED faults ELSE Fault /\ UNCHANGED early
  /\ Again(c)
  /\ UNCHANGED <<plan, account, stack, created, answer, ready, written, gone, boot, env>>

\* Faulty variant of Accept: any answer will do.
AcceptAny(c) ==
  /\ Creating /\ answer[c] # "none" /\ c \notin created
  /\ created' = created \cup {c}
  /\ UNCHANGED <<plan, account, stack, call, answer, ready, written, gone, boot, env, early, faults>>

Accept(c) ==
  /\ Creating /\ answer[c] = "SUCCESS" /\ c \notin created
  /\ created' = created \cup {c}
  /\ UNCHANGED <<plan, account, stack, call, answer, ready, written, gone, boot, env, early, faults>>

-----------------------------------------------------------------------------
(* The instance.                                                           *)

Command == Scripts[plan][boot.pc]
Booting == Creating /\ boot.pc \in 1..Len(Scripts[plan])
Online  == {"EmsDefaultRoute", "EmsSubnetRouteTableAssociation"} \subseteq created

\* What get-secret-value returns for a slot.
SlotValue(s) ==
  LET r == Secrets[plan][s] IN
  CASE r \notin created \ gone -> "missing"
    [] \E d \in DOMAIN SliceSecret : SliceSecret[d] = r /\ d \notin written -> "placeholder"
    [] OTHER -> "real"

Launch ==
  /\ Creating /\ Due("EmsInstance") /\ boot.pc = 0
  /\ boot' = [boot EXCEPT !.pc = 1]
  /\ UNCHANGED <<plan, account, stack, created, call, answer, ready, written, gone, env, early, faults>>

\* A command that works: what it talks to can be reached, Secrets Manager by its
\* endpoint too, and its file or parameter is there.
Works ==
  /\ Online \/ (SecretsReachable /\ (Command.op = "secret" \/ Command.arg = "truststore"))
  /\ Command.arg = "graph_parameters" => GraphParams \subseteq created \ gone
  /\ Command.arg = "truststore" => "DerControlTruststoreSecret" \in created \ gone
  /\ Command.op = "secret" => SlotValue(Command.arg) # "missing"
  /\ Command.arg = "dtm"   => "delivery_fresh" \in account
  /\ Command.op = "signal" => "tools" \in ready

Run ==
  /\ Booting /\ Works
  /\ boot' = [boot EXCEPT !.pc = @ + 1,
                !.signal = IF Command.op = "signal" /\ @ = "none" THEN "success" ELSE @]
  /\ env' = IF Command.op = "secret" THEN [env EXCEPT ![Command.arg] = SlotValue(Command.arg)] ELSE env
  /\ ready' = IF Command.op = "quiet" THEN ready \cup {"tools"} ELSE ready
  /\ UNCHANGED <<plan, account, stack, created, call, answer, written, gone, early, faults>>

FailsOrFault ==
  IF Works THEN Fault /\ UNCHANGED early
           ELSE early' = (early \/ ~Online) /\ UNCHANGED faults

\* An echo succeeds whatever the command inside it does: the line is empty.
RunFailsUnseen ==
  /\ Booting /\ Command.op \in {"quiet", "secret"}
  /\ FailsOrFault
  /\ boot' = [boot EXCEPT !.pc = @ + 1]
  /\ env' = IF Command.op = "secret" THEN [env EXCEPT ![Command.arg] = "empty"] ELSE env
  /\ UNCHANGED <<plan, account, stack, created, call, answer, ready, written, gone>>

\* set -e and the ERR trap: the script ends with cfn-signal -e 1.
RunTraps ==
  /\ Booting /\ Command.op \in {"loud", "signal"}
  /\ FailsOrFault
  /\ boot' = [pc |-> Len(Scripts[plan]) + 1,
              signal |-> IF boot.signal = "none" /\ Online /\ "tools" \in ready THEN "failure" ELSE boot.signal]
  /\ UNCHANGED <<plan, account, stack, created, call, answer, ready, written, gone, env>>

Signalled ==
  /\ Creating /\ boot.signal = "success" /\ "EmsInstance" \notin created
  /\ created' = created \cup {"EmsInstance"}
  /\ UNCHANGED <<plan, account, stack, call, answer, ready, written, gone, boot, env, early, faults>>

\* The CreationPolicy's twenty minutes are over.
CreationPolicy ==
  /\ Creating /\ boot.pc > 0 /\ boot.signal = "none"
  /\ \/ boot.pc > Len(Scripts[plan]) /\ UNCHANGED faults
     \/ boot.pc <= Len(Scripts[plan]) /\ Fault
  /\ RollBack

-----------------------------------------------------------------------------
Handle(c) == Work(c) \/ WorkRaises(c) \/ Answer(c) \/ AnswerRaises(c) \/ TimesOut(c)

Next ==
  \/ CreateStack \/ CreateQuick \/ (\E r \in Plain : CreateLate(r)) \/ Finish \/ Fail
  \/ \E c \in Custom : GiveUp(c) \/ Invoke(c) \/ Handle(c) \/ Accept(c)
  \/ Launch \/ Run \/ RunFailsUnseen \/ RunTraps \/ Signalled \/ CreationPolicy

\* CloudFormation, Lambda and the instance go on until the creation is over.
Spec == Init /\ [][Next]_stackVars /\ WF_stackVars(Creating /\ Next)

-----------------------------------------------------------------------------
(* Properties.                                                             *)

AnyStatus == {"none", "CREATE_IN_PROGRESS", "CREATE_COMPLETE", "ROLLBACK_IN_PROGRESS"}
CallType  == [at : {"none", "running", "done", "dead"}, try : 1..Tries, pc : 1..9,
              says : {"SUCCESS", "FAILED"}]

\* The types; and CloudFormation creates no custom resource without its answer.
CreateInv ==
  /\ plan \in Plans /\ account \subseteq Account /\ faults \in 0..MaxFaults
  /\ call \in [Custom -> CallType]
  /\ answer \in [Custom -> {"none", "SUCCESS", "FAILED"}]
  /\ ready \subseteq {"tools", "databases", "extensions", "maintenance"}
  /\ written \subseteq DOMAIN SliceSecret
  /\ created \subseteq Present /\ gone \subseteq ReadBy[plan]
  /\ early \in BOOLEAN
  /\ boot \in [pc : 0..Len(Scripts[plan]) + 1, signal : {"none", "success", "failure"}]
  /\ env \in [DOMAIN Secrets[plan] -> {"unread", "empty", "placeholder", "real"}]
  /\ Creating => \A c \in Custom \cap created : answer[c] = "SUCCESS"

\* UserData never reads the placeholder the bootstrap has yet to overwrite
\* ("set by AuroraBootstrapLambda"), nor a secret or parameter that is not there
\* yet: a shell script's reads are no references, so only the DependsOn of
\* EmsInstance keeps them behind what writes them.
BootReadsWhatIsThere ==
  Creating /\ boot.pc > 0 =>
    /\ \A s \in DOMAIN env : env[s] # "placeholder"
    /\ ReadBy[plan] \subseteq created

\* CREATE_COMPLETE is worth something: the account may use both models, the
\* customer's URLs were reached, every database has its schema and every slice's
\* secret its URL, and UserData came to its end with the order's DTM.
CompleteMeansProven ==
  stack = "CREATE_COMPLETE" =>
    /\ "models_granted" \in account /\ "delivery_fresh" \in account
    /\ plan = "commercial" => "urls_reachable" \in account
    /\ {"databases", "extensions"} \subseteq ready
    /\ plan = "defense" => "maintenance" \in ready
    /\ written = {Slices(plan)[i] : i \in 1..Len(Slices(plan))}
    /\ boot.pc > Len(Scripts[plan]) /\ boot.signal = "success"

\* No command failed and no function was cut short, of itself or because it
\* came before a way out of the subnet.
Smooth == faults = 0 /\ ~early

\* With nothing wrong and nothing failing, no order's stack is rolled back and
\* every line of secrets.env is right, unless a function or UserData needed a
\* route or an endpoint before it was there: among all the others the resources'
\* waits and the handlers' answers leave no race.
HealthyStackCompletes ==
  Smooth =>
    /\ stack # "ROLLBACK_IN_PROGRESS"
    /\ stack = "CREATE_COMPLETE" => \A s \in DOMAIN env : env[s] = "real"

\* Nobody waits on anybody for ever: every creation ends, though functions die
\* without an answer because the bootstrap's endpoints come too late for it,
\* cfn-signal is missing or the box is cut off.
CreationEnds == stack = "CREATE_IN_PROGRESS" ~> stack # "CREATE_IN_PROGRESS"

\* The comment on the trap: "any non-zero exit signals FAILURE".  A secret
\* that could not be fetched is one, so a complete stack has them all.
NoHalfDeployedInstance ==
  stack = "CREATE_COMPLETE" => \A s \in DOMAIN env : env[s] = "real"

=============================================================================
