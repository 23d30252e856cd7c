# platform-api in TLA+

platform-api takes an order from the ARCNODE configurator, has edp-api draw the
plant, builds what the customer installs (a CloudFormation template or an
installer ISO), publishes it and mails a link. The same repository holds what
runs on the customer's box afterwards: the setup wizard of the on-prem appliance,
the scripts and compose files of a cloud box, and a few lambdas.

This directory models the parts of it whose correctness depends on the order of
events: calls that fail with their effect done, crashes between two steps,
requests that interleave, jobs that stop half way, resources that come up in any
order. Specifications are plain TLA+; TLC checks them on small instances, and
TLAPS proves safety properties for every value of the constants.

    tlc -config OrderPipeline.cfg MCOrderPipeline
    tlapm OrderPipelineProofs.tla

## The system: an inventory

Paths are relative to `src/`, the repository's root; its package is `src/src/`.

| part | state it keeps | operations | what is hard | what makes it correct |
|---|---|---|---|---|
| **Order pipeline** `orders/`, `orchestrator/`, `edp_client/`, `aws/`, `email/`, `iso/`, `bundle/` | a row per order, S3 objects under `orders/{id}/`, one in-memory task per order | submit, poll status, `execute`: edp job, archive, deliver, zip, publish, mail, save | lost answers, exceptions of the handlers themselves, crash of the task, deadline | the row, the mail and the files never contradict each other; every order ends |
| **Order rate limit** `orders/order_rate_limit.py` | a deque of times per client, in memory | `check` | the window's edge, rounding of Retry-After | never more than `count` in a window, nobody refused needlessly |
| **Site DNS names** `sites/`, `dns/` | an `asyncio.Lock`; the zone at Namecheap | a box's callback, `upsert_record`, `dns_cli` | read-modify-write of a whole zone, late calls, two processes | no record is lost; a refused callback writes nothing; every box gets its name |
| **Site certificate** `compose/site-cert.sh`, UserData in `cfn/cfn_resources.py`, compose | four PEM files, two running nginx, systemd units | issue, renew, boot, reboot | two jobs and a boot side by side, a cut installation, port 80 | both ingresses serve one certificate once it is issued; the box gets off its self-signed ones |
| **Archive and bundle names** `orchestrator_service.archive_keys`, `bundle_service` | none | one key per file | name collisions | keys are pairwise distinct and distinct from the order's own files |
| **Manifest and portal** `manifest/`, `portal/` | none | build, render | none beyond the numbering of codes | every file once, codes distinct |
| **Configurator payload, sizing** `orders/configurator_*`, `sizing/` | none | validate, one formula | none | pure |
| **CloudFormation and persistence templates** `cfn/`, `cfn/persistence/` | none; the stack they describe has resources, secrets, an instance that boots | render three kinds of stack; CloudFormation creates it | what waits for what, UserData's shell and its exit statuses | nothing is read before it is there; a complete stack is a proven one |
| **Stack lambdas** `cfn/persistence/lambda_code/`, preflights | a database, the slices' secrets, a response URL | bootstrap Aurora, preflights | answers that raise, timeouts, Lambda's retries | every event is answered, or given up; a failed step fails the stack |
| **Setup wizard, steps** `wizard/wizard_steps.py`, `wizard_controller.py` | a marker file per page | a page per step: apply, skip, read back | handlers in a thread pool without locks, systemd restarts | a page is marked done only when its checks passed, and stays so |
| **Setup wizard, files** `wizard/secrets_env.py`, `ems_cfg.py` | `secrets.env`, `cfg` files | read-modify-write | two pages at once, a crash in a write | no page's secret is lost |
| **Setup wizard, SSH** `wizard/ssh_*` | `authorized_keys`, sshd drop-in | add a key, turn passwords off | order of the two, a failing reload | never a box nobody can log in to |
| **Setup wizard, daemons** `wizard/{docker,postgres,neo4j,ollama}_service.py` | configuration, passwords | configure, restart, wait, set password, verify | commands whose failure is not read, a crash between setting and saving a password | what is saved opens the daemon |
| **Setup wizard, containers** `wizard/{hivemq,hmi,...}_service.py` | compose project, logs | write, compose up, wait for a log line | a line of an earlier start, a container in a restart loop | a page marked done did what it set out to |
| **Setup wizard, certificates** `wizard/https_service.py`, `der_control_service.py` | pending key, certificates of two front ends | sign request, install, reload, skip | a second signing request, skip beside apply | both serve one certificate with its key |
| **Stack sweeper** `tools/gc/` | none | sweep stacks, secrets, parameters | stacks changing while swept | nothing of a live stack is deleted |
| **Telemetry writer** `compose/init-scripts/telemetry_writer.py` | an MQTT session, a database connection | connect, message, retention | the database connection is opened once | messages are stored while both ends are up |
| **ISO build, hosting, wiring** `iso/`, `hosting/`, `app_module.py` | none at run time | scripts, descriptions | none | not modelled |

How they meet: the controller asks the rate limiter, files the row and schedules
the task; the task calls edp-api, S3 and the mail provider over HTTP; the
template it renders is created by CloudFormation in the customer's account, calls
three of our lambdas and waits for the instance's UserData (StackTemplate,
StackCreate), while a daily sweep clears up after smoke tests (StackSweep). The
template carries the callback with which the customer's box gets its name; on the
box, `site-cert.sh` calls back, waits for the name (SiteDns), and then gets and
installs a certificate (SiteCert). The ISO carries the order and site file the
wizard starts from (SetupWizard). `PROJECT.json` lists each part with what is left out and why,
and under `hazards` the places where this code is hard to test.

## Modules

### The order: `OrderLifecycle`, `OrderPipeline`

`OrderLifecycle` is what an order promises: its status goes from pending to running
to complete or failed, it becomes complete only after its contact was told, and a
failure is told only once the row says so. `OrderPipeline` is the code. `row` and
`saved` are the columns `status` and `ems_delivery`; `pc` is where the background
task is; `archived` is the local list of archived files, `bucket` and `listed` what
the order's folder holds and what its page links to, `mail` what the provider has
taken. There is one action for each await whose effect somebody else can see:

| action | code |
|---|---|
| `Submit` | `submit_order`: `Order.create`, `add_task` |
| `LoadOrder` | `OrdersService.execute`: `get_or_none` |
| `MarkRunning`, `MarkFailed`, `MarkComplete` | the saves around and after the try block |
| `SetupAws` | `ensure_bucket`, `verify_sender` |
| `SubmitJob`, `Poll` | `submit_and_wait`, `_poll` with its deadline |
| `Archive` | one turn of `_archive` |
| `Deliver` | `_build_delivery`: the template, or the baked ISO |
| `Bundle`, `UploadManifest`, `UploadIndex` | `_publish_portal` in its order |
| `Notify`, `NotifyFailed` | the two mails |

A call returns, or raises with its effect done or not (`CallRaises`, `DbRaises`).
`Caught` is the `except` of `execute`; what is outside the try block escapes.
`Crash` ends every task; nothing resumes them. `EdpFinishes` is edp-api, which may
finish a job with any files, fail it, or never end it.

### The rate limit: `RateLimiter`

`check` has no await, so it is one action. Time is counted in ticks, several to a
second where rounding matters. `accepted` is a history variable: the times of every
order let through since the process started. `times` is the deque.

### The DNS name: `SiteDns`

A request is `check` (token, order, address), `acquire`, `get_hosts`, `set_hosts`;
the lock is given back however it leaves. `zone` is the set of hosts with their
record. A box's address is an Elastic IP and never changes, so a host stands for its
record. A call that raises was applied, was not, or is applied later (`late`,
`ApplyLate`): the client gives up after httpx's timeout, the server need not.
`dns_cli` is a process of its own with a lock of its own. `outside` remembers that
somebody outside the lock has written.

### The certificate: `SiteCert`

`job` is where `issue` and `renew` are, one step per command that matters; a failing
command ends the script (`set -e`), systemd restarts `issue`. `boot` is UserData,
which starts the service and then the stack. A file is the version of the certificate
it was copied from, `serves` what each nginx loaded. `Reload` passes over a container
`docker ps` does not list and fails on one that is being restarted; a container that
is down may be either. UserData makes a self-signed pair for each ingress (`SelfSigned`:
certificates -1 and -2), so the two serve different certificates until one is issued.

### The stack: `StackTemplate`, `StackCreate`, `StackSweep`

`StackTemplate` is what `cfn_service`, `cfn_resources` and the persistence builders
render, without its texts: for each of the three kinds of order (`commercial`,
`e2e`, `defense`) a function from each logical id to the ids it waits for, by
`Ref`, `Fn::GetAtt`, `Fn::Sub` or `DependsOn`, and UserData as a script. A command of
the script is *loud* (its failure meets `set -e` and the ERR trap), *quiet*
(followed by `|| true`), a *secret* (fetched inside an `echo` or `export`, which
succeeds whatever the fetch does) or the final *signal*.

`StackCreate` creates it. `created` is CloudFormation's; `call`, `answer` the lambda
invocation and the answer of each custom resource; `ready`, `written` what Aurora's
bootstrap has done; `boot` and `env` UserData and the `secrets.env` it writes.

| action | code |
|---|---|
| `CreateQuick`, `CreateLate`, `Finish`, `Fail`, `RollBack`, `GiveUp` | CloudFormation, as far as the template relies on it |
| `Invoke`, `Work`, `WorkRaises` | `aurora_bootstrap`, `bedrock_preflight`, `customer_url_preflight`: a step, or their `except` |
| `Answer`, `AnswerRaises`, `TimesOut`, `Again` | the PUT to the response URL; an exception of it; Lambda's own timeout and its two retries |
| `Launch`, `Run`, `RunFailsUnseen`, `RunTraps`, `Signalled`, `CreationPolicy` | UserData line by line, its trap, `cfn-signal` |

`Hangs` knows that the bootstrap lambda sits in a subnet without a NAT: it reaches
Secrets Manager and S3 by the template's endpoints alone. Nothing waits for those, nor
for the subnet's route and its association: each comes at any time after what it needs
(`Late`), before or after the lambda and UserData that use it. `early` remembers that
one of them failed for want of it. What takes no time comes together, less any set of
`Stragglers`, and is then there one step or many later. `StackSweep` EXTENDS
`StackCreate` with CloudFormation's later moves of the stack (`Move`) and with
`tools/gc/handler.py` in three steps (`StartSweep`, `SweepStacks`, `SweepSecrets`),
between which anything may happen. `strayed` remembers a status the handler's
`ALIVE_STACK_STATUSES` leaves out.

### The setup wizard: `SetupPages`, `SetupScripts`, `SetupWizard`

`SetupPages` is what the pages promise: a marker is written only after a request has
seen every row good, or by the skip of an optional page, and it is never taken back.
`SetupScripts` is each of the twenty services' `apply` as a script of steps: what it
needs, which files and commands it brings about, which password it sets and saves,
which containers it starts and waits for, its checks and its marker. `SetupWizard`
runs the scripts. Several tabs send requests, which work in FastAPI's thread pool
one step at a time; a tab waits for its answer before it sends the next form. The form
is the first open page's, which is where the browser resumes, or the lockdown's at any
time (`Begin`): nothing but its own service's test keeps that one behind the key.

| state | code |
|---|---|
| `done`, `skipped` | `/etc/arcnode/steps/*.done` |
| `env` | `secrets.env`, name by name |
| `accepts` | the password PostgreSQL, Neo4j, HiveMQ and Grafana let in |
| `box` | the facts that hold: files written, commands that took effect |
| `ctr` | each compose service: its state, and whether its log has the ready line |
| `pending`, `issued`, `tls` | the HTTPS page's key, what IT signed, what both front ends have |
| `req` | each request: page, step, form, and the lines of `secrets.env` it has read |

| action | code |
|---|---|
| `Begin`, `Need`, `Refuse`, `Gate` | `apply` up to its `is_done` test, the answers before anything is done, the early ways to the checks |
| `Effect`, `CommandFails` | a file the wizard writes; `system_runner.run`, whose exit status nobody reads |
| `SetPassword`, `Neo4jPassword`, `GrafanaPassword` | `ALTER USER`, `credentials.xml`, Neo4j's change for one who knows the old password, Grafana's first start |
| `ReadSecrets`, `TruncateSecrets`, `WriteSecrets` | `save_secrets`: read all lines, open for writing, write |
| `Compose`, `WaitForLog`, `ContainerReady`, `ContainerDies`, `ContainerRestarts` | `containers_compose`, and Docker's restart policy |
| `RequestSigning`, `MatchKey`, `TakeKey`, `InstallPair`, `DropKey`, `SelfSign` | `https_service`, `der_control_service` |
| `Check`, `ProbeFails`, `Mark`, `Skip` | every row of the page (`Verified`), the marker, the skip |
| `Crash` | the process or the box dies; systemd starts the wizard again, files stay |

`cut` records where the code promises nothing: what the process died in the middle
of, and what a second request got in between. A property that needs a page or
`secrets.env` whole leaves exactly those out.

## What is checked

| run | instance | states | question |
|---|---|---|---|
| `order_pipeline` | 1 order, 2 files, 3 polls, 2 failing calls, 1 database error, 1 crash | 6 thousand | do row, mails and files ever contradict each other; does the code implement the promise; does the order end and its contact hear of it? |
| `rate_limiter` | 2 clients, count 2, window 3, time to 6, 1 restart | 1.2 million | the window, from both sides |
| `site_dns` | 2 boxes, 1 `dns_cli` run, 2 failing calls, 1 restart | 430 thousand | are records lost, refused callbacks without effect, names given? |
| `site_dns_rest_doc` | 2 boxes, 1 `dns_cli` run, 1 failing call | violation | "keeping the rest" |
| `site_cert` | 2 certificates, 2 renewals, 1 failing command, 1 reboot | 210 thousand | one certificate; does the box get it; do ingresses come back? |
| `site_cert_both_doc` | 1 reboot | violation | "Both get the same certificate" |
| `stack_create` | 3 kinds of order, 1 thing wrong or failing | 500 thousand | does UserData read what is there, is a complete stack a proven one, does a healthy one complete, does every creation end? |
| `stack_sweep` | an e2e order, 1 failing call, any number of sweeps | 210 thousand | does the sweep leave customers alone? |
| `userdata_doc` | commercial order, 1 failing command | violation | "any non-zero exit signals FAILURE" |
| `setup_wizard` | 2 tabs, 2 passwords, 2 keys; two of a mishap, a crash and a changed password | 1.7 million, symmetric in tabs and keys | do saved passwords open, is a name lost, is anyone locked out, did each page do its work; does it keep its pages' promise? |
| `setup_secrets_doc` | 1 tab, 1 crash | violation | "other lines are kept" |
| `setup_retry_doc` | 1 tab, 2 passwords; a mishap, a crash and a changed password | violation | "Every step is idempotent, so a retry is safe" |

Bounds. Orders share no row, folder, task or file, so TLC looks at one, with every fault
it can meet: two calls that raise (the second is its failure mail's), a database error
and a crash, neither of which it survives. The theorems are about any set of orders. Two
files are the DTM and something else. Three polls before the deadline are a first, a
middle and a last turn of the loop. Two clients and a time of two windows let a window start anywhere. Two
boxes and one outsider are every pair of writers. Two certificates, beside the
self-signed pairs, are a first and a renewed one. In the stack, what the customer got
wrong before launching counts as a fault, so one fault is every single cause of a
failure; a late route or endpoint is no fault. TLC lets one of each group of alike
secrets and parameters straggle, because UserData reads them one by one and nothing else
looks at them; the theorems hold for any `Stragglers`, and with every set of ids that is
every order the template allows. The sweep is checked next to the e2e template, since it
looks only at statuses, ages and names. A creation is shorter than the sweep's age
limit, which its waits guarantee. In the wizard two tabs are every pair of overlapping requests; an overlap
counts as a mishap like a failing command, a dying container or a probe that cannot
run, and a run has two of a mishap, a crash and a changed password: most hazards
listed for the wizard are a pair of these on one page, and the one that takes all
three has `setup_retry_doc`. The pages come in their fixed order, so more trouble
would repeat the same situation at the next page. Every bound is a constant and
named.

Every invariant, action and liveness property of a passing run also has a mutant in
the module of its component, marked "Faulty variant": the change a plausible mistake
would make in the code, under which TLC finds that property violated.

Fairness. In `OrderPipeline` a task's next step is weakly fair: the event loop resumes
every task, and every call it awaits has a timeout. Nothing is assumed of edp-api, and
crashes and failures are bounded, never fair. In `SiteDns` the script and the server
go on while they can; nobody has to run `dns_cli`, and a late call need never be
applied. In `SiteCert` a started script, systemd's restart and docker's restart
policy go on; the timer, reboots and failures owe nothing. In `StackCreate`
CloudFormation, Lambda and the instance go on while the stack is being created: every
one of them has a timeout. The wizard has no fairness and no liveness property: a
customer may leave a page, and a container that keeps dying is waited for without end.

## What the checks found

- **The two ingresses may keep different certificates.** `install_certificate` takes
  `server.pem` for the whole; a job that a reboot cuts after it is never completed, and
  the HTTPS ingress, left with another certificate's key, does not start.
- **An upsert may drop another box's record.** `dns_cli` has a lock of its own, and a
  `setHosts` that timed out may be applied after the next request's.
- **A save may lose the other lines of `secrets.env`.** `write_text` empties the file
  before it writes it; a death in between leaves nothing.
- **A retry of the Neo4j page may save nothing.** A second try with another password
  that dies between the change and the save leaves a password the third try does not
  know; its checks log in with the form's password and only look whether `GRAPH_URL`
  is there, so the page is done with the first password saved.
- **A secret that cannot be fetched does not fail the stack.** Its `aws` runs inside an
  `echo` or `export`; the line in `secrets.env` is empty and the stack complete.

Each of these is a run. The models also have the following in them, as reachable states
that a property above has to leave out:

- `execute` does not always end in COMPLETE "or FAILED on any exception"
  (`orchestrator_service.py:98`): the three saves of the row are outside its try block,
  and an exception of `_mark_complete` leaves an order running whose contact has the
  ready mail (`pc` is `"escaped"`).
- The certificate service can fail the stack, which `cfn_resources.py:690-691` rules
  out: certbot's standalone server and the HTTPS ingress race for port 80 at first boot,
  and a failing `compose up` meets the trap (`boot` is `"failed"`).
- The bootstrap lambda may run before it can reach anything: its `DependsOn` has the
  database and the secrets, not the endpoints that are there for it
  (`cfn_resources.py:171-174`). A database's minutes usually hide it; otherwise it dies
  at its timeout three times, nobody answers, and the stack rolls back (`early`).
- The sweep may take a living stack's secrets, not only those "whose owning stack is
  gone" (`handler.py:9`): `ALIVE_STACK_STATUSES` leaves out a failed rollback and a
  cleanup after an update, among others (`strayed`).

Read off the code while modelling: an unreachable release file fails an order at its
zip, though `head_size` forgives it; `Retry-After` is rounded, not rounded up; the
telemetry writer never opens its database connection again.

What holds only with a reservation says so in the property: `AcknowledgedNameStands` up
to writers outside the lock (as do `KeepsTheRest`, `DnsInv` and `BoxGetsItsName`),
`OneCertificate`, `IssueInstalls` and `IngressComesBack` up to cut installations,
`BothMailsNeedALostAnswer` names the one way both mails go out, `ContactIsTold` leaves
out the order whose own failure handler raised (`escaped`), `KeepsSecrets` the stacks
that were once in a status the sweep does not list (`strayed`), `HealthyStackCompletes`
a bootstrap or UserData that ran before its way out (`early`), `SavedPasswordOpens`,
`NamesStay` and `HttpsPair` leave out what was `cut`, and `EffectsInForce` the commands
no row looks for (`Unread`) and a DER page that two requests overlapped on: its row
looks whether the ingress is running, and one that the other request has only just
started is.

## What is proved

TLAPS proves, for every set of orders, artifacts, clients, boxes, tabs, passwords and
keys, and for every bound:

| module | theorems | argument |
|---|---|---|
| `OrderPipelineProofs` | `TypeCorrect`, `InvariantHolds`, `ReadyMailFindsItsFiles`, `CompleteOrdersAreDelivered`, `BothMailsOnlyByALostAnswer`, `OnlyDbOrCrashStrands`, `PipelineImplementsLifecycle` | `PipelineInv`: at each `pc`, what the row says, which mails may be out, which files are there |
| `RateLimiterProofs` | `WindowInvHolds`, `NeverMoreThanCount`, `NeverRefusedNeedlessly` | `WindowInv`: the deque is the end of the history, in order, and what left it is out of the window |
| `SiteDnsProofs` | `DnsInvHolds`, `UpsertKeepsTheRest`, `AcknowledgedNamesStand`, `RefusedCallbacksWriteNothing` | `DnsInv`: whoever is between the two calls holds the lock, and what it read is still the zone |
| `SiteCertProofs` | `CertInvHolds`, `OneCertificateHolds` | `CertInv`: an installation has written what it is past, and no certificate is issued under it |
| `SetupWizardProofs` | `WizardInvHolds`, `NobodyIsLockedOut`, `WizardKeepsItsPromise` | `WizardInv`: each request is where its script lets it be; the ssh page is at its mark only with its key installed, the lockdown past its first step only with the ssh page's marker |
| `SetupFilesProofs` | `SavedNamesStay`, `BothFrontsArePaired`, `SavedPasswordsOpen`, `EffectsAreInForce` | `SavesInv`, `CertificatesInv`, `PasswordsInv`, `EffectsInv`, each beside `WizardInv` and `Alone` |
| `StackSweepProofs` | `ListedStacksKeepTheirSecrets` | `SweepInv`: a list without an old stack was made while it had a status the sweep leaves out, or by a sweep that had just deleted it |
| `StackCreateProofs` | `AnswersComeFirst`, `UserDataWaits`, `CompletionProves`, `OnlyTheWayOutRaces` | `CreationInv`: until a creation turns back, all that exists has what it waits for, every answer the steps behind it, and UserData what it is past |

The safety properties are not inductive alone: that the ready mail finds its files
needs to know, step by step, what has been uploaded before it is sent; that no record
is lost needs the lock to exclude every other reader. The first four and the wizard's
`WizardInv` are stated in the component's module and checked by TLC in its run; the
longer ones are stated where they are proved. Each is proved from `Init` and one case
per action.

**The wizard's pages.** The scripts come first: `ScriptsAreWork` shows of each of the
twenty that it is work, then one check, then one mark, and that only the lockdown's
switches password logins off; `RequestMoves` then reduces every action to where its one
request goes. That the promise of the pages is kept needs the mark to be the last step
of every script and reached from the check alone.

**What the pages leave behind.** `ScriptsFlow` shows what follows what in a script
(a truncation comes after a read, a save after a truncation, only three pages have an
early way to their checks), `HowItMoves` what a step of the wizard can do to a request:
nothing, begin it, move it by a step or to its checks, or lose it. The four theorems
then each say what a request has done once a step is behind it (`Behind`) and that
others do not undo it:

- `SavesInv`, for `NamesStay`: unless one is caught, saves come one at a time, so that
  what a request has read is still the file when it opens it for writing. `File` is the
  file, or the lines about to be written to it while it is empty; no step takes a name
  out of `File`. Neo4j's page may skip its save, so its marker rests on its rows instead.
- `Alone`: a page's requests come one at a time unless the page was caught, and none is
  left of one that is done. The next two need it.
- `CertificatesInv`, for `HttpsPair`: from `match` on, the HTTPS request has the key its
  certificate was signed for, and a front end it is past has both. The DER page signs
  for itself only where there is no certificate.
- `PasswordsInv`, for `SavedPasswordOpens`: a request past its save has saved what was
  typed into it, at its mark the rows have tried that password, and Neo4j's is the
  default or the saved one except between a change and its save. The last part is what
  `setup_retry_doc` breaks: it holds only while the page is not caught there.
- `EffectsInv`, for `EffectsInForce`: files the wizard writes are there once they are
  behind a request; a command's effect is there only if a row of the page shows it,
  directly (`RowsSee`) or because a container has answered or printed its line, which it
  does only after it found its files (`ReadyInv`). The DER page's row shows less, and
  `WaitedInv` makes up for it: its ingress was waited for before the checks.

**The stack.** `TemplateFacts` and `ScriptFacts` work out of the template what every
order's resources wait for and what the 24 commands of UserData are. `CreationInv` has
three parts. While the creation goes forward, everything created, called or launched has
what it waits for (`Waits`), a handler that is to say SUCCESS has done the steps it is
past (`Answers`), and UserData is past its DTM only with a fresh one (`Delivered`);
from these follow `CompleteMeansProven` and `BootReadsWhatIsThere` for any number of
faults. While nothing is wrong, nothing has failed and nobody ran before a way out of
the subnet was there (`Smooth`), nothing turns back (`Unbroken`): whatever a step needs
is in the template's waits, in the answers before it, or in the four resources that
`early` stands for. No order of creation is assumed, so no other race is left. Last, the
sweep takes nothing of a stack that is being created (`Young`).

The assumptions are those stated by name in the modules: bounds are naturals, count and
window positive, edp-api names the DTM `dtm.json` and no artifact like one of the
order's own files, hosts are distinct, passwords and keys are none of the words the
model uses for the lack of one.

Only model-checked: liveness (every order ends, every box gets its name and its
certificate, every creation ends) and the violations, which are out of the prover's
reach. Every invariant, action property and refinement of a passing run is proved.

## Not modelled, and the plan

- *Archive and bundle names, manifest, portal, configurator payload, sizing*: functions
  of their arguments, without state. The pipeline's model assumes what it needs of them
  (`ArtifactAssumption`).
- *Telemetry writer*: two connections and an insert per message, nothing beside it. Its
  one hazard can be read off the code and is listed.
- *Setup wizard pages in the browser*: display. The order of pages, the resume at the
  first open page and second clicks are the inputs of `SetupWizard`.
- *The analyst page's progress stream*: shows a container's log while it is read;
  start, wait and checks of that page are modelled.
- *Lambda events other than Create*: the handlers answer SUCCESS at once.
- *Appliance ISO build, hosting, compose files, wiring*: run once, or descriptions; the
  restart policies, ports and the single process are taken from them.

Left in the plan: what the liveness properties rest on and safety can say, as theorems
for every bound: that each step of an order's task but its polls takes it nearer its
end, that whoever holds the DNS lock has a request that gives it back, and that each
custom resource that was called has an answer, an invocation or a retry left; and an
abstract specification of the stack's creation, with `StackCreate` shown to implement
it, next to the four properties it has now.
