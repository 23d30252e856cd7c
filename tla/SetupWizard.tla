----------------------------- MODULE SetupWizard -----------------------------
(***************************************************************************)
(* The setup wizard of an on-prem box (src/wizard): the browser tabs that  *)
(* send its pages, the requests that work through SetupScripts one step at *)
(* a time in FastAPI's thread pool, the files and daemons they change, the *)
(* containers they start and wait for, and the process that may die under  *)
(* all of them.  A tab offers the first page that is not done, and one     *)
(* page may be sent again and again until its checks pass.                 *)
(***************************************************************************)
EXTENDS SetupScripts, FiniteSets

CONSTANTS
  Tab,              \* browser tabs: each waits for one answer at a time
  Password,         \* what a customer may type into a password field
  Key,              \* the private keys openssl may make for HTTPS
  MaxMishaps,       \* failing commands, containers and probes, and requests
                    \* sent while another one is still running
  MaxCrashes,       \* deaths of the wizard's process
  MaxChanges,       \* requests with another password than the usual one
  MaxTrouble        \* all of these together

ASSUME WizardAssumption ==
  /\ {MaxMishaps, MaxCrashes, MaxChanges, MaxTrouble} \subseteq Nat
  /\ Password # {}
  /\ {"none", "default", "set", "self", "keep"} \cap (Password \cup Key) = {}

VARIABLES
  done,             \* /etc/arcnode/steps/*.done
  skipped,          \* the pages whose marker is a skip's
  env,              \* secrets.env: a value, or "none", for each name
  accepts,          \* the password each daemon lets in
  box,              \* the facts that hold on the box
  hw,               \* the box's hardware
  ctr,              \* each compose service's container, and its log
  pending,          \* the HTTPS page's pending-key.pem, "none" without one
  issued,           \* the keys IT has signed a certificate for
  tls,              \* the certificate and key each front end would serve
  req,              \* each tab's request
  cut,              \* what a crash or an overlap caught half-way
  count             \* mishaps, crashes and changes so far

vars == <<done, skipped, env, accepts, box, hw, ctr, pending, issued, tls, req, cut, count>>
disk == <<done, skipped, env, accepts, box, hw, pending, issued, tls>>

\* The daemons a customer sets a password for, and where it is saved.
UrlOf == [postgres |-> "postgres_urls", neo4j |-> "graph_url",
          hivemq |-> "broker_passwords", grafana |-> "grafana_password"]
Daemon == DOMAIN UrlOf

Names   == UNION {SavedBy[p] : p \in Pages}
Service == UNION {ServicesOf[p] : p \in Pages}
Front   == {"https-ingress", "der-control-ingress"}

\* What holds on a box as the ISO leaves it.
Ambient == {"order", "devices", "sshd", "key_login", "docker", "one_public_key"}
Facts   == Ambient \cup UNION {EffectsOf[p] : p \in Pages}

NoContainer == [state |-> "none", said |-> FALSE]
NoRequest   == [page |-> "none", pc |-> 1, pw |-> "none", cert |-> "none",
                key |-> "none", snap |-> [n \in Names |-> "none"]]

-----------------------------------------------------------------------------
(* The hardware check.  Memory is measured a tenth below its label.        *)

Minimums == [vcpus |-> 16, memory |-> 64, gpus |-> 1, vram |-> 24, nvme |-> TRUE, disk |-> 900]
Machines == {Minimums,
             [Minimums EXCEPT !.memory = 58],
             [Minimums EXCEPT !.memory = 57],
             [Minimums EXCEPT !.gpus = 0],
             [Minimums EXCEPT !.nvme = FALSE]}

HardwareRows(m) ==
  /\ m.vcpus >= Minimums.vcpus
  /\ 10 * m.memory >= 9 * Minimums.memory
  /\ m.gpus >= Minimums.gpus
  /\ IF m.gpus = 0 THEN Minimums.vram = 0 ELSE m.vram >= Minimums.vram
  /\ m.disk >= Minimums.disk
  /\ m.nvme \/ ~Minimums.nvme

-----------------------------------------------------------------------------
(* What each page's checks look at.  A row that connects or logs in from a *)
(* container of the arcnode network needs everything on the way there.     *)

Holds(facts)  == facts \subseteq box
Saved(name)   == env[name] # "none"
Running(c)    == ctr[c].state \in {"starting", "ready"}
Answers(c)    == ctr[c].state = "ready"
Printed(c)    == ctr[c].said
Opens(d, pw)  == accepts[d] = pw

SiteRows == Holds({"order", "devices", "site_files"})

SshRows == Holds({"sshd", "key_login", "key_installed"})

\* Faulty variant of DockerRows: the daemon alone is looked at.
DockerRowsDaemonOnly == Holds({"docker"})

DockerRows == Holds({"docker", "arcnode_network"})

PostgresRows(pw) ==
  /\ Holds({"pg_databases", "timescaledb", "pgvector"})
  /\ Opens("postgres", pw)
  /\ Saved("postgres_urls")

\* Listening where it should, open to Docker's range only, and a container
\* of that range gets in.
PostgresAccessRows(pw) ==
  /\ Holds({"arcnode_network", "pg_listens", "pg_hba"})
  /\ Opens("postgres", pw)

Neo4jRows(pw) ==
  /\ Holds({"neo4j_conf", "neo4j_listens"})
  /\ Opens("neo4j", pw)
  /\ Saved("graph_url")

OllamaRows ==
  Holds({"ollama_listens", "models_pulled", "embedding_variant", "models_loaded",
         "arcnode_network", "ollama_settings"})

HivemqRows(pw) ==
  /\ Running("hivemq")
  /\ Answers("hivemq") /\ Opens("hivemq", pw)
  /\ Saved("broker_passwords")

TelemetryRows ==
  /\ Running("telemetry-writer")
  /\ Printed("telemetry-writer")
  /\ Saved("postgres_urls")

\* The operator signs in with the password the HiveMQ page saved.
DeviceApiRows ==
  /\ Answers("device-api")
  /\ Saved("jwt_secret") /\ Saved("broker_passwords")
  /\ Holds({"devices", "site_files"})
  /\ Printed("device-api")

\* The utility's identity is shown, it does not count.
DerControlRows ==
  /\ Answers("der-control-api")
  /\ Holds({"der_overlay"})
  /\ Running("der-control-ingress")

GatewayRows == Running("industrial-gateway") /\ Printed("industrial-gateway")

HmiRows == Answers("hmi")

HttpsRows(cert) == Answers("https-ingress") /\ tls["https-ingress"].cert = cert

MlflowRows     == Printed("mlflow")
PrometheusRows == Printed("prometheus")

AnalystModelRows ==
  /\ Running("analyst-model") /\ Printed("analyst-model")
  /\ Answers("mlflow")
  /\ Holds({"model_overlay"})

AnalystServerRows == Answers("analyst-server") /\ Saved("analyst_keys")

GrafanaRows(pw) ==
  /\ Answers("grafana") /\ Opens("grafana", pw)
  /\ Saved("grafana_password")

LockdownRows == Holds({"password_login_off"})

\* Every row of the request's page is good.
Verified(r) ==
  CASE r.page = "preflight"          -> HardwareRows(hw)
    [] r.page = "site"               -> SiteRows
    [] r.page = "ssh"                -> SshRows
    [] r.page = "docker"             -> DockerRows
    [] r.page = "postgres"           -> PostgresRows(r.pw) /\ PostgresAccessRows(r.pw)
    [] r.page = "neo4j"              -> Neo4jRows(r.pw)
    [] r.page = "ollama"             -> OllamaRows
    [] r.page = "hivemq"             -> HivemqRows(r.pw)
    [] r.page = "telemetry"          -> TelemetryRows
    [] r.page = "device_api"         -> DeviceApiRows
    [] r.page = "der_control_api"    -> DerControlRows
    [] r.page = "industrial_gateway" -> GatewayRows
    [] r.page = "hmi"                -> HmiRows
    [] r.page = "https"              -> HttpsRows(r.cert)
    [] r.page = "mlflow"             -> MlflowRows
    [] r.page = "analyst_model"      -> AnalystModelRows
    [] r.page = "analyst_server"     -> AnalystServerRows
    [] r.page = "prometheus"         -> PrometheusRows
    [] r.page = "grafana"            -> GrafanaRows(r.pw)
    [] r.page = "ssh_lockdown"       -> LockdownRows \/ r.pw = "keep"

-----------------------------------------------------------------------------
(* A request.                                                              *)

Busy(t)   == req[t].page # "none"
Now(t)    == Script[req[t].page][req[t].pc]
At(t, op) == Busy(t) /\ Now(t).op = op

\* The checks are the last step but one of every script.
Checks(p) == Len(Script[p]) - 1

Go(t, pc)  == req' = [req EXCEPT ![t].pc = pc]
Proceed(t) == Go(t, req[t].pc + 1)
ToChecks(t) == Go(t, Checks(req[t].page))
Answer(t)  == req' = [req EXCEPT ![t] = NoRequest]

Most == [mishaps |-> MaxMishaps, crashes |-> MaxCrashes, changes |-> MaxChanges]

Spend(cost) ==
  /\ \A k \in DOMAIN Most : count[k] + cost[k] <= Most[k]
  /\ count' = [k \in DOMAIN Most |-> count[k] + cost[k]]
  /\ count'.mishaps + count'.crashes + count'.changes <= MaxTrouble

Free == [k \in DOMAIN Most |-> 0]

Fails     == Spend([Free EXCEPT !.mishaps = 1])
Others(t) == \E u \in Tab \ {t} : Busy(u)

Bring(fact) == box' = box \cup {fact}

Sharing(t, p) == \E u \in Tab \ {t} : req[u].page = p

-----------------------------------------------------------------------------

Init ==
  /\ done = {} /\ skipped = {}
  /\ env = [n \in Names |-> "none"]
  /\ accepts = [d \in Daemon |-> IF d = "neo4j" THEN "default" ELSE "none"]
  /\ \/ hw \in Machines /\ box = Ambient
     \/ hw = Minimums /\ \E f \in Ambient : box = Ambient \ {f}
  /\ ctr = [c \in Service |-> NoContainer]
  /\ pending = "none" /\ issued = {}
  /\ tls = [f \in Front |-> [cert |-> "none", key |-> "none"]]
  /\ req = [t \in Tab |-> NoRequest]
  /\ cut = {}
  /\ count = Free

\* The first page without a marker: where a browser resumes, and where its
\* Continue button takes it once the page before is verified.
Resume == STEPS[CHOOSE i \in 1..Len(STEPS) :
                  STEPS[i] \notin done /\ \A j \in 1..(i - 1) : STEPS[j] \in done]

\* The password the customer has in mind for this box.
Usual == CHOOSE pw \in Password : TRUE

\* What the customer may fill in on a page.
Form(p) ==
  CASE p \in Daemon        -> Password
    [] p = "ssh_lockdown"  -> {"none", "keep"}
    [] OTHER               -> {"none"}

\* apply, up to its is_done test: the marker is looked at once, here.  The page's
\* browser sends what is open; the lockdown, whose service asks for the key by
\* itself, may be sent by anybody at any time, which counts as a mishap.
Begin(t) ==
  /\ done # Pages
  /\ ~Busy(t)
  /\ \E p \in {Resume} \cup ({"ssh_lockdown"} \ done) :
     /\ \E pw \in Form(p) :
          \E cert \in IF p = "https" THEN issued ELSE {"none"} :
            /\ req' = [req EXCEPT ![t] = [NoRequest EXCEPT !.page = p, !.pw = pw, !.cert = cert]]
            /\ Spend([Free EXCEPT
                      !.mishaps = IF Others(t) \/ p # Resume THEN 1 ELSE 0,
                      !.changes = IF pw \in Password \ {Usual} THEN 1 ELSE 0])
     /\ cut' = IF Sharing(t, p) THEN cut \cup {p} ELSE cut
  /\ UNCHANGED <<disk, ctr>>

Met(t) ==
  \/ Now(t).arg \in box
  \/ Now(t).arg = "ssh_page_done" /\ "ssh" \in done

Need(t) ==
  /\ At(t, "need") /\ Met(t)
  /\ Proceed(t)
  /\ UNCHANGED <<disk, ctr, cut, count>>

\* A page without what it builds on, or a key that is none, is answered at once.
Refuse(t) ==
  /\ At(t, "need")
  /\ ~Met(t) \/ Now(t).arg = "one_public_key"
  /\ Answer(t)
  /\ UNCHANGED <<disk, ctr, cut, count>>

Gate(t) ==
  /\ \/ At(t, "gate") /\ IF Now(t).arg \in box THEN Proceed(t) ELSE ToChecks(t)
     \/ At(t, "choice") /\ IF req[t].pw = Now(t).arg THEN ToChecks(t) ELSE Proceed(t)
  /\ UNCHANGED <<disk, ctr, cut, count>>

\* A file of the wizard's own, or a system command that does what it should.
Effect(t) ==
  /\ At(t, "write") \/ At(t, "run")
  /\ Bring(Now(t).arg)
  /\ Proceed(t)
  /\ UNCHANGED <<done, skipped, env, accepts, hw, pending, issued, tls, ctr, cut, count>>

\* A command that fails is a result nobody reads: the page goes on.
CommandFails(t) ==
  /\ \E op \in {"run", "up", "recreate", "selfsign", "password"} : At(t, op)
  /\ Now(t).arg \notin {"neo4j", "grafana"}
  /\ Fails
  /\ Proceed(t)
  /\ UNCHANGED <<disk, ctr, cut>>

-----------------------------------------------------------------------------
(* Passwords and the file they are saved in.                               *)

\* ALTER USER, or credentials.xml, which the broker takes up by itself.
SetPassword(t) ==
  /\ At(t, "password") /\ Now(t).arg \in {"postgres", "hivemq"}
  /\ accepts' = [accepts EXCEPT ![Now(t).arg] = req[t].pw]
  /\ Proceed(t)
  /\ UNCHANGED <<done, skipped, env, box, hw, pending, issued, tls, ctr, cut, count>>

\* Neo4j changes a password only for one who knows the old one: the default
\* or the one saved in GRAPH_URL is tried.  It refuses the same one again.
\* Only a change that worked is saved.
Neo4jPassword(t) ==
  /\ At(t, "password") /\ Now(t).arg = "neo4j"
  /\ LET known == {"default", env["graph_url"]} IN
     \/ /\ accepts["neo4j"] \in known \ {req[t].pw} /\ Holds({"neo4j_conf"})
        /\ accepts' = [accepts EXCEPT !["neo4j"] = req[t].pw]
        /\ Proceed(t)
     \/ /\ accepts["neo4j"] \notin known \ {req[t].pw} \/ ~Holds({"neo4j_conf"})
        /\ ToChecks(t)
        /\ UNCHANGED accepts
  /\ UNCHANGED <<done, skipped, env, box, hw, pending, issued, tls, ctr, cut, count>>

\* The first start of the container makes the admin account.
GrafanaPassword(t) ==
  /\ At(t, "password") /\ Now(t).arg = "grafana"
  /\ accepts' = [accepts EXCEPT !["grafana"] =
       IF @ = "none" /\ ctr["grafana"].state # "none" THEN env["grafana_password"] ELSE @]
  /\ Proceed(t)
  /\ UNCHANGED <<done, skipped, env, box, hw, pending, issued, tls, ctr, cut, count>>

Saving(t) == At(t, "truncate") \/ At(t, "save")

\* Faulty variant of ReadSecrets: the file is written anew with the page's own names.
ReadNothing(t) ==
  /\ At(t, "read")
  /\ Proceed(t)
  /\ UNCHANGED <<disk, ctr, cut, count>>

\* The lines of the file as they are now.
ReadSecrets(t) ==
  /\ At(t, "read")
  /\ req' = [req EXCEPT ![t].snap = env, ![t].pc = @ + 1]
  /\ cut' = IF \E u \in Tab \ {t} : Saving(u) THEN cut \cup {"secrets.env"} ELSE cut
  /\ UNCHANGED <<disk, ctr, count>>

\* Path.write_text opens the file for writing: it is empty until it is written.
TruncateSecrets(t) ==
  /\ At(t, "truncate")
  /\ env' = [n \in Names |-> "none"]
  /\ Proceed(t)
  /\ UNCHANGED <<done, skipped, accepts, box, hw, pending, issued, tls, ctr, cut, count>>

\* Faulty variant of WriteSecrets: a name that is there keeps its value.
WriteSecretsOnce(t) ==
  /\ At(t, "save")
  /\ env' = [req[t].snap EXCEPT ![Now(t).arg] =
               IF @ # "none" THEN @ ELSE IF req[t].pw = "none" THEN "set" ELSE req[t].pw]
  /\ req' = [req EXCEPT ![t].snap = NoRequest.snap, ![t].pc = @ + 1]
  /\ UNCHANGED <<done, skipped, accepts, box, hw, pending, issued, tls, ctr, cut, count>>

WriteSecrets(t) ==
  /\ At(t, "save")
  /\ env' = [req[t].snap EXCEPT ![Now(t).arg] = IF req[t].pw = "none" THEN "set" ELSE req[t].pw]
  /\ req' = [req EXCEPT ![t].snap = NoRequest.snap, ![t].pc = @ + 1]
  /\ UNCHANGED <<done, skipped, accepts, box, hw, pending, issued, tls, ctr, cut, count>>

-----------------------------------------------------------------------------
(* Containers.                                                             *)

SetContainer(c, state, said) == ctr' = [ctr EXCEPT ![c] = [state |-> state, said |-> said]]

\* up leaves a container alone unless it is new or its settings changed.
Compose(t) ==
  /\ At(t, "up") \/ At(t, "recreate")
  /\ LET c == Now(t).arg IN
     \/ SetContainer(c, "starting", FALSE)
     \/ At(t, "up") /\ ctr[c].state # "none" /\ UNCHANGED ctr
  /\ Proceed(t)
  /\ UNCHANGED <<disk, cut, count>>

\* The line is in the log, or there is no container to wait for.  One that
\* keeps restarting is waited for.
WaitForLog(t) ==
  /\ At(t, "wait")
  /\ Printed(Now(t).arg) \/ ctr[Now(t).arg].state = "none"
  /\ Proceed(t)
  /\ UNCHANGED <<disk, ctr, cut, count>>

Agrees(d) == env[UrlOf[d]] = accepts[d]

Paired(f) == tls[f].cert # "none" /\ tls[f].cert = tls[f].key

\* What a container needs before it prints its ready line.
CanRun(c) ==
  CASE c = "hivemq"              -> Holds({"broker_files"})
    [] c = "telemetry-writer"    -> /\ Agrees("postgres") /\ Holds({"timescaledb", "retention_window"})
                                    /\ Agrees("hivemq") /\ Answers("hivemq")
    [] c = "device-api"          -> Holds({"site_files"}) /\ Agrees("hivemq") /\ Answers("hivemq")
    [] c = "der-control-api"     -> Holds({"der_overlay"})
    [] c = "der-control-ingress" -> Paired(c) /\ Holds({"truststore", "der_ingress_conf"})
    [] c = "industrial-gateway"  -> Answers("device-api") /\ Answers("hivemq")
    [] c = "hmi"                 -> TRUE
    [] c = "https-ingress"       -> Paired(c) /\ Holds({"https_conf"})
    [] c = "mlflow"              -> Holds({"mlflow_dirs"})
    [] c = "analyst-model"       -> Holds({"model_overlay"})
    [] c = "analyst-server"      -> Agrees("postgres") /\ Agrees("neo4j") /\ Holds({"ollama_settings"})
    [] c = "prometheus"          -> Holds({"prometheus_data", "prometheus_conf"})
    [] c = "grafana"             -> Holds({"grafana_data"})

ContainerReady(c) ==
  /\ ctr[c].state = "starting" /\ CanRun(c)
  /\ SetContainer(c, "ready", TRUE)
  /\ UNCHANGED <<disk, req, cut, count>>

\* Docker restarts it, unless-stopped, and keeps its log.
ContainerDies(c) ==
  /\ \/ ctr[c].state = "starting" /\ ~CanRun(c) /\ UNCHANGED count
     \/ /\ ctr[c].state \in {"starting", "ready"} /\ Fails
        /\ \E t \in Tab : Busy(t) /\ c \in ServicesOf[req[t].page]
  /\ SetContainer(c, "restarting", ctr[c].said)
  /\ UNCHANGED <<disk, req, cut>>

ContainerRestarts(c) ==
  /\ ctr[c].state = "restarting"
  /\ SetContainer(c, "starting", ctr[c].said)
  /\ UNCHANGED <<disk, req, cut, count>>

-----------------------------------------------------------------------------
(* The HTTPS page's key.                                                   *)

\* openssl makes a new key over the pending one; IT signs the request.
RequestSigning(t) ==
  /\ ~Busy(t) /\ done # Pages /\ Resume = "https"
  /\ \E k \in Key \ issued : pending' = k /\ issued' = issued \cup {k}
  /\ Spend([Free EXCEPT !.mishaps = IF Others(t) THEN 1 ELSE 0])
  /\ cut' = IF Sharing(t, "https") THEN cut \cup {"https"} ELSE cut
  /\ UNCHANGED <<done, skipped, env, accepts, box, hw, tls, ctr, req>>

\* A certificate for another key is an answer, a missing key an exception.
MatchKey(t) ==
  /\ At(t, "match")
  /\ IF pending = req[t].cert THEN Proceed(t) ELSE Answer(t)
  /\ UNCHANGED <<disk, ctr, cut, count>>

TakeKey(t) ==
  /\ At(t, "take")
  /\ IF pending # "none"
       THEN req' = [req EXCEPT ![t].key = pending, ![t].pc = @ + 1]
       ELSE Answer(t)
  /\ UNCHANGED <<disk, ctr, cut, count>>

InstallPair(t) ==
  /\ At(t, "install")
  /\ tls' = [tls EXCEPT ![Now(t).arg] = [cert |-> req[t].cert, key |-> req[t].key]]
  /\ Proceed(t)
  /\ UNCHANGED <<done, skipped, env, accepts, box, hw, pending, issued, ctr, cut, count>>

DropKey(t) ==
  /\ At(t, "drop")
  /\ pending' = "none"
  /\ IF pending # "none" THEN Proceed(t) ELSE Answer(t)
  /\ UNCHANGED <<done, skipped, env, accepts, box, hw, issued, tls, ctr, cut, count>>

\* The DER ingress gets a certificate of its own unless one is there.
SelfSign(t) ==
  /\ At(t, "selfsign")
  /\ tls' = [tls EXCEPT !["der-control-ingress"] =
               IF @.cert = "none" THEN [cert |-> "self", key |-> "self"] ELSE @]
  /\ Proceed(t)
  /\ UNCHANGED <<done, skipped, env, accepts, box, hw, pending, issued, ctr, cut, count>>

-----------------------------------------------------------------------------
(* The end of a request.                                                   *)

\* Faulty variant of Check: bad rows are shown, and the page is done all the same.
CheckShown(t) ==
  /\ At(t, "check")
  /\ Proceed(t)
  /\ UNCHANGED <<disk, ctr, cut, count>>

Check(t) ==
  /\ At(t, "check")
  /\ IF Verified(req[t]) THEN Proceed(t) ELSE Answer(t)
  /\ UNCHANGED <<disk, ctr, cut, count>>

\* A probe's image cannot be pulled: its row is bad whatever the box is like.
ProbeFails(t) ==
  /\ At(t, "check")
  /\ Fails
  /\ Answer(t)
  /\ UNCHANGED <<disk, ctr, cut>>

Mark(t) ==
  /\ At(t, "mark")
  /\ done' = done \cup {req[t].page}
  /\ skipped' = skipped \ {req[t].page}
  /\ Answer(t)
  /\ UNCHANGED <<env, accepts, box, hw, pending, issued, tls, ctr, cut, count>>

\* Faulty variant of Skip: any page may be skipped.
SkipAny(t) ==
  /\ ~Busy(t) /\ done # Pages
  /\ done' = done \cup {Resume}
  /\ skipped' = skipped \cup {Resume}
  /\ Spend([Free EXCEPT !.mishaps = IF Others(t) THEN 1 ELSE 0])
  /\ UNCHANGED <<env, accepts, box, hw, pending, issued, tls, ctr, req, cut>>

\* Nothing is looked at, not even the marker.
Skip(t) ==
  /\ ~Busy(t) /\ done # Pages
  /\ LET p == Resume IN
     /\ p \in Skippable
     /\ done' = done \cup {p}
     /\ skipped' = skipped \cup {p}
  /\ Spend([Free EXCEPT !.mishaps = IF Others(t) THEN 1 ELSE 0])
  /\ UNCHANGED <<env, accepts, box, hw, pending, issued, tls, ctr, req, cut>>

\* A reboot or a dead process: systemd starts the wizard again, its requests
\* are lost, the box stays as they left it.
Crash ==
  /\ \E t \in Tab : Busy(t)
  /\ Spend([Free EXCEPT !.crashes = 1])
  /\ req' = [t \in Tab |-> NoRequest]
  /\ cut' = cut \cup (IF \E t \in Tab : At(t, "save") THEN {"secrets.env"} ELSE {})
                \cup {p \in {"neo4j"} : \E t \in Tab :
                        req[t].page = p /\ (At(t, "read") \/ Saving(t))}
  /\ UNCHANGED <<disk, ctr>>

\* A step of a tab's request, whatever it is at.
Step(t) ==
  \/ Need(t) \/ Refuse(t) \/ Gate(t) \/ Effect(t)
  \/ SetPassword(t) \/ Neo4jPassword(t) \/ GrafanaPassword(t)
  \/ ReadSecrets(t) \/ TruncateSecrets(t) \/ WriteSecrets(t)
  \/ Compose(t) \/ WaitForLog(t)
  \/ MatchKey(t) \/ TakeKey(t) \/ InstallPair(t) \/ DropKey(t) \/ SelfSign(t)
  \/ Check(t) \/ Mark(t)

Next ==
  \/ \E t \in Tab :
       \/ Begin(t) \/ Skip(t) \/ RequestSigning(t)
       \/ Step(t) \/ CommandFails(t) \/ ProbeFails(t)
  \/ \E c \in Service : ContainerReady(c) \/ ContainerDies(c) \/ ContainerRestarts(c)
  \/ Crash

Spec == Init /\ [][Next]_vars

-----------------------------------------------------------------------------
(* Properties.  cut holds what the process died in, or a second request of *)
(* the same page got in between: there the code promises nothing, and the  *)
(* properties that need a page or secrets.env whole leave it out.          *)

\* A value a page saves: what the customer typed, or one the wizard makes.
\* Grafana's is always typed.
Secrets == {f \in [Names -> Password \cup {"none", "set"}] : f["grafana_password"] # "set"}

Request ==
  [page : Pages \cup {"none"}, pc : Nat, pw : Password \cup {"none", "keep"},
   cert : Key \cup {"none"}, key : Key \cup {"none"}, snap : Secrets]

\* Where a request may be, and what it is past: the ssh page's mark comes
\* after the key, the lockdown's first step asks for the ssh page's marker.
Sent(r) ==
  /\ r.pc \in 1..Len(Script[r.page])
  /\ r.page \in Daemon => r.pw \in Password
  /\ r.page # "ssh_lockdown" => r.pw # "keep"
  /\ r.page = "ssh" /\ r.pc = Len(Script["ssh"]) => "key_installed" \in box
  /\ r.page = "ssh_lockdown" /\ r.pc > 1 => "ssh" \in done

BoxInv ==
  /\ done \subseteq Pages /\ skipped \subseteq done \cap Skippable
  /\ env \in Secrets
  /\ accepts \in [Daemon -> Password \cup {"none", "default"}]
  /\ box \subseteq Facts
  /\ ctr \in [Service -> [state : {"none", "starting", "ready", "restarting"}, said : BOOLEAN]]
  /\ pending \in issued \cup {"none"} /\ issued \subseteq Key
  /\ cut \subseteq Pages \cup {"secrets.env"}
  /\ "ssh" \in done => "key_installed" \in box
  /\ "password_login_off" \in box => "ssh" \in done

RequestInv ==
  /\ req \in [Tab -> Request]
  /\ \A t \in Tab : Busy(t) => Sent(req[t])

\* Every variable has its type; only an optional page is done without its
\* checks (the skips, https_service.py:106, der_control_service.py:124), the
\* pending key is one openssl made, and password logins go off only behind the
\* ssh page's marker, which is there only once its key is.
WizardInv == BoxInv /\ RequestInv

\* Nobody is between opening secrets.env for writing and writing it.
Whole == \A t \in Tab : ~At(t, "save")

\* What a daemon's page saved still opens the daemon once the page is done,
\* though pages are retried with other passwords, commands fail unread, and
\* later pages rewrite the same file (secrets_env.py:9, postgres_service.py:64,
\* neo4j_service.py:53, hivemq_service.py:52, grafana_service.py:50).
SavedPasswordOpens ==
  Whole => \A d \in Daemon :
    d \in done /\ {d, "secrets.env"} \cap cut = {} => Agrees(d)

\* No page's save loses what another page saved: save_secrets rewrites the
\* whole file from the lines it read (secrets_env.py:9-22).
NamesStay ==
  Whole /\ "secrets.env" \notin cut =>
    \A p \in done \ skipped : \A n \in SavedBy[p] : Saved(n)

\* save_secrets says: "other lines are kept".  When nobody writes the file, it
\* should have every name that a done page saved, whatever happened before.
OtherLinesAreKept ==
  (\A t \in Tab : ~Busy(t)) => \A p \in done \ skipped : \A n \in SavedBy[p] : Saved(n)

\* Password logins are only ever switched off on a box that lets the customer's
\* key in, whatever failed on the way and whenever the lockdown is asked for
\* (ssh_lockdown_service.py:52).
NoLockout ==
  "password_login_off" \in box => "ssh" \in done /\ Holds({"key_installed"})

\* The commands no row of their page looks for.
Unread == {"docker_group", "neo4j_enabled", "ollama_enabled", "der_ingress_reload"}

\* A page that passed its checks has brought about everything it set out to,
\* but for Unread: the runner drops exit codes (system_runner.py:20), so a
\* row of the page must see each failed command.  The DER page's looks whether
\* the ingress is running: one that another request of the page has just started
\* is, without a configuration.
EffectsInForce ==
  \A p \in done \ (skipped \cup {"ssh_lockdown"} \cup ({"der_control_api"} \cap cut)) :
     EffectsOf[p] \ Unread \subseteq box

\* Once the HTTPS page is done both front ends have one certificate and the
\* key made for it, although a new signing request overwrites the pending key
\* and installing moves it twice (https_service.py:53-67, 155-169).
HttpsPair ==
  "https" \in done \ (skipped \cup cut) =>
    Paired("https-ingress") /\ tls["der-control-ingress"] = tls["https-ingress"]

\* "Every step is idempotent, so a retry is safe" (neo4j_service.py:54): with
\* secrets.env intact, a page done after any retries left a password that
\* opens the database.
Neo4jRetryIsSafe ==
  Whole /\ "secrets.env" \notin cut /\ "neo4j" \in done => Agrees("neo4j")

Proved == {req[t].page : t \in {u \in Tab : At(u, "mark")}}
Good   == {req[t].page : t \in {u \in Tab : Busy(u) /\ Verified(req[u])}}

SetupPromise == INSTANCE SetupPages WITH
  Page <- Pages, Optional <- Skippable, marked <- done, proved <- Proved, good <- Good

\* The wizard keeps the promise of its pages: a marker is never taken back,
\* and it is written only by a request that saw every row of its page good or
\* by the skip of an optional page, in any interleaving of tabs, failures and
\* restarts (wizard_steps.py:46-68 and every service's apply).
ImplementsPages == SetupPromise!PagesSpec

=============================================================================
