----------------------------- MODULE SetupScripts -----------------------------
(***************************************************************************)
(* The pages of the on-prem setup wizard (src/wizard) as scripts: what     *)
(* each page's service does when its form is sent, one step after another. *)
(* A step has an operation and one argument:                               *)
(*   need       answer at once unless the fact holds                       *)
(*   write      a file written by the wizard itself                        *)
(*   run        a system command; nobody looks at its exit status          *)
(*   gate       go straight to the checks unless the fact holds            *)
(*   choice     go straight to the checks if the customer declined         *)
(*   password   hand the customer's password to a daemon                   *)
(*   read, truncate, save   one save_secrets, whose write is not atomic    *)
(*   up, recreate, wait     docker compose and the wait for a log line     *)
(*   match .. drop          the HTTPS page's certificate and key           *)
(*   check, mark            the page's rows, then its done marker          *)
(* A fact is a name for what a step brings about on the box.               *)
(***************************************************************************)
EXTENDS Naturals, Sequences

\* One page per daemon, in install order.
STEPS ==
  <<"preflight", "site", "ssh", "docker", "postgres", "neo4j", "ollama",
    "hivemq", "telemetry", "device_api", "der_control_api",
    "industrial_gateway", "hmi", "https", "mlflow", "analyst_model",
    "analyst_server", "prometheus", "grafana", "ssh_lockdown">>

Pages == {STEPS[i] : i \in 1..Len(STEPS)}

\* The two pages whose daemon a site may do without for now.
Skippable == {"der_control_api", "https"}

Do(op, arg) == [op |-> op, arg |-> arg]

\* save_secrets: the whole file is read, truncated, and written again.
SaveSecrets(name) == <<Do("read", name), Do("truncate", name), Do("save", name)>>

\* Every apply ends like this: its rows are read, and only if all of them
\* are good the page is marked done.
Verify(p) == <<Do("check", p), Do("mark", p)>>

\* Compose starts a service and the page waits for the line it prints once
\* it is ready.
Start(op, service) == <<Do(op, service), Do("wait", service)>>

-----------------------------------------------------------------------------
(* The machine itself. *)

PreflightScript == Verify("preflight")

\* dtm.json, the gateway's and the HMI's overlay, the analyst's site keys.
SiteScript == <<Do("need", "order"), Do("write", "site_files")>> \o Verify("site")

\* Faulty variant of SshScript: passwords go off on the page itself, before its
\* key has been tried.
SshScriptLocksFirst ==
  <<Do("need", "one_public_key"), Do("run", "password_login_off"), Do("write", "key_installed")>>
  \o Verify("ssh")

\* A key that is no single public key is refused before anything is touched.
SshScript == <<Do("need", "one_public_key"), Do("write", "key_installed")>> \o Verify("ssh")

\* The network is made only when it is missing: a new one may get another
\* range than the one the databases trust.
DockerScript ==
  <<Do("run", "arcnode_network"), Do("run", "docker_group")>> \o Verify("docker")

PostgresScript ==
  <<Do("need", "arcnode_network"),
    Do("run", "pg_listens"), Do("run", "pg_hba"),
    Do("password", "postgres"),
    Do("run", "pg_databases"), Do("run", "timescaledb"), Do("run", "pgvector")>>
  \o SaveSecrets("postgres_urls") \o Verify("postgres")

Neo4jScript ==
  <<Do("need", "arcnode_network"),
    Do("run", "neo4j_conf"), Do("run", "neo4j_enabled"), Do("run", "neo4j_listens"),
    Do("gate", "neo4j_listens"),
    Do("password", "neo4j")>>
  \o SaveSecrets("graph_url") \o Verify("neo4j")

\* A failed pull leaves out everything after it but the checks.
OllamaScript ==
  <<Do("need", "arcnode_network"),
    Do("run", "ollama_enabled"), Do("run", "ollama_listens"),
    Do("gate", "ollama_listens"),
    Do("run", "models_pulled"), Do("gate", "models_pulled"),
    Do("run", "embedding_variant"), Do("run", "models_loaded"),
    Do("write", "ollama_settings")>>
  \o Verify("ollama")

-----------------------------------------------------------------------------
(* The containers.  Compose reads the env files itself, so what a service  *)
(* needs from them is saved before it is started.                          *)

HivemqScript ==
  <<Do("write", "broker_files"), Do("password", "hivemq")>>
  \o SaveSecrets("broker_passwords") \o Start("up", "hivemq") \o Verify("hivemq")

TelemetryScript ==
  <<Do("write", "retention_window")>>
  \o Start("recreate", "telemetry-writer") \o Verify("telemetry")

DeviceApiScript ==
  SaveSecrets("jwt_secret") \o Start("up", "device-api") \o Verify("device_api")

\* The DER ingress is started among the checks, after the service itself.
DerControlScript ==
  <<Do("need", "order"), Do("write", "der_overlay")>> \o SaveSecrets("lfdi_allowlist")
  \o <<Do("write", "utility_identity")>> \o Start("recreate", "der-control-api")
  \o <<Do("selfsign", "der_tls"), Do("write", "truststore"), Do("run", "der_ingress_conf")>>
  \o Start("recreate", "der-control-ingress") \o Verify("der_control_api")

GatewayScript == Start("up", "industrial-gateway") \o Verify("industrial_gateway")

HmiScript == Start("up", "hmi") \o Verify("hmi")

\* Faulty variant of HttpsScript: the DER ingress keeps the certificate it has.
HttpsScriptOneFront ==
  <<Do("match", "pending_key"), Do("take", "pending_key"),
    Do("install", "https-ingress"), Do("drop", "pending_key"), Do("run", "https_conf")>>
  \o Start("recreate", "https-ingress") \o Verify("https")

\* The pending key moves into both front ends' directories, then it is gone.
HttpsScript ==
  <<Do("match", "pending_key"), Do("take", "pending_key"),
    Do("install", "https-ingress"), Do("install", "der-control-ingress"),
    Do("drop", "pending_key"), Do("run", "https_conf")>>
  \o Start("recreate", "https-ingress")
  \o <<Do("run", "der_ingress_reload")>> \o Verify("https")

MlflowScript ==
  <<Do("write", "mlflow_dirs")>> \o Start("up", "mlflow") \o Verify("mlflow")

AnalystModelScript ==
  <<Do("need", "order"), Do("write", "model_overlay")>>
  \o Start("up", "analyst-model") \o Verify("analyst_model")

AnalystServerScript ==
  SaveSecrets("analyst_keys") \o Start("up", "analyst-server") \o Verify("analyst_server")

PrometheusScript ==
  <<Do("run", "prometheus_data"), Do("run", "prometheus_conf")>>
  \o Start("up", "prometheus") \o Verify("prometheus")

\* Grafana takes its password from the environment, at its first start only.
GrafanaScript ==
  SaveSecrets("grafana_password")
  \o <<Do("run", "grafana_data"), Do("up", "grafana"), Do("password", "grafana"),
       Do("wait", "grafana")>>
  \o Verify("grafana")

\* Faulty variant of LockdownScript: it does not ask for the ssh page.
LockdownScriptUnasked ==
  <<Do("choice", "keep"), Do("write", "sshd_drop-in"), Do("run", "password_login_off")>>
  \o Verify("ssh_lockdown")

\* 409 until the ssh page is done; the drop-in counts once sshd reloaded.
LockdownScript ==
  <<Do("need", "ssh_page_done"), Do("choice", "keep"),
    Do("write", "sshd_drop-in"), Do("run", "password_login_off")>>
  \o Verify("ssh_lockdown")

\* The controller's route of each page and the service the module wires to it.
Script ==
  [preflight |-> PreflightScript, site |-> SiteScript, ssh |-> SshScript,
   docker |-> DockerScript, postgres |-> PostgresScript, neo4j |-> Neo4jScript,
   ollama |-> OllamaScript, hivemq |-> HivemqScript, telemetry |-> TelemetryScript,
   device_api |-> DeviceApiScript, der_control_api |-> DerControlScript,
   industrial_gateway |-> GatewayScript, hmi |-> HmiScript, https |-> HttpsScript,
   mlflow |-> MlflowScript, analyst_model |-> AnalystModelScript,
   analyst_server |-> AnalystServerScript, prometheus |-> PrometheusScript,
   grafana |-> GrafanaScript, ssh_lockdown |-> LockdownScript]

\* What the operations of some kinds in a page's script are about.
Arguments(p, ops) ==
  {Script[p][i].arg : i \in {j \in 1..Len(Script[p]) : Script[p][j].op \in ops}}

EffectsOf  == [p \in Pages |-> Arguments(p, {"write", "run"})]
SavedBy    == [p \in Pages |-> Arguments(p, {"save"})]
ServicesOf == [p \in Pages |-> Arguments(p, {"up", "recreate"})]

=============================================================================
