--------------------------- MODULE SetupWizardProofs ---------------------------
(***************************************************************************)
(* Proofs about SetupWizard, for any tabs, passwords, keys and bounds.     *)
(***************************************************************************)
EXTENDS SetupWizard, WellFoundedInduction, TLAPS

-----------------------------------------------------------------------------
(* The scripts: work, then the checks, then the mark.                      *)

LEMMA InDaemon ==
  /\ "postgres" \in Daemon /\ "neo4j" \in Daemon
  /\ "hivemq" \in Daemon /\ "grafana" \in Daemon
BY DEF Daemon, UrlOf

LEMMA Fields == \A op, arg : Do(op, arg).op = op /\ Do(op, arg).arg = arg
BY DEF Do

\* The pages' scripts, put together.
LEMMA PreflightIs ==
  LET s == Script["preflight"] IN
  /\ Len(s) = 2 /\ s[1] = Do("check", "preflight") /\ s[2] = Do("mark", "preflight")
BY DEF Script, PreflightScript, SaveSecrets, Verify, Start

LEMMA SiteIs ==
  LET s == Script["site"] IN
  /\ Len(s) = 4 /\ s[1] = Do("need", "order") /\ s[2] = Do("write", "site_files")
  /\ s[3] = Do("check", "site") /\ s[4] = Do("mark", "site")
BY DEF Script, SiteScript, SaveSecrets, Verify, Start

LEMMA SshIs ==
  LET s == Script["ssh"] IN
  /\ Len(s) = 4 /\ s[1] = Do("need", "one_public_key") /\ s[2] = Do("write", "key_installed")
  /\ s[3] = Do("check", "ssh") /\ s[4] = Do("mark", "ssh")
BY DEF Script, SshScript, SaveSecrets, Verify, Start

LEMMA DockerIs ==
  LET s == Script["docker"] IN
  /\ Len(s) = 4 /\ s[1] = Do("run", "arcnode_network") /\ s[2] = Do("run", "docker_group")
  /\ s[3] = Do("check", "docker") /\ s[4] = Do("mark", "docker")
BY DEF Script, DockerScript, SaveSecrets, Verify, Start

LEMMA PostgresIs ==
  LET s == Script["postgres"] IN
  /\ Len(s) = 12 /\ s[1] = Do("need", "arcnode_network") /\ s[2] = Do("run", "pg_listens")
  /\ s[3] = Do("run", "pg_hba") /\ s[4] = Do("password", "postgres")
  /\ s[5] = Do("run", "pg_databases") /\ s[6] = Do("run", "timescaledb")
  /\ s[7] = Do("run", "pgvector") /\ s[8] = Do("read", "postgres_urls")
  /\ s[9] = Do("truncate", "postgres_urls") /\ s[10] = Do("save", "postgres_urls")
  /\ s[11] = Do("check", "postgres") /\ s[12] = Do("mark", "postgres")
BY DEF Script, PostgresScript, SaveSecrets, Verify, Start

LEMMA Neo4jIs ==
  LET s == Script["neo4j"] IN
  /\ Len(s) = 11 /\ s[1] = Do("need", "arcnode_network") /\ s[2] = Do("run", "neo4j_conf")
  /\ s[3] = Do("run", "neo4j_enabled") /\ s[4] = Do("run", "neo4j_listens")
  /\ s[5] = Do("gate", "neo4j_listens") /\ s[6] = Do("password", "neo4j")
  /\ s[7] = Do("read", "graph_url") /\ s[8] = Do("truncate", "graph_url")
  /\ s[9] = Do("save", "graph_url") /\ s[10] = Do("check", "neo4j")
  /\ s[11] = Do("mark", "neo4j")
BY DEF Script, Neo4jScript, SaveSecrets, Verify, Start

LEMMA OllamaIs ==
  LET s == Script["ollama"] IN
  /\ Len(s) = 11 /\ s[1] = Do("need", "arcnode_network") /\ s[2] = Do("run", "ollama_enabled")
  /\ s[3] = Do("run", "ollama_listens") /\ s[4] = Do("gate", "ollama_listens")
  /\ s[5] = Do("run", "models_pulled") /\ s[6] = Do("gate", "models_pulled")
  /\ s[7] = Do("run", "embedding_variant") /\ s[8] = Do("run", "models_loaded")
  /\ s[9] = Do("write", "ollama_settings") /\ s[10] = Do("check", "ollama")
  /\ s[11] = Do("mark", "ollama")
BY DEF Script, OllamaScript, SaveSecrets, Verify, Start

LEMMA HivemqIs ==
  LET s == Script["hivemq"] IN
  /\ Len(s) = 9 /\ s[1] = Do("write", "broker_files") /\ s[2] = Do("password", "hivemq")
  /\ s[3] = Do("read", "broker_passwords") /\ s[4] = Do("truncate", "broker_passwords")
  /\ s[5] = Do("save", "broker_passwords") /\ s[6] = Do("up", "hivemq")
  /\ s[7] = Do("wait", "hivemq") /\ s[8] = Do("check", "hivemq") /\ s[9] = Do("mark", "hivemq")
BY DEF Script, HivemqScript, SaveSecrets, Verify, Start

LEMMA TelemetryIs ==
  LET s == Script["telemetry"] IN
  /\ Len(s) = 5 /\ s[1] = Do("write", "retention_window")
  /\ s[2] = Do("recreate", "telemetry-writer") /\ s[3] = Do("wait", "telemetry-writer")
  /\ s[4] = Do("check", "telemetry") /\ s[5] = Do("mark", "telemetry")
BY DEF Script, TelemetryScript, SaveSecrets, Verify, Start

LEMMA DeviceApiIs ==
  LET s == Script["device_api"] IN
  /\ Len(s) = 7 /\ s[1] = Do("read", "jwt_secret") /\ s[2] = Do("truncate", "jwt_secret")
  /\ s[3] = Do("save", "jwt_secret") /\ s[4] = Do("up", "device-api")
  /\ s[5] = Do("wait", "device-api") /\ s[6] = Do("check", "device_api")
  /\ s[7] = Do("mark", "device_api")
BY DEF Script, DeviceApiScript, SaveSecrets, Verify, Start

LEMMA DerControlIs ==
  LET s == Script["der_control_api"] IN
  /\ Len(s) = 15 /\ s[1] = Do("need", "order") /\ s[2] = Do("write", "der_overlay")
  /\ s[3] = Do("read", "lfdi_allowlist") /\ s[4] = Do("truncate", "lfdi_allowlist")
  /\ s[5] = Do("save", "lfdi_allowlist") /\ s[6] = Do("write", "utility_identity")
  /\ s[7] = Do("recreate", "der-control-api") /\ s[8] = Do("wait", "der-control-api")
  /\ s[9] = Do("selfsign", "der_tls") /\ s[10] = Do("write", "truststore")
  /\ s[11] = Do("run", "der_ingress_conf") /\ s[12] = Do("recreate", "der-control-ingress")
  /\ s[13] = Do("wait", "der-control-ingress") /\ s[14] = Do("check", "der_control_api")
  /\ s[15] = Do("mark", "der_control_api")
BY DEF Script, DerControlScript, SaveSecrets, Verify, Start

LEMMA GatewayIs ==
  LET s == Script["industrial_gateway"] IN
  /\ Len(s) = 4 /\ s[1] = Do("up", "industrial-gateway")
  /\ s[2] = Do("wait", "industrial-gateway") /\ s[3] = Do("check", "industrial_gateway")
  /\ s[4] = Do("mark", "industrial_gateway")
BY DEF Script, GatewayScript, SaveSecrets, Verify, Start

LEMMA HmiIs ==
  LET s == Script["hmi"] IN
  /\ Len(s) = 4 /\ s[1] = Do("up", "hmi") /\ s[2] = Do("wait", "hmi")
  /\ s[3] = Do("check", "hmi") /\ s[4] = Do("mark", "hmi")
BY DEF Script, HmiScript, SaveSecrets, Verify, Start

LEMMA HttpsIs ==
  LET s == Script["https"] IN
  /\ Len(s) = 11 /\ s[1] = Do("match", "pending_key") /\ s[2] = Do("take", "pending_key")
  /\ s[3] = Do("install", "https-ingress") /\ s[4] = Do("install", "der-control-ingress")
  /\ s[5] = Do("drop", "pending_key") /\ s[6] = Do("run", "https_conf")
  /\ s[7] = Do("recreate", "https-ingress") /\ s[8] = Do("wait", "https-ingress")
  /\ s[9] = Do("run", "der_ingress_reload") /\ s[10] = Do("check", "https")
  /\ s[11] = Do("mark", "https")
BY DEF Script, HttpsScript, SaveSecrets, Verify, Start

LEMMA MlflowIs ==
  LET s == Script["mlflow"] IN
  /\ Len(s) = 5 /\ s[1] = Do("write", "mlflow_dirs") /\ s[2] = Do("up", "mlflow")
  /\ s[3] = Do("wait", "mlflow") /\ s[4] = Do("check", "mlflow") /\ s[5] = Do("mark", "mlflow")
BY DEF Script, MlflowScript, SaveSecrets, Verify, Start

LEMMA AnalystModelIs ==
  LET s == Script["analyst_model"] IN
  /\ Len(s) = 6 /\ s[1] = Do("need", "order") /\ s[2] = Do("write", "model_overlay")
  /\ s[3] = Do("up", "analyst-model") /\ s[4] = Do("wait", "analyst-model")
  /\ s[5] = Do("check", "analyst_model") /\ s[6] = Do("mark", "analyst_model")
BY DEF Script, AnalystModelScript, SaveSecrets, Verify, Start

LEMMA AnalystServerIs ==
  LET s == Script["analyst_server"] IN
  /\ Len(s) = 7 /\ s[1] = Do("read", "analyst_keys") /\ s[2] = Do("truncate", "analyst_keys")
  /\ s[3] = Do("save", "analyst_keys") /\ s[4] = Do("up", "analyst-server")
  /\ s[5] = Do("wait", "analyst-server") /\ s[6] = Do("check", "analyst_server")
  /\ s[7] = Do("mark", "analyst_server")
BY DEF Script, AnalystServerScript, SaveSecrets, Verify, Start

LEMMA PrometheusIs ==
  LET s == Script["prometheus"] IN
  /\ Len(s) = 6 /\ s[1] = Do("run", "prometheus_data") /\ s[2] = Do("run", "prometheus_conf")
  /\ s[3] = Do("up", "prometheus") /\ s[4] = Do("wait", "prometheus")
  /\ s[5] = Do("check", "prometheus") /\ s[6] = Do("mark", "prometheus")
BY DEF Script, PrometheusScript, SaveSecrets, Verify, Start

LEMMA GrafanaIs ==
  LET s == Script["grafana"] IN
  /\ Len(s) = 9 /\ s[1] = Do("read", "grafana_password")
  /\ s[2] = Do("truncate", "grafana_password") /\ s[3] = Do("save", "grafana_password")
  /\ s[4] = Do("run", "grafana_data") /\ s[5] = Do("up", "grafana")
  /\ s[6] = Do("password", "grafana") /\ s[7] = Do("wait", "grafana")
  /\ s[8] = Do("check", "grafana") /\ s[9] = Do("mark", "grafana")
BY DEF Script, GrafanaScript, SaveSecrets, Verify, Start

LEMMA LockdownIs ==
  LET s == Script["ssh_lockdown"] IN
  /\ Len(s) = 6 /\ s[1] = Do("need", "ssh_page_done") /\ s[2] = Do("choice", "keep")
  /\ s[3] = Do("write", "sshd_drop-in") /\ s[4] = Do("run", "password_login_off")
  /\ s[5] = Do("check", "ssh_lockdown") /\ s[6] = Do("mark", "ssh_lockdown")
BY DEF Script, LockdownScript, SaveSecrets, Verify, Start

\* What a step of page p's script before its checks may be.
WorkStep(p, op, arg) ==
  /\ op \in {"write", "run"} => arg # "ssh_page_done"
  /\ op \in {"write", "run"} /\ arg = "password_login_off" => p = "ssh_lockdown"
  /\ op = "password" => p \in Daemon
  /\ op = "save" => p # "ssh_lockdown"
  /\ op = "save" /\ arg = "grafana_password" => p \in Daemon

Ops ==
  {"need", "write", "run", "gate", "choice", "password", "read", "truncate", "save",
   "up", "recreate", "wait", "match", "take", "install", "drop", "selfsign"}

WorkThenVerified(p) ==
  /\ Len(Script[p]) \in Nat /\ Len(Script[p]) >= 2
  /\ \A i \in 1..(Len(Script[p]) - 2) :
       Script[p][i].op \in Ops /\ WorkStep(p, Script[p][i].op, Script[p][i].arg)
  /\ Script[p][Len(Script[p]) - 1].op = "check"
  /\ Script[p][Len(Script[p])].op = "mark"

LEMMA PreflightWorks == WorkThenVerified("preflight")
<1>1. Len(Script["preflight"]) = 2
  BY PreflightIs
<1>2. QED
  BY <1>1, PreflightIs, Fields DEF WorkThenVerified

LEMMA SiteWorks == WorkThenVerified("site")
<1> DEFINE s == Script["site"]
<1>1. Len(s) = 4
  BY SiteIs
<1>2. \A i \in 1..2 : s[i].op \in Ops /\ WorkStep("site", s[i].op, s[i].arg)
  BY SiteIs, Fields, InDaemon DEF WorkStep, Ops
<1>3. s[3].op = "check" /\ s[4].op = "mark"
  BY SiteIs, Fields
<1> HIDE DEF s
<1>4. Len(s) - 2 = 2 /\ Len(s) - 1 = 3
  BY <1>1
<1>5. QED
  BY <1>1, <1>2, <1>3, <1>4 DEF WorkThenVerified, s

LEMMA SshWorks == WorkThenVerified("ssh")
<1> DEFINE s == Script["ssh"]
<1>1. Len(s) = 4
  BY SshIs
<1>2. \A i \in 1..2 : s[i].op \in Ops /\ WorkStep("ssh", s[i].op, s[i].arg)
  BY SshIs, Fields, InDaemon DEF WorkStep, Ops
<1>3. s[3].op = "check" /\ s[4].op = "mark"
  BY SshIs, Fields
<1> HIDE DEF s
<1>4. Len(s) - 2 = 2 /\ Len(s) - 1 = 3
  BY <1>1
<1>5. QED
  BY <1>1, <1>2, <1>3, <1>4 DEF WorkThenVerified, s

LEMMA DockerWorks == WorkThenVerified("docker")
<1> DEFINE s == Script["docker"]
<1>1. Len(s) = 4
  BY DockerIs
<1>2. \A i \in 1..2 : s[i].op \in Ops /\ WorkStep("docker", s[i].op, s[i].arg)
  BY DockerIs, Fields, InDaemon DEF WorkStep, Ops
<1>3. s[3].op = "check" /\ s[4].op = "mark"
  BY DockerIs, Fields
<1> HIDE DEF s
<1>4. Len(s) - 2 = 2 /\ Len(s) - 1 = 3
  BY <1>1
<1>5. QED
  BY <1>1, <1>2, <1>3, <1>4 DEF WorkThenVerified, s

LEMMA PostgresWorks == WorkThenVerified("postgres")
<1> DEFINE s == Script["postgres"]
<1>1. Len(s) = 12
  BY PostgresIs
<1>2. \A i \in 1..10 : s[i].op \in Ops /\ WorkStep("postgres", s[i].op, s[i].arg)
  BY PostgresIs, Fields, InDaemon DEF WorkStep, Ops
<1>3. s[11].op = "check" /\ s[12].op = "mark"
  BY PostgresIs, Fields
<1> HIDE DEF s
<1>4. Len(s) - 2 = 10 /\ Len(s) - 1 = 11
  BY <1>1
<1>5. QED
  BY <1>1, <1>2, <1>3, <1>4 DEF WorkThenVerified, s

LEMMA Neo4jWorks == WorkThenVerified("neo4j")
<1> DEFINE s == Script["neo4j"]
<1>1. Len(s) = 11
  BY Neo4jIs
<1>2. \A i \in 1..9 : s[i].op \in Ops /\ WorkStep("neo4j", s[i].op, s[i].arg)
  BY Neo4jIs, Fields, InDaemon DEF WorkStep, Ops
<1>3. s[10].op = "check" /\ s[11].op = "mark"
  BY Neo4jIs, Fields
<1> HIDE DEF s
<1>4. Len(s) - 2 = 9 /\ Len(s) - 1 = 10
  BY <1>1
<1>5. QED
  BY <1>1, <1>2, <1>3, <1>4 DEF WorkThenVerified, s

LEMMA OllamaWorks == WorkThenVerified("ollama")
<1> DEFINE s == Script["ollama"]
<1>1. Len(s) = 11
  BY OllamaIs
<1>2. \A i \in 1..9 : s[i].op \in Ops /\ WorkStep("ollama", s[i].op, s[i].arg)
  BY OllamaIs, Fields, InDaemon DEF WorkStep, Ops
<1>3. s[10].op = "check" /\ s[11].op = "mark"
  BY OllamaIs, Fields
<1> HIDE DEF s
<1>4. Len(s) - 2 = 9 /\ Len(s) - 1 = 10
  BY <1>1
<1>5. QED
  BY <1>1, <1>2, <1>3, <1>4 DEF WorkThenVerified, s

LEMMA HivemqWorks == WorkThenVerified("hivemq")
<1> DEFINE s == Script["hivemq"]
<1>1. Len(s) = 9
  BY HivemqIs
<1>2. \A i \in 1..7 : s[i].op \in Ops /\ WorkStep("hivemq", s[i].op, s[i].arg)
  BY HivemqIs, Fields, InDaemon DEF WorkStep, Ops
<1>3. s[8].op = "check" /\ s[9].op = "mark"
  BY HivemqIs, Fields
<1> HIDE DEF s
<1>4. Len(s) - 2 = 7 /\ Len(s) - 1 = 8
  BY <1>1
<1>5. QED
  BY <1>1, <1>2, <1>3, <1>4 DEF WorkThenVerified, s

LEMMA TelemetryWorks == WorkThenVerified("telemetry")
<1> DEFINE s == Script["telemetry"]
<1>1. Len(s) = 5
  BY TelemetryIs
<1>2. \A i \in 1..3 : s[i].op \in Ops /\ WorkStep("telemetry", s[i].op, s[i].arg)
  BY TelemetryIs, Fields, InDaemon DEF WorkStep, Ops
<1>3. s[4].op = "check" /\ s[5].op = "mark"
  BY TelemetryIs, Fields
<1> HIDE DEF s
<1>4. Len(s) - 2 = 3 /\ Len(s) - 1 = 4
  BY <1>1
<1>5. QED
  BY <1>1, <1>2, <1>3, <1>4 DEF WorkThenVerified, s

LEMMA DeviceApiWorks == WorkThenVerified("device_api")
<1> DEFINE s == Script["device_api"]
<1>1. Len(s) = 7
  BY DeviceApiIs
<1>2. \A i \in 1..5 : s[i].op \in Ops /\ WorkStep("device_api", s[i].op, s[i].arg)
  BY DeviceApiIs, Fields, InDaemon DEF WorkStep, Ops
<1>3. s[6].op = "check" /\ s[7].op = "mark"
  BY DeviceApiIs, Fields
<1> HIDE DEF s
<1>4. Len(s) - 2 = 5 /\ Len(s) - 1 = 6
  BY <1>1
<1>5. QED
  BY <1>1, <1>2, <1>3, <1>4 DEF WorkThenVerified, s

LEMMA DerControlWorks == WorkThenVerified("der_control_api")
<1> DEFINE s == Script["der_control_api"]
<1>1. Len(s) = 15
  BY DerControlIs
<1>2. \A i \in 1..13 : s[i].op \in Ops /\ WorkStep("der_control_api", s[i].op, s[i].arg)
  BY DerControlIs, Fields, InDaemon DEF WorkStep, Ops
<1>3. s[14].op = "check" /\ s[15].op = "mark"
  BY DerControlIs, Fields
<1> HIDE DEF s
<1>4. Len(s) - 2 = 13 /\ Len(s) - 1 = 14
  BY <1>1
<1>5. QED
  BY <1>1, <1>2, <1>3, <1>4 DEF WorkThenVerified, s

LEMMA GatewayWorks == WorkThenVerified("industrial_gateway")
<1> DEFINE s == Script["industrial_gateway"]
<1>1. Len(s) = 4
  BY GatewayIs
<1>2. \A i \in 1..2 : s[i].op \in Ops /\ WorkStep("industrial_gateway", s[i].op, s[i].arg)
  BY GatewayIs, Fields, InDaemon DEF WorkStep, Ops
<1>3. s[3].op = "check" /\ s[4].op = "mark"
  BY GatewayIs, Fields
<1> HIDE DEF s
<1>4. Len(s) - 2 = 2 /\ Len(s) - 1 = 3
  BY <1>1
<1>5. QED
  BY <1>1, <1>2, <1>3, <1>4 DEF WorkThenVerified, s

LEMMA HmiWorks == WorkThenVerified("hmi")
<1> DEFINE s == Script["hmi"]
<1>1. Len(s) = 4
  BY HmiIs
<1>2. \A i \in 1..2 : s[i].op \in Ops /\ WorkStep("hmi", s[i].op, s[i].arg)
  BY HmiIs, Fields, InDaemon DEF WorkStep, Ops
<1>3. s[3].op = "check" /\ s[4].op = "mark"
  BY HmiIs, Fields
<1> HIDE DEF s
<1>4. Len(s) - 2 = 2 /\ Len(s) - 1 = 3
  BY <1>1
<1>5. QED
  BY <1>1, <1>2, <1>3, <1>4 DEF WorkThenVerified, s

LEMMA HttpsWorks == WorkThenVerified("https")
<1> DEFINE s == Script["https"]
<1>1. Len(s) = 11
  BY HttpsIs
<1>2. \A i \in 1..9 : s[i].op \in Ops /\ WorkStep("https", s[i].op, s[i].arg)
  BY HttpsIs, Fields, InDaemon DEF WorkStep, Ops
<1>3. s[10].op = "check" /\ s[11].op = "mark"
  BY HttpsIs, Fields
<1> HIDE DEF s
<1>4. Len(s) - 2 = 9 /\ Len(s) - 1 = 10
  BY <1>1
<1>5. QED
  BY <1>1, <1>2, <1>3, <1>4 DEF WorkThenVerified, s

LEMMA MlflowWorks == WorkThenVerified("mlflow")
<1> DEFINE s == Script["mlflow"]
<1>1. Len(s) = 5
  BY MlflowIs
<1>2. \A i \in 1..3 : s[i].op \in Ops /\ WorkStep("mlflow", s[i].op, s[i].arg)
  BY MlflowIs, Fields, InDaemon DEF WorkStep, Ops
<1>3. s[4].op = "check" /\ s[5].op = "mark"
  BY MlflowIs, Fields
<1> HIDE DEF s
<1>4. Len(s) - 2 = 3 /\ Len(s) - 1 = 4
  BY <1>1
<1>5. QED
  BY <1>1, <1>2, <1>3, <1>4 DEF WorkThenVerified, s

LEMMA AnalystModelWorks == WorkThenVerified("analyst_model")
<1> DEFINE s == Script["analyst_model"]
<1>1. Len(s) = 6
  BY AnalystModelIs
<1>2. \A i \in 1..4 : s[i].op \in Ops /\ WorkStep("analyst_model", s[i].op, s[i].arg)
  BY AnalystModelIs, Fields, InDaemon DEF WorkStep, Ops
<1>3. s[5].op = "check" /\ s[6].op = "mark"
  BY AnalystModelIs, Fields
<1> HIDE DEF s
<1>4. Len(s) - 2 = 4 /\ Len(s) - 1 = 5
  BY <1>1
<1>5. QED
  BY <1>1, <1>2, <1>3, <1>4 DEF WorkThenVerified, s

LEMMA AnalystServerWorks == WorkThenVerified("analyst_server")
<1> DEFINE s == Script["analyst_server"]
<1>1. Len(s) = 7
  BY AnalystServerIs
<1>2. \A i \in 1..5 : s[i].op \in Ops /\ WorkStep("analyst_server", s[i].op, s[i].arg)
  BY AnalystServerIs, Fields, InDaemon DEF WorkStep, Ops
<1>3. s[6].op = "check" /\ s[7].op = "mark"
  BY AnalystServerIs, Fields
<1> HIDE DEF s
<1>4. Len(s) - 2 = 5 /\ Len(s) - 1 = 6
  BY <1>1
<1>5. QED
  BY <1>1, <1>2, <1>3, <1>4 DEF WorkThenVerified, s

LEMMA PrometheusWorks == WorkThenVerified("prometheus")
<1> DEFINE s == Script["prometheus"]
<1>1. Len(s) = 6
  BY PrometheusIs
<1>2. \A i \in 1..4 : s[i].op \in Ops /\ WorkStep("prometheus", s[i].op, s[i].arg)
  BY PrometheusIs, Fields, InDaemon DEF WorkStep, Ops
<1>3. s[5].op = "check" /\ s[6].op = "mark"
  BY PrometheusIs, Fields
<1> HIDE DEF s
<1>4. Len(s) - 2 = 4 /\ Len(s) - 1 = 5
  BY <1>1
<1>5. QED
  BY <1>1, <1>2, <1>3, <1>4 DEF WorkThenVerified, s

LEMMA GrafanaWorks == WorkThenVerified("grafana")
<1> DEFINE s == Script["grafana"]
<1>1. Len(s) = 9
  BY GrafanaIs
<1>2. \A i \in 1..7 : s[i].op \in Ops /\ WorkStep("grafana", s[i].op, s[i].arg)
  BY GrafanaIs, Fields, InDaemon DEF WorkStep, Ops
<1>3. s[8].op = "check" /\ s[9].op = "mark"
  BY GrafanaIs, Fields
<1> HIDE DEF s
<1>4. Len(s) - 2 = 7 /\ Len(s) - 1 = 8
  BY <1>1
<1>5. QED
  BY <1>1, <1>2, <1>3, <1>4 DEF WorkThenVerified, s

LEMMA LockdownWorks == WorkThenVerified("ssh_lockdown")
<1> DEFINE s == Script["ssh_lockdown"]
<1>1. Len(s) = 6
  BY LockdownIs
<1>2. \A i \in 1..4 : s[i].op \in Ops /\ WorkStep("ssh_lockdown", s[i].op, s[i].arg)
  BY LockdownIs, Fields, InDaemon DEF WorkStep, Ops
<1>3. s[5].op = "check" /\ s[6].op = "mark"
  BY LockdownIs, Fields
<1> HIDE DEF s
<1>4. Len(s) - 2 = 4 /\ Len(s) - 1 = 5
  BY <1>1
<1>5. QED
  BY <1>1, <1>2, <1>3, <1>4 DEF WorkThenVerified, s

\* Every page works, looks at its rows, and marks itself.
LEMMA ScriptsAreWork == ASSUME NEW p \in Pages PROVE WorkThenVerified(p)
<1>1. p \in {STEPS[i] : i \in 1..20}
  BY DEF Pages, STEPS
<1>2. QED
  BY <1>1, PreflightWorks, SiteWorks, SshWorks, DockerWorks, PostgresWorks,
     Neo4jWorks, OllamaWorks, HivemqWorks, TelemetryWorks, DeviceApiWorks,
     DerControlWorks, GatewayWorks, HmiWorks, HttpsWorks, MlflowWorks,
     AnalystModelWorks, AnalystServerWorks, PrometheusWorks, GrafanaWorks,
     LockdownWorks DEF STEPS

-----------------------------------------------------------------------------
(* Where a request is.                                                     *)

\* A step of a script is work, the checks or the mark, by its place; and the
\* lockdown begins by asking for the ssh page.
LEMMA Where ==
  ASSUME WizardInv, NEW t \in Tab, Busy(t)
  PROVE  LET p == req[t].page
             pc == req[t].pc
             n == Len(Script[p])
         IN /\ p \in Pages /\ n \in Nat /\ n >= 2 /\ pc \in 1..n
            /\ pc = n => Now(t).op = "mark"
            /\ pc = n - 1 => Now(t).op = "check"
            /\ pc <= n - 2 => /\ Now(t).op \in Ops
                              /\ WorkStep(p, Now(t).op, Now(t).arg)
<1> DEFINE p == req[t].page
           pc == req[t].pc
           n == Len(Script[p])
<1>1. p \in Pages /\ pc \in 1..n
  BY DEF WizardInv, RequestInv, Sent, Request, Busy
<1>2. WorkThenVerified(p)
  BY <1>1, ScriptsAreWork
<1>3. n \in Nat /\ n >= 2
  BY <1>2 DEF WorkThenVerified
<1>4. pc = n => Now(t).op = "mark"
  BY <1>2 DEF WorkThenVerified, Now
<1>5. pc = n - 1 => Now(t).op = "check"
  BY <1>2 DEF WorkThenVerified, Now
<1>6. ASSUME pc <= n - 2
      PROVE  Now(t).op \in Ops /\ WorkStep(p, Now(t).op, Now(t).arg)
  <2>1. pc \in 1..(n - 2)
    BY <1>1, <1>3, <1>6
  <2>2. QED
    BY <1>2, <2>1 DEF WorkThenVerified, Now
<1>7. QED
  BY <1>1, <1>3, <1>4, <1>5, <1>6

\* The same, read from the operation.
LEMMA Places ==
  ASSUME WizardInv, NEW t \in Tab, Busy(t)
  PROVE  LET pc == req[t].pc
             n == Len(Script[req[t].page])
         IN /\ Now(t).op \in Ops => pc + 1 \in 1..(n - 1)
            /\ Now(t).op = "check" => pc = n - 1
            /\ Now(t).op = "mark" <=> pc = n
            /\ n - 1 \in 1..n /\ n - 1 # n /\ n \in Nat
<1> DEFINE pc == req[t].pc
           n == Len(Script[req[t].page])
<1>1. /\ n \in Nat /\ n >= 2 /\ pc \in 1..n
      /\ pc = n => Now(t).op = "mark"
      /\ pc = n - 1 => Now(t).op = "check"
      /\ pc <= n - 2 => Now(t).op \in Ops
  BY Where
<1>2. "check" \notin Ops /\ "mark" \notin Ops
  BY DEF Ops
<1> HIDE DEF pc, n
<1>3. pc = n \/ pc = n - 1 \/ pc <= n - 2
  BY <1>1
<1>4. n - 1 \in 1..n /\ n - 1 # n /\ n \in Nat
  BY <1>1
<1>5. Now(t).op \in Ops => pc + 1 \in 1..(n - 1)
  <2>1. Now(t).op \in Ops => pc <= n - 2
    BY <1>1, <1>2, <1>3
  <2>2. pc <= n - 2 => pc + 1 \in 1..(n - 1)
    BY <1>1
  <2>3. QED
    BY <2>1, <2>2
<1>6. Now(t).op = "check" => pc = n - 1
  BY <1>1, <1>2, <1>3
<1>7. Now(t).op = "mark" <=> pc = n
  BY <1>1, <1>2, <1>3
<1>8. QED
  BY <1>4, <1>5, <1>6, <1>7 DEF pc, n

\* The lockdown's first step asks for the ssh page's marker.
LEMMA LockdownAsks ==
  Script["ssh_lockdown"][1] = Do("need", "ssh_page_done")
BY LockdownIs

\* Past it, the marker is there.
LEMMA LockdownNeeds ==
  ASSUME WizardInv, NEW t \in Tab, Busy(t), Now(t).op # "need", req[t].page = "ssh_lockdown"
  PROVE  "ssh" \in done
<1>1. Sent(req[t]) /\ req[t].pc \in Nat
  BY DEF WizardInv, RequestInv, Request
<1>2. req[t].pc # 1
  <2>1. Do("need", "ssh_page_done").op = "need"
    BY DEF Do
  <2>2. QED
    BY <2>1, LockdownAsks DEF Now
<1>3. req[t].pc >= 1
  BY <1>1 DEF Sent
<1>4. req[t].pc > 1
  BY <1>1, <1>2, <1>3
<1>5. QED
  BY <1>1, <1>4 DEF Sent

\* What a step brings about is a fact, and a page's marker is none.
LEMMA EffectsAreFacts ==
  ASSUME WizardInv, NEW t \in Tab, Busy(t), Now(t).op \in {"write", "run"}
  PROVE  Now(t).arg \in Facts
<1> DEFINE p == req[t].page
<1>1. p \in Pages /\ req[t].pc \in 1..Len(Script[p])
  BY Where
<1>2. Now(t).arg \in Arguments(p, {"write", "run"})
  BY <1>1 DEF Arguments, Now
<1>3. EffectsOf[p] = Arguments(p, {"write", "run"})
  BY <1>1 DEF EffectsOf
<1>4. QED
  BY <1>1, <1>2, <1>3 DEF Facts

LEMMA MarkersAreNoFacts == "ssh_page_done" \notin Facts
<1>1. ASSUME NEW p \in Pages, NEW i \in 1..Len(Script[p]), Script[p][i].op \in {"write", "run"}
      PROVE  Script[p][i].arg # "ssh_page_done"
  <2>1. WorkThenVerified(p)
    BY ScriptsAreWork
  <2>2. i # Len(Script[p]) /\ i # Len(Script[p]) - 1
    BY <1>1, <2>1 DEF WorkThenVerified
  <2>3. WorkStep(p, Script[p][i].op, Script[p][i].arg)
    BY <2>1, <2>2 DEF WorkThenVerified
  <2>4. QED
    BY <1>1, <2>3 DEF WorkStep
<1>2. \A p \in Pages : "ssh_page_done" \notin Arguments(p, {"write", "run"})
  BY <1>1 DEF Arguments
<1>3. \A p \in Pages : "ssh_page_done" \notin EffectsOf[p]
  BY <1>2 DEF EffectsOf
<1>4. "ssh_page_done" \notin Ambient
  BY DEF Ambient
<1>5. QED
  BY <1>3, <1>4 DEF Facts

LEMMA GrafanaIsSaved == "grafana_password" \in Names
<1>1. 3 \in 1..Len(Script["grafana"])
  BY GrafanaIs
<1>2. Script["grafana"][3].op = "save" /\ Script["grafana"][3].arg = "grafana_password"
  BY GrafanaIs, Fields
<1>3. "grafana_password" \in Arguments("grafana", {"save"})
  BY <1>1, <1>2 DEF Arguments
<1>4. "grafana" \in Pages
  BY DEF Pages, STEPS
<1>5. QED
  BY <1>3, <1>4 DEF Names, SavedBy

-----------------------------------------------------------------------------
(* Requests that move.                                                     *)

\* Sent, with the box and the markers made explicit.
SentIn(r, b, d) ==
  /\ r.pc \in 1..Len(Script[r.page])
  /\ r.page \in Daemon => r.pw \in Password
  /\ r.page # "ssh_lockdown" => r.pw # "keep"
  /\ r.page = "ssh" /\ r.pc = Len(Script["ssh"]) => "key_installed" \in b
  /\ r.page = "ssh_lockdown" /\ r.pc > 1 => "ssh" \in d

\* One request moves, and the box and the markers only grow: the others stay
\* where they may be.
LEMMA RequestMoves ==
  ASSUME RequestInv, NEW t \in Tab, NEW r \in Request, req' = [req EXCEPT ![t] = r],
         box \subseteq box', done \subseteq done',
         r.page # "none" => SentIn(r, box', done')
  PROVE  RequestInv'
<1>1. req' \in [Tab -> Request]
  BY DEF RequestInv
<1>2. ASSUME NEW u \in Tab, req'[u].page # "none"
      PROVE  SentIn(req'[u], box', done')
  <2>1. CASE u = t
    <3>1. req'[u] = r
      BY <2>1 DEF RequestInv
    <3>2. QED
      BY <1>2, <3>1
  <2>2. CASE u # t
    <3>1. req'[u] = req[u]
      BY <2>2 DEF RequestInv
    <3>2. SentIn(req[u], box, done)
      BY <1>2, <3>1 DEF RequestInv, Busy, Sent, SentIn
    <3>3. SentIn(req[u], box', done')
      BY <3>2 DEF SentIn
    <3>4. QED
      BY <3>1, <3>3
  <2>3. QED
    BY <2>1, <2>2
<1>3. QED
  BY <1>1, <1>2 DEF RequestInv, Busy, Sent, SentIn

\* A step of work: the request goes on to the next one.
LEMMA WorkGoesOn ==
  ASSUME WizardInv, NEW t \in Tab, Busy(t), Now(t).op \in Ops,
         req[t].page = "ssh_lockdown" /\ req[t].pc = 1 => "ssh" \in done,
         NEW r \in Request, r.page = req[t].page, r.pc = req[t].pc + 1, r.pw = req[t].pw
  PROVE  SentIn(r, box, done)
<1> DEFINE n == Len(Script[req[t].page])
<1>1. r.pc \in 1..(n - 1) /\ n - 1 # n /\ n - 1 \in 1..n /\ n \in Nat
  BY Places
<1>2. Sent(req[t]) /\ req[t].pc \in Nat
  BY DEF WizardInv, RequestInv, Request
<1> HIDE DEF n
<1>3. r.pc \in 1..n /\ r.pc # n
  BY <1>1
<1>4. req[t].page = "ssh_lockdown" => "ssh" \in done
  <2>1. req[t].page = "ssh_lockdown" /\ req[t].pc > 1 => "ssh" \in done
    BY <1>2 DEF Sent
  <2>2. req[t].pc \in 1..Len(Script[req[t].page])
    BY <1>2 DEF Sent
  <2>3. req[t].pc = 1 \/ req[t].pc > 1
    BY <1>2, <2>2
  <2>4. QED
    BY <2>1, <2>3
<1>5. QED
  BY <1>2, <1>3, <1>4 DEF Sent, SentIn, n

\* It goes straight to the checks.
LEMMA WorkGoesToChecks ==
  ASSUME WizardInv, NEW t \in Tab, Busy(t), Now(t).op \in Ops, Now(t).op # "need",
         NEW r \in Request, r.page = req[t].page, r.pc = Checks(req[t].page), r.pw = req[t].pw
  PROVE  SentIn(r, box, done)
<1> DEFINE n == Len(Script[req[t].page])
<1>1. r.pc \in 1..n /\ r.pc # n
  BY Places DEF Checks
<1>2. Sent(req[t]) /\ req[t].pc \in Nat
  BY DEF WizardInv, RequestInv, Request
<1>4. req[t].page = "ssh_lockdown" => "ssh" \in done
  BY <1>2, LockdownNeeds
<1>5. QED
  BY <1>1, <1>2, <1>4 DEF Sent, SentIn

LEMMA NoRequestIsOne == NoRequest \in Request /\ NoRequest.page = "none"
BY GrafanaIsSaved DEF NoRequest, Request, Secrets

LEMMA ProceedKeeps ==
  ASSUME WizardInv, NEW t \in Tab, Busy(t), Now(t).op \in Ops, Proceed(t),
         req[t].page = "ssh_lockdown" /\ req[t].pc = 1 => "ssh" \in done,
         box \subseteq box', done' = done
  PROVE  RequestInv'
<1> DEFINE r == [req[t] EXCEPT !.pc = req[t].pc + 1]
<1>1. req[t] \in Request
  BY DEF WizardInv, RequestInv
<1>2. /\ r \in Request /\ r.page = req[t].page
      /\ r.pc = req[t].pc + 1 /\ r.pw = req[t].pw
  BY <1>1 DEF Request
<1>3. req' = [req EXCEPT ![t] = r]
  BY DEF Proceed, Go
<1> HIDE DEF r
<1>4. SentIn(r, box, done)
  BY <1>2, WorkGoesOn
<1>5. SentIn(r, box', done')
  BY <1>4 DEF SentIn
<1>6. QED
  BY <1>2, <1>3, <1>5, RequestMoves DEF WizardInv

LEMMA ToChecksKeeps ==
  ASSUME WizardInv, NEW t \in Tab, Busy(t), Now(t).op \in Ops, Now(t).op # "need",
         ToChecks(t), box \subseteq box', done' = done
  PROVE  RequestInv'
<1> DEFINE r == [req[t] EXCEPT !.pc = Checks(req[t].page)]
<1>1. req[t] \in Request
  BY DEF WizardInv, RequestInv
<1>2. Checks(req[t].page) \in Nat
  BY Places DEF Checks
<1>3. /\ r \in Request /\ r.page = req[t].page
      /\ r.pc = Checks(req[t].page) /\ r.pw = req[t].pw
  BY <1>1, <1>2 DEF Request
<1>4. req' = [req EXCEPT ![t] = r]
  BY DEF ToChecks, Go
<1> HIDE DEF r
<1>5. SentIn(r, box, done)
  BY <1>3, WorkGoesToChecks
<1>6. SentIn(r, box', done')
  BY <1>5 DEF SentIn
<1>7. QED
  BY <1>3, <1>4, <1>6, RequestMoves DEF WizardInv

LEMMA AnswerKeeps ==
  ASSUME RequestInv, NEW t \in Tab, Answer(t), box \subseteq box', done \subseteq done'
  PROVE  RequestInv'
BY NoRequestIsOne, RequestMoves DEF Answer

\* Nothing but requests moves.
LEMMA BoxStays ==
  ASSUME BoxInv, UNCHANGED <<disk, ctr>>, cut' \subseteq Pages \cup {"secrets.env"}
  PROVE  BoxInv'
BY DEF BoxInv, disk, Holds

LEMMA RequestsStay ==
  ASSUME RequestInv, UNCHANGED req, box \subseteq box', done \subseteq done'
  PROVE  RequestInv'
BY DEF RequestInv, Sent, Busy

\* A step of the lockdown that is no question is past the first one.
LEMMA NoQuestion ==
  ASSUME WizardInv, NEW t \in Tab, Busy(t), Now(t).op # "need"
  PROVE  req[t].page = "ssh_lockdown" /\ req[t].pc = 1 => "ssh" \in done
BY LockdownNeeds

-----------------------------------------------------------------------------
(* The invariant.                                                          *)

\* The page a tab is offered has no marker.
LEMMA ResumeIsAPage ==
  ASSUME done \subseteq Pages, done # Pages
  PROVE  Resume \in Pages /\ Resume \notin done
<1> DEFINE S == {i \in 1..Len(STEPS) : STEPS[i] \notin done}
<1>1. S # {}
  BY DEF Pages
<1>2. S \subseteq Nat
  BY DEF STEPS
<1>3. PICK n \in S : \A m \in S : n <= m
  <2>1. PICK n \in S : \A m \in S : <<m, n>> \notin OpToRel(<, Nat)
    BY <1>1, <1>2, NatLessThanWellFounded, WFMin
  <2>2. ASSUME NEW m \in S PROVE n <= m
    <3>1. m \in Nat /\ n \in Nat
      BY <1>2
    <3>2. ~(m < n)
      BY <2>1, <3>1 DEF OpToRel
    <3>3. QED
      BY <3>1, <3>2
  <2>3. QED
    BY <2>2
<1>4. n \in 1..Len(STEPS) /\ STEPS[n] \notin done /\ \A j \in 1..(n - 1) : STEPS[j] \in done
  <2>1. ASSUME NEW j \in 1..(n - 1) PROVE STEPS[j] \in done
    <3>1. n \in 1..Len(STEPS) /\ Len(STEPS) = 20
      BY DEF STEPS
    <3>2. j \in 1..Len(STEPS) /\ ~(n <= j)
      BY <3>1
    <3>3. QED
      BY <1>3, <3>2
  <2>2. QED
    BY <2>1
<1>5. \E i \in 1..Len(STEPS) : STEPS[i] \notin done /\ \A j \in 1..(i - 1) : STEPS[j] \in done
  BY <1>4
<1>6. QED
  BY <1>5 DEF Resume, Pages

LEMMA InitInv == ASSUME Init PROVE WizardInv
<1>1. "none" \notin Password /\ Ambient \subseteq Facts
  BY WizardAssumption DEF Facts
<1>2. box \subseteq Ambient /\ "password_login_off" \notin Ambient
  BY DEF Init, Ambient
<1>3. BoxInv
  <2>1. env \in Secrets
    BY GrafanaIsSaved DEF Init, Secrets
  <2>2. accepts \in [Daemon -> Password \cup {"none", "default"}]
    BY DEF Init
  <2>3. ctr \in [Service -> [state : {"none", "starting", "ready", "restarting"}, said : BOOLEAN]]
    BY DEF Init, NoContainer
  <2>4. QED
    BY <1>1, <1>2, <2>1, <2>2, <2>3 DEF Init, BoxInv
<1>4. RequestInv
  BY NoRequestIsOne DEF Init, RequestInv, Busy
<1>5. QED
  BY <1>3, <1>4 DEF WizardInv

LEMMA Forms ==
  ASSUME NEW p
  PROVE  /\ p \in Daemon => Form(p) = Password /\ p # "ssh_lockdown"
         /\ p = "ssh_lockdown" => Form(p) = {"none", "keep"}
         /\ p \notin Daemon /\ p # "ssh_lockdown" => Form(p) = {"none"}
<1>1. "ssh_lockdown" \notin Daemon
  BY DEF Daemon, UrlOf
<1>2. ASSUME p \in Daemon PROVE Form(p) = Password
  BY <1>1, <1>2 DEF Form
<1>3. ASSUME p = "ssh_lockdown" PROVE Form(p) = {"none", "keep"}
  BY <1>1, <1>3, Zenon DEF Form
<1>4. ASSUME p \notin Daemon, p # "ssh_lockdown" PROVE Form(p) = {"none"}
  BY <1>4 DEF Form
<1>5. QED
  BY <1>1, <1>2, <1>3, <1>4

\* Whatever is sent, in its turn or out of it, is a page that is not done.
LEMMA BeginsAPage ==
  ASSUME WizardInv, NEW t \in Tab, Begin(t)
  PROVE  \E p \in Pages \ done :
           /\ \E pw \in Form(p), cert \in IF p = "https" THEN issued ELSE {"none"} :
                req' = [req EXCEPT ![t] = [NoRequest EXCEPT !.page = p, !.pw = pw, !.cert = cert]]
           /\ cut' = IF Sharing(t, p) THEN cut \cup {p} ELSE cut
<1>1. PICK p \in {Resume} \cup ({"ssh_lockdown"} \ done) :
        /\ \E pw \in Form(p), cert \in IF p = "https" THEN issued ELSE {"none"} :
             req' = [req EXCEPT ![t] = [NoRequest EXCEPT !.page = p, !.pw = pw, !.cert = cert]]
        /\ cut' = IF Sharing(t, p) THEN cut \cup {p} ELSE cut
  BY DEF Begin
<1>2. Resume \in Pages \ done
  BY ResumeIsAPage DEF Begin, WizardInv, BoxInv
<1>3. "ssh_lockdown" \in Pages
  <2>1. 20 \in 1..Len(STEPS) /\ STEPS[20] = "ssh_lockdown"
    BY DEF STEPS
  <2>2. QED
    BY <2>1 DEF Pages
<1>4. p \in Pages \ done
  BY <1>2, <1>3
<1>5. QED
  BY <1>1, <1>4

LEMMA BeginKeeps == ASSUME WizardInv, NEW t \in Tab, Begin(t) PROVE WizardInv'
<1>0. PICK p \in Pages \ done :
        /\ \E pw \in Form(p), cert \in IF p = "https" THEN issued ELSE {"none"} :
             req' = [req EXCEPT ![t] = [NoRequest EXCEPT !.page = p, !.pw = pw, !.cert = cert]]
        /\ cut' = IF Sharing(t, p) THEN cut \cup {p} ELSE cut
  BY BeginsAPage
<1>1. PICK pw \in Form(p), cert \in IF p = "https" THEN issued ELSE {"none"} :
        req' = [req EXCEPT ![t] = [NoRequest EXCEPT !.page = p, !.pw = pw, !.cert = cert]]
  BY <1>0
<1>2. p \in Pages /\ UNCHANGED <<disk, ctr>> /\ cut' \subseteq cut \cup {p}
  BY <1>0 DEF Begin
<1> DEFINE r == [NoRequest EXCEPT !.page = p, !.pw = pw, !.cert = cert]
<1>3. /\ p \in Daemon => pw \in Password
      /\ p # "ssh_lockdown" => pw # "keep"
      /\ pw \in Password \cup {"none", "keep"}
  <2>1. "keep" \notin Password
    BY WizardAssumption
  <2>2. QED
    BY <1>1, <2>1, Forms
<1>4. cert \in Key \cup {"none"}
  BY DEF WizardInv, BoxInv
<1>5. r \in Request /\ r.page = p /\ r.pc = 1 /\ r.pw = pw
  BY <1>2, <1>3, <1>4, NoRequestIsOne DEF NoRequest, Request
<1>6. SentIn(r, box', done')
  <2> DEFINE n == Len(Script[p])
  <2>1. n \in Nat /\ n >= 2
    BY <1>2, ScriptsAreWork DEF WorkThenVerified
  <2> HIDE DEF r, n
  <2>2. 1 \in 1..n /\ 1 # n
    BY <2>1
  <2>3. QED
    BY <1>3, <1>5, <2>2 DEF SentIn, n
<1>7. box' = box /\ done' = done
  BY <1>2 DEF disk
<1> HIDE DEF r
<1>8. RequestInv'
  BY <1>1, <1>5, <1>6, <1>7, RequestMoves DEF WizardInv, r
<1>9. BoxInv'
  BY <1>2, BoxStays DEF WizardInv, BoxInv
<1>10. QED
  BY <1>8, <1>9 DEF WizardInv

\* A step of work that changes no file and answers, goes on, or goes to the
\* checks.
LEMMA WorkKeeps ==
  ASSUME WizardInv, NEW t \in Tab, Busy(t), Now(t).op \in Ops, Now(t).op # "need",
         Proceed(t) \/ ToChecks(t), box \subseteq box', done' = done
  PROVE  RequestInv'
<1>1. req[t].page = "ssh_lockdown" /\ req[t].pc = 1 => "ssh" \in done
  BY NoQuestion
<1>2. CASE Proceed(t)
  BY <1>1, <1>2, ProceedKeeps
<1>3. CASE ToChecks(t)
  BY <1>3, ToChecksKeeps
<1>4. QED
  BY <1>2, <1>3

LEMMA NeedKeeps == ASSUME WizardInv, NEW t \in Tab, Need(t) PROVE WizardInv'
<1>1. Busy(t) /\ Now(t).op = "need" /\ Now(t).op \in Ops
  BY DEF Need, At, Ops
<1>2. UNCHANGED <<done, box>> /\ UNCHANGED <<disk, ctr>> /\ UNCHANGED cut
  BY DEF Need, disk
<1>3. BoxInv'
  BY <1>2, BoxStays DEF WizardInv, BoxInv
<1>4. ASSUME req[t].page = "ssh_lockdown", req[t].pc = 1 PROVE "ssh" \in done
  <2>1. Now(t).arg = "ssh_page_done"
    BY <1>4, LockdownAsks DEF Now, Do
  <2>2. "ssh_page_done" \notin box
    BY MarkersAreNoFacts DEF WizardInv, BoxInv
  <2>3. QED
    BY <2>1, <2>2 DEF Need, Met
<1>5. RequestInv'
  BY <1>1, <1>2, <1>4, ProceedKeeps DEF Need
<1>6. QED
  BY <1>3, <1>5 DEF WizardInv

LEMMA RefuseKeeps == ASSUME WizardInv, NEW t \in Tab, Refuse(t) PROVE WizardInv'
<1>1. UNCHANGED <<done, box>> /\ UNCHANGED <<disk, ctr>> /\ UNCHANGED cut
  BY DEF Refuse, disk
<1>2. BoxInv'
  BY <1>1, BoxStays DEF WizardInv, BoxInv
<1>3. RequestInv'
  BY <1>1, AnswerKeeps DEF Refuse, WizardInv
<1>4. QED
  BY <1>2, <1>3 DEF WizardInv

LEMMA GateKeeps == ASSUME WizardInv, NEW t \in Tab, Gate(t) PROVE WizardInv'
<1>1. Busy(t) /\ Now(t).op # "need" /\ Now(t).op \in Ops
  BY DEF Gate, At, Ops
<1>2. UNCHANGED <<done, box>> /\ UNCHANGED <<disk, ctr>> /\ UNCHANGED cut
  BY DEF Gate, disk
<1>3. BoxInv'
  BY <1>2, BoxStays DEF WizardInv, BoxInv
<1>4. RequestInv'
  BY <1>1, <1>2, WorkKeeps DEF Gate
<1>5. QED
  BY <1>3, <1>4 DEF WizardInv

LEMMA EffectKeeps == ASSUME WizardInv, NEW t \in Tab, Effect(t) PROVE WizardInv'
<1>1. /\ Busy(t) /\ Now(t).op \in {"write", "run"}
      /\ Now(t).op # "need" /\ Now(t).op \in Ops
  BY DEF Effect, At, Ops
<1>2. box' = box \cup {Now(t).arg} /\ done' = done
  BY DEF Effect, Bring
<1>3. Now(t).arg \in Facts
  BY <1>1, EffectsAreFacts
<1>4. Now(t).arg = "password_login_off" => "ssh" \in done
  <2>1. ASSUME Now(t).arg = "password_login_off" PROVE req[t].page = "ssh_lockdown"
    <3>1. WorkStep(req[t].page, Now(t).op, Now(t).arg)
      <4>1. Now(t).op # "mark" /\ Now(t).op # "check"
        BY <1>1
      <4>2. req[t].pc <= Len(Script[req[t].page]) - 2
        <5> DEFINE n == Len(Script[req[t].page])
                   pc == req[t].pc
        <5>1. n \in Nat /\ pc \in 1..n /\ pc # n /\ pc # n - 1
          BY <1>1, <4>1, Where
        <5> HIDE DEF n, pc
        <5>2. pc <= n - 2
          BY <5>1
        <5>3. QED
          BY <5>2 DEF n, pc
      <4>3. QED
        BY <1>1, <4>2, Where
    <3>2. QED
      BY <1>1, <2>1, <3>1 DEF WorkStep
  <2>2. QED
    BY <1>1, <2>1, LockdownNeeds
<1>5. BoxInv'
  <2>1. box' \subseteq Facts /\ ("password_login_off" \in box' => "ssh" \in done)
    BY <1>2, <1>3, <1>4 DEF WizardInv, BoxInv
  <2>2. UNCHANGED <<done, skipped, env, accepts, ctr, pending, issued, cut>>
    BY DEF Effect
  <2>3. QED
    BY <1>2, <2>1, <2>2 DEF WizardInv, BoxInv
<1>6. RequestInv'
  BY <1>1, <1>2, WorkKeeps DEF Effect
<1>7. QED
  BY <1>5, <1>6 DEF WizardInv

LEMMA CommandFailsKeeps == ASSUME WizardInv, NEW t \in Tab, CommandFails(t) PROVE WizardInv'
<1>1. Busy(t) /\ Now(t).op # "need" /\ Now(t).op \in Ops
  BY DEF CommandFails, At, Ops
<1>2. UNCHANGED <<done, box>> /\ UNCHANGED <<disk, ctr>> /\ UNCHANGED cut
  BY DEF CommandFails, disk
<1>3. BoxInv'
  BY <1>2, BoxStays DEF WizardInv, BoxInv
<1>4. RequestInv'
  BY <1>1, <1>2, WorkKeeps DEF CommandFails
<1>5. QED
  BY <1>3, <1>4 DEF WizardInv

\* A password or a value that is typed is one.
LEMMA StepIsWork ==
  ASSUME WizardInv, NEW t \in Tab, Busy(t), Now(t).op \in Ops
  PROVE  WorkStep(req[t].page, Now(t).op, Now(t).arg)
<1> DEFINE n == Len(Script[req[t].page])
           pc == req[t].pc
<1>1. "check" \notin Ops /\ "mark" \notin Ops
  BY DEF Ops
<1>2. n \in Nat /\ pc \in 1..n /\ pc # n /\ pc # n - 1
  BY <1>1, Where
<1> HIDE DEF n, pc
<1>3. pc <= n - 2
  BY <1>2
<1>4. QED
  BY <1>3, Where DEF n, pc

LEMMA SetPasswordKeeps == ASSUME WizardInv, NEW t \in Tab, SetPassword(t) PROVE WizardInv'
<1>1. Busy(t) /\ Now(t).op = "password" /\ Now(t).op # "need" /\ Now(t).op \in Ops
  BY DEF SetPassword, At, Ops
<1>2. req[t].pw \in Password
  <2>1. req[t].page \in Daemon
    BY <1>1, StepIsWork DEF WorkStep
  <2>2. QED
    BY <1>1, <2>1 DEF WizardInv, RequestInv, Sent
<1>3. BoxInv'
  <2>1. accepts' \in [Daemon -> Password \cup {"none", "default"}]
    BY <1>2 DEF SetPassword, WizardInv, BoxInv
  <2>2. UNCHANGED <<done, skipped, env, box, ctr, pending, issued, cut>>
    BY DEF SetPassword
  <2>3. QED
    BY <2>1, <2>2 DEF WizardInv, BoxInv
<1>4. RequestInv'
  <2>1. Proceed(t) /\ UNCHANGED <<box, done>>
    BY DEF SetPassword
  <2>2. QED
    BY <1>1, <2>1, WorkKeeps
<1>5. QED
  BY <1>3, <1>4 DEF WizardInv

LEMMA Neo4jPasswordKeeps == ASSUME WizardInv, NEW t \in Tab, Neo4jPassword(t) PROVE WizardInv'
<1>1. Busy(t) /\ Now(t).op = "password" /\ Now(t).op # "need" /\ Now(t).op \in Ops
  BY DEF Neo4jPassword, At, Ops
<1>2. req[t].pw \in Password
  <2>1. req[t].page \in Daemon
    BY <1>1, StepIsWork DEF WorkStep
  <2>2. QED
    BY <1>1, <2>1 DEF WizardInv, RequestInv, Sent
<1>3. BoxInv'
  <2>1. accepts' = [accepts EXCEPT !["neo4j"] = req[t].pw] \/ accepts' = accepts
    BY DEF Neo4jPassword
  <2>2. accepts' \in [Daemon -> Password \cup {"none", "default"}]
    BY <1>2, <2>1 DEF WizardInv, BoxInv
  <2>3. UNCHANGED <<done, skipped, env, box, ctr, pending, issued, cut>>
    BY DEF Neo4jPassword
  <2>4. QED
    BY <2>2, <2>3 DEF WizardInv, BoxInv
<1>4. RequestInv'
  <2>1. (Proceed(t) \/ ToChecks(t)) /\ UNCHANGED <<box, done>>
    BY DEF Neo4jPassword
  <2>2. QED
    BY <1>1, <2>1, WorkKeeps
<1>5. QED
  BY <1>3, <1>4 DEF WizardInv

LEMMA GrafanaPasswordKeeps == ASSUME WizardInv, NEW t \in Tab, GrafanaPassword(t) PROVE WizardInv'
<1>1. Busy(t) /\ Now(t).op = "password" /\ Now(t).op # "need" /\ Now(t).op \in Ops
  BY DEF GrafanaPassword, At, Ops
<1>2. env["grafana_password"] \in Password \cup {"none", "default"}
  BY GrafanaIsSaved DEF WizardInv, BoxInv, Secrets
<1>3. BoxInv'
  <2>1. \E x \in Password \cup {"none", "default"} : accepts' = [accepts EXCEPT !["grafana"] = x]
    <3>1. "grafana" \in Daemon
      BY InDaemon
    <3>2. accepts["grafana"] \in Password \cup {"none", "default"}
      BY <3>1 DEF WizardInv, BoxInv
    <3>3. \/ accepts' = [accepts EXCEPT !["grafana"] = env["grafana_password"]]
          \/ accepts' = [accepts EXCEPT !["grafana"] = accepts["grafana"]]
      BY DEF GrafanaPassword
    <3>4. QED
      BY <1>2, <3>2, <3>3
  <2>2. accepts' \in [Daemon -> Password \cup {"none", "default"}]
    BY <2>1 DEF WizardInv, BoxInv
  <2>3. UNCHANGED <<done, skipped, env, box, ctr, pending, issued, cut>>
    BY DEF GrafanaPassword
  <2>4. QED
    BY <2>2, <2>3 DEF WizardInv, BoxInv
<1>4. RequestInv'
  <2>1. Proceed(t) /\ UNCHANGED <<box, done>>
    BY DEF GrafanaPassword
  <2>2. QED
    BY <1>1, <2>1, WorkKeeps
<1>5. QED
  BY <1>3, <1>4 DEF WizardInv

\* Requests that go on, and take something along, are requests.
LEMMA RequestGoesOn ==
  ASSUME NEW q \in Request, NEW s \in Secrets, NEW k \in Key \cup {"none"}
  PROVE  /\ q.pc \in Nat
         /\ LET r == [q EXCEPT !.pc = q.pc + 1] IN
              r \in Request /\ r.page = q.page /\ r.pc = q.pc + 1 /\ r.pw = q.pw
         /\ LET r == [q EXCEPT !.snap = s, !.pc = q.pc + 1] IN
              r \in Request /\ r.page = q.page /\ r.pc = q.pc + 1 /\ r.pw = q.pw
         /\ LET r == [q EXCEPT !.key = k, !.pc = q.pc + 1] IN
              r \in Request /\ r.page = q.page /\ r.pc = q.pc + 1 /\ r.pw = q.pw
<1> DEFINE n == q.pc + 1
<1>1. q.pc \in Nat
  BY DEF Request
<1>2. n \in Nat
  BY <1>1
<1> HIDE DEF n
<1>3. LET r == [q EXCEPT !.pc = n] IN
        r \in Request /\ r.page = q.page /\ r.pc = n /\ r.pw = q.pw
  BY <1>2 DEF Request
<1>4. LET r == [q EXCEPT !.snap = s, !.pc = n] IN
        r \in Request /\ r.page = q.page /\ r.pc = n /\ r.pw = q.pw
  BY <1>2 DEF Request
<1>5. LET r == [q EXCEPT !.key = k, !.pc = n] IN
        r \in Request /\ r.page = q.page /\ r.pc = n /\ r.pw = q.pw
  BY <1>2 DEF Request
<1>6. QED
  BY <1>1, <1>3, <1>4, <1>5 DEF n

LEMMA ReadKeeps == ASSUME WizardInv, NEW t \in Tab, ReadSecrets(t) PROVE WizardInv'
<1> DEFINE r == [req[t] EXCEPT !.snap = env, !.pc = req[t].pc + 1]
<1>1. Busy(t) /\ Now(t).op # "need" /\ Now(t).op \in Ops
  BY DEF ReadSecrets, At, Ops
<1>2. UNCHANGED <<done, box>> /\ UNCHANGED <<disk, ctr>> /\ cut' \subseteq cut \cup {"secrets.env"}
  BY DEF ReadSecrets, disk
<1>3. BoxInv'
  BY <1>2, BoxStays DEF WizardInv, BoxInv
<1>4. req[t] \in Request /\ env \in Secrets
  BY DEF WizardInv, RequestInv, BoxInv
<1>5. /\ r \in Request /\ r.page = req[t].page
      /\ r.pc = req[t].pc + 1 /\ r.pw = req[t].pw
  BY <1>4, RequestGoesOn
<1>6. req' = [req EXCEPT ![t] = r]
  BY DEF ReadSecrets
<1> HIDE DEF r
<1>7. SentIn(r, box', done')
  BY <1>1, <1>2, <1>5, NoQuestion, WorkGoesOn
<1>8. RequestInv'
  BY <1>2, <1>5, <1>6, <1>7, RequestMoves DEF WizardInv
<1>9. QED
  BY <1>3, <1>8 DEF WizardInv

LEMMA TruncateKeeps == ASSUME WizardInv, NEW t \in Tab, TruncateSecrets(t) PROVE WizardInv'
<1>1. Busy(t) /\ Now(t).op # "need" /\ Now(t).op \in Ops
  BY DEF TruncateSecrets, At, Ops
<1>2. env' \in Secrets
  BY GrafanaIsSaved DEF TruncateSecrets, Secrets
<1>3. UNCHANGED <<done, skipped, accepts, box, ctr, pending, issued, cut>>
  BY DEF TruncateSecrets
<1>4. BoxInv'
  BY <1>2, <1>3 DEF WizardInv, BoxInv
<1>5. RequestInv'
  BY <1>1, <1>3, WorkKeeps DEF TruncateSecrets
<1>6. QED
  BY <1>4, <1>5 DEF WizardInv

LEMMA WriteKeeps == ASSUME WizardInv, NEW t \in Tab, WriteSecrets(t) PROVE WizardInv'
<1> DEFINE r == [req[t] EXCEPT !.snap = NoRequest.snap, !.pc = req[t].pc + 1]
           v == IF req[t].pw = "none" THEN "set" ELSE req[t].pw
<1>1. Busy(t) /\ Now(t).op = "save" /\ Now(t).op # "need" /\ Now(t).op \in Ops
  BY DEF WriteSecrets, At, Ops
<1>2. req[t] \in Request /\ Sent(req[t])
  BY <1>1 DEF WizardInv, RequestInv
<1>3. req[t].page # "ssh_lockdown" /\ (Now(t).arg = "grafana_password" => req[t].page \in Daemon)
  BY <1>1, StepIsWork DEF WorkStep
<1>4. v \in Password \cup {"set"} /\ (Now(t).arg = "grafana_password" => v # "set")
  <2>1. req[t].pw \in Password \cup {"none"}
    BY <1>2, <1>3 DEF Request, Sent
  <2>2. "none" \notin Password /\ "set" \notin Password
    BY WizardAssumption
  <2>3. Now(t).arg = "grafana_password" => req[t].pw \in Password
    BY <1>2, <1>3 DEF Sent
  <2>4. QED
    BY <2>1, <2>2, <2>3
<1> HIDE DEF v
<1>5. env' \in Secrets
  <2>1. env' = [req[t].snap EXCEPT ![Now(t).arg] = v]
    BY DEF WriteSecrets, v
  <2>2. req[t].snap \in Secrets
    BY <1>2 DEF Request
  <2>3. env' \in [Names -> Password \cup {"none", "set"}]
    BY <1>4, <2>1, <2>2 DEF Secrets
  <2>4. env'["grafana_password"] # "set"
    BY <1>4, <2>1, <2>2, GrafanaIsSaved DEF Secrets
  <2>5. QED
    BY <2>3, <2>4 DEF Secrets
<1>6. UNCHANGED <<done, skipped, accepts, box, ctr, pending, issued, cut>>
  BY DEF WriteSecrets
<1>7. BoxInv'
  BY <1>5, <1>6 DEF WizardInv, BoxInv
<1>8. NoRequest.snap \in Secrets
  BY GrafanaIsSaved DEF NoRequest, Secrets
<1>9. /\ r \in Request /\ r.page = req[t].page
      /\ r.pc = req[t].pc + 1 /\ r.pw = req[t].pw
  BY <1>2, <1>8, RequestGoesOn
<1>10. req' = [req EXCEPT ![t] = r]
  BY DEF WriteSecrets
<1> HIDE DEF r
<1>11. SentIn(r, box', done')
  BY <1>1, <1>6, <1>9, NoQuestion, WorkGoesOn
<1>12. RequestInv'
  BY <1>6, <1>9, <1>10, <1>11, RequestMoves DEF WizardInv
<1>13. QED
  BY <1>7, <1>12 DEF WizardInv

\* Containers come and go; nothing else does.
LEMMA ContainerKeeps ==
  ASSUME WizardInv, NEW c, NEW state \in {"none", "starting", "ready", "restarting"},
         NEW said \in BOOLEAN, SetContainer(c, state, said), UNCHANGED <<disk, cut>>
  PROVE  BoxInv'
<1>1. ctr' \in [Service -> [state : {"none", "starting", "ready", "restarting"}, said : BOOLEAN]]
  BY DEF SetContainer, WizardInv, BoxInv
<1>2. QED
  BY <1>1 DEF WizardInv, BoxInv, disk

LEMMA ComposeKeeps == ASSUME WizardInv, NEW t \in Tab, Compose(t) PROVE WizardInv'
<1>1. Busy(t) /\ Now(t).op # "need" /\ Now(t).op \in Ops
  BY DEF Compose, At, Ops
<1>2. UNCHANGED <<disk, cut>> /\ UNCHANGED <<done, box>>
  BY DEF Compose, disk
<1>3. CASE SetContainer(Now(t).arg, "starting", FALSE)
  <2>1. BoxInv'
    BY <1>2, <1>3, ContainerKeeps
  <2>2. RequestInv'
    BY <1>1, <1>2, WorkKeeps DEF Compose
  <2>3. QED
    BY <2>1, <2>2 DEF WizardInv
<1>4. CASE UNCHANGED ctr
  <2>1. BoxInv'
    BY <1>2, <1>4, BoxStays DEF WizardInv, BoxInv
  <2>2. RequestInv'
    BY <1>1, <1>2, WorkKeeps DEF Compose
  <2>3. QED
    BY <2>1, <2>2 DEF WizardInv
<1>5. QED
  BY <1>3, <1>4 DEF Compose

LEMMA WaitKeeps == ASSUME WizardInv, NEW t \in Tab, WaitForLog(t) PROVE WizardInv'
<1>1. Busy(t) /\ Now(t).op # "need" /\ Now(t).op \in Ops
  BY DEF WaitForLog, At, Ops
<1>2. UNCHANGED <<done, box>> /\ UNCHANGED <<disk, ctr>> /\ UNCHANGED cut
  BY DEF WaitForLog, disk
<1>3. BoxInv'
  BY <1>2, BoxStays DEF WizardInv, BoxInv
<1>4. RequestInv'
  BY <1>1, <1>2, WorkKeeps DEF WaitForLog
<1>5. QED
  BY <1>3, <1>4 DEF WizardInv

\* What containers do by themselves.
LEMMA ContainersKeep ==
  ASSUME WizardInv, NEW c \in Service,
         ContainerReady(c) \/ ContainerDies(c) \/ ContainerRestarts(c)
  PROVE  WizardInv'
<1>1. ctr[c].said \in BOOLEAN
  BY DEF WizardInv, BoxInv
<1>2. UNCHANGED <<disk, req, cut>>
  BY DEF ContainerReady, ContainerDies, ContainerRestarts
<1>3. \E s \in {"starting", "ready", "restarting"}, d \in BOOLEAN : SetContainer(c, s, d)
  BY <1>1 DEF ContainerReady, ContainerDies, ContainerRestarts
<1>4. BoxInv'
  BY <1>2, <1>3, ContainerKeeps
<1>5. RequestInv'
  BY <1>2, RequestsStay DEF WizardInv, disk
<1>6. QED
  BY <1>4, <1>5 DEF WizardInv

LEMMA RequestSigningKeeps == ASSUME WizardInv, NEW t \in Tab, RequestSigning(t) PROVE WizardInv'
<1>1. PICK k \in Key \ issued : pending' = k /\ issued' = issued \cup {k}
  BY DEF RequestSigning
<1>2. UNCHANGED <<done, skipped, env, accepts, box, ctr, req>>
  BY DEF RequestSigning
<1>3. cut' \subseteq Pages \cup {"secrets.env"}
  <2>1. "https" \in Pages
    BY DEF Pages, STEPS
  <2>2. QED
    BY <2>1 DEF RequestSigning, WizardInv, BoxInv
<1>4. BoxInv'
  BY <1>1, <1>2, <1>3 DEF WizardInv, BoxInv
<1>5. RequestInv'
  BY <1>2, RequestsStay DEF WizardInv
<1>6. QED
  BY <1>4, <1>5 DEF WizardInv

LEMMA MatchKeeps == ASSUME WizardInv, NEW t \in Tab, MatchKey(t) PROVE WizardInv'
<1>1. Busy(t) /\ Now(t).op # "need" /\ Now(t).op \in Ops
  BY DEF MatchKey, At, Ops
<1>2. UNCHANGED <<done, box>> /\ UNCHANGED <<disk, ctr>> /\ UNCHANGED cut
  BY DEF MatchKey, disk
<1>3. BoxInv'
  BY <1>2, BoxStays DEF WizardInv, BoxInv
<1>4. RequestInv'
  BY <1>1, <1>2, WorkKeeps, AnswerKeeps DEF MatchKey, WizardInv
<1>5. QED
  BY <1>3, <1>4 DEF WizardInv

LEMMA TakeKeeps == ASSUME WizardInv, NEW t \in Tab, TakeKey(t) PROVE WizardInv'
<1> DEFINE r == [req[t] EXCEPT !.key = pending, !.pc = req[t].pc + 1]
<1>1. Busy(t) /\ Now(t).op # "need" /\ Now(t).op \in Ops
  BY DEF TakeKey, At, Ops
<1>2. UNCHANGED <<done, box>> /\ UNCHANGED <<disk, ctr>> /\ UNCHANGED cut
  BY DEF TakeKey, disk
<1>3. BoxInv'
  BY <1>2, BoxStays DEF WizardInv, BoxInv
<1>4. CASE pending # "none"
  <2>1. req[t] \in Request /\ pending \in Key \cup {"none"} /\ env \in Secrets
    BY DEF WizardInv, RequestInv, BoxInv
  <2>2. /\ r \in Request /\ r.page = req[t].page
        /\ r.pc = req[t].pc + 1 /\ r.pw = req[t].pw
    BY <2>1, RequestGoesOn
  <2>3. req' = [req EXCEPT ![t] = r]
    BY <1>4 DEF TakeKey
  <2> HIDE DEF r
  <2>4. SentIn(r, box', done')
    BY <1>1, <1>2, <2>2, NoQuestion, WorkGoesOn
  <2>5. QED
    BY <1>2, <1>3, <2>2, <2>3, <2>4, RequestMoves DEF WizardInv
<1>5. CASE pending = "none"
  BY <1>2, <1>3, <1>5, AnswerKeeps DEF TakeKey, WizardInv
<1>6. QED
  BY <1>4, <1>5

LEMMA InstallKeeps == ASSUME WizardInv, NEW t \in Tab, InstallPair(t) \/ SelfSign(t) PROVE WizardInv'
<1>1. Busy(t) /\ Now(t).op # "need" /\ Now(t).op \in Ops
  BY DEF InstallPair, SelfSign, At, Ops
<1>2. UNCHANGED <<done, skipped, env, accepts, box, ctr, pending, issued, cut>>
  BY DEF InstallPair, SelfSign
<1>3. BoxInv'
  BY <1>2 DEF WizardInv, BoxInv
<1>4. RequestInv'
  BY <1>1, <1>2, WorkKeeps DEF InstallPair, SelfSign
<1>5. QED
  BY <1>3, <1>4 DEF WizardInv

LEMMA DropKeeps == ASSUME WizardInv, NEW t \in Tab, DropKey(t) PROVE WizardInv'
<1>1. Busy(t) /\ Now(t).op # "need" /\ Now(t).op \in Ops
  BY DEF DropKey, At, Ops
<1>2. UNCHANGED <<done, skipped, env, accepts, box, ctr, issued, cut>> /\ pending' = "none"
  BY DEF DropKey
<1>3. BoxInv'
  BY <1>2 DEF WizardInv, BoxInv
<1>4. RequestInv'
  BY <1>1, <1>2, WorkKeeps, AnswerKeeps DEF DropKey, WizardInv
<1>5. QED
  BY <1>3, <1>4 DEF WizardInv

\* The ssh page reaches its mark with its key installed.
LEMMA CheckKeeps == ASSUME WizardInv, NEW t \in Tab, Check(t) PROVE WizardInv'
<1> DEFINE r == [req[t] EXCEPT !.pc = req[t].pc + 1]
           n == Len(Script[req[t].page])
<1>1. Busy(t) /\ Now(t).op = "check"
  BY DEF Check, At
<1>2. UNCHANGED <<done, box>> /\ UNCHANGED <<disk, ctr>> /\ UNCHANGED cut
  BY DEF Check, disk
<1>3. BoxInv'
  BY <1>2, BoxStays DEF WizardInv, BoxInv
<1>4. CASE Verified(req[t])
  <2>1. req[t] \in Request /\ Sent(req[t])
    BY <1>1 DEF WizardInv, RequestInv
  <2>2. /\ r \in Request /\ r.page = req[t].page
        /\ r.pc = req[t].pc + 1 /\ r.pw = req[t].pw
    <3>1. env \in Secrets
      BY DEF WizardInv, BoxInv
    <3>2. QED
      BY <2>1, <3>1, RequestGoesOn
  <2>3. req' = [req EXCEPT ![t] = r]
    BY <1>4 DEF Check, Proceed, Go
  <2>4. req[t].page = "ssh" => "key_installed" \in box
    <3>1. ASSUME req[t].page = "ssh" PROVE Verified(req[t]) = SshRows
      BY <3>1 DEF Verified
    <3>2. QED
      BY <1>4, <3>1 DEF SshRows, Holds
  <2>5. req[t].page = "ssh_lockdown" => "ssh" \in done
    BY <1>1, LockdownNeeds
  <2>6. r.pc \in 1..n
    <3>1. n \in Nat /\ n - 1 \in 1..n /\ req[t].pc = n - 1
      BY <1>1, Places
    <3> HIDE DEF n, r
    <3>2. r.pc = n
      BY <2>2, <3>1
    <3>3. n \in 1..n
      BY <3>1
    <3>4. QED
      BY <3>2, <3>3
  <2> HIDE DEF r
  <2>7. SentIn(r, box', done')
    BY <1>2, <2>1, <2>2, <2>4, <2>5, <2>6 DEF Sent, SentIn
  <2>8. QED
    BY <1>2, <1>3, <2>2, <2>3, <2>7, RequestMoves DEF WizardInv
<1>5. CASE ~Verified(req[t])
  BY <1>2, <1>3, <1>5, AnswerKeeps DEF Check, WizardInv
<1>6. QED
  BY <1>4, <1>5

LEMMA ProbeFailsKeeps == ASSUME WizardInv, NEW t \in Tab, ProbeFails(t) PROVE WizardInv'
<1>1. UNCHANGED <<done, box>> /\ UNCHANGED <<disk, ctr>> /\ UNCHANGED cut
  BY DEF ProbeFails, disk
<1>2. BoxInv'
  BY <1>1, BoxStays DEF WizardInv, BoxInv
<1>3. RequestInv'
  BY <1>1, AnswerKeeps DEF ProbeFails, WizardInv
<1>4. QED
  BY <1>2, <1>3 DEF WizardInv

LEMMA MarkKeeps == ASSUME WizardInv, NEW t \in Tab, Mark(t) PROVE WizardInv'
<1>1. Busy(t) /\ Now(t).op = "mark"
  BY DEF Mark, At
<1>2. req[t].page \in Pages /\ req[t].pc = Len(Script[req[t].page]) /\ Sent(req[t])
  BY <1>1, Places, Where DEF WizardInv, RequestInv
<1>3. req[t].page = "ssh" => "key_installed" \in box
  BY <1>2 DEF Sent
<1>4. /\ done' = done \cup {req[t].page} /\ skipped' = skipped \ {req[t].page}
      /\ UNCHANGED <<env, accepts, box, ctr, pending, issued, cut>>
  BY DEF Mark
<1>5. BoxInv'
  BY <1>2, <1>3, <1>4 DEF WizardInv, BoxInv
<1>6. RequestInv'
  BY <1>4, AnswerKeeps DEF Mark, WizardInv
<1>7. QED
  BY <1>5, <1>6 DEF WizardInv

LEMMA SkipKeeps == ASSUME WizardInv, NEW t \in Tab, Skip(t) PROVE WizardInv'
<1>1. /\ Resume \in Pages /\ Resume \in Skippable /\ "ssh" \notin Skippable
  BY ResumeIsAPage DEF Skip, WizardInv, BoxInv, Skippable
<1>2. /\ done' = done \cup {Resume} /\ skipped' = skipped \cup {Resume}
      /\ UNCHANGED <<env, accepts, box, ctr, pending, issued, cut, req>>
  BY DEF Skip
<1> HIDE DEF Resume
<1>3. BoxInv'
  BY <1>1, <1>2 DEF WizardInv, BoxInv
<1>4. RequestInv'
  BY <1>2, RequestsStay DEF WizardInv
<1>5. QED
  BY <1>3, <1>4 DEF WizardInv

LEMMA CrashKeeps == ASSUME WizardInv, Crash PROVE WizardInv'
<1>1. UNCHANGED <<disk, ctr>>
  BY DEF Crash
<1>2. cut' \subseteq Pages \cup {"secrets.env"}
  <2>1. "neo4j" \in Pages
    BY DEF Pages, STEPS
  <2>2. QED
    BY <2>1 DEF Crash, WizardInv, BoxInv
<1>3. BoxInv'
  BY <1>1, <1>2, BoxStays DEF WizardInv
<1>4. RequestInv'
  BY NoRequestIsOne DEF Crash, RequestInv, Busy
<1>5. QED
  BY <1>3, <1>4 DEF WizardInv

LEMMA StepKeepsInv == ASSUME WizardInv, [Next]_vars PROVE WizardInv'
<1>1. ASSUME NEW t \in Tab, Begin(t) \/ Skip(t) \/ RequestSigning(t) PROVE WizardInv'
  BY <1>1, BeginKeeps, SkipKeeps, RequestSigningKeeps
<1>2. ASSUME NEW t \in Tab, CommandFails(t) \/ ProbeFails(t) PROVE WizardInv'
  BY <1>2, CommandFailsKeeps, ProbeFailsKeeps
<1>3. ASSUME NEW t \in Tab, Step(t) PROVE WizardInv'
  BY <1>3, NeedKeeps, RefuseKeeps, GateKeeps, EffectKeeps, SetPasswordKeeps,
     Neo4jPasswordKeeps, GrafanaPasswordKeeps, ReadKeeps, TruncateKeeps, WriteKeeps,
     ComposeKeeps, WaitKeeps, MatchKeeps, TakeKeeps, InstallKeeps, DropKeeps,
     CheckKeeps, MarkKeeps DEF Step
<1>4. ASSUME UNCHANGED vars PROVE WizardInv'
  <2>1. UNCHANGED <<disk, ctr>> /\ UNCHANGED <<req, cut, box, done>>
    BY <1>4 DEF vars, disk
  <2>2. BoxInv'
    BY <2>1, BoxStays DEF WizardInv, BoxInv
  <2>3. RequestInv'
    BY <2>1, RequestsStay DEF WizardInv
  <2>4. QED
    BY <2>2, <2>3 DEF WizardInv
<1>5. QED
  BY <1>1, <1>2, <1>3, <1>4, ContainersKeep, CrashKeeps DEF Next

\* Whatever the tabs, passwords, keys and bounds: every variable keeps its
\* type, only optional pages are done unchecked, and the ssh page's key and
\* marker come before the lockdown's command.
THEOREM WizardInvHolds == Spec => []WizardInv
<1>1. Init => WizardInv
  BY InitInv
<1>2. WizardInv /\ [Next]_vars => WizardInv'
  BY StepKeepsInv
<1>3. QED
  BY <1>1, <1>2, PTL DEF Spec

\* Password logins go off only on a box that lets the customer's key in.
THEOREM NobodyIsLockedOut == Spec => []NoLockout
<1>1. WizardInv => NoLockout
  BY DEF WizardInv, BoxInv, NoLockout, Holds
<1>2. QED
  BY <1>1, WizardInvHolds, PTL

-----------------------------------------------------------------------------
(* The promise of the pages.                                               *)

\* A script's mark is its last step.
LEMMA OnlyTheLastMarks ==
  ASSUME NEW r, r.page \in Pages, r.pc \in 1..Len(Script[r.page])
  PROVE  Script[r.page][r.pc].op = "mark" <=> r.pc = Len(Script[r.page])
<1> DEFINE s == Script[r.page]
           n == Len(s)
<1>1. /\ n \in Nat /\ n >= 2
      /\ \A i \in 1..(n - 2) : s[i].op \in Ops
      /\ s[n - 1].op = "check" /\ s[n].op = "mark"
  BY ScriptsAreWork DEF WorkThenVerified
<1> HIDE DEF s, n
<1>2. r.pc \in 1..n
  BY DEF s, n
<1>3. r.pc \in 1..(n - 2) \/ r.pc = n - 1 \/ r.pc = n
  BY <1>1, <1>2
<1>4. r.pc \in 1..(n - 2) => s[r.pc].op # "mark" /\ r.pc # n
  BY <1>1 DEF Ops
<1>5. r.pc = n - 1 => s[r.pc].op # "mark" /\ r.pc # n
  BY <1>1
<1>6. QED
  BY <1>1, <1>3, <1>4, <1>5 DEF s, n

\* Whoever moves is not at its mark, before or after: nothing is newly proved.
LEMMA ProvedStays ==
  ASSUME WizardInv, NEW t \in Tab, ~At(t, "mark"), ~At(t, "mark")',
         \A u \in Tab \ {t} : req'[u] = req[u]
  PROVE  Proved' = Proved
<1>1. \A u \in Tab \ {t} : At(u, "mark")' <=> At(u, "mark")
  BY DEF At, Busy, Now
<1>2. {u \in Tab : At(u, "mark")}' = {u \in Tab : At(u, "mark")}
  BY <1>1
<1>3. \A u \in {v \in Tab : At(v, "mark")} : req'[u] = req[u]
  OBVIOUS
<1>4. QED
  BY <1>2, <1>3 DEF Proved

LEMMA NotAtItsMark ==
  ASSUME WizardInv', NEW t \in Tab,
         req'[t].page = "none" \/ req'[t].pc # Len(Script[req'[t].page])
  PROVE  ~At(t, "mark")'
<1>1. SUFFICES ASSUME Busy(t)' PROVE Now(t)'.op # "mark"
  BY DEF At
<1>2. req'[t].page # "none"
  BY <1>1 DEF Busy
<1>3. req'[t] \in Request /\ Sent(req[t])'
  BY <1>1 DEF WizardInv, RequestInv
<1>4. req'[t].page \in Pages
  BY <1>2, <1>3 DEF Request
<1>5. req'[t].pc \in 1..Len(Script[req'[t].page])
  BY <1>3 DEF Sent
<1>6. Script[req'[t].page][req'[t].pc].op # "mark"
  BY <1>2, <1>4, <1>5, OnlyTheLastMarks
<1>7. QED
  BY <1>6 DEF Now

\* Work on a page, up to its checks, proves nothing yet.
LEMMA WorkProvesNothing ==
  ASSUME WizardInv, WizardInv', NEW t \in Tab, Busy(t), Now(t).op \in Ops,
         \A u \in Tab \ {t} : req'[u] = req[u],
         \/ req'[t].page = "none"
         \/ /\ req'[t].page = req[t].page
            /\ req'[t].pc \in {req[t].pc + 1, Checks(req[t].page)}
  PROVE  Proved' = Proved
<1> DEFINE n == Len(Script[req[t].page])
<1>1. ~At(t, "mark")
  BY DEF At, Ops
<1>2. req[t].pc + 1 \in 1..(n - 1) /\ n \in Nat
  BY Places
<1>3. Checks(req[t].page) = n - 1
  BY DEF Checks
<1>4. req'[t].page = req[t].page => n = Len(Script[req'[t].page])
  OBVIOUS
<1> HIDE DEF n
<1>5. req[t].pc + 1 # n /\ n - 1 # n
  BY <1>2
<1>6. req'[t].page = "none" \/ req'[t].pc # Len(Script[req'[t].page])
  BY <1>3, <1>4, <1>5
<1>7. QED
  BY <1>1, <1>6, NotAtItsMark, ProvedStays

\* The steps that leave markers and proofs alone.
Unnoticed == UNCHANGED <<done, Proved>>

LEMMA RequestsAreRecords ==
  ASSUME WizardInv, NEW t \in Tab
  PROVE  /\ req[t] \in Request /\ NoRequest.page = "none"
         /\ \A r : req' = [req EXCEPT ![t] = r] =>
              req'[t] = r /\ \A u \in Tab \ {t} : req'[u] = req[u]
BY DEF WizardInv, RequestInv, NoRequest

LEMMA GoMoves ==
  ASSUME WizardInv, NEW t \in Tab, NEW pc, Go(t, pc)
  PROVE  /\ req'[t].page = req[t].page /\ req'[t].pc = pc
         /\ \A u \in Tab \ {t} : req'[u] = req[u]
<1> DEFINE r == [req[t] EXCEPT !.pc = pc]
<1>1. req[t] \in Request
  BY RequestsAreRecords
<1>2. r.page = req[t].page /\ r.pc = pc
  BY <1>1 DEF Request
<1>3. req' = [req EXCEPT ![t] = r]
  BY DEF Go
<1> HIDE DEF r
<1>4. QED
  BY <1>2, <1>3, RequestsAreRecords

LEMMA AnswerMoves ==
  ASSUME WizardInv, NEW t \in Tab, Answer(t)
  PROVE  req'[t].page = "none" /\ \A u \in Tab \ {t} : req'[u] = req[u]
BY RequestsAreRecords DEF Answer

LEMMA WorkIsUnnoticed ==
  ASSUME WizardInv, WizardInv', NEW t \in Tab, Busy(t), Now(t).op \in Ops,
         Proceed(t) \/ ToChecks(t) \/ Answer(t), done' = done
  PROVE  Unnoticed
<1>1. CASE Proceed(t)
  BY <1>1, GoMoves, WorkProvesNothing DEF Proceed, Unnoticed
<1>2. CASE ToChecks(t)
  BY <1>2, GoMoves, WorkProvesNothing DEF ToChecks, Unnoticed
<1>3. CASE Answer(t)
  BY <1>3, AnswerMoves, WorkProvesNothing DEF Unnoticed
<1>4. QED
  BY <1>1, <1>2, <1>3

\* The ones that also put something into the request.
LEMMA SavingIsUnnoticed ==
  ASSUME WizardInv, WizardInv', NEW t \in Tab, ReadSecrets(t) \/ WriteSecrets(t) \/ TakeKey(t)
  PROVE  Unnoticed
<1>1. Busy(t) /\ Now(t).op \in Ops /\ done' = done
  BY DEF ReadSecrets, WriteSecrets, TakeKey, At, Ops, disk
<1>2. req[t] \in Request /\ env \in Secrets /\ NoRequest.snap \in Secrets
  BY RequestsAreRecords, GrafanaIsSaved DEF WizardInv, BoxInv, NoRequest, Secrets
<1>3. CASE \E s \in Secrets : req' = [req EXCEPT ![t].snap = s, ![t].pc = @ + 1]
  <2>1. PICK s \in Secrets : req' = [req EXCEPT ![t] = [req[t] EXCEPT !.snap = s, !.pc = req[t].pc + 1]]
    BY <1>3
  <2> DEFINE r == [req[t] EXCEPT !.snap = s, !.pc = req[t].pc + 1]
  <2>2. r.page = req[t].page /\ r.pc = req[t].pc + 1
    BY <1>2 DEF Request
  <2>3. req' = [req EXCEPT ![t] = r]
    BY <2>1
  <2> HIDE DEF r
  <2>4. req'[t] = r /\ \A u \in Tab \ {t} : req'[u] = req[u]
    BY <2>3, RequestsAreRecords
  <2>5. QED
    BY <1>1, <2>2, <2>4, WorkProvesNothing DEF Unnoticed
<1>4. CASE req' = [req EXCEPT ![t].key = pending, ![t].pc = @ + 1]
  <2> DEFINE r == [req[t] EXCEPT !.key = pending, !.pc = req[t].pc + 1]
  <2>1. r.page = req[t].page /\ r.pc = req[t].pc + 1
    BY <1>2 DEF Request
  <2>2. req' = [req EXCEPT ![t] = r]
    BY <1>4
  <2> HIDE DEF r
  <2>3. req'[t] = r /\ \A u \in Tab \ {t} : req'[u] = req[u]
    BY <2>2, RequestsAreRecords
  <2>4. QED
    BY <1>1, <2>1, <2>3, WorkProvesNothing DEF Unnoticed
<1>5. CASE Answer(t)
  BY <1>1, <1>5, WorkIsUnnoticed
<1>6. QED
  BY <1>2, <1>3, <1>4, <1>5 DEF ReadSecrets, WriteSecrets, TakeKey

LEMMA StepsUnnoticed ==
  ASSUME WizardInv, WizardInv', NEW t \in Tab,
         \/ Need(t) \/ Refuse(t) \/ Gate(t) \/ Effect(t) \/ CommandFails(t)
         \/ SetPassword(t) \/ Neo4jPassword(t) \/ GrafanaPassword(t) \/ TruncateSecrets(t)
         \/ Compose(t) \/ WaitForLog(t)
         \/ MatchKey(t) \/ InstallPair(t) \/ DropKey(t) \/ SelfSign(t)
  PROVE  Unnoticed
<1>1. Busy(t) /\ Now(t).op \in Ops
  BY DEF Need, Refuse, Gate, Effect, CommandFails, SetPassword, Neo4jPassword, GrafanaPassword,
     TruncateSecrets, Compose, WaitForLog, MatchKey, InstallPair, DropKey, SelfSign, At, Ops
<1>2. done' = done
  BY DEF Need, Refuse, Gate, Effect, CommandFails, SetPassword, Neo4jPassword, GrafanaPassword,
     TruncateSecrets, Compose, WaitForLog, MatchKey, InstallPair, DropKey, SelfSign, disk
<1>3. Proceed(t) \/ ToChecks(t) \/ Answer(t)
  BY DEF Need, Refuse, Gate, Effect, CommandFails, SetPassword, Neo4jPassword, GrafanaPassword,
     TruncateSecrets, Compose, WaitForLog, MatchKey, InstallPair, DropKey, SelfSign
<1>4. QED
  BY <1>1, <1>2, <1>3, WorkIsUnnoticed

LEMMA BeginUnnoticed ==
  ASSUME WizardInv, WizardInv', NEW t \in Tab, Begin(t)
  PROVE  Unnoticed
<1>1. done' = done
  BY DEF Begin, disk
<1>2. ~At(t, "mark")
  BY DEF Begin, At
<1>3. PICK p \in Pages \ done :
        \E pw \in Form(p), cert \in IF p = "https" THEN issued ELSE {"none"} :
          req' = [req EXCEPT ![t] = [NoRequest EXCEPT !.page = p, !.pw = pw, !.cert = cert]]
  BY BeginsAPage
<1> DEFINE n == Len(Script[p])
<1>4. n \in Nat /\ n >= 2
  BY <1>3, ScriptsAreWork DEF WorkThenVerified
<1>5. PICK pw, cert :
        req' = [req EXCEPT ![t] = [NoRequest EXCEPT !.page = p, !.pw = pw, !.cert = cert]]
  BY <1>3
<1> DEFINE r == [NoRequest EXCEPT !.page = p, !.pw = pw, !.cert = cert]
<1>6. r.page = p /\ r.pc = 1
  BY DEF NoRequest
<1>7. req' = [req EXCEPT ![t] = r]
  BY <1>5
<1> HIDE DEF r
<1>8. req'[t] = r /\ \A u \in Tab \ {t} : req'[u] = req[u]
  BY <1>7, RequestsAreRecords
<1>9. req'[t].pc # Len(Script[req'[t].page])
  <2>1. Len(Script[req'[t].page]) = n
    BY <1>6, <1>8
  <2> HIDE DEF n
  <2>2. QED
    BY <1>4, <1>6, <1>8, <2>1
<1>10. Proved' = Proved
  BY <1>2, <1>8, <1>9, NotAtItsMark, ProvedStays
<1>11. QED
  BY <1>1, <1>10 DEF Unnoticed

\* Without a request's move nothing is proved or forgotten.
LEMMA NobodyMoves == ASSUME req' = req PROVE Proved' = Proved
BY DEF Proved, At, Busy, Now

\* What is good is a set of pages, after any step.
LEMMA GoodIsPages == ASSUME WizardInv' PROVE Good' \in SUBSET Pages
BY DEF Good, Busy, WizardInv, RequestInv, Request

Promised == SetupPromise!PagesNext

LEMMA UnnoticedIsPromised == ASSUME WizardInv', Unnoticed PROVE Promised
BY GoodIsPages DEF Unnoticed, Promised, SetupPromise!PagesNext

LEMMA SkipIsPromised ==
  ASSUME WizardInv, WizardInv', NEW t \in Tab, Skip(t)
  PROVE  Promised
<1>1. Resume \in Pages /\ Resume \in Skippable
  BY ResumeIsAPage DEF Skip, WizardInv, BoxInv
<1>2. done' = done \cup {Resume} /\ Proved' = Proved
  BY NobodyMoves DEF Skip
<1> HIDE DEF Resume
<1>3. SetupPromise!SkipPage(Resume)
  BY <1>1, <1>2 DEF SetupPromise!SkipPage
<1>4. QED
  BY <1>1, <1>3, GoodIsPages DEF Promised, SetupPromise!PagesNext

\* The rows were good: the page is proved, unless another tab has just
\* proved it.
LEMMA CheckIsPromised ==
  ASSUME WizardInv, WizardInv', NEW t \in Tab, Check(t)
  PROVE  Promised
<1> DEFINE p == req[t].page
           n == Len(Script[p])
<1>1. Busy(t) /\ Now(t).op = "check" /\ done' = done
  BY DEF Check, At, disk
<1>2. ~At(t, "mark")
  BY <1>1 DEF At
<1>3. p \in Pages
  BY <1>1, Where
<1>4. CASE Verified(req[t])
  <2>1. req'[t].page = p /\ req'[t].pc = req[t].pc + 1 /\ \A u \in Tab \ {t} : req'[u] = req[u]
    BY <1>4, GoMoves DEF Check, Proceed
  <2>2. req'[t].pc = n
    <3>1. req[t].pc = n - 1 /\ n \in Nat
      BY <1>1, Places
    <3> HIDE DEF n
    <3>2. QED
      BY <2>1, <3>1
  <2>3. At(t, "mark")'
    <3>1. Script[p][n].op = "mark"
      BY <1>3, ScriptsAreWork DEF WorkThenVerified
    <3>2. Now(t)' = Script[p][n]
      BY <2>1, <2>2 DEF Now
    <3>3. Busy(t)'
      BY <1>1, <2>1 DEF Busy
    <3>4. QED
      BY <3>1, <3>2, <3>3 DEF At
  <2>4. \A u \in Tab \ {t} : At(u, "mark")' <=> At(u, "mark")
    BY <2>1 DEF At, Busy, Now
  <2>5. {u \in Tab : At(u, "mark")}' = {u \in Tab : At(u, "mark")} \cup {t}
    BY <2>3, <2>4
  <2>6. \A u \in {v \in Tab : At(v, "mark")} : req'[u] = req[u]
    BY <1>2, <2>1
  <2>7. Proved' = Proved \cup {p}
    BY <2>1, <2>5, <2>6 DEF Proved
  <2>8. p \in Good
    BY <1>1, <1>4 DEF Good
  <2>9. CASE p \in Proved
    BY <1>1, <2>7, <2>9, UnnoticedIsPromised DEF Unnoticed
  <2>10. CASE p \notin Proved
    <3> HIDE DEF p
    <3>1. SetupPromise!Prove(p)
      BY <1>1, <2>7, <2>8, <2>10 DEF SetupPromise!Prove
    <3>2. QED
      BY <1>3, <3>1, GoodIsPages DEF Promised, SetupPromise!PagesNext
  <2>11. QED
    BY <2>9, <2>10
<1>5. CASE ~Verified(req[t])
  <2>1. req'[t].page = "none" /\ \A u \in Tab \ {t} : req'[u] = req[u]
    BY <1>5, AnswerMoves DEF Check
  <2>2. QED
    BY <1>1, <1>2, <2>1, NotAtItsMark, ProvedStays, UnnoticedIsPromised DEF Unnoticed
<1>6. QED
  BY <1>4, <1>5

LEMMA ProbeFailsUnnoticed ==
  ASSUME WizardInv, WizardInv', NEW t \in Tab, ProbeFails(t)
  PROVE  Unnoticed
<1>1. ~At(t, "mark") /\ done' = done
  BY DEF ProbeFails, At, disk
<1>2. req'[t].page = "none" /\ \A u \in Tab \ {t} : req'[u] = req[u]
  BY AnswerMoves DEF ProbeFails
<1>3. QED
  BY <1>1, <1>2, NotAtItsMark, ProvedStays DEF Unnoticed

LEMMA MarkIsPromised ==
  ASSUME WizardInv, WizardInv', NEW t \in Tab, Mark(t)
  PROVE  Promised
<1> DEFINE p == req[t].page
<1>1. At(t, "mark") /\ Busy(t) /\ done' = done \cup {p}
  BY DEF Mark, At
<1>2. p \in Pages
  BY <1>1, Where
<1>3. p \in Proved
  BY <1>1 DEF Proved
<1>4. req'[t].page = "none" /\ \A u \in Tab \ {t} : req'[u] = req[u]
  BY AnswerMoves DEF Mark
<1>5. ~At(t, "mark")'
  BY <1>4, NotAtItsMark
<1>6. \A u \in Tab \ {t} : At(u, "mark")' <=> At(u, "mark")
  BY <1>4 DEF At, Busy, Now
<1>7. {u \in Tab : At(u, "mark")}' = {u \in Tab : At(u, "mark")} \ {t}
  BY <1>5, <1>6
<1>8. \A u \in {v \in Tab : At(v, "mark")} \ {t} : req'[u] = req[u]
  BY <1>4
<1>9. Proved' = {req[u].page : u \in {v \in Tab : At(v, "mark")} \ {t}}
  BY <1>7, <1>8 DEF Proved
<1>10. Proved = Proved' \cup {p}
  BY <1>1, <1>9 DEF Proved
<1>11. Proved' \in {Proved, Proved \ {p}}
  BY <1>10
<1> HIDE DEF p
<1>12. SetupPromise!MarkProved(p)
  BY <1>1, <1>3, <1>11 DEF SetupPromise!MarkProved
<1>13. QED
  BY <1>2, <1>12, GoodIsPages DEF Promised, SetupPromise!PagesNext

LEMMA CrashIsPromised == ASSUME WizardInv', Crash PROVE Promised
<1>1. \A t \in Tab : ~At(t, "mark")'
  BY DEF Crash, NoRequest, At, Busy
<1>2. Proved' = {}
  BY <1>1 DEF Proved
<1>3. SetupPromise!Forget
  BY <1>2 DEF Crash, disk, SetupPromise!Forget
<1>4. QED
  BY <1>3, GoodIsPages DEF Promised, SetupPromise!PagesNext

LEMMA StepIsPromised == ASSUME WizardInv, WizardInv', [Next]_vars PROVE Promised
<1>1. ASSUME NEW t \in Tab, Begin(t) \/ ProbeFails(t) \/ CommandFails(t) PROVE Promised
  BY <1>1, BeginUnnoticed, ProbeFailsUnnoticed, StepsUnnoticed, UnnoticedIsPromised
<1>2. ASSUME NEW t \in Tab, RequestSigning(t) PROVE Promised
  BY <1>2, NobodyMoves, UnnoticedIsPromised DEF RequestSigning, Unnoticed
<1>3. ASSUME NEW t \in Tab, Step(t) PROVE Promised
  BY <1>3, StepsUnnoticed, SavingIsUnnoticed, UnnoticedIsPromised, CheckIsPromised,
     MarkIsPromised DEF Step
<1>4. ASSUME NEW c \in Service,
             ContainerReady(c) \/ ContainerDies(c) \/ ContainerRestarts(c)
      PROVE  Promised
  BY <1>4, NobodyMoves, UnnoticedIsPromised
     DEF ContainerReady, ContainerDies, ContainerRestarts, Unnoticed, disk
<1>5. ASSUME UNCHANGED vars PROVE Promised
  BY <1>5, NobodyMoves, UnnoticedIsPromised DEF vars, Unnoticed
<1>6. QED
  BY <1>1, <1>2, <1>3, <1>4, <1>5, SkipIsPromised, CrashIsPromised DEF Next

\* Whatever the tabs, failures and restarts: a page is marked done only by a
\* request that saw all of its rows good, or by the skip of an optional page,
\* and its marker stays.
THEOREM WizardKeepsItsPromise == Spec => ImplementsPages
<1>1. Init => SetupPromise!PagesInit
  BY DEF Init, NoRequest, Proved, Good, At, Busy, SetupPromise!PagesInit
<1>2. WizardInv /\ WizardInv' /\ [Next]_vars => [SetupPromise!PagesNext]_(SetupPromise!pagesVars)
  BY StepIsPromised DEF Promised
<1>3. QED
  BY <1>1, <1>2, WizardInvHolds, PTL DEF Spec, ImplementsPages, SetupPromise!PagesSpec

=============================================================================
