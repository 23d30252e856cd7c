---------------------------- MODULE SetupFilesProofs ----------------------------
(***************************************************************************)
(* Proofs about what SetupWizard's pages leave behind them: the names in   *)
(* secrets.env, the passwords the daemons let in, the HTTPS pair and the   *)
(* effects of the commands, for any tabs, passwords, keys and bounds.      *)
(***************************************************************************)
EXTENDS SetupWizardProofs

-----------------------------------------------------------------------------
(* What follows what in a script.                                          *)

\* Step i of page p's script is a, and b comes after it.
Follows(p, i, a, b) ==
  /\ b.op = "truncate" <=> a.op = "read"
  /\ b.op = "save" <=> a.op = "truncate"
  /\ a.op = "password" => a.arg = p
  /\ a.op \in {"gate", "choice"} => p \in {"neo4j", "ollama", "ssh_lockdown"}
  /\ a.op \in {"match", "take", "install", "drop"} => p = "https"
  /\ a.op = "save" =>
       /\ p \notin {"ollama", "ssh_lockdown"}
       /\ a.arg = "postgres_urls" <=> p = "postgres"
       /\ a.arg = "graph_url" <=> p = "neo4j"
       /\ a.arg = "broker_passwords" <=> p = "hivemq"
       /\ a.arg = "grafana_password" <=> p = "grafana"
  /\ a.op = "write" => p # "neo4j"
  /\ a.op = "run" =>
       p \in {"docker", "postgres", "neo4j", "ollama", "der_control_api", "https",
              "prometheus", "grafana", "ssh_lockdown"}
  /\ a.op \in {"up", "recreate"} /\ a.arg = "der-control-ingress" =>
       p = "der_control_api" /\ i = 12

Flows(p) ==
  /\ Script[p][1].op \notin {"truncate", "save", "mark"}
  /\ \A i \in 1..(Len(Script[p]) - 1) : Follows(p, i, Script[p][i], Script[p][i + 1])

LEMMA PreflightFlows == Flows("preflight")
<1> DEFINE s == Script["preflight"]
<1>1. Len(s) = 2 /\ s[1].op \notin {"truncate", "save", "mark"}
  BY PreflightIs, Fields
<1>2. \A i \in 1..1 : Follows("preflight", i, s[i], s[i + 1])
  BY PreflightIs, Fields DEF Follows
<1> HIDE DEF s
<1>3. Len(s) - 1 = 1
  BY <1>1
<1>4. QED
  BY <1>1, <1>2, <1>3 DEF Flows, s

LEMMA SiteFlows == Flows("site")
<1> DEFINE s == Script["site"]
<1>1. Len(s) = 4 /\ s[1].op \notin {"truncate", "save", "mark"}
  BY SiteIs, Fields
<1>2. \A i \in 1..3 : Follows("site", i, s[i], s[i + 1])
  BY SiteIs, Fields DEF Follows
<1> HIDE DEF s
<1>3. Len(s) - 1 = 3
  BY <1>1
<1>4. QED
  BY <1>1, <1>2, <1>3 DEF Flows, s

LEMMA SshFlows == Flows("ssh")
<1> DEFINE s == Script["ssh"]
<1>1. Len(s) = 4 /\ s[1].op \notin {"truncate", "save", "mark"}
  BY SshIs, Fields
<1>2. \A i \in 1..3 : Follows("ssh", i, s[i], s[i + 1])
  BY SshIs, Fields DEF Follows
<1> HIDE DEF s
<1>3. Len(s) - 1 = 3
  BY <1>1
<1>4. QED
  BY <1>1, <1>2, <1>3 DEF Flows, s

LEMMA DockerFlows == Flows("docker")
<1> DEFINE s == Script["docker"]
<1>1. Len(s) = 4 /\ s[1].op \notin {"truncate", "save", "mark"}
  BY DockerIs, Fields
<1>2. \A i \in 1..3 : Follows("docker", i, s[i], s[i + 1])
  BY DockerIs, Fields DEF Follows
<1> HIDE DEF s
<1>3. Len(s) - 1 = 3
  BY <1>1
<1>4. QED
  BY <1>1, <1>2, <1>3 DEF Flows, s

LEMMA PostgresFlows == Flows("postgres")
<1> DEFINE s == Script["postgres"]
<1>1. Len(s) = 12 /\ s[1].op \notin {"truncate", "save", "mark"}
  BY PostgresIs, Fields
<1>2. \A i \in 1..11 : Follows("postgres", i, s[i], s[i + 1])
  BY PostgresIs, Fields DEF Follows
<1> HIDE DEF s
<1>3. Len(s) - 1 = 11
  BY <1>1
<1>4. QED
  BY <1>1, <1>2, <1>3 DEF Flows, s

LEMMA Neo4jFlows == Flows("neo4j")
<1> DEFINE s == Script["neo4j"]
<1>1. Len(s) = 11 /\ s[1].op \notin {"truncate", "save", "mark"}
  BY Neo4jIs, Fields
<1>2. \A i \in 1..10 : Follows("neo4j", i, s[i], s[i + 1])
  BY Neo4jIs, Fields DEF Follows
<1> HIDE DEF s
<1>3. Len(s) - 1 = 10
  BY <1>1
<1>4. QED
  BY <1>1, <1>2, <1>3 DEF Flows, s

LEMMA OllamaFlows == Flows("ollama")
<1> DEFINE s == Script["ollama"]
<1>1. Len(s) = 11 /\ s[1].op \notin {"truncate", "save", "mark"}
  BY OllamaIs, Fields
<1>2. \A i \in 1..10 : Follows("ollama", i, s[i], s[i + 1])
  BY OllamaIs, Fields DEF Follows
<1> HIDE DEF s
<1>3. Len(s) - 1 = 10
  BY <1>1
<1>4. QED
  BY <1>1, <1>2, <1>3 DEF Flows, s

LEMMA HivemqFlows == Flows("hivemq")
<1> DEFINE s == Script["hivemq"]
<1>1. Len(s) = 9 /\ s[1].op \notin {"truncate", "save", "mark"}
  BY HivemqIs, Fields
<1>2. \A i \in 1..8 : Follows("hivemq", i, s[i], s[i + 1])
  BY HivemqIs, Fields DEF Follows
<1> HIDE DEF s
<1>3. Len(s) - 1 = 8
  BY <1>1
<1>4. QED
  BY <1>1, <1>2, <1>3 DEF Flows, s

LEMMA TelemetryFlows == Flows("telemetry")
<1> DEFINE s == Script["telemetry"]
<1>1. Len(s) = 5 /\ s[1].op \notin {"truncate", "save", "mark"}
  BY TelemetryIs, Fields
<1>2. \A i \in 1..4 : Follows("telemetry", i, s[i], s[i + 1])
  BY TelemetryIs, Fields DEF Follows
<1> HIDE DEF s
<1>3. Len(s) - 1 = 4
  BY <1>1
<1>4. QED
  BY <1>1, <1>2, <1>3 DEF Flows, s

LEMMA DeviceApiFlows == Flows("device_api")
<1> DEFINE s == Script["device_api"]
<1>1. Len(s) = 7 /\ s[1].op \notin {"truncate", "save", "mark"}
  BY DeviceApiIs, Fields
<1>2. \A i \in 1..6 : Follows("device_api", i, s[i], s[i + 1])
  BY DeviceApiIs, Fields DEF Follows
<1> HIDE DEF s
<1>3. Len(s) - 1 = 6
  BY <1>1
<1>4. QED
  BY <1>1, <1>2, <1>3 DEF Flows, s

LEMMA DerControlFlows == Flows("der_control_api")
<1> DEFINE s == Script["der_control_api"]
<1>1. Len(s) = 15 /\ s[1].op \notin {"truncate", "save", "mark"}
  BY DerControlIs, Fields
<1>2. \A i \in 1..14 : Follows("der_control_api", i, s[i], s[i + 1])
  BY DerControlIs, Fields DEF Follows
<1> HIDE DEF s
<1>3. Len(s) - 1 = 14
  BY <1>1
<1>4. QED
  BY <1>1, <1>2, <1>3 DEF Flows, s

LEMMA GatewayFlows == Flows("industrial_gateway")
<1> DEFINE s == Script["industrial_gateway"]
<1>1. Len(s) = 4 /\ s[1].op \notin {"truncate", "save", "mark"}
  BY GatewayIs, Fields
<1>2. \A i \in 1..3 : Follows("industrial_gateway", i, s[i], s[i + 1])
  BY GatewayIs, Fields DEF Follows
<1> HIDE DEF s
<1>3. Len(s) - 1 = 3
  BY <1>1
<1>4. QED
  BY <1>1, <1>2, <1>3 DEF Flows, s

LEMMA HmiFlows == Flows("hmi")
<1> DEFINE s == Script["hmi"]
<1>1. Len(s) = 4 /\ s[1].op \notin {"truncate", "save", "mark"}
  BY HmiIs, Fields
<1>2. \A i \in 1..3 : Follows("hmi", i, s[i], s[i + 1])
  BY HmiIs, Fields DEF Follows
<1> HIDE DEF s
<1>3. Len(s) - 1 = 3
  BY <1>1
<1>4. QED
  BY <1>1, <1>2, <1>3 DEF Flows, s

LEMMA HttpsFlows == Flows("https")
<1> DEFINE s == Script["https"]
<1>1. Len(s) = 11 /\ s[1].op \notin {"truncate", "save", "mark"}
  BY HttpsIs, Fields
<1>2. \A i \in 1..10 : Follows("https", i, s[i], s[i + 1])
  BY HttpsIs, Fields DEF Follows
<1> HIDE DEF s
<1>3. Len(s) - 1 = 10
  BY <1>1
<1>4. QED
  BY <1>1, <1>2, <1>3 DEF Flows, s

LEMMA MlflowFlows == Flows("mlflow")
<1> DEFINE s == Script["mlflow"]
<1>1. Len(s) = 5 /\ s[1].op \notin {"truncate", "save", "mark"}
  BY MlflowIs, Fields
<1>2. \A i \in 1..4 : Follows("mlflow", i, s[i], s[i + 1])
  BY MlflowIs, Fields DEF Follows
<1> HIDE DEF s
<1>3. Len(s) - 1 = 4
  BY <1>1
<1>4. QED
  BY <1>1, <1>2, <1>3 DEF Flows, s

LEMMA AnalystModelFlows == Flows("analyst_model")
<1> DEFINE s == Script["analyst_model"]
<1>1. Len(s) = 6 /\ s[1].op \notin {"truncate", "save", "mark"}
  BY AnalystModelIs, Fields
<1>2. \A i \in 1..5 : Follows("analyst_model", i, s[i], s[i + 1])
  BY AnalystModelIs, Fields DEF Follows
<1> HIDE DEF s
<1>3. Len(s) - 1 = 5
  BY <1>1
<1>4. QED
  BY <1>1, <1>2, <1>3 DEF Flows, s

LEMMA AnalystServerFlows == Flows("analyst_server")
<1> DEFINE s == Script["analyst_server"]
<1>1. Len(s) = 7 /\ s[1].op \notin {"truncate", "save", "mark"}
  BY AnalystServerIs, Fields
<1>2. \A i \in 1..6 : Follows("analyst_server", i, s[i], s[i + 1])
  BY AnalystServerIs, Fields DEF Follows
<1> HIDE DEF s
<1>3. Len(s) - 1 = 6
  BY <1>1
<1>4. QED
  BY <1>1, <1>2, <1>3 DEF Flows, s

LEMMA PrometheusFlows == Flows("prometheus")
<1> DEFINE s == Script["prometheus"]
<1>1. Len(s) = 6 /\ s[1].op \notin {"truncate", "save", "mark"}
  BY PrometheusIs, Fields
<1>2. \A i \in 1..5 : Follows("prometheus", i, s[i], s[i + 1])
  BY PrometheusIs, Fields DEF Follows
<1> HIDE DEF s
<1>3. Len(s) - 1 = 5
  BY <1>1
<1>4. QED
  BY <1>1, <1>2, <1>3 DEF Flows, s

LEMMA GrafanaFlows == Flows("grafana")
<1> DEFINE s == Script["grafana"]
<1>1. Len(s) = 9 /\ s[1].op \notin {"truncate", "save", "mark"}
  BY GrafanaIs, Fields
<1>2. \A i \in 1..8 : Follows("grafana", i, s[i], s[i + 1])
  BY GrafanaIs, Fields DEF Follows
<1> HIDE DEF s
<1>3. Len(s) - 1 = 8
  BY <1>1
<1>4. QED
  BY <1>1, <1>2, <1>3 DEF Flows, s

LEMMA LockdownFlows == Flows("ssh_lockdown")
<1> DEFINE s == Script["ssh_lockdown"]
<1>1. Len(s) = 6 /\ s[1].op \notin {"truncate", "save", "mark"}
  BY LockdownIs, Fields
<1>2. \A i \in 1..5 : Follows("ssh_lockdown", i, s[i], s[i + 1])
  BY LockdownIs, Fields DEF Follows
<1> HIDE DEF s
<1>3. Len(s) - 1 = 5
  BY <1>1
<1>4. QED
  BY <1>1, <1>2, <1>3 DEF Flows, s

LEMMA ScriptsFlow == ASSUME NEW p \in Pages PROVE Flows(p)
<1>1. p \in {"preflight", "site", "ssh", "docker", "postgres", "neo4j", "ollama", "hivemq",
       "telemetry", "device_api", "der_control_api", "industrial_gateway", "hmi", "https",
       "mlflow", "analyst_model", "analyst_server", "prometheus", "grafana", "ssh_lockdown"}
  BY DEF Pages, STEPS
<1>2. QED
  BY <1>1, PreflightFlows, SiteFlows, SshFlows, DockerFlows, PostgresFlows, Neo4jFlows,
         OllamaFlows, HivemqFlows, TelemetryFlows, DeviceApiFlows, DerControlFlows,
         GatewayFlows, HmiFlows, HttpsFlows, MlflowFlows, AnalystModelFlows,
         AnalystServerFlows, PrometheusFlows, GrafanaFlows, LockdownFlows

-----------------------------------------------------------------------------
(* How a request moves.                                                    *)

\* Tab t's request is at another step, with what was typed into its form.
Went(t, pc) ==
  /\ req'[t].page = req[t].page /\ req'[t].pc = pc
  /\ req'[t].pw = req[t].pw /\ req'[t].cert = req[t].cert
  /\ Now(t).op # "take" => req'[t].key = req[t].key

\* A step of tab t's request: it is answered, goes on, or goes to the checks.
Moved(t) ==
  /\ Busy(t)
  /\ \A u \in Tab \ {t} : req'[u] = req[u]
  /\ \/ req'[t] = NoRequest
     \/ Went(t, req[t].pc + 1) /\ Now(t).op # "mark"
     \/ /\ Went(t, Checks(req[t].page))
        /\ \/ Now(t).op \in {"gate", "choice"}
           \/ Now(t).op = "password" /\ Now(t).arg = "neo4j"

LEMMA GoTakes ==
  ASSUME WizardInv, NEW t \in Tab, NEW pc, Go(t, pc)
  PROVE  /\ Went(t, pc) /\ req'[t].snap = req[t].snap
         /\ \A u \in Tab \ {t} : req'[u] = req[u]
<1> DEFINE r == [req[t] EXCEPT !.pc = pc]
<1>1. req[t] \in Request
  BY RequestsAreRecords
<1>2. /\ r.page = req[t].page /\ r.pc = pc /\ r.pw = req[t].pw
      /\ r.cert = req[t].cert /\ r.key = req[t].key /\ r.snap = req[t].snap
  BY <1>1 DEF Request
<1>3. req' = [req EXCEPT ![t] = r]
  BY DEF Go
<1> HIDE DEF r
<1>4. QED
  BY <1>2, <1>3, RequestsAreRecords DEF Went

LEMMA AnswerTakes ==
  ASSUME WizardInv, NEW t \in Tab, Answer(t)
  PROVE  req'[t] = NoRequest /\ \A u \in Tab \ {t} : req'[u] = req[u]
BY RequestsAreRecords DEF Answer

LEMMA WorkMoves ==
  ASSUME WizardInv, NEW t \in Tab, Busy(t),
         \/ Proceed(t) /\ Now(t).op # "mark"
         \/ Answer(t)
         \/ /\ ToChecks(t)
            /\ \/ Now(t).op \in {"gate", "choice"}
               \/ Now(t).op = "password" /\ Now(t).arg = "neo4j"
  PROVE  Moved(t)
BY GoTakes, AnswerTakes DEF Proceed, ToChecks, Moved

\* What the file's lines, or the key, do to the request that takes them.
LEMMA ReadTakes ==
  ASSUME WizardInv, NEW t \in Tab, ReadSecrets(t)
  PROVE  Moved(t) /\ Went(t, req[t].pc + 1) /\ req'[t].snap = env
<1> DEFINE r == [req[t] EXCEPT !.snap = env, !.pc = req[t].pc + 1]
<1>1. req[t] \in Request /\ At(t, "read")
  BY RequestsAreRecords DEF ReadSecrets
<1>2. /\ r.page = req[t].page /\ r.pc = req[t].pc + 1 /\ r.pw = req[t].pw
      /\ r.cert = req[t].cert /\ r.key = req[t].key /\ r.snap = env
  BY <1>1 DEF Request
<1>3. req' = [req EXCEPT ![t] = r]
  BY DEF ReadSecrets
<1> HIDE DEF r
<1>4. req'[t] = r /\ \A u \in Tab \ {t} : req'[u] = req[u]
  BY <1>3, RequestsAreRecords
<1>5. QED
  BY <1>1, <1>2, <1>4 DEF Went, Moved, At

LEMMA WriteTakes ==
  ASSUME WizardInv, NEW t \in Tab, WriteSecrets(t)
  PROVE  Moved(t) /\ Went(t, req[t].pc + 1)
<1> DEFINE r == [req[t] EXCEPT !.snap = NoRequest.snap, !.pc = req[t].pc + 1]
<1>1. req[t] \in Request /\ At(t, "save")
  BY RequestsAreRecords DEF WriteSecrets
<1>2. /\ r.page = req[t].page /\ r.pc = req[t].pc + 1 /\ r.pw = req[t].pw
      /\ r.cert = req[t].cert /\ r.key = req[t].key
  BY <1>1 DEF Request
<1>3. req' = [req EXCEPT ![t] = r]
  BY DEF WriteSecrets
<1> HIDE DEF r
<1>4. req'[t] = r /\ \A u \in Tab \ {t} : req'[u] = req[u]
  BY <1>3, RequestsAreRecords
<1>5. QED
  BY <1>1, <1>2, <1>4 DEF Went, Moved, At

LEMMA TakeTakes ==
  ASSUME WizardInv, NEW t \in Tab, TakeKey(t)
  PROVE  Moved(t) /\ (req'[t] = NoRequest \/ req'[t].key = pending)
<1> DEFINE r == [req[t] EXCEPT !.key = pending, !.pc = req[t].pc + 1]
<1>1. req[t] \in Request /\ At(t, "take")
  BY RequestsAreRecords DEF TakeKey
<1>2. CASE Answer(t)
  BY <1>1, <1>2, AnswerTakes DEF Moved, At
<1>3. CASE req' = [req EXCEPT ![t].key = pending, ![t].pc = @ + 1]
  <2>1. /\ r.page = req[t].page /\ r.pc = req[t].pc + 1 /\ r.pw = req[t].pw
        /\ r.cert = req[t].cert /\ r.key = pending
    BY <1>1 DEF Request
  <2>2. req' = [req EXCEPT ![t] = r]
    BY <1>3
  <2> HIDE DEF r
  <2>3. req'[t] = r /\ \A u \in Tab \ {t} : req'[u] = req[u]
    BY <2>2, RequestsAreRecords
  <2>4. QED
    BY <1>1, <2>1, <2>3 DEF Went, Moved, At
<1>4. QED
  BY <1>2, <1>3 DEF TakeKey

\* Every step of a request, the ones that fail among them.
LEMMA StepMoves ==
  ASSUME WizardInv, NEW t \in Tab, Step(t) \/ CommandFails(t) \/ ProbeFails(t)
  PROVE  Moved(t)
<1>1. ASSUME Need(t) \/ Refuse(t) \/ Gate(t) \/ Effect(t) \/ CommandFails(t) \/ ProbeFails(t)
      PROVE  Moved(t)
  BY <1>1, WorkMoves DEF Need, Refuse, Gate, Effect, CommandFails, ProbeFails, At
<1>2. ASSUME SetPassword(t) \/ Neo4jPassword(t) \/ GrafanaPassword(t) \/ TruncateSecrets(t)
      PROVE  Moved(t)
  BY <1>2, WorkMoves DEF SetPassword, Neo4jPassword, GrafanaPassword, TruncateSecrets, At
<1>3. ASSUME Compose(t) \/ WaitForLog(t) \/ MatchKey(t) \/ InstallPair(t) \/ DropKey(t)
             \/ SelfSign(t) \/ Check(t) \/ Mark(t)
      PROVE  Moved(t)
  BY <1>3, WorkMoves DEF Compose, WaitForLog, MatchKey, InstallPair, DropKey, SelfSign,
     Check, Mark, At
<1>4. QED
  BY <1>1, <1>2, <1>3, ReadTakes, WriteTakes, TakeTakes DEF Step

\* Before its mark a request's step has the page's other steps after it.
LEMMA ItFollows ==
  ASSUME WizardInv, NEW t \in Tab, Busy(t), Now(t).op # "mark"
  PROVE  /\ req[t].page \in Pages
         /\ req[t].pc \in 1..(Len(Script[req[t].page]) - 1)
         /\ Follows(req[t].page, req[t].pc, Now(t), Script[req[t].page][req[t].pc + 1])
<1> DEFINE n == Len(Script[req[t].page])
           pc == req[t].pc
<1>1. req[t].page \in Pages /\ n \in Nat /\ pc \in 1..n /\ pc # n
  BY Where, Places
<1>2. pc \in 1..(n - 1)
  <2> HIDE DEF n, pc
  <2>1. QED
    BY <1>1
<1>3. QED
  BY <1>1, <1>2, ScriptsFlow DEF Flows, Now

\* Where a step leaves a request.
LEMMA NewPlace ==
  ASSUME WizardInv, WizardInv', NEW t \in Tab, Moved(t)
  PROVE  /\ At(t, "truncate")' => At(t, "read")
         /\ At(t, "save")' => At(t, "truncate")
         /\ At(t, "mark")' => At(t, "check")
         /\ Went(t, req[t].pc + 1) =>
              /\ At(t, "read") => At(t, "truncate")'
              /\ At(t, "truncate") => At(t, "save")'
<1> DEFINE p == req[t].page
           pc == req[t].pc
           n == Len(Script[p])
<1>1. /\ Busy(t) /\ p \in Pages /\ n \in Nat /\ n >= 2 /\ pc \in 1..n
      /\ pc = n => Now(t).op = "mark"
      /\ pc <= n - 2 => Now(t).op \in Ops
  BY Where DEF Moved
<1>2. Script[p][n - 1].op = "check"
  BY <1>1, ScriptsAreWork DEF WorkThenVerified
<1>3. CASE req'[t] = NoRequest
  <2>1. ~Busy(t)'
    BY <1>3, NoRequestIsOne DEF Busy
  <2>2. ~Went(t, pc + 1)
    BY <1>1, <1>3, NoRequestIsOne DEF Went, Busy
  <2>3. QED
    BY <2>1, <2>2 DEF At
<1>4. CASE Went(t, pc + 1) /\ Now(t).op # "mark"
  <2>1. Now(t)' = Script[p][pc + 1] /\ Busy(t)'
    BY <1>1, <1>4 DEF Went, Now, Busy
  <2>2. Now(t) = Script[p][pc]
    BY DEF Now
  <2>3. pc \in 1..(n - 1)
    <3> HIDE DEF pc, n
    <3>1. QED
      BY <1>1, <1>4
  <2>4. Follows(p, pc, Now(t), Now(t)')
    BY <1>1, <2>1, <2>2, <2>3, ScriptsFlow DEF Flows
  <2>5. Now(t)'.op = "mark" => Now(t).op = "check"
    <3>1. pc <= n - 2 => Now(t)'.op # "mark"
      <4>1. ASSUME pc <= n - 2 PROVE pc + 1 # n
        <5> HIDE DEF pc, n
        <5>1. QED
          BY <1>1, <4>1
      <4>2. req'[t].page = p /\ req'[t].pc = pc + 1 /\ pc + 1 \in 1..n
        <5>1. pc + 1 \in 1..n
          <6> HIDE DEF pc, n
          <6>1. QED
            BY <1>1, <2>3
        <5>2. QED
          BY <1>4, <5>1 DEF Went
      <4>3. Now(t)'.op = "mark" <=> req'[t].pc = Len(Script[req'[t].page])
        BY <1>1, <4>2, OnlyTheLastMarks DEF Now
      <4>4. QED
        BY <4>1, <4>2, <4>3
    <3>2. pc \in 1..n /\ pc # n => pc <= n - 2 \/ pc = n - 1
      <4> HIDE DEF pc, n
      <4>1. QED
        BY <1>1
    <3>3. QED
      BY <1>1, <1>2, <1>4, <2>2, <3>1, <3>2
  <2>6. QED
    BY <1>1, <2>1, <2>4, <2>5 DEF At, Follows
<1>5. CASE /\ Went(t, Checks(p))
           /\ \/ Now(t).op \in {"gate", "choice"}
              \/ Now(t).op = "password" /\ Now(t).arg = "neo4j"
  <2>1. Now(t)' = Script[p][n - 1] /\ Checks(p) = n - 1
    BY <1>5 DEF Went, Now, Checks
  <2>2. QED
    BY <1>2, <1>5, <2>1 DEF At
<1>6. QED
  BY <1>3, <1>4, <1>5 DEF Moved

\* What a request is when it begins.
LEMMA Begins ==
  ASSUME WizardInv, WizardInv', NEW t \in Tab, Begin(t)
  PROVE  /\ ~Busy(t) /\ UNCHANGED <<disk, ctr>> /\ cut \subseteq cut'
         /\ \A u \in Tab \ {t} : req'[u] = req[u]
         /\ req'[t].page \in Pages /\ req'[t].page \notin done /\ req'[t].pc = 1
         /\ req'[t].page = "https" => req'[t].cert \in issued
         /\ ~At(t, "truncate")' /\ ~At(t, "save")' /\ ~At(t, "mark")'
         /\ \A u \in Tab \ {t} : req[u].page = req'[t].page => req'[t].page \in cut'
<1>1. /\ ~Busy(t) /\ UNCHANGED <<disk, ctr>> /\ cut \subseteq cut'
      /\ done # Pages /\ done \subseteq Pages
  BY DEF Begin, WizardInv, BoxInv
<1>2. PICK p \in Pages \ done :
        /\ \E pw \in Form(p), cert \in IF p = "https" THEN issued ELSE {"none"} :
             req' = [req EXCEPT ![t] = [NoRequest EXCEPT !.page = p, !.pw = pw, !.cert = cert]]
        /\ cut' = IF Sharing(t, p) THEN cut \cup {p} ELSE cut
  BY BeginsAPage
<1>3. PICK pw, cert :
        /\ cert \in IF p = "https" THEN issued ELSE {"none"}
        /\ req' = [req EXCEPT ![t] = [NoRequest EXCEPT !.page = p, !.pw = pw, !.cert = cert]]
  BY <1>2
<1> DEFINE r == [NoRequest EXCEPT !.page = p, !.pw = pw, !.cert = cert]
<1>4. r.page = p /\ r.pc = 1 /\ r.cert = cert
  BY DEF NoRequest
<1>5. req' = [req EXCEPT ![t] = r]
  BY <1>3
<1> HIDE DEF r
<1>6. req'[t] = r /\ \A u \in Tab \ {t} : req'[u] = req[u]
  BY <1>5, RequestsAreRecords
<1>7. Now(t)' = Script[p][1]
  BY <1>4, <1>6 DEF Now
<1>8. ~At(t, "truncate")' /\ ~At(t, "save")' /\ ~At(t, "mark")'
  BY <1>2, <1>7, ScriptsFlow DEF At, Flows
<1>9. ASSUME NEW u \in Tab \ {t}, req[u].page = p PROVE p \in cut'
  BY <1>2, <1>9 DEF Sharing
<1>10. p = "https" => cert \in issued
  BY <1>3
<1>11. QED
  BY <1>1, <1>2, <1>4, <1>6, <1>8, <1>9, <1>10

\* No request moves.
Still == req' = req

LEMMA OthersStay ==
  ASSUME NEW t \in Tab, \A u \in Tab \ {t} : req'[u] = req[u]
  PROVE  /\ \A u \in Tab \ {t} : Busy(u)' <=> Busy(u)
         /\ \A u \in Tab \ {t} : Now(u)' = Now(u)
         /\ \A u \in Tab \ {t} : At(u, "truncate")' <=> At(u, "truncate")
         /\ \A u \in Tab \ {t} : At(u, "save")' <=> At(u, "save")
         /\ \A u \in Tab \ {t} : At(u, "mark")' <=> At(u, "mark")
<1>1. \A u \in Tab \ {t} : Busy(u)' <=> Busy(u)
  BY DEF Busy
<1>2. \A u \in Tab \ {t} : Now(u)' = Now(u)
  BY DEF Now
<1>3. \A u \in Tab \ {t} : At(u, "truncate")' <=> At(u, "truncate")
  BY DEF At, Busy, Now
<1>4. \A u \in Tab \ {t} : At(u, "save")' <=> At(u, "save")
  BY DEF At, Busy, Now
<1>5. \A u \in Tab \ {t} : At(u, "mark")' <=> At(u, "mark")
  BY DEF At, Busy, Now
<1>6. QED
  BY <1>1, <1>2, <1>3, <1>4, <1>5

\* What a step of the wizard is.
LEMMA NextIs ==
  ASSUME [Next]_vars
  PROVE  \/ \E t \in Tab : \/ Begin(t) \/ Skip(t) \/ RequestSigning(t)
                           \/ Step(t) \/ CommandFails(t) \/ ProbeFails(t)
         \/ \E c \in Service : ContainerReady(c) \/ ContainerDies(c) \/ ContainerRestarts(c)
         \/ Crash
         \/ UNCHANGED vars
BY DEF Next

-----------------------------------------------------------------------------
(* What is in secrets.env.                                                 *)

\* The lines of the file, or the ones that are about to be written to it.
File == IF Whole THEN env ELSE req[CHOOSE t \in Tab : At(t, "save")].snap

\* One save at a time: it writes what it read.
SavingInv ==
  /\ \A t, u \in Tab : Saving(t) /\ Saving(u) => t = u
  /\ \A t \in Tab : At(t, "truncate") => req[t].snap = env
  /\ \A t \in Tab : At(t, "save") => env = [n \in Names |-> "none"]

Typed(t) == IF req[t].pw = "none" THEN "set" ELSE req[t].pw

FileFollows ==
  /\ Whole => File = env
  /\ \A t \in Tab : At(t, "save") => File = req[t].snap

LEMMA FileIs == SavingInv => FileFollows
<1>1. ASSUME SavingInv, NEW t \in Tab, At(t, "save") PROVE File = req[t].snap
  <2> DEFINE saver == CHOOSE u \in Tab : At(u, "save")
  <2>1. ~Whole /\ At(saver, "save") /\ saver \in Tab
    BY <1>1 DEF Whole
  <2>2. saver = t
    BY <1>1, <2>1 DEF SavingInv, Saving
  <2>3. QED
    BY <2>1, <2>2 DEF File
<1>2. QED
  BY <1>1 DEF File, FileFollows

\* The same of the next state.
LEMMA FileIsNext == (SavingInv => FileFollows)'
BY FileIs, PTL

\* A step that has nothing to do with the file.
Quiet ==
  /\ env' = env
  /\ \A u \in Tab : At(u, "truncate")' => At(u, "truncate") /\ req'[u].snap = req[u].snap
  /\ \A u \in Tab : At(u, "save")' => At(u, "save") /\ req'[u].snap = req[u].snap
  /\ \A u \in Tab : At(u, "save") => At(u, "save")'

LEMMA QuietKeeps == ASSUME SavingInv, Quiet PROVE SavingInv' /\ File' = File
<1>1. SavingInv'
  BY DEF SavingInv, Quiet, Saving
<1>2. CASE Whole
  <2>1. Whole'
    BY <1>2 DEF Whole, Quiet
  <2>2. QED
    BY <1>1, <1>2, <2>1, FileIs, FileIsNext DEF Quiet, FileFollows
<1>3. CASE ~Whole
  <2>1. PICK t \in Tab : At(t, "save")
    BY <1>3 DEF Whole
  <2>2. At(t, "save")' /\ req'[t].snap = req[t].snap
    BY <2>1 DEF Quiet
  <2>3. QED
    BY <1>1, <2>1, <2>2, FileIs, FileIsNext DEF FileFollows
<1>4. QED
  BY <1>2, <1>3

\* The other tabs' requests, and the one that works on something else.
LEMMA OthersQuiet ==
  ASSUME NEW t \in Tab, \A u \in Tab \ {t} : req'[u] = req[u], env' = env,
         ~At(t, "truncate")', ~At(t, "save")', ~At(t, "save")
  PROVE  Quiet
BY OthersStay DEF Quiet

LEMMA StillQuiet == ASSUME Still, env' = env PROVE Quiet
BY DEF Still, Quiet, At, Busy, Now

\* The steps that read nothing and save nothing.
LEMMA QuietSteps ==
  ASSUME WizardInv, WizardInv', [Next]_vars, "secrets.env" \notin cut',
         \A t \in Tab : ~ReadSecrets(t) /\ ~TruncateSecrets(t) /\ ~WriteSecrets(t)
  PROVE  Quiet
<1>1. ASSUME NEW t \in Tab, Begin(t) PROVE Quiet
  <2>1. ~At(t, "save") /\ env' = env
    BY <1>1, Begins DEF At, disk
  <2>2. QED
    BY <1>1, <2>1, Begins, OthersQuiet
<1>2. ASSUME NEW t \in Tab, Skip(t) \/ RequestSigning(t) PROVE Quiet
  BY <1>2, StillQuiet DEF Skip, RequestSigning, Still
<1>3. ASSUME NEW t \in Tab, Step(t) \/ CommandFails(t) \/ ProbeFails(t) PROVE Quiet
  <2>1. Moved(t)
    BY <1>3, StepMoves
  <2>2. /\ env' = env
        /\ ~At(t, "read") /\ ~At(t, "truncate") /\ ~At(t, "save")
    <3>1. ASSUME Need(t) \/ Refuse(t) \/ Gate(t) \/ Effect(t) \/ CommandFails(t) \/ ProbeFails(t)
          PROVE  env' = env /\ ~At(t, "read") /\ ~At(t, "truncate") /\ ~At(t, "save")
      BY <3>1 DEF Need, Refuse, Gate, Effect, CommandFails, ProbeFails, At, disk
    <3>2. ASSUME SetPassword(t) \/ Neo4jPassword(t) \/ GrafanaPassword(t)
          PROVE  env' = env /\ ~At(t, "read") /\ ~At(t, "truncate") /\ ~At(t, "save")
      BY <3>2 DEF SetPassword, Neo4jPassword, GrafanaPassword, At
    <3>3. ASSUME Compose(t) \/ WaitForLog(t) \/ MatchKey(t) \/ TakeKey(t) \/ InstallPair(t)
                 \/ DropKey(t) \/ SelfSign(t) \/ Check(t) \/ Mark(t)
          PROVE  env' = env /\ ~At(t, "read") /\ ~At(t, "truncate") /\ ~At(t, "save")
      BY <3>3 DEF Compose, WaitForLog, MatchKey, TakeKey, InstallPair, DropKey, SelfSign,
         Check, Mark, At, disk
    <3>4. QED
      BY <1>3, <3>1, <3>2, <3>3 DEF Step
  <2>3. ~At(t, "truncate")' /\ ~At(t, "save")' /\ \A u \in Tab \ {t} : req'[u] = req[u]
    BY <2>1, <2>2, NewPlace DEF Moved
  <2>4. QED
    BY <2>2, <2>3, OthersQuiet
<1>4. ASSUME NEW c \in Service, ContainerReady(c) \/ ContainerDies(c) \/ ContainerRestarts(c)
      PROVE  Quiet
  BY <1>4, StillQuiet DEF ContainerReady, ContainerDies, ContainerRestarts, disk, Still
<1>5. ASSUME Crash PROVE Quiet
  <2>1. \A t \in Tab : ~At(t, "save")
    BY <1>5 DEF Crash
  <2>2. req' = [t \in Tab |-> NoRequest] /\ env' = env
    BY <1>5 DEF Crash, disk
  <2>3. \A t \in Tab : req'[t].page = "none"
    BY <2>2, NoRequestIsOne
  <2>4. (\A t \in Tab : ~At(t, "truncate")') /\ (\A t \in Tab : ~At(t, "save")')
    BY <2>3 DEF At, Busy
  <2>5. QED
    BY <2>1, <2>2, <2>4 DEF Quiet
<1>6. CASE UNCHANGED vars
  BY <1>6, StillQuiet DEF vars, Still
<1>7. QED
  BY <1>1, <1>2, <1>3, <1>4, <1>5, <1>6, NextIs

LEMMA ReadFollows ==
  ASSUME WizardInv, WizardInv', SavingInv, NEW t \in Tab, ReadSecrets(t), "secrets.env" \notin cut'
  PROVE  SavingInv' /\ File' = File
<1>1. At(t, "read") /\ env' = env /\ \A u \in Tab \ {t} : ~Saving(u)
  BY DEF ReadSecrets, disk
<1>2. Moved(t) /\ req'[t].snap = env /\ \A u \in Tab \ {t} : req'[u] = req[u]
  BY ReadTakes DEF Moved
<1>3. ~At(t, "save") /\ ~At(t, "save")'
  BY <1>1, <1>2, NewPlace DEF At
<1>4. /\ \A u \in Tab \ {t} : ~At(u, "truncate")'
      /\ \A u \in Tab \ {t} : ~At(u, "save")'
  BY <1>1, <1>2, OthersStay DEF Saving
<1>5. Whole /\ Whole'
  BY <1>1, <1>3, <1>4 DEF Whole, Saving
<1>6. SavingInv'
  BY <1>1, <1>2, <1>3, <1>4 DEF SavingInv, Saving
<1>7. QED
  BY <1>1, <1>5, <1>6, FileIs, FileIsNext DEF FileFollows

LEMMA TruncateFollows ==
  ASSUME WizardInv, WizardInv', SavingInv, NEW t \in Tab, TruncateSecrets(t)
  PROVE  SavingInv' /\ File' = File
<1>1. At(t, "truncate") /\ env' = [n \in Names |-> "none"] /\ Proceed(t)
  BY DEF TruncateSecrets
<1>2. /\ Moved(t) /\ Went(t, req[t].pc + 1) /\ req'[t].snap = req[t].snap
      /\ \A u \in Tab \ {t} : req'[u] = req[u]
  BY <1>1, GoTakes, WorkMoves DEF Proceed, At
<1>3. At(t, "save")' /\ ~At(t, "truncate")' /\ ~At(t, "save")
  BY <1>1, <1>2, NewPlace DEF At
<1>4. \A u \in Tab \ {t} : ~At(u, "truncate") /\ ~At(u, "save")
  BY <1>1 DEF SavingInv, Saving
<1>5. /\ \A u \in Tab \ {t} : ~At(u, "truncate")'
      /\ \A u \in Tab \ {t} : ~At(u, "save")'
  BY <1>2, <1>4, OthersStay
<1>6. Whole /\ req[t].snap = env
  BY <1>1, <1>3, <1>4 DEF Whole, SavingInv
<1>7. SavingInv'
  BY <1>1, <1>3, <1>5 DEF SavingInv, Saving
<1>8. QED
  BY <1>2, <1>3, <1>6, <1>7, FileIs, FileIsNext DEF FileFollows

LEMMA WriteFollows ==
  ASSUME WizardInv, WizardInv', SavingInv, NEW t \in Tab, WriteSecrets(t)
  PROVE  SavingInv' /\ File' = [File EXCEPT ![Now(t).arg] = Typed(t)]
<1>1. At(t, "save") /\ env' = [req[t].snap EXCEPT ![Now(t).arg] = Typed(t)]
  BY DEF WriteSecrets, Typed
<1>2. Moved(t) /\ \A u \in Tab \ {t} : req'[u] = req[u]
  BY WriteTakes DEF Moved
<1>3. ~At(t, "truncate")' /\ ~At(t, "save")'
  BY <1>1, <1>2, NewPlace DEF At
<1>4. \A u \in Tab \ {t} : ~At(u, "truncate") /\ ~At(u, "save")
  BY <1>1 DEF SavingInv, Saving
<1>5. /\ \A u \in Tab \ {t} : ~At(u, "truncate")'
      /\ \A u \in Tab \ {t} : ~At(u, "save")'
  BY <1>2, <1>4, OthersStay
<1>6. Whole'
  BY <1>3, <1>5 DEF Whole
<1>7. SavingInv'
  BY <1>3, <1>5 DEF SavingInv, Saving
<1>8. QED
  BY <1>1, <1>6, <1>7, FileIs, FileIsNext DEF FileFollows

-----------------------------------------------------------------------------
(* No save loses a name.                                                   *)

\* What a step does to a tab's request.
LEMMA HowItMoves ==
  ASSUME WizardInv, WizardInv', [Next]_vars, NEW u \in Tab
  PROVE  \/ req'[u] = req[u]
         \/ Begin(u)
         \/ Moved(u) /\ (Step(u) \/ CommandFails(u) \/ ProbeFails(u))
         \/ req'[u] = NoRequest /\ Crash
<1>1. ASSUME NEW t \in Tab, Begin(t) PROVE req'[u] = req[u] \/ Begin(u)
  BY <1>1, Begins
<1>2. ASSUME NEW t \in Tab, Skip(t) \/ RequestSigning(t) PROVE req'[u] = req[u]
  BY <1>2 DEF Skip, RequestSigning
<1>3. ASSUME NEW t \in Tab, Step(t) \/ CommandFails(t) \/ ProbeFails(t)
      PROVE  \/ req'[u] = req[u]
             \/ Moved(u) /\ (Step(u) \/ CommandFails(u) \/ ProbeFails(u))
  BY <1>3, StepMoves DEF Moved
<1>4. ASSUME NEW c \in Service, ContainerReady(c) \/ ContainerDies(c) \/ ContainerRestarts(c)
      PROVE  req'[u] = req[u]
  BY <1>4 DEF ContainerReady, ContainerDies, ContainerRestarts
<1>5. Crash => req'[u] = NoRequest
  BY DEF Crash
<1>6. UNCHANGED vars => req'[u] = req[u]
  BY DEF vars
<1>7. QED
  BY <1>1, <1>2, <1>3, <1>4, <1>5, <1>6, NextIs

\* What was caught half-way stays so.
LEMMA CutGrows == ASSUME [Next]_vars PROVE cut \subseteq cut'
<1>1. ASSUME NEW t \in Tab, Begin(t) \/ Skip(t) \/ RequestSigning(t) PROVE cut \subseteq cut'
  BY <1>1 DEF Begin, Skip, RequestSigning
<1>2. ASSUME NEW t \in Tab, Step(t) \/ CommandFails(t) \/ ProbeFails(t) PROVE cut \subseteq cut'
  BY <1>2 DEF Step, CommandFails, ProbeFails, Need, Refuse, Gate, Effect, SetPassword,
     Neo4jPassword, GrafanaPassword, ReadSecrets, TruncateSecrets, WriteSecrets, Compose,
     WaitForLog, MatchKey, TakeKey, InstallPair, DropKey, SelfSign, Check, Mark
<1>3. ASSUME NEW c \in Service, ContainerReady(c) \/ ContainerDies(c) \/ ContainerRestarts(c)
      PROVE  cut \subseteq cut'
  BY <1>3 DEF ContainerReady, ContainerDies, ContainerRestarts
<1>4. Crash => cut \subseteq cut'
  BY DEF Crash
<1>5. UNCHANGED vars => cut \subseteq cut'
  BY DEF vars
<1>6. QED
  BY <1>1, <1>2, <1>3, <1>4, <1>5, NextIs

\* Nothing but the write is done at a save, nothing but the check at a check.
LEMMA OneActionEach ==
  ASSUME NEW t \in Tab, Step(t) \/ CommandFails(t) \/ ProbeFails(t)
  PROVE  /\ Now(t).op = "save" => WriteSecrets(t)
         /\ Now(t).op = "check" => Check(t) \/ ProbeFails(t)
         /\ Now(t).op = "mark" => Mark(t)
<1>1. ASSUME Need(t) \/ Refuse(t) \/ Gate(t) \/ Effect(t) \/ CommandFails(t)
      PROVE  Now(t).op \notin {"save", "check", "mark"}
  BY <1>1 DEF Need, Refuse, Gate, Effect, CommandFails, At
<1>2. ASSUME SetPassword(t) \/ Neo4jPassword(t) \/ GrafanaPassword(t) \/ ReadSecrets(t)
             \/ TruncateSecrets(t)
      PROVE  Now(t).op \notin {"save", "check", "mark"}
  BY <1>2 DEF SetPassword, Neo4jPassword, GrafanaPassword, ReadSecrets, TruncateSecrets, At
<1>3. ASSUME Compose(t) \/ WaitForLog(t) \/ MatchKey(t) \/ TakeKey(t) \/ InstallPair(t)
             \/ DropKey(t) \/ SelfSign(t)
      PROVE  Now(t).op \notin {"save", "check", "mark"}
  BY <1>3 DEF Compose, WaitForLog, MatchKey, TakeKey, InstallPair, DropKey, SelfSign, At
<1>4. WriteSecrets(t) => Now(t).op = "save"
  BY DEF WriteSecrets, At
<1>5. Check(t) \/ ProbeFails(t) => Now(t).op = "check"
  BY DEF Check, ProbeFails, At
<1>6. Mark(t) => Now(t).op = "mark"
  BY DEF Mark, At
<1>7. QED
  BY <1>1, <1>2, <1>3, <1>4, <1>5, <1>6 DEF Step

\* What a page saves is a name of the file.
LEMMA SavedAreNames ==
  ASSUME NEW p \in Pages, NEW i \in 1..Len(Script[p]), Script[p][i].op = "save"
  PROVE  Script[p][i].arg \in Names
<1>1. Script[p][i].arg \in Arguments(p, {"save"})
  BY DEF Arguments
<1>2. QED
  BY <1>1 DEF Names, SavedBy

\* Step i of request r's page is behind it.
Behind(r) == 1..(r.pc - 1)

SavedSoFar(t) ==
  \A i \in Behind(req[t]) :
    Script[req[t].page][i].op = "save" => File[Script[req[t].page][i].arg] # "none"

SavesInv ==
  "secrets.env" \notin cut =>
    /\ SavingInv
    /\ \A t \in Tab : Busy(t) /\ req[t].page # "neo4j" => SavedSoFar(t)
    /\ \A t \in Tab : At(t, "mark") /\ req[t].page = "neo4j" => File["graph_url"] # "none"
    /\ \A p \in done \ skipped : \A n \in SavedBy[p] : File[n] # "none"

\* The steps behind a request that moves.
LEMMA BehindIt ==
  ASSUME WizardInv, WizardInv', NEW u \in Tab, Moved(u), req'[u] # NoRequest
  PROVE  LET p == req[u].page IN
         /\ p \in Pages /\ req'[u].page = p
         /\ req[u].pc \in 1..(Len(Script[p]) - 1)
         /\ Follows(p, req[u].pc, Now(u), Script[p][req[u].pc + 1])
         /\ \/ /\ req'[u].pc = req[u].pc + 1
               /\ Behind(req'[u]) = Behind(req[u]) \cup {req[u].pc}
            \/ /\ p \in {"neo4j", "ollama", "ssh_lockdown"}
               /\ Now(u).op \in {"gate", "choice", "password"}
               /\ Behind(req'[u]) \subseteq 1..(Len(Script[p]) - 1)
<1> DEFINE p == req[u].page
           pc == req[u].pc
           n == Len(Script[p])
<1>1. /\ p \in Pages /\ n \in Nat /\ n >= 2 /\ pc \in 1..n
      /\ pc = n => Now(u).op = "mark"
  BY Where DEF Moved
<1>2. Now(u).op # "mark" /\ req'[u].page = p
  BY DEF Moved, Went
<1>3. pc \in 1..(n - 1) /\ Follows(p, pc, Now(u), Script[p][pc + 1])
  BY <1>2, ItFollows DEF Moved
<1>4. CASE Went(u, pc + 1)
  <2>1. req'[u].pc = pc + 1
    BY <1>4 DEF Went
  <2>2. 1..((pc + 1) - 1) = (1..(pc - 1)) \cup {pc}
    <3> HIDE DEF pc
    <3>1. QED
      BY <1>1
  <2>3. QED
    BY <1>1, <1>2, <1>3, <2>1, <2>2 DEF Behind
<1>5. CASE /\ Went(u, Checks(p))
           /\ \/ Now(u).op \in {"gate", "choice"}
              \/ Now(u).op = "password" /\ Now(u).arg = "neo4j"
  <2>1. p \in {"neo4j", "ollama", "ssh_lockdown"}
    BY <1>3, <1>5 DEF Follows
  <2>2. req'[u].pc = n - 1
    BY <1>5 DEF Went, Checks
  <2>3. 1..((n - 1) - 1) \subseteq 1..(n - 1)
    <3> HIDE DEF n
    <3>1. QED
      BY <1>1
  <2>4. QED
    BY <1>1, <1>2, <1>3, <1>5, <2>1, <2>2, <2>3 DEF Behind
<1>6. QED
  BY <1>4, <1>5 DEF Moved

\* A step leaves the file's names in it, and a save adds one.
LEMMA FileGrows ==
  ASSUME WizardInv, WizardInv', SavingInv, [Next]_vars, "secrets.env" \notin cut'
  PROVE  /\ SavingInv'
         /\ \A n \in Names : File[n] # "none" => File'[n] # "none"
         /\ \A t \in Tab : WriteSecrets(t) => File'[Now(t).arg] # "none"
<1>1. CASE \E t \in Tab : WriteSecrets(t)
  <2>1. PICK t \in Tab : WriteSecrets(t)
    BY <1>1
  <2>2. SavingInv' /\ File' = [File EXCEPT ![Now(t).arg] = Typed(t)] /\ File = req[t].snap
    BY <2>1, WriteFollows, FileIs DEF WriteSecrets, FileFollows
  <2>3. Typed(t) # "none"
    BY DEF Typed
  <2>4. File \in [Names -> Password \cup {"none", "set"}]
    BY <2>2 DEF WizardInv, RequestInv, Request, Secrets
  <2>5. ASSUME NEW u \in Tab, WriteSecrets(u) PROVE u = t
    BY <2>1, <2>5 DEF SavingInv, Saving, WriteSecrets
  <2>6. Now(t).arg \in Names
    <3>1. At(t, "save") /\ Busy(t) /\ Now(t).op = "save"
      BY <2>1 DEF WriteSecrets, At
    <3>2. QED
      BY <3>1, Where, SavedAreNames DEF Now
  <2>7. QED
    BY <2>2, <2>3, <2>4, <2>5, <2>6
<1>2. CASE \A t \in Tab : ~WriteSecrets(t)
  <2>1. SavingInv' /\ File' = File
    <3>1. CASE \E t \in Tab : ReadSecrets(t)
      BY <3>1, ReadFollows
    <3>2. CASE \E t \in Tab : TruncateSecrets(t)
      BY <3>2, TruncateFollows
    <3>3. CASE \A t \in Tab : ~ReadSecrets(t) /\ ~TruncateSecrets(t)
      BY <1>2, <3>3, QuietSteps, QuietKeeps
    <3>4. QED
      BY <3>1, <3>2, <3>3
  <2>2. QED
    BY <1>2, <2>1
<1>3. QED
  BY <1>1, <1>2

LEMMA SavedStays ==
  ASSUME WizardInv, WizardInv', SavesInv, [Next]_vars, "secrets.env" \notin cut',
         NEW u \in Tab, Busy(u)', req'[u].page # "neo4j"
  PROVE  SavedSoFar(u)'
<1>1. "secrets.env" \notin cut
  BY CutGrows
<1>2. SavingInv /\ (Busy(u) /\ req[u].page # "neo4j" => SavedSoFar(u))
  BY <1>1 DEF SavesInv
<1>3. \A n \in Names : File[n] # "none" => File'[n] # "none"
  BY <1>2, FileGrows
<1>4. ASSUME NEW i \in Behind(req'[u]), Script[req'[u].page][i].op = "save"
      PROVE  File'[Script[req'[u].page][i].arg] # "none"
  <2> DEFINE p == req'[u].page
             n == Len(Script[p])
  <2>1. p \in Pages /\ req'[u].pc \in 1..n /\ n \in Nat
    <3>1. p \in Pages /\ req'[u].pc \in 1..n
      BY DEF WizardInv, RequestInv, Sent, Request, Busy
    <3>2. QED
      BY <3>1, ScriptsAreWork DEF WorkThenVerified
  <2>2. i \in 1..n
    <3>1. i \in 1..(req'[u].pc - 1)
      BY DEF Behind
    <3> HIDE DEF n
    <3>2. QED
      BY <2>1, <3>1
  <2>3. Script[p][i].arg \in Names
    BY <1>4, <2>1, <2>2, SavedAreNames
  <2>4. CASE req'[u] = req[u]
    <3>1. Busy(u) /\ req[u].page # "neo4j"
      BY <2>4 DEF Busy
    <3>2. File[Script[p][i].arg] # "none"
      BY <1>2, <1>4, <2>4, <3>1 DEF SavedSoFar
    <3>3. QED
      BY <1>3, <2>3, <3>2
  <2>5. CASE Begin(u)
    <3>1. req'[u].pc = 1
      BY <2>5, Begins
    <3>2. Behind(req'[u]) = {}
      BY <3>1 DEF Behind
    <3>3. QED
      BY <3>2
  <2>6. CASE Moved(u) /\ (Step(u) \/ CommandFails(u) \/ ProbeFails(u))
    <3>1. req'[u] # NoRequest
      BY NoRequestIsOne DEF Busy
    <3>2. /\ req[u].page = p /\ Busy(u) /\ Follows(p, req[u].pc, Now(u), Script[p][req[u].pc + 1])
      BY <2>6, <3>1, BehindIt DEF Moved
    <3>3. CASE i \in Behind(req[u])
      <4>1. File[Script[p][i].arg] # "none"
        BY <1>2, <1>4, <3>2, <3>3 DEF SavedSoFar
      <4>2. QED
        BY <1>3, <2>3, <4>1
    <3>4. CASE i = req[u].pc
      <4>1. Now(u) = Script[p][i]
        BY <3>2, <3>4 DEF Now
      <4>2. WriteSecrets(u)
        BY <1>4, <2>6, <4>1, OneActionEach
      <4>3. QED
        BY <1>2, <4>1, <4>2, FileGrows
    <3>5. CASE p \in {"neo4j", "ollama", "ssh_lockdown"} /\ i \in 1..(n - 1)
      <4>1. Follows(p, i, Script[p][i], Script[p][i + 1])
        BY <2>1, <3>5, ScriptsFlow DEF Flows
      <4>2. QED
        BY <1>4, <3>5, <4>1 DEF Follows
    <3>6. QED
      BY <2>6, <3>1, <3>2, <3>3, <3>4, <3>5, BehindIt
  <2>7. CASE req'[u] = NoRequest
    BY <2>7, NoRequestIsOne DEF Busy
  <2>8. QED
    BY <2>4, <2>5, <2>6, <2>7, HowItMoves
<1>5. QED
  BY <1>4 DEF SavedSoFar

\* A request gets to its mark only from its checks, with every row good.
LEMMA ToTheMark ==
  ASSUME WizardInv, WizardInv', [Next]_vars, NEW u \in Tab, At(u, "mark")', req'[u] # req[u]
  PROVE  /\ At(u, "check") /\ Verified(req[u])
         /\ req'[u].page = req[u].page /\ req'[u].pw = req[u].pw
         /\ UNCHANGED <<disk, ctr, cut>>
<1>1. req'[u] # NoRequest
  BY NoRequestIsOne DEF At, Busy
<1>2. ~Begin(u)
  BY Begins
<1>3. Moved(u) /\ (Step(u) \/ CommandFails(u) \/ ProbeFails(u))
  BY <1>1, <1>2, HowItMoves
<1>4. At(u, "check")
  BY <1>3, NewPlace
<1>5. Check(u)
  <2>1. ~ProbeFails(u)
    BY <1>1, AnswerTakes DEF ProbeFails
  <2>2. QED
    BY <1>3, <1>4, <2>1, OneActionEach DEF At
<1>6. Verified(req[u])
  BY <1>1, <1>5, AnswerTakes DEF Check
<1>7. req'[u].page = req[u].page /\ req'[u].pw = req[u].pw
  BY <1>1, <1>3 DEF Moved, Went
<1>8. QED
  BY <1>4, <1>5, <1>6, <1>7 DEF Check

\* A page gets done and not skipped only by its own request's mark.
LEMMA DoneByItsMark ==
  ASSUME [Next]_vars, NEW p \in done' \ skipped', p \notin done \ skipped
  PROVE  \E t \in Tab : Mark(t) /\ req[t].page = p
<1>1. ASSUME NEW t \in Tab, Begin(t) \/ RequestSigning(t) PROVE FALSE
  BY <1>1 DEF Begin, RequestSigning, disk
<1>2. ASSUME NEW t \in Tab, Skip(t) PROVE FALSE
  BY <1>2 DEF Skip
<1>3. ASSUME NEW t \in Tab, Step(t) \/ CommandFails(t) \/ ProbeFails(t), ~Mark(t) PROVE FALSE
  <2>1. UNCHANGED <<done, skipped>>
    BY <1>3 DEF Step, CommandFails, ProbeFails, Need, Refuse, Gate, Effect, SetPassword,
       Neo4jPassword, GrafanaPassword, ReadSecrets, TruncateSecrets, WriteSecrets, Compose,
       WaitForLog, MatchKey, TakeKey, InstallPair, DropKey, SelfSign, Check, disk
  <2>2. QED
    BY <2>1
<1>4. ASSUME NEW t \in Tab, Mark(t) PROVE req[t].page = p
  BY <1>4 DEF Mark
<1>5. ASSUME NEW c \in Service, ContainerReady(c) \/ ContainerDies(c) \/ ContainerRestarts(c)
      PROVE  FALSE
  BY <1>5 DEF ContainerReady, ContainerDies, ContainerRestarts, disk
<1>6. ~Crash
  BY DEF Crash, disk
<1>7. ~UNCHANGED vars
  BY DEF vars
<1>8. QED
  BY <1>1, <1>2, <1>3, <1>4, <1>5, <1>6, <1>7, NextIs

\* What stands behind a mark is the whole page.
LEMMA AtItsMark ==
  ASSUME WizardInv, NEW t \in Tab, At(t, "mark")
  PROVE  LET p == req[t].page IN
         /\ p \in Pages /\ Busy(t) /\ Script[p][Len(Script[p])].op = "mark"
         /\ Behind(req[t]) = 1..(Len(Script[p]) - 1)
         /\ 1..Len(Script[p]) = (1..(Len(Script[p]) - 1)) \cup {Len(Script[p])}
<1> DEFINE p == req[t].page
           n == Len(Script[p])
<1>1. p \in Pages /\ Busy(t) /\ n \in Nat /\ n >= 2
  BY Where DEF At
<1>2. req[t].pc = n /\ Script[p][n].op = "mark"
  BY <1>1, Places DEF At, Now
<1>3. Behind(req[t]) = 1..(n - 1)
  BY <1>2 DEF Behind
<1>4. 1..n = (1..(n - 1)) \cup {n}
  <2> HIDE DEF n
  <2>1. QED
    BY <1>1
<1>5. QED
  BY <1>1, <1>2, <1>3, <1>4

LEMMA BehindItsMark ==
  ASSUME WizardInv, NEW t \in Tab, At(t, "mark"), NEW ops, "mark" \notin ops,
         NEW x \in Arguments(req[t].page, ops)
  PROVE  \E i \in Behind(req[t]) :
           Script[req[t].page][i].op \in ops /\ Script[req[t].page][i].arg = x
<1>1. PICK i \in 1..Len(Script[req[t].page]) :
        Script[req[t].page][i].op \in ops /\ Script[req[t].page][i].arg = x
  BY DEF Arguments
<1>2. i \in Behind(req[t])
  BY <1>1, AtItsMark
<1>3. QED
  BY <1>1, <1>2

LEMMA GraphUrl == "graph_url" \in Names /\ \A n \in SavedBy["neo4j"] : n = "graph_url"
<1>1. "neo4j" \in Pages /\ SavedBy["neo4j"] = Arguments("neo4j", {"save"})
  BY DEF Pages, STEPS, SavedBy
<1>2. 9 \in 1..Len(Script["neo4j"]) /\ Script["neo4j"][9] = Do("save", "graph_url")
  BY Neo4jIs
<1>3. "graph_url" \in Names
  BY <1>1, <1>2, SavedAreNames, Fields
<1>4. ASSUME NEW i \in 1..Len(Script["neo4j"]), Script["neo4j"][i].op = "save"
      PROVE  Script["neo4j"][i].arg = "graph_url"
  <2>1. i \in 1..11
    BY Neo4jIs
  <2>2. i = 9
    BY <1>4, <2>1, Neo4jIs, Fields
  <2>3. QED
    BY <1>2, <2>2, Fields
<1>5. QED
  BY <1>1, <1>3, <1>4 DEF Arguments

LEMMA SavesKept == ASSUME WizardInv, WizardInv', SavesInv, [Next]_vars PROVE SavesInv'
<1>1. SUFFICES ASSUME "secrets.env" \notin cut' PROVE SavesInv'
  BY DEF SavesInv
<1>2. "secrets.env" \notin cut /\ SavingInv
  BY <1>1, CutGrows DEF SavesInv
<1>3. SavingInv' /\ \A n \in Names : File[n] # "none" => File'[n] # "none"
  BY <1>1, <1>2, FileGrows
<1>4. ASSUME NEW t \in Tab, Busy(t)', req'[t].page # "neo4j" PROVE SavedSoFar(t)'
  BY <1>1, <1>4, SavedStays
<1>5. ASSUME NEW t \in Tab, At(t, "mark")', req'[t].page = "neo4j"
      PROVE  File'["graph_url"] # "none"
  <2>1. File["graph_url"] # "none"
    <3>1. CASE req'[t] = req[t]
      <4>1. At(t, "mark") /\ req[t].page = "neo4j"
        BY <1>5, <3>1 DEF At, Busy, Now
      <4>2. QED
        BY <1>2, <4>1 DEF SavesInv
    <3>2. CASE req'[t] # req[t]
      <4>1. Verified(req[t]) /\ req[t].page = "neo4j"
        BY <1>5, <3>2, ToTheMark
      <4>2. env["graph_url"] # "none"
        <5>1. Verified(req[t]) = Neo4jRows(req[t].pw)
          BY <4>1 DEF Verified
        <5>2. QED
          BY <4>1, <5>1 DEF Neo4jRows, Saved
      <4>3. Whole
        <5>1. \A u \in Tab : ~At(u, "save")
          BY <1>2, <4>2, GraphUrl DEF SavingInv
        <5>2. QED
          BY <5>1 DEF Whole
      <4>4. QED
        BY <1>2, <4>2, <4>3, FileIs DEF FileFollows
    <3>3. QED
      BY <3>1, <3>2
  <2>2. QED
    BY <1>3, <2>1, GraphUrl
<1>6. ASSUME NEW p \in done' \ skipped', NEW n \in SavedBy[p] PROVE File'[n] # "none"
  <2>1. p \in Pages /\ n \in Names
    BY <1>6 DEF WizardInv, BoxInv, Names
  <2>2. File[n] # "none"
    <3>1. CASE p \in done \ skipped
      BY <1>2, <1>6, <3>1 DEF SavesInv
    <3>2. CASE p \notin done \ skipped
      <4>1. PICK t \in Tab : Mark(t) /\ req[t].page = p
        BY <1>6, <3>2, DoneByItsMark
      <4>2. At(t, "mark")
        BY <4>1 DEF Mark
      <4>3. Busy(t) /\ Behind(req[t]) = 1..(Len(Script[p]) - 1)
        BY <4>1, <4>2, AtItsMark
      <4>4. CASE p = "neo4j"
        BY <1>2, <1>6, <4>1, <4>2, <4>4, GraphUrl DEF SavesInv
      <4>5. CASE p # "neo4j"
        <5>1. SavedSoFar(t)
          BY <1>2, <4>1, <4>3, <4>5 DEF SavesInv
        <5>2. n \in Arguments(p, {"save"})
          BY <1>6, <2>1 DEF SavedBy
        <5>3. PICK i \in Behind(req[t]) : Script[p][i].op \in {"save"} /\ Script[p][i].arg = n
          BY <4>1, <4>2, <5>2, BehindItsMark
        <5>4. QED
          BY <4>1, <5>1, <5>3 DEF SavedSoFar
      <4>6. QED
        BY <4>4, <4>5
    <3>3. QED
      BY <3>1, <3>2
  <2>3. QED
    BY <1>3, <2>1, <2>2
<1>7. QED
  BY <1>3, <1>4, <1>5, <1>6 DEF SavesInv

\* The invariant of the saves, with what it takes of WizardInv.
LEMMA SavesInvHolds == Spec => []SavesInv
<1>1. Init => SavesInv
  <2> SUFFICES ASSUME Init PROVE SavesInv
    OBVIOUS
  <2>1. \A t \in Tab : req[t].page = "none"
    BY NoRequestIsOne DEF Init
  <2>2. \A t \in Tab : ~Busy(t) /\ ~At(t, "mark") /\ ~At(t, "truncate") /\ ~At(t, "save")
    BY <2>1 DEF Busy, At
  <2>3. done = {}
    BY DEF Init
  <2>4. QED
    BY <2>2, <2>3 DEF SavesInv, SavingInv, Saving
<1>2. WizardInv /\ WizardInv' /\ SavesInv /\ [Next]_vars => SavesInv'
  BY SavesKept
<1>3. QED
  BY <1>1, <1>2, WizardInvHolds, PTL DEF Spec

\* Whatever the tabs, passwords, keys and bounds: the names a page has saved
\* stay in secrets.env, however the saves of the pages come one after another
\* (secrets_env.py:9-22).
THEOREM SavedNamesStay == Spec => []NamesStay
<1>1. SavesInv => NamesStay
  BY FileIs DEF SavesInv, NamesStay, Saved, FileFollows
<1>2. QED
  BY <1>1, SavesInvHolds, PTL

-----------------------------------------------------------------------------
(* A page's requests come one at a time, unless they are caught.           *)

Alone ==
  /\ \A t, u \in Tab :
       Busy(t) /\ req[t].page = req[u].page /\ req[t].page \notin cut => t = u
  /\ \A p \in done \ (skipped \cup cut) : \A t \in Tab : req[t].page # p

\* Only its form changes a request's page.
LEMMA PageStays ==
  ASSUME WizardInv, WizardInv', [Next]_vars, NEW u \in Tab, ~Begin(u)
  PROVE  req'[u].page \in {req[u].page, "none"}
BY HowItMoves, NoRequestIsOne DEF Moved, Went

LEMMA AloneKept == ASSUME WizardInv, WizardInv', Alone, [Next]_vars PROVE Alone'
<1>1. cut \subseteq cut'
  BY CutGrows
<1>2. ASSUME NEW t \in Tab, NEW u \in Tab, t # u, req'[t].page # "none",
             req'[t].page = req'[u].page, req'[t].page \notin cut'
      PROVE  FALSE
  <2>1. CASE Begin(t)
    BY <1>2, <2>1, Begins
  <2>2. CASE Begin(u)
    BY <1>2, <2>2, Begins
  <2>3. CASE ~Begin(t) /\ ~Begin(u)
    <3>1. req'[t].page = req[t].page /\ req'[u].page = req[u].page
      BY <1>2, <2>3, PageStays
    <3>2. Busy(t) /\ req[t].page = req[u].page /\ req[t].page \notin cut
      BY <1>1, <1>2, <3>1 DEF Busy
    <3>3. QED
      BY <1>2, <3>2 DEF Alone
  <2>4. QED
    BY <2>1, <2>2, <2>3
<1>3. ASSUME NEW p \in done' \ (skipped' \cup cut'), NEW u \in Tab, req'[u].page = p
      PROVE  FALSE
  <2>1. p \in Pages /\ p # "none" /\ p \notin cut
    BY <1>1 DEF WizardInv, BoxInv, Pages, STEPS
  <2>2. CASE p \in done \ skipped
    <3>1. ~Begin(u)
      BY <1>3, <2>2, Begins
    <3>2. req[u].page = p
      BY <1>3, <2>1, <3>1, PageStays
    <3>3. QED
      BY <2>1, <2>2, <3>2 DEF Alone
  <2>3. CASE p \notin done \ skipped
    <3>1. PICK t \in Tab : Mark(t) /\ req[t].page = p
      BY <2>3, DoneByItsMark
    <3>2. Busy(t) /\ req'[t] = NoRequest /\ \A v \in Tab \ {t} : req'[v] = req[v]
      BY <3>1, AnswerTakes DEF Mark, At
    <3>3. u # t
      BY <1>3, <2>1, <3>2, NoRequestIsOne
    <3>4. req[u].page = p
      BY <1>3, <3>2, <3>3
    <3>5. QED
      BY <2>1, <3>1, <3>2, <3>3, <3>4 DEF Alone
  <2>4. QED
    BY <2>2, <2>3
<1>4. QED
  BY <1>2, <1>3 DEF Alone, Busy

LEMMA AloneHolds == Spec => []Alone
<1>1. Init => Alone
  BY NoRequestIsOne DEF Init, Alone, Busy
<1>2. WizardInv /\ WizardInv' /\ Alone /\ [Next]_vars => Alone'
  BY AloneKept
<1>3. QED
  BY <1>1, <1>2, WizardInvHolds, PTL DEF Spec

-----------------------------------------------------------------------------
(* The HTTPS page's pair.                                                  *)

\* What each operation of a script may change.
LEMMA OnlyThese ==
  ASSUME NEW t \in Tab, Step(t) \/ CommandFails(t) \/ ProbeFails(t)
  PROVE  /\ Now(t).op \notin {"install", "selfsign"} => tls' = tls
         /\ Now(t).op # "drop" => pending' = pending
         /\ Now(t).op # "password" => accepts' = accepts
         /\ Now(t).op \notin {"up", "recreate"} => ctr' = ctr
         /\ box \subseteq box' /\ issued' = issued
<1>1. ASSUME Need(t) \/ Refuse(t) \/ Gate(t) \/ CommandFails(t) \/ ProbeFails(t) \/ ReadSecrets(t)
             \/ WaitForLog(t) \/ MatchKey(t) \/ TakeKey(t) \/ Check(t)
      PROVE  UNCHANGED <<tls, pending, accepts, ctr, box, issued>>
  BY <1>1 DEF Need, Refuse, Gate, CommandFails, ProbeFails, ReadSecrets, WaitForLog,
     MatchKey, TakeKey, Check, disk
<1>2. ASSUME Effect(t) \/ TruncateSecrets(t) \/ WriteSecrets(t) \/ Mark(t)
      PROVE  UNCHANGED <<tls, pending, accepts, ctr, issued>> /\ box \subseteq box'
  BY <1>2 DEF Effect, Bring, TruncateSecrets, WriteSecrets, Mark
<1>3. ASSUME SetPassword(t) \/ Neo4jPassword(t) \/ GrafanaPassword(t)
      PROVE  UNCHANGED <<tls, pending, ctr, box, issued>> /\ Now(t).op = "password"
  BY <1>3 DEF SetPassword, Neo4jPassword, GrafanaPassword, At
<1>4. ASSUME Compose(t)
      PROVE  UNCHANGED <<tls, pending, accepts, box, issued>> /\ Now(t).op \in {"up", "recreate"}
  BY <1>4 DEF Compose, At, disk
<1>5. ASSUME InstallPair(t) \/ SelfSign(t)
      PROVE  /\ UNCHANGED <<pending, accepts, ctr, box, issued>>
             /\ Now(t).op \in {"install", "selfsign"}
  BY <1>5 DEF InstallPair, SelfSign, At
<1>6. ASSUME DropKey(t)
      PROVE  UNCHANGED <<tls, accepts, ctr, box, issued>> /\ Now(t).op = "drop"
  BY <1>6 DEF DropKey, At
<1>7. QED
  BY <1>1, <1>2, <1>3, <1>4, <1>5, <1>6 DEF Step

\* And which action does it.
LEMMA ActionsOfHttps ==
  ASSUME NEW t \in Tab, Step(t) \/ CommandFails(t) \/ ProbeFails(t)
  PROVE  /\ Now(t).op = "match" => MatchKey(t)
         /\ Now(t).op = "take" => TakeKey(t)
         /\ Now(t).op = "install" => InstallPair(t)
         /\ Now(t).op = "selfsign" => SelfSign(t) \/ tls' = tls
<1> DEFINE own == {"match", "take", "install", "selfsign"}
<1>1. ASSUME Need(t) \/ Refuse(t) \/ Gate(t) \/ Effect(t) \/ ProbeFails(t)
      PROVE  Now(t).op \notin own
  BY <1>1 DEF Need, Refuse, Gate, Effect, ProbeFails, At
<1>2. ASSUME SetPassword(t) \/ Neo4jPassword(t) \/ GrafanaPassword(t) \/ ReadSecrets(t)
             \/ TruncateSecrets(t) \/ WriteSecrets(t)
      PROVE  Now(t).op \notin own
  BY <1>2 DEF SetPassword, Neo4jPassword, GrafanaPassword, ReadSecrets, TruncateSecrets,
     WriteSecrets, At
<1>3. ASSUME Compose(t) \/ WaitForLog(t) \/ DropKey(t) \/ Check(t) \/ Mark(t)
      PROVE  Now(t).op \notin own
  BY <1>3 DEF Compose, WaitForLog, DropKey, Check, Mark, At
<1>4. MatchKey(t) => Now(t).op = "match"
  BY DEF MatchKey, At
<1>5. TakeKey(t) => Now(t).op = "take"
  BY DEF TakeKey, At
<1>6. InstallPair(t) => Now(t).op = "install"
  BY DEF InstallPair, At
<1>7. SelfSign(t) => Now(t).op = "selfsign"
  BY DEF SelfSign, At
<1>8. CommandFails(t) => Now(t).op \notin {"match", "take", "install"} /\ tls' = tls
  BY DEF CommandFails, At, disk
<1>9. QED
  BY <1>1, <1>2, <1>3, <1>4, <1>5, <1>6, <1>7, <1>8 DEF Step

Pair(c) == [cert |-> c, key |-> c]

\* How far a request of the HTTPS page has brought its pair.
OnItsWay(r) ==
  /\ r.cert \in Key
  /\ r.pc = 2 => pending = r.cert
  /\ r.pc >= 3 => r.key = r.cert
  /\ r.pc >= 4 => tls["https-ingress"] = Pair(r.cert)
  /\ r.pc >= 5 => tls["der-control-ingress"] = Pair(r.cert)

TlsType == tls \in [Front -> [cert : Key \cup {"none", "self"}, key : Key \cup {"none", "self"}]]

CertificatesInv ==
  /\ TlsType
  /\ "https" \notin cut =>
       /\ \A t \in Tab : req[t].page = "https" => OnItsWay(req[t])
       /\ HttpsPair

LEMMA Fronts ==
  /\ "https-ingress" \in Front /\ "der-control-ingress" \in Front
  /\ "https-ingress" # "der-control-ingress"
BY DEF Front

\* The HTTPS page's steps, by their places.
LEMMA HttpsPlaces ==
  ASSUME WizardInv, NEW t \in Tab, req[t].page = "https"
  PROVE  /\ req[t].pc \in 1..11 /\ Busy(t)
         /\ req[t].pc = 1 => Now(t).op = "match"
         /\ req[t].pc = 2 => Now(t).op = "take"
         /\ req[t].pc = 3 => Now(t).op = "install" /\ Now(t).arg = "https-ingress"
         /\ req[t].pc = 4 => Now(t).op = "install" /\ Now(t).arg = "der-control-ingress"
         /\ req[t].pc > 4 => Now(t).op \notin {"take", "install", "selfsign"}
<1>1. Busy(t)
  BY DEF Busy
<1>2. req[t].pc \in 1..11
  BY <1>1, Where, HttpsIs
<1>3. Now(t) = Script["https"][req[t].pc]
  BY DEF Now
<1>4. QED
  BY <1>1, <1>2, <1>3, HttpsIs, Fields

LEMMA TlsStays == ASSUME WizardInv, TlsType, [Next]_vars PROVE TlsType'
<1>1. ASSUME NEW t \in Tab, InstallPair(t) PROVE TlsType'
  <2>1. At(t, "install") /\ Busy(t)
    BY <1>1 DEF InstallPair, At
  <2>2. req[t].page = "https"
    BY <2>1, ItFollows DEF Follows, At
  <2>3. Now(t).arg \in Front
    BY <2>1, <2>2, HttpsPlaces, HttpsIs, Fields, Fronts DEF At, Now
  <2>4. req[t].cert \in Key \cup {"none"} /\ req[t].key \in Key \cup {"none"}
    BY DEF WizardInv, RequestInv, Request
  <2>5. QED
    BY <1>1, <2>3, <2>4 DEF InstallPair, TlsType
<1>2. ASSUME NEW t \in Tab, SelfSign(t) PROVE TlsType'
  <2> DEFINE f == "der-control-ingress"
  <2>1. \/ tls' = [tls EXCEPT ![f] = [cert |-> "self", key |-> "self"]]
        \/ tls' = [tls EXCEPT ![f] = tls[f]]
    BY <1>2 DEF SelfSign
  <2>2. QED
    BY <2>1, Fronts DEF TlsType
<1>3. CASE UNCHANGED tls
  BY <1>3 DEF TlsType
<1>4. ASSUME NEW t \in Tab, Step(t) \/ CommandFails(t) \/ ProbeFails(t) PROVE TlsType'
  BY <1>1, <1>2, <1>3, <1>4, OnlyThese, ActionsOfHttps
<1>5. ASSUME NEW t \in Tab, Begin(t) \/ Skip(t) \/ RequestSigning(t) PROVE UNCHANGED tls
  BY <1>5 DEF Begin, Skip, RequestSigning, disk
<1>6. ASSUME NEW c \in Service, ContainerReady(c) \/ ContainerDies(c) \/ ContainerRestarts(c)
      PROVE  UNCHANGED tls
  BY <1>6 DEF ContainerReady, ContainerDies, ContainerRestarts, disk
<1>7. Crash \/ UNCHANGED vars => UNCHANGED tls
  BY DEF Crash, disk, vars
<1>8. QED
  BY <1>3, <1>4, <1>5, <1>6, <1>7, NextIs

\* What the other pages' steps leave of it.
LEMMA NotHttps ==
  ASSUME WizardInv, TlsType, NEW t \in Tab, req[t].page # "https",
         Step(t) \/ CommandFails(t) \/ ProbeFails(t)
  PROVE  /\ tls'["https-ingress"] = tls["https-ingress"]
         /\ tls["der-control-ingress"].cert # "none" =>
              tls'["der-control-ingress"] = tls["der-control-ingress"]
         /\ pending' = pending
<1>1. Now(t).op \notin {"install", "drop"}
  <2>1. Busy(t)
    BY StepMoves DEF Moved
  <2>2. CASE Now(t).op # "mark"
    BY <2>1, <2>2, ItFollows DEF Follows
  <2>3. QED
    BY <2>2
<1>2. pending' = pending
  BY <1>1, OnlyThese
<1>3. CASE tls' = tls
  BY <1>2, <1>3
<1>4. CASE SelfSign(t)
  <2> DEFINE f == "der-control-ingress"
  <2>1. \/ tls[f].cert = "none" /\ tls' = [tls EXCEPT ![f] = [cert |-> "self", key |-> "self"]]
        \/ tls[f].cert # "none" /\ tls' = [tls EXCEPT ![f] = tls[f]]
    BY <1>4 DEF SelfSign
  <2>2. QED
    BY <1>2, <2>1, Fronts DEF TlsType
<1>5. QED
  BY <1>1, <1>3, <1>4, OnlyThese, ActionsOfHttps

\* The HTTPS page's own step brings its pair on.
LEMMA ItsOwnStep ==
  ASSUME WizardInv, WizardInv', TlsType, NEW t \in Tab, req[t].page = "https",
         OnItsWay(req[t]), Step(t) \/ CommandFails(t) \/ ProbeFails(t),
         req'[t].page = "https"
  PROVE  OnItsWay(req[t])'
<1>1. /\ Moved(t) /\ req'[t] # NoRequest
      /\ req[t].pc \in 1..11 /\ Busy(t)
  BY StepMoves, HttpsPlaces, NoRequestIsOne
<1>2. Went(t, req[t].pc + 1)
  <2>1. Now(t).op \notin {"gate", "choice"} /\ (Now(t).op = "password" => Now(t).arg # "neo4j")
    <3>1. CASE Now(t).op # "mark"
      BY <1>1, <3>1, ItFollows DEF Follows
    <3>2. QED
      BY <3>1
  <2>2. QED
    BY <1>1, <2>1 DEF Moved
<1>3. req'[t].pc = req[t].pc + 1 /\ req'[t].cert = req[t].cert
  BY <1>2 DEF Went
<1>4. CASE req[t].pc = 1
  <2>1. MatchKey(t)
    BY <1>4, HttpsPlaces, ActionsOfHttps
  <2>2. pending' = pending /\ pending = req[t].cert
    BY <1>1, <2>1, AnswerTakes DEF MatchKey, disk
  <2>3. QED
    BY <1>3, <1>4, <2>2 DEF OnItsWay
<1>5. CASE req[t].pc = 2
  <2>1. TakeKey(t)
    BY <1>5, HttpsPlaces, ActionsOfHttps
  <2>2. req'[t].key = pending
    BY <1>1, <2>1, TakeTakes
  <2>3. QED
    BY <1>3, <1>5, <2>2 DEF OnItsWay
<1>6. CASE req[t].pc = 3
  <2>1. InstallPair(t) /\ Now(t).arg = "https-ingress" /\ Now(t).op = "install"
    BY <1>6, HttpsPlaces, ActionsOfHttps
  <2>2. tls'["https-ingress"] = Pair(req[t].cert) /\ req'[t].key = req[t].key
    BY <1>2, <1>6, <2>1, Fronts DEF InstallPair, OnItsWay, Pair, TlsType, Went
  <2>3. QED
    BY <1>3, <1>6, <2>2 DEF OnItsWay
<1>7. CASE req[t].pc = 4
  <2>1. InstallPair(t) /\ Now(t).arg = "der-control-ingress" /\ Now(t).op = "install"
    BY <1>7, HttpsPlaces, ActionsOfHttps
  <2>2. /\ tls'["der-control-ingress"] = Pair(req[t].cert) /\ req'[t].key = req[t].key
        /\ tls'["https-ingress"] = tls["https-ingress"]
    BY <1>2, <1>7, <2>1, Fronts DEF InstallPair, OnItsWay, Pair, TlsType, Went
  <2>3. QED
    BY <1>3, <1>7, <2>2 DEF OnItsWay
<1>8. CASE req[t].pc > 4
  <2>1. Now(t).op \notin {"take", "install", "selfsign"}
    BY <1>8, HttpsPlaces
  <2>2. tls' = tls /\ req'[t].key = req[t].key
    BY <1>2, <2>1, OnlyThese DEF Went
  <2>3. QED
    BY <1>1, <1>3, <1>8, <2>2 DEF OnItsWay
<1>9. QED
  BY <1>1, <1>4, <1>5, <1>6, <1>7, <1>8

LEMMA CertificatesKept ==
  ASSUME WizardInv, WizardInv', Alone, Alone', CertificatesInv, [Next]_vars
  PROVE  CertificatesInv'
<1>1. TlsType'
  BY TlsStays DEF CertificatesInv
<1>2. SUFFICES ASSUME "https" \notin cut'
               PROVE  /\ \A t \in Tab : req'[t].page = "https" => OnItsWay(req[t])'
                      /\ HttpsPair'
  BY <1>1 DEF CertificatesInv
<1>3. /\ "https" \notin cut /\ TlsType /\ HttpsPair
      /\ \A t \in Tab : req[t].page = "https" => OnItsWay(req[t])
  BY <1>2, CutGrows DEF CertificatesInv
<1>4. CASE \E t \in Tab : req[t].page = "https" /\ (Step(t) \/ CommandFails(t) \/ ProbeFails(t))
  <2>1. PICK t \in Tab : req[t].page = "https" /\ (Step(t) \/ CommandFails(t) \/ ProbeFails(t))
    BY <1>4
  <2>2. Busy(t) /\ Moved(t)
    BY <2>1, StepMoves DEF Moved
  <2>3. ASSUME NEW u \in Tab, req'[u].page = "https" PROVE OnItsWay(req[u])'
    <3>1. CASE u = t
      BY <1>3, <2>1, <2>3, <3>1, ItsOwnStep
    <3>2. CASE u # t
      <4>1. req[u].page = "https"
        BY <2>2, <2>3, <3>2 DEF Moved
      <4>2. QED
        BY <1>3, <2>1, <2>2, <3>2, <4>1 DEF Alone
    <3>3. QED
      BY <3>1, <3>2
  <2>4. ASSUME "https" \in done' \ skipped' PROVE HttpsPair'
    <3>1. "https" \notin done \ skipped
      BY <1>3, <2>1 DEF Alone
    <3>2. PICK m \in Tab : Mark(m) /\ req[m].page = "https"
      BY <2>4, <3>1, DoneByItsMark
    <3>3. At(m, "mark") /\ tls' = tls
      BY <3>2 DEF Mark
    <3>4. req[m].pc = 11
      BY <3>2, <3>3, Places, HttpsIs DEF At
    <3>5. /\ tls["https-ingress"] = Pair(req[m].cert) /\ req[m].cert \in Key
          /\ tls["der-control-ingress"] = Pair(req[m].cert)
      BY <1>3, <3>2, <3>4 DEF OnItsWay
    <3>6. Pair(req[m].cert).cert = req[m].cert /\ Pair(req[m].cert).key = req[m].cert
      BY DEF Pair
    <3>7. QED
      BY <3>3, <3>5, <3>6, WizardAssumption DEF HttpsPair, Paired
  <2>5. QED
    BY <2>3, <2>4 DEF HttpsPair
<1>5. CASE \A t \in Tab : req[t].page = "https" => ~(Step(t) \/ CommandFails(t) \/ ProbeFails(t))
  <2>1. /\ tls'["https-ingress"] = tls["https-ingress"]
        /\ tls["der-control-ingress"].cert # "none" =>
             tls'["der-control-ingress"] = tls["der-control-ingress"]
        /\ pending' = pending \/ \E t \in Tab : RequestSigning(t)
    <3>1. ASSUME NEW t \in Tab, Begin(t) \/ Skip(t) \/ RequestSigning(t)
          PROVE  tls' = tls /\ (RequestSigning(t) \/ pending' = pending)
      BY <3>1 DEF Begin, Skip, RequestSigning, disk
    <3>2. ASSUME NEW c \in Service,
                 ContainerReady(c) \/ ContainerDies(c) \/ ContainerRestarts(c)
          PROVE  UNCHANGED <<tls, pending>>
      BY <3>2 DEF ContainerReady, ContainerDies, ContainerRestarts, disk
    <3>3. Crash \/ UNCHANGED vars => UNCHANGED <<tls, pending>>
      BY DEF Crash, disk, vars
    <3>4. QED
      BY <1>3, <1>5, <3>1, <3>2, <3>3, NextIs, NotHttps
  <2>2. ASSUME NEW u \in Tab, req'[u].page = "https" PROVE OnItsWay(req[u])'
    <3>1. CASE Begin(u)
      <4>1. req'[u].pc = 1 /\ req'[u].cert \in Key
        BY <2>2, <3>1, Begins DEF WizardInv, BoxInv
      <4>2. QED
        BY <4>1 DEF OnItsWay
    <3>2. CASE ~Begin(u)
      <4>1. req[u].page = "https" /\ req'[u] = req[u]
        <5>1. req'[u] # NoRequest
          BY <2>2, NoRequestIsOne
        <5>2. \/ req'[u] = req[u]
              \/ Moved(u) /\ (Step(u) \/ CommandFails(u) \/ ProbeFails(u))
          BY <3>2, <5>1, HowItMoves
        <5>3. req[u].page = "https"
          BY <2>2, <3>2, PageStays
        <5>4. QED
          BY <1>5, <5>2, <5>3
      <4>2. \A t \in Tab : ~RequestSigning(t)
        <5>1. ASSUME NEW t \in Tab, RequestSigning(t) PROVE FALSE
          <6>1. t # u
            BY <4>1, <5>1 DEF RequestSigning, Busy
          <6>2. Sharing(t, "https")
            BY <4>1, <6>1 DEF Sharing
          <6>3. QED
            BY <1>2, <5>1, <6>2 DEF RequestSigning
        <5>2. QED
          BY <5>1
      <4>3. OnItsWay(req[u])
        BY <1>3, <4>1
      <4>4. req[u].pc >= 5 => tls["der-control-ingress"].cert # "none"
        BY <4>3, WizardAssumption DEF OnItsWay, Pair
      <4>5. QED
        BY <2>1, <4>1, <4>2, <4>3, <4>4 DEF OnItsWay
    <3>3. QED
      BY <3>1, <3>2
  <2>3. ASSUME "https" \in done' \ skipped' PROVE HttpsPair'
    <3>1. "https" \in done \ skipped
      <4>1. ASSUME NEW m \in Tab, Mark(m), req[m].page = "https" PROVE FALSE
        BY <1>5, <4>1 DEF Step
      <4>2. QED
        BY <2>3, <4>1, DoneByItsMark
    <3>2. /\ Paired("https-ingress")
          /\ tls["der-control-ingress"] = tls["https-ingress"]
      BY <1>3, <3>1 DEF HttpsPair
    <3>3. tls' ["https-ingress"] = tls["https-ingress"]
          /\ tls'["der-control-ingress"] = tls["https-ingress"]
      BY <2>1, <3>2 DEF Paired
    <3>4. QED
      BY <3>2, <3>3 DEF HttpsPair, Paired
  <2>4. QED
    BY <2>2, <2>3 DEF HttpsPair
<1>6. QED
  BY <1>4, <1>5

LEMMA CertificatesHold == Spec => []CertificatesInv
<1>1. Init => CertificatesInv
  BY NoRequestIsOne DEF Init, CertificatesInv, TlsType, HttpsPair
<1>2. WizardInv /\ WizardInv' /\ Alone /\ Alone' /\ CertificatesInv /\ [Next]_vars
        => CertificatesInv'
  BY CertificatesKept
<1>3. QED
  BY <1>1, <1>2, WizardInvHolds, AloneHolds, PTL DEF Spec

\* Whatever the tabs, keys and bounds: once the HTTPS page is done both front
\* ends have the certificate it was sent and the key made for it
\* (https_service.py:53-67, 155-169).
THEOREM BothFrontsArePaired == Spec => []HttpsPair
<1>1. CertificatesInv => HttpsPair
  BY DEF CertificatesInv, HttpsPair
<1>2. QED
  BY <1>1, CertificatesHold, PTL

-----------------------------------------------------------------------------
(* The passwords.                                                          *)

Between(t) == At(t, "read") \/ Saving(t)

HasSaved(t) == \E i \in Behind(req[t]) : Script[req[t].page][i].op = "save"

\* What is known of a request of daemon d's page.
Entrusted(d, t) ==
  /\ At(t, "mark") => accepts[d] = req[t].pw
  /\ d # "neo4j" /\ HasSaved(t) => File[UrlOf[d]] = req[t].pw
  /\ d = "neo4j" /\ Between(t) => accepts[d] = req[t].pw

\* Neo4j's password is its default or the saved one, but for a request that
\* has changed it and is about to save it.
Known(d) ==
  \/ accepts[d] \in {"default", File[UrlOf[d]]}
  \/ \E t \in Tab : req[t].page = d /\ Between(t)

PasswordsInv ==
  "secrets.env" \notin cut =>
    \A d \in Daemon \ cut :
      /\ d \in done => accepts[d] = File[UrlOf[d]]
      /\ \A t \in Tab : req[t].page = d => Entrusted(d, t)
      /\ d = "neo4j" => Known(d)

LEMMA Urls ==
  /\ Daemon = {"postgres", "neo4j", "hivemq", "grafana"}
  /\ UrlOf["postgres"] = "postgres_urls" /\ UrlOf["neo4j"] = "graph_url"
  /\ UrlOf["hivemq"] = "broker_passwords" /\ UrlOf["grafana"] = "grafana_password"
BY DEF Daemon, UrlOf

LEMMA DaemonsArePages ==
  ASSUME NEW d \in Daemon
  PROVE  d \in Pages /\ d \notin Skippable /\ d \notin {"none", "ollama", "ssh_lockdown"}
BY Urls DEF Pages, STEPS, Skippable

\* A step changes no other page's password.
LEMMA PasswordOfItsPage ==
  ASSUME WizardInv, NEW t \in Tab, Step(t) \/ CommandFails(t) \/ ProbeFails(t),
         NEW d \in Daemon, req[t].page # d
  PROVE  accepts'[d] = accepts[d]
<1>1. CASE Now(t).op # "password"
  BY <1>1, OnlyThese
<1>2. CASE Now(t).op = "password"
  <2>1. Now(t).arg # d
    <3>1. Busy(t)
      BY StepMoves DEF Moved
    <3>2. QED
      BY <1>2, <3>1, ItFollows DEF Follows
  <2>2. accepts \in [Daemon -> Password \cup {"none", "default"}]
    BY DEF WizardInv, BoxInv
  <2>3. CASE accepts' = accepts
    BY <2>3
  <2>4. CASE SetPassword(t)
    BY <2>1, <2>2, <2>4 DEF SetPassword
  <2>5. CASE Neo4jPassword(t)
    BY <2>1, <2>2, <2>5 DEF Neo4jPassword
  <2>6. CASE GrafanaPassword(t)
    <3>1. \E x : accepts' = [accepts EXCEPT !["grafana"] = x]
      BY <2>6 DEF GrafanaPassword
    <3>2. QED
      BY <2>1, <2>2, <2>6, <3>1 DEF GrafanaPassword
  <2>7. SetPassword(t) \/ Neo4jPassword(t) \/ GrafanaPassword(t) \/ accepts' = accepts
    BY DEF Step, CommandFails, ProbeFails, Need, Refuse, Gate, Effect, ReadSecrets,
       TruncateSecrets, WriteSecrets, Compose, WaitForLog, MatchKey, TakeKey, InstallPair,
       DropKey, SelfSign, Check, Mark, disk
  <2>8. QED
    BY <2>3, <2>4, <2>5, <2>6, <2>7
<1>3. QED
  BY <1>1, <1>2

\* A daemon's page saves its password, and no other page does.
LEMMA SavedByItsPage ==
  ASSUME WizardInv, WizardInv', SavingInv, NEW t \in Tab, WriteSecrets(t), NEW d \in Daemon
  PROVE  /\ req[t].page # d => File'[UrlOf[d]] = File[UrlOf[d]]
         /\ req[t].page = d => File'[UrlOf[d]] = req[t].pw
<1>1. Busy(t) /\ Now(t).op = "save"
  BY DEF WriteSecrets, At
<1>2. Now(t).arg = UrlOf[d] <=> req[t].page = d
  BY <1>1, ItFollows, Urls DEF Follows
<1>3. Now(t).arg \in Names
  BY <1>1, Where, SavedAreNames DEF Now
<1>4. File \in [Names -> Password \cup {"none", "set"}]
  <2>1. File = req[t].snap
    BY FileIs DEF WriteSecrets, FileFollows
  <2>2. QED
    BY <2>1 DEF WizardInv, RequestInv, Request, Secrets
<1>5. File' = [File EXCEPT ![Now(t).arg] = Typed(t)]
  BY WriteFollows
<1>6. req[t].page = d => Typed(t) = req[t].pw
  BY <1>1, WizardAssumption DEF Typed, WizardInv, RequestInv, Sent
<1>7. QED
  BY <1>2, <1>3, <1>4, <1>5, <1>6

\* The saved password of a daemon changes only with its page's save.
LEMMA SavedPasswordStays ==
  ASSUME WizardInv, WizardInv', SavingInv, [Next]_vars, "secrets.env" \notin cut',
         NEW d \in Daemon
  PROVE  \/ File'[UrlOf[d]] = File[UrlOf[d]]
         \/ \E w \in Tab : /\ WriteSecrets(w) /\ req[w].page = d
                           /\ File'[UrlOf[d]] = req[w].pw
<1>1. CASE \E t \in Tab : WriteSecrets(t)
  BY <1>1, SavedByItsPage
<1>2. CASE \E t \in Tab : ReadSecrets(t)
  BY <1>2, ReadFollows
<1>3. CASE \E t \in Tab : TruncateSecrets(t)
  BY <1>3, TruncateFollows
<1>4. CASE \A t \in Tab : ~ReadSecrets(t) /\ ~TruncateSecrets(t) /\ ~WriteSecrets(t)
  BY <1>4, QuietSteps, QuietKeeps
<1>5. QED
  BY <1>1, <1>2, <1>3, <1>4

\* Every daemon's page has saved its password by its mark.
LEMMA DaemonsSave ==
  ASSUME WizardInv, NEW t \in Tab, At(t, "mark"), req[t].page \in Daemon
  PROVE  HasSaved(t)
<1> DEFINE p == req[t].page
<1>1. Behind(req[t]) = 1..(Len(Script[p]) - 1)
  BY AtItsMark
<1>2. CASE p = "postgres"
  <2>1. 10 \in Behind(req[t]) /\ Script[p][10].op = "save"
    BY <1>1, <1>2, PostgresIs, Fields
  <2>2. QED
    BY <2>1 DEF HasSaved
<1>3. CASE p = "neo4j"
  <2>1. 9 \in Behind(req[t]) /\ Script[p][9].op = "save"
    BY <1>1, <1>3, Neo4jIs, Fields
  <2>2. QED
    BY <2>1 DEF HasSaved
<1>4. CASE p = "hivemq"
  <2>1. 5 \in Behind(req[t]) /\ Script[p][5].op = "save"
    BY <1>1, <1>4, HivemqIs, Fields
  <2>2. QED
    BY <2>1 DEF HasSaved
<1>5. CASE p = "grafana"
  <2>1. 3 \in Behind(req[t]) /\ Script[p][3].op = "save"
    BY <1>1, <1>5, GrafanaIs, Fields
  <2>2. QED
    BY <2>1 DEF HasSaved
<1>6. QED
  BY <1>2, <1>3, <1>4, <1>5, Urls

\* A neo4j request is about to read the file only once its password is set.
LEMMA Neo4jSets ==
  ASSUME WizardInv, WizardInv', NEW t \in Tab, req[t].page = "neo4j",
         Step(t) \/ CommandFails(t) \/ ProbeFails(t)
  PROVE  /\ At(t, "read")' => accepts'["neo4j"] = req[t].pw
         /\ accepts' # accepts => At(t, "read")'
<1>1. Busy(t) /\ Moved(t) /\ Now(t) = Script["neo4j"][req[t].pc]
  BY StepMoves DEF Moved, Now
<1>2. req[t].pc \in 1..11 /\ Len(Script["neo4j"]) = 11
  BY <1>1, Where, Neo4jIs
<1>3. Now(t).op = "password" <=> req[t].pc = 6
  BY <1>1, <1>2, Neo4jIs, Fields
<1>4. \A i \in 1..11 : Script["neo4j"][i].op = "read" <=> i = 7
  BY Neo4jIs, Fields
<1>5. Checks("neo4j") = 10
  BY <1>2 DEF Checks
<1>6. At(t, "read")' <=> req'[t] # NoRequest /\ req'[t].pc = 7
  <2>1. CASE req'[t] = NoRequest
    BY <2>1, NoRequestIsOne DEF At, Busy
  <2>2. CASE req'[t] # NoRequest
    <3>1. req'[t].page = "neo4j" /\ req'[t].pc \in 1..11
      BY <1>1, <1>2, <1>5, <2>2 DEF Moved, Went, WizardInv, RequestInv, Sent, Busy
    <3>2. QED
      BY <1>4, <2>2, <3>1 DEF At, Busy, Now
  <2>3. QED
    BY <2>1, <2>2
<1>7. CASE req[t].pc # 6
  <2>1. accepts' = accepts
    BY <1>3, <1>7, OnlyThese
  <2>2. req'[t] # NoRequest => req'[t].pc # 7
    BY <1>1, <1>2, <1>5, <1>7 DEF Moved, Went
  <2>3. QED
    BY <1>6, <2>1, <2>2
<1>8. CASE req[t].pc = 6
  <2>1. Now(t).op = "password" /\ Now(t).arg = "neo4j"
    BY <1>1, <1>8, Neo4jIs, Fields
  <2>2. Neo4jPassword(t)
    <3>1. ~CommandFails(t) /\ ~ProbeFails(t)
      BY <2>1 DEF CommandFails, ProbeFails, At
    <3>2. ~(Need(t) \/ Refuse(t) \/ Gate(t) \/ Effect(t) \/ SetPassword(t) \/ GrafanaPassword(t))
      BY <2>1 DEF Need, Refuse, Gate, Effect, SetPassword, GrafanaPassword, At
    <3>3. ~(ReadSecrets(t) \/ TruncateSecrets(t) \/ WriteSecrets(t) \/ Compose(t) \/ WaitForLog(t))
      BY <2>1 DEF ReadSecrets, TruncateSecrets, WriteSecrets, Compose, WaitForLog, At
    <3>4. ~(MatchKey(t) \/ TakeKey(t) \/ InstallPair(t) \/ DropKey(t) \/ SelfSign(t) \/ Check(t) \/ Mark(t))
      BY <2>1 DEF MatchKey, TakeKey, InstallPair, DropKey, SelfSign, Check, Mark, At
    <3>5. QED
      BY <3>1, <3>2, <3>3, <3>4 DEF Step
  <2>3. CASE accepts' = [accepts EXCEPT !["neo4j"] = req[t].pw] /\ Proceed(t)
    <3>1. accepts'["neo4j"] = req[t].pw
      BY <2>3, InDaemon DEF WizardInv, BoxInv
    <3>2. req'[t].pc = 7 /\ req'[t].page = "neo4j"
      BY <1>8, <2>3, GoTakes DEF Proceed, Went
    <3>3. QED
      BY <1>6, <3>1, <3>2, NoRequestIsOne
  <2>4. CASE accepts' = accepts /\ ToChecks(t)
    <3>1. req'[t].pc = 10
      BY <1>5, <2>4, GoTakes DEF ToChecks, Went
    <3>2. QED
      BY <1>6, <2>4, <3>1
  <2>5. QED
    BY <2>2, <2>3, <2>4 DEF Neo4jPassword
<1>9. QED
  BY <1>7, <1>8

\* The rows of a daemon's page try its password.
LEMMA RowsTryIt ==
  ASSUME WizardInv, NEW t \in Tab, req[t].page \in Daemon, Verified(req[t])
  PROVE  accepts[req[t].page] = req[t].pw
<1> DEFINE r == req[t]
<1>1. CASE r.page = "postgres"
  <2>1. Verified(r) = (PostgresRows(r.pw) /\ PostgresAccessRows(r.pw))
    BY <1>1 DEF Verified
  <2>2. QED
    BY <1>1, <2>1 DEF PostgresAccessRows, Opens
<1>2. CASE r.page = "neo4j"
  <2>1. Verified(r) = Neo4jRows(r.pw)
    BY <1>2 DEF Verified
  <2>2. QED
    BY <1>2, <2>1 DEF Neo4jRows, Opens
<1>3. CASE r.page = "hivemq"
  <2>1. Verified(r) = HivemqRows(r.pw)
    BY <1>3 DEF Verified
  <2>2. QED
    BY <1>3, <2>1 DEF HivemqRows, Opens
<1>4. CASE r.page = "grafana"
  <2>1. Verified(r) = GrafanaRows(r.pw)
    BY <1>4 DEF Verified
  <2>2. QED
    BY <1>4, <2>1 DEF GrafanaRows, Opens
<1>5. QED
  BY <1>1, <1>2, <1>3, <1>4, Urls

\* At its mark a daemon's page has saved the password that opens the daemon.
LEMMA MarkedAgrees ==
  ASSUME WizardInv, Alone, NEW t \in Tab, NEW d \in Daemon, At(t, "mark"), req[t].page = d,
         d \notin cut, Entrusted(d, t), d = "neo4j" => Known(d)
  PROVE  accepts[d] = File[UrlOf[d]]
<1>1. accepts[d] = req[t].pw
  BY DEF Entrusted
<1>2. CASE d # "neo4j"
  <2>1. HasSaved(t)
    BY DaemonsSave
  <2>2. QED
    BY <1>1, <1>2, <2>1 DEF Entrusted
<1>3. CASE d = "neo4j"
  <2>1. Busy(t) /\ ~Between(t)
    BY DEF At, Between, Saving
  <2>2. \A u \in Tab : req[u].page = d => ~Between(u)
    BY <2>1 DEF Alone
  <2>3. accepts[d] \in {"default", File[UrlOf[d]]}
    BY <1>3, <2>2 DEF Known
  <2>4. req[t].pw \in Password
    BY <2>1 DEF WizardInv, RequestInv, Sent
  <2>5. QED
    BY <1>1, <2>3, <2>4, WizardAssumption
<1>4. QED
  BY <1>2, <1>3

\* The step of the one request of daemon d's page.
LEMMA OwnPasswordStep ==
  ASSUME WizardInv, WizardInv', [Next]_vars, Alone, SavingInv, "secrets.env" \notin cut',
         NEW d \in Daemon, d \notin cut,
         NEW w \in Tab, req[w].page = d, Step(w) \/ CommandFails(w) \/ ProbeFails(w),
         Entrusted(d, w), d = "neo4j" => Known(d)
  PROVE  /\ d \in done' => accepts'[d] = File'[UrlOf[d]]
         /\ \A t \in Tab : req'[t].page = d => Entrusted(d, t)'
         /\ d = "neo4j" => Known(d)'
<1>1. /\ Busy(w) /\ Moved(w) /\ \A u \in Tab \ {w} : req'[u] = req[u]
      /\ \A u \in Tab : req[u].page = d => u = w
      /\ d \notin done
  <2>1. Busy(w) /\ Moved(w)
    BY StepMoves DEF Moved
  <2>2. d \notin skipped
    BY DaemonsArePages DEF WizardInv, BoxInv
  <2>3. QED
    BY <2>1, <2>2 DEF Moved, Alone
<1>2. \A u \in Tab : WriteSecrets(u) /\ req[u].page = d => u = w
  BY <1>1
<1>3. Now(w).op = "mark" \/ Now(w).op = "check" => File'[UrlOf[d]] = File[UrlOf[d]]
  BY <1>2, SavedPasswordStays DEF WriteSecrets, At
<1>4. ASSUME d \in done' PROVE accepts'[d] = File'[UrlOf[d]]
  <2>1. PICK m \in Tab : Mark(m) /\ req[m].page = d
    <3>1. d \notin skipped'
      BY DaemonsArePages DEF WizardInv, BoxInv
    <3>2. QED
      BY <1>1, <1>4, <3>1, DoneByItsMark
  <2>2. m = w /\ At(w, "mark")
    BY <1>1, <2>1 DEF Mark
  <2>3. accepts[d] = File[UrlOf[d]]
    BY <2>2, MarkedAgrees
  <2>4. accepts' = accepts /\ File'[UrlOf[d]] = File[UrlOf[d]]
    BY <1>3, <2>1, <2>2 DEF Mark, At
  <2>5. QED
    BY <2>3, <2>4
<1>5. ASSUME NEW t \in Tab, req'[t].page = d PROVE Entrusted(d, t)'
  <2>1. t = w
    BY <1>1, <1>5
  <2>2. req'[w] # NoRequest /\ req'[w].pw = req[w].pw /\ Now(w).op # "mark"
    BY <1>1, <1>5, <2>1, DaemonsArePages, NoRequestIsOne DEF Moved, Went
  <2>3. At(w, "mark")' => accepts'[d] = req'[w].pw
    <3>1. ASSUME At(w, "mark")' PROVE accepts'[d] = req'[w].pw
      <4>1. At(w, "check")
        BY <1>1, <3>1, NewPlace
      <4>2. req'[w] # req[w]
        BY <3>1, <4>1 DEF At, Now
      <4>3. Verified(req[w]) /\ accepts' = accepts
        BY <3>1, <4>2, ToTheMark DEF disk
      <4>4. QED
        BY <2>2, <4>3, RowsTryIt
    <3>2. QED
      BY <3>1
  <2>4. ASSUME d # "neo4j", HasSaved(w)' PROVE File'[UrlOf[d]] = req'[w].pw
    <3>1. PICK i \in Behind(req'[w]) : Script[d][i].op = "save"
      BY <1>5, <2>1, <2>4 DEF HasSaved
    <3>2. i \in Behind(req[w]) \/ i = req[w].pc
      BY <1>1, <2>2, <2>4, <3>1, BehindIt, DaemonsArePages
    <3>3. CASE i = req[w].pc
      <4>1. Now(w).op = "save"
        BY <3>1, <3>3 DEF Now
      <4>2. WriteSecrets(w)
        BY <4>1, OneActionEach
      <4>3. QED
        BY <2>2, <4>2, SavedByItsPage
    <3>4. CASE i \in Behind(req[w])
      <4>1. HasSaved(w)
        BY <3>1, <3>4 DEF HasSaved
      <4>2. File[UrlOf[d]] = req[w].pw
        BY <2>4, <4>1 DEF Entrusted
      <4>3. QED
        BY <1>2, <2>2, <4>2, SavedPasswordStays
    <3>5. QED
      BY <3>2, <3>3, <3>4
  <2>5. ASSUME d = "neo4j", Between(w)' PROVE accepts'[d] = req'[w].pw
    <3>1. CASE At(w, "read")'
      BY <2>2, <2>5, <3>1, Neo4jSets
    <3>2. CASE At(w, "truncate")' \/ At(w, "save")'
      <4>1. At(w, "read") \/ At(w, "truncate")
        BY <1>1, <3>2, NewPlace
      <4>2. accepts[d] = req[w].pw
        BY <2>5, <4>1 DEF Between, Saving, Entrusted
      <4>3. accepts' = accepts
        BY <4>1, OnlyThese DEF At
      <4>4. QED
        BY <2>2, <4>2, <4>3
    <3>3. QED
      BY <2>5, <3>1, <3>2 DEF Between, Saving
  <2>6. QED
    BY <2>1, <2>3, <2>4, <2>5 DEF Entrusted
<1>6. ASSUME d = "neo4j" PROVE Known(d)'
  <2>1. CASE WriteSecrets(w)
    <3>1. accepts[d] = req[w].pw /\ accepts' = accepts
      BY <1>6, <2>1 DEF WriteSecrets, Between, Saving, Entrusted
    <3>2. QED
      BY <2>1, <3>1, SavedByItsPage DEF Known
  <2>2. CASE ~WriteSecrets(w)
    <3>1. File'[UrlOf[d]] = File[UrlOf[d]]
      BY <1>2, <2>2, SavedPasswordStays
    <3>2. CASE Between(w)
      <4>1. Now(w).op \in {"read", "truncate"}
        <5>1. Now(w).op # "save"
          BY <2>2, OneActionEach
        <5>2. QED
          BY <3>2, <5>1 DEF Between, Saving, At
      <4>2. ReadSecrets(w) \/ TruncateSecrets(w)
        <5>1. ~(CommandFails(w) \/ ProbeFails(w) \/ Need(w) \/ Refuse(w) \/ Gate(w) \/ Effect(w))
          BY <4>1 DEF CommandFails, ProbeFails, Need, Refuse, Gate, Effect, At
        <5>2. ~(SetPassword(w) \/ Neo4jPassword(w) \/ GrafanaPassword(w) \/ WriteSecrets(w)
                \/ Compose(w) \/ WaitForLog(w))
          BY <4>1 DEF SetPassword, Neo4jPassword, GrafanaPassword, WriteSecrets, Compose,
             WaitForLog, At
        <5>3. ~(MatchKey(w) \/ TakeKey(w) \/ InstallPair(w) \/ DropKey(w) \/ SelfSign(w)
                \/ Check(w) \/ Mark(w))
          BY <4>1 DEF MatchKey, TakeKey, InstallPair, DropKey, SelfSign, Check, Mark, At
        <5>4. QED
          BY <5>1, <5>2, <5>3 DEF Step
      <4>3. Went(w, req[w].pc + 1)
        BY <4>2, ReadTakes, GoTakes DEF TruncateSecrets, Proceed
      <4>4. At(w, "truncate")' \/ At(w, "save")'
        BY <1>1, <4>1, <4>3, NewPlace DEF At
      <4>5. req'[w].page = d
        BY <4>3 DEF Went
      <4>6. QED
        BY <4>4, <4>5 DEF Known, Between, Saving
    <3>3. CASE ~Between(w)
      <4>1. accepts[d] \in {"default", File[UrlOf[d]]}
        BY <1>1, <1>6, <3>3 DEF Known
      <4>2. CASE accepts' = accepts
        BY <3>1, <4>1, <4>2 DEF Known
      <4>3. CASE accepts' # accepts
        <5>1. At(w, "read")'
          BY <1>6, <4>3, Neo4jSets
        <5>2. req'[w].page = d
          BY <1>1, <5>1, NoRequestIsOne DEF Moved, Went, At, Busy
        <5>3. QED
          BY <5>1, <5>2 DEF Known, Between
      <4>4. QED
        BY <4>2, <4>3
    <3>4. QED
      BY <3>2, <3>3
  <2>3. QED
    BY <2>1, <2>2
<1>7. QED
  BY <1>4, <1>5, <1>6

\* A step of anything else.
LEMMA OtherPasswordStep ==
  ASSUME WizardInv, WizardInv', [Next]_vars, SavingInv, "secrets.env" \notin cut',
         NEW d \in Daemon, d \notin cut',
         \A t \in Tab : req[t].page = d => ~(Step(t) \/ CommandFails(t) \/ ProbeFails(t)),
         d \in done => accepts[d] = File[UrlOf[d]],
         \A t \in Tab : req[t].page = d => Entrusted(d, t),
         d = "neo4j" => Known(d)
  PROVE  /\ d \in done' => accepts'[d] = File'[UrlOf[d]]
         /\ \A t \in Tab : req'[t].page = d => Entrusted(d, t)'
         /\ d = "neo4j" => Known(d)'
<1>1. File'[UrlOf[d]] = File[UrlOf[d]]
  <2>1. \A w \in Tab : WriteSecrets(w) => req[w].page # d
    BY DEF Step
  <2>2. QED
    BY <2>1, SavedPasswordStays
<1>2. accepts'[d] = accepts[d]
  <2>1. ASSUME NEW t \in Tab, Begin(t) \/ Skip(t) \/ RequestSigning(t) PROVE accepts' = accepts
    BY <2>1 DEF Begin, Skip, RequestSigning, disk
  <2>2. ASSUME NEW t \in Tab, Step(t) \/ CommandFails(t) \/ ProbeFails(t)
        PROVE  accepts'[d] = accepts[d]
    BY <2>2, PasswordOfItsPage
  <2>3. ASSUME NEW c \in Service, ContainerReady(c) \/ ContainerDies(c) \/ ContainerRestarts(c)
        PROVE  accepts' = accepts
    BY <2>3 DEF ContainerReady, ContainerDies, ContainerRestarts, disk
  <2>4. Crash \/ UNCHANGED vars => accepts' = accepts
    BY DEF Crash, disk, vars
  <2>5. QED
    BY <2>1, <2>2, <2>3, <2>4, NextIs
<1>3. d \in done' => d \in done
  <2>1. \A m \in Tab : Mark(m) => req[m].page # d
    BY DEF Step
  <2>2. d \notin skipped'
    BY DaemonsArePages DEF WizardInv, BoxInv
  <2>3. QED
    BY <2>1, <2>2, DoneByItsMark
<1>4. ASSUME NEW t \in Tab, req'[t].page = d PROVE Entrusted(d, t)'
  <2>1. req'[t] # NoRequest
    BY <1>4, DaemonsArePages, NoRequestIsOne
  <2>2. CASE Begin(t)
    <3>1. /\ req'[t].pc = 1 /\ Behind(req'[t]) = {}
          /\ ~At(t, "truncate")' /\ ~At(t, "save")' /\ ~At(t, "mark")'
      BY <2>2, Begins DEF Behind
    <3>2. d = "neo4j" => ~At(t, "read")'
      BY <1>4, <3>1, Neo4jIs, Fields DEF At, Now
    <3>3. QED
      BY <3>1, <3>2 DEF Entrusted, HasSaved, Between, Saving
  <2>3. CASE ~Begin(t)
    <3>1. req[t].page = d
      BY <1>4, <2>3, DaemonsArePages, PageStays
    <3>2. req'[t] = req[t]
      BY <2>1, <2>3, <3>1, HowItMoves
    <3>3. Entrusted(d, t)
      BY <3>1
    <3>4. /\ At(t, "mark")' <=> At(t, "mark")
          /\ HasSaved(t)' <=> HasSaved(t)
          /\ Between(t)' <=> Between(t)
      BY <3>2 DEF At, Busy, Now, HasSaved, Between, Saving
    <3>5. QED
      BY <1>1, <1>2, <3>2, <3>3, <3>4 DEF Entrusted
  <2>4. QED
    BY <2>2, <2>3
<1>5. ASSUME d = "neo4j" PROVE Known(d)'
  <2>1. CASE accepts[d] \in {"default", File[UrlOf[d]]}
    BY <1>1, <1>2, <2>1 DEF Known
  <2>2. CASE \E t \in Tab : req[t].page = d /\ Between(t)
    <3>1. PICK t \in Tab : req[t].page = d /\ Between(t)
      BY <2>2
    <3>2. ~Begin(t)
      BY <3>1, Begins DEF Between, Saving, At
    <3>3. ~Crash
      BY <1>5, <3>1 DEF Crash, Between
    <3>4. req'[t] = req[t]
      BY <3>1, <3>2, <3>3, HowItMoves
    <3>5. Between(t)'
      BY <3>1, <3>4 DEF At, Busy, Now, Between, Saving
    <3>6. QED
      BY <3>1, <3>4, <3>5 DEF Known
  <2>3. QED
    BY <1>5, <2>1, <2>2 DEF Known
<1>6. QED
  BY <1>1, <1>2, <1>3, <1>4, <1>5

LEMMA PasswordsKept ==
  ASSUME WizardInv, WizardInv', Alone, SavesInv, PasswordsInv, [Next]_vars
  PROVE  PasswordsInv'
<1>1. SUFFICES ASSUME "secrets.env" \notin cut', NEW d \in Daemon, d \notin cut'
               PROVE  /\ d \in done' => accepts'[d] = File'[UrlOf[d]]
                      /\ \A t \in Tab : req'[t].page = d => Entrusted(d, t)'
                      /\ d = "neo4j" => Known(d)'
  BY DEF PasswordsInv
<1>2. "secrets.env" \notin cut /\ d \notin cut /\ SavingInv
  BY <1>1, CutGrows DEF SavesInv
<1>3. /\ d \in done => accepts[d] = File[UrlOf[d]]
      /\ \A t \in Tab : req[t].page = d => Entrusted(d, t)
      /\ d = "neo4j" => Known(d)
  BY <1>2 DEF PasswordsInv
<1>4. CASE \E w \in Tab : req[w].page = d /\ (Step(w) \/ CommandFails(w) \/ ProbeFails(w))
  BY <1>1, <1>2, <1>3, <1>4, OwnPasswordStep
<1>5. CASE \A w \in Tab : req[w].page = d => ~(Step(w) \/ CommandFails(w) \/ ProbeFails(w))
  BY <1>1, <1>2, <1>3, <1>5, OtherPasswordStep
<1>6. QED
  BY <1>4, <1>5

LEMMA PasswordsHold == Spec => []PasswordsInv
<1>1. Init => PasswordsInv
  <2> SUFFICES ASSUME Init, NEW d \in Daemon
               PROVE  /\ d \notin done
                      /\ \A t \in Tab : req[t].page # d
                      /\ d = "neo4j" => Known(d)
    BY DEF PasswordsInv
  <2>1. d \notin done /\ \A t \in Tab : req[t].page # d
    BY DaemonsArePages, NoRequestIsOne DEF Init
  <2>2. d = "neo4j" => accepts[d] = "default"
    BY DEF Init
  <2>3. QED
    BY <2>1, <2>2 DEF Known
<1>2. WizardInv /\ WizardInv' /\ Alone /\ SavesInv /\ PasswordsInv /\ [Next]_vars => PasswordsInv'
  BY PasswordsKept
<1>3. QED
  BY <1>1, <1>2, WizardInvHolds, AloneHolds, SavesInvHolds, PTL DEF Spec

\* Whatever the tabs, passwords and bounds: once a daemon's page is done, the
\* password saved for it in secrets.env opens the daemon, after any retries,
\* failed commands and later saves (secrets_env.py:9, postgres_service.py:64,
\* neo4j_service.py:53, hivemq_service.py:52, grafana_service.py:50).
THEOREM SavedPasswordsOpen == Spec => []SavedPasswordOpens
<1>1. SavesInv /\ PasswordsInv => SavedPasswordOpens
  BY FileIs DEF SavesInv, PasswordsInv, SavedPasswordOpens, Agrees, FileFollows
<1>2. QED
  BY <1>1, SavesInvHolds, PasswordsHold, PTL

-----------------------------------------------------------------------------
(* What the commands and the files of a page bring about.                  *)

\* What a container has found on the box once it has said that it is ready.
BoxNeeds(c) ==
  CASE c = "der-control-ingress" -> {"truststore", "der_ingress_conf"}
    [] c = "https-ingress"       -> {"https_conf"}
    [] c = "prometheus"          -> {"prometheus_data", "prometheus_conf"}
    [] c = "grafana"             -> {"grafana_data"}
    [] OTHER                     -> {}

\* The wizard's own files do not fail.
Written(t) ==
  \A i \in Behind(req[t]) :
    Script[req[t].page][i].op = "write" => Script[req[t].page][i].arg \in box

ReadyInv == \A c \in Service : ctr[c].said \/ ctr[c].state = "ready" => BoxNeeds(c) \subseteq box

WrittenInv ==
  \A t \in Tab : Busy(t) /\ req[t].page \notin {"ollama", "ssh_lockdown"} => Written(t)

\* The DER page has waited for its ingress.
WaitedInv ==
  \A t \in Tab :
    req[t].page = "der_control_api" /\ "der_control_api" \notin cut /\ req[t].pc > 13 =>
      ctr["der-control-ingress"].state = "none" \/ "der_ingress_conf" \in box

\* The pages whose rows promise nothing about what they set out to do.
Unseen == {"ssh_lockdown"} \cup ({"der_control_api"} \cap cut)

MarkedInv ==
  \A t \in Tab :
    At(t, "mark") /\ req[t].page \notin Unseen => EffectsOf[req[t].page] \ Unread \subseteq box

EffectsInv == ReadyInv /\ WrittenInv /\ WaitedInv /\ MarkedInv /\ EffectsInForce

LEMMA BoxGrows == ASSUME [Next]_vars PROVE box \subseteq box'
<1>1. ASSUME NEW t \in Tab, Begin(t) \/ Skip(t) \/ RequestSigning(t) PROVE box' = box
  BY <1>1 DEF Begin, Skip, RequestSigning, disk
<1>2. ASSUME NEW c \in Service, ContainerReady(c) \/ ContainerDies(c) \/ ContainerRestarts(c)
      PROVE  box' = box
  BY <1>2 DEF ContainerReady, ContainerDies, ContainerRestarts, disk
<1>3. Crash \/ UNCHANGED vars => box' = box
  BY DEF Crash, disk, vars
<1>4. QED
  BY <1>1, <1>2, <1>3, NextIs, OnlyThese

\* The steps that write, wait and start.
LEMMA ActionsOfStart ==
  ASSUME NEW t \in Tab, Step(t) \/ CommandFails(t) \/ ProbeFails(t)
  PROVE  /\ Now(t).op = "write" => Effect(t)
         /\ Now(t).op = "wait" => WaitForLog(t)
         /\ Compose(t) \/ ctr' = ctr
<1>1. ASSUME Need(t) \/ Refuse(t) \/ Gate(t) \/ CommandFails(t) \/ ProbeFails(t)
      PROVE  Now(t).op \notin {"write", "wait"} /\ ctr' = ctr
  BY <1>1 DEF Need, Refuse, Gate, CommandFails, ProbeFails, At
<1>2. ASSUME SetPassword(t) \/ Neo4jPassword(t) \/ GrafanaPassword(t) \/ ReadSecrets(t)
             \/ TruncateSecrets(t) \/ WriteSecrets(t)
      PROVE  Now(t).op \notin {"write", "wait"} /\ ctr' = ctr
  BY <1>2 DEF SetPassword, Neo4jPassword, GrafanaPassword, ReadSecrets, TruncateSecrets,
     WriteSecrets, At
<1>3. ASSUME MatchKey(t) \/ TakeKey(t) \/ InstallPair(t) \/ DropKey(t) \/ SelfSign(t)
             \/ Check(t) \/ Mark(t)
      PROVE  Now(t).op \notin {"write", "wait"} /\ ctr' = ctr
  BY <1>3 DEF MatchKey, TakeKey, InstallPair, DropKey, SelfSign, Check, Mark, At
<1>4. Effect(t) => Now(t).op \in {"write", "run"} /\ ctr' = ctr
  BY DEF Effect, At
<1>5. WaitForLog(t) => Now(t).op = "wait" /\ ctr' = ctr
  BY DEF WaitForLog, At
<1>6. Compose(t) => Now(t).op \notin {"write", "wait"}
  BY DEF Compose, At
<1>7. QED
  BY <1>1, <1>2, <1>3, <1>4, <1>5, <1>6 DEF Step

\* What a container can run with is there.
LEMMA CanRunNeeds == ASSUME NEW c \in Service, CanRun(c) PROVE BoxNeeds(c) \subseteq box
<1>1. CASE c = "der-control-ingress"
  <2>1. CanRun(c) = (Paired(c) /\ Holds({"truststore", "der_ingress_conf"}))
    BY <1>1, Zenon DEF CanRun
  <2>2. QED
    BY <1>1, <2>1 DEF BoxNeeds, Holds
<1>2. CASE c = "https-ingress"
  <2>1. CanRun(c) = (Paired(c) /\ Holds({"https_conf"}))
    BY <1>2, Zenon DEF CanRun
  <2>2. QED
    BY <1>2, <2>1 DEF BoxNeeds, Holds
<1>3. CASE c = "prometheus"
  <2>1. CanRun(c) = Holds({"prometheus_data", "prometheus_conf"})
    BY <1>3, Zenon DEF CanRun
  <2>2. QED
    BY <1>3, <2>1 DEF BoxNeeds, Holds
<1>4. CASE c = "grafana"
  <2>1. CanRun(c) = Holds({"grafana_data"})
    BY <1>4, Zenon DEF CanRun
  <2>2. QED
    BY <1>4, <2>1 DEF BoxNeeds, Holds
<1>5. QED
  BY <1>1, <1>2, <1>3, <1>4 DEF BoxNeeds

LEMMA ReadyKept == ASSUME WizardInv, ReadyInv, [Next]_vars PROVE ReadyInv'
<1>1. box \subseteq box'
  BY BoxGrows
<1>2. CASE ctr' = ctr
  BY <1>1, <1>2 DEF ReadyInv
<1>3. ASSUME NEW d, NEW s, NEW b, SetContainer(d, s, b),
             d \in Service /\ (b \/ s = "ready") => BoxNeeds(d) \subseteq box
      PROVE  ReadyInv'
  <2>1. SUFFICES ASSUME NEW c \in Service, ctr'[c].said \/ ctr'[c].state = "ready"
                 PROVE  BoxNeeds(c) \subseteq box
    BY <1>1 DEF ReadyInv
  <2>2. c = d => ctr'[c] = [state |-> s, said |-> b]
    BY <1>3 DEF SetContainer, WizardInv, BoxInv
  <2>3. c # d => ctr'[c] = ctr[c]
    BY <1>3 DEF SetContainer, WizardInv, BoxInv
  <2>4. QED
    BY <1>3, <2>1, <2>2, <2>3 DEF ReadyInv
<1>4. ASSUME NEW t \in Tab, Step(t) \/ CommandFails(t) \/ ProbeFails(t) PROVE ReadyInv'
  <2>1. ctr' = ctr \/ SetContainer(Now(t).arg, "starting", FALSE)
    BY <1>4, ActionsOfStart DEF Compose
  <2>2. QED
    BY <1>2, <1>3, <2>1
<1>5. ASSUME NEW t \in Tab, Begin(t) \/ Skip(t) \/ RequestSigning(t) PROVE ctr' = ctr
  BY <1>5 DEF Begin, Skip, RequestSigning
<1>6. ASSUME NEW c \in Service, ContainerReady(c) \/ ContainerDies(c) \/ ContainerRestarts(c)
      PROVE  ReadyInv'
  <2>1. CASE ContainerReady(c)
    BY <1>3, <2>1, CanRunNeeds DEF ContainerReady
  <2>2. CASE ContainerDies(c) \/ ContainerRestarts(c)
    <3>1. \E s \in {"restarting", "starting"} : SetContainer(c, s, ctr[c].said)
      BY <2>2 DEF ContainerDies, ContainerRestarts
    <3>2. ctr[c].said => BoxNeeds(c) \subseteq box
      BY DEF ReadyInv
    <3>3. QED
      BY <1>3, <3>1, <3>2
  <2>3. QED
    BY <1>6, <2>1, <2>2
<1>7. Crash \/ UNCHANGED vars => ctr' = ctr
  BY DEF Crash, vars
<1>8. QED
  BY <1>2, <1>4, <1>5, <1>6, <1>7, NextIs


LEMMA WrittenKept == ASSUME WizardInv, WizardInv', WrittenInv, [Next]_vars PROVE WrittenInv'
<1>1. SUFFICES ASSUME NEW u \in Tab, Busy(u)', req'[u].page \notin {"ollama", "ssh_lockdown"},
                      NEW i \in Behind(req'[u]), Script[req'[u].page][i].op = "write"
               PROVE  Script[req'[u].page][i].arg \in box'
  BY DEF WrittenInv, Written
<1> DEFINE p == req'[u].page
<1>2. box \subseteq box'
  BY BoxGrows
<1>3. req'[u] # NoRequest
  BY <1>1, NoRequestIsOne DEF Busy
<1>4. CASE req'[u] = req[u]
  <2>1. Busy(u)
    BY <1>1, <1>4 DEF Busy
  <2>2. QED
    BY <1>1, <1>2, <1>4, <2>1 DEF WrittenInv, Written
<1>5. CASE Begin(u)
  <2>1. Behind(req'[u]) = {}
    BY <1>5, Begins DEF Behind
  <2>2. QED
    BY <1>1, <2>1
<1>6. CASE Moved(u) /\ (Step(u) \/ CommandFails(u) \/ ProbeFails(u))
  <2>1. req[u].page = p /\ p \in Pages /\ Busy(u)
    BY <1>3, <1>6, BehindIt DEF Moved
  <2>2. CASE i \in Behind(req[u])
    BY <1>1, <1>2, <2>1, <2>2 DEF WrittenInv, Written
  <2>3. CASE i = req[u].pc
    <3>1. Now(u) = Script[p][i]
      BY <2>1, <2>3 DEF Now
    <3>2. Effect(u)
      BY <1>1, <1>6, <3>1, ActionsOfStart
    <3>3. QED
      BY <3>1, <3>2 DEF Effect, Bring
  <2>4. CASE p = "neo4j" /\ i \in 1..(Len(Script[p]) - 1)
    <3>1. Follows(p, i, Script[p][i], Script[p][i + 1])
      BY <2>1, <2>4, ScriptsFlow DEF Flows
    <3>2. QED
      BY <1>1, <2>4, <3>1 DEF Follows
  <2>5. QED
    BY <1>1, <1>3, <1>6, <2>1, <2>2, <2>3, <2>4, BehindIt
<1>7. QED
  BY <1>3, <1>4, <1>5, <1>6, HowItMoves

LEMMA IngressIsServed == "der-control-ingress" \in Service
<1>1. 12 \in 1..Len(Script["der_control_api"])
  BY DerControlIs
<1>2. Script["der_control_api"][12].op \in {"up", "recreate"}
      /\ Script["der_control_api"][12].arg = "der-control-ingress"
  BY DerControlIs, Fields
<1>3. "der-control-ingress" \in Arguments("der_control_api", {"up", "recreate"})
  BY <1>1, <1>2 DEF Arguments
<1>4. "der_control_api" \in Pages
  BY DEF Pages, STEPS
<1>5. QED
  BY <1>3, <1>4 DEF Service, ServicesOf

\* Who starts the DER page's ingress is at the page's twelfth step.
LEMMA IngressStarts ==
  ASSUME WizardInv, [Next]_vars, ctr["der-control-ingress"].state = "none",
         ctr'["der-control-ingress"].state # "none"
  PROVE  \E t \in Tab : Busy(t) /\ req[t].page = "der_control_api" /\ req[t].pc = 12
<1> DEFINE d == "der-control-ingress"
<1>1. ASSUME NEW c, NEW s, NEW b, SetContainer(c, s, b) PROVE c = d
  BY <1>1 DEF SetContainer
<1>2. ctr' # ctr
  OBVIOUS
<1>3. ASSUME NEW t \in Tab, Step(t) \/ CommandFails(t) \/ ProbeFails(t)
      PROVE  Busy(t) /\ req[t].page = "der_control_api" /\ req[t].pc = 12
  <2>1. Compose(t)
    BY <1>2, <1>3, ActionsOfStart
  <2>2. Now(t).op \in {"up", "recreate"} /\ Busy(t)
    BY <2>1 DEF Compose, At
  <2>3. Now(t).arg = d
    BY <1>1, <1>2, <2>1 DEF Compose
  <2>4. Follows(req[t].page, req[t].pc, Now(t), Script[req[t].page][req[t].pc + 1])
    BY <2>2, ItFollows
  <2>5. QED
    BY <2>2, <2>3, <2>4 DEF Follows
<1>4. ASSUME NEW t \in Tab, Begin(t) \/ Skip(t) \/ RequestSigning(t) PROVE FALSE
  BY <1>2, <1>4 DEF Begin, Skip, RequestSigning
<1>5. ASSUME NEW c \in Service, ContainerReady(c) \/ ContainerDies(c) \/ ContainerRestarts(c)
      PROVE  FALSE
  <2>1. ctr[c].state # "none"
    BY <1>5 DEF ContainerReady, ContainerDies, ContainerRestarts
  <2>2. c = d
    BY <1>1, <1>5 DEF ContainerReady, ContainerDies, ContainerRestarts
  <2>3. QED
    BY <2>1, <2>2
<1>6. ~Crash /\ ~UNCHANGED vars
  BY <1>2 DEF Crash, vars
<1>7. QED
  BY <1>3, <1>4, <1>5, <1>6, NextIs

LEMMA WaitedKept ==
  ASSUME WizardInv, WizardInv', Alone, ReadyInv, WaitedInv, [Next]_vars
  PROVE  WaitedInv'
<1> DEFINE d == "der-control-ingress"
           p == "der_control_api"
<1>1. SUFFICES ASSUME NEW t \in Tab, req'[t].page = p, p \notin cut', req'[t].pc > 13,
                      ctr'[d].state # "none"
               PROVE  "der_ingress_conf" \in box'
  BY DEF WaitedInv
<1>2. box \subseteq box' /\ p \notin cut
  BY <1>1, BoxGrows, CutGrows
<1>3. SUFFICES "der_ingress_conf" \in box
  BY <1>2
<1>4. req'[t] # NoRequest
  BY <1>1, NoRequestIsOne
<1>5. ~Begin(t)
  BY <1>1, Begins
<1>6. req[t].page = p /\ Busy(t) /\ req[t].pc \in Nat
  <2>1. req[t].page = p
    BY <1>1, <1>5, PageStays
  <2>2. QED
    BY <2>1, RequestsAreRecords DEF Busy, Request
<1>7. CASE req[t].pc > 13
  <2>1. CASE ctr[d].state # "none"
    BY <1>2, <1>6, <1>7, <2>1 DEF WaitedInv
  <2>2. CASE ctr[d].state = "none"
    <3>1. PICK u \in Tab : Busy(u) /\ req[u].page = p /\ req[u].pc = 12
      BY <1>1, <2>2, IngressStarts
    <3>2. u = t
      BY <1>2, <1>6, <3>1 DEF Alone
    <3>3. QED
      BY <1>7, <3>1, <3>2
  <2>3. QED
    BY <2>1, <2>2
<1>8. CASE ~(req[t].pc > 13)
  <2>1. req'[t] # req[t]
    BY <1>1, <1>8
  <2>2. Moved(t) /\ (Step(t) \/ CommandFails(t) \/ ProbeFails(t))
    BY <1>4, <1>5, <2>1, HowItMoves
  <2>3. req'[t].pc = req[t].pc + 1
    BY <1>4, <1>6, <2>2, BehindIt
  <2>4. req[t].pc = 13
    BY <1>1, <1>6, <1>8, <2>3
  <2>5. Now(t) = Do("wait", d)
    BY <1>6, <2>4, DerControlIs DEF Now
  <2>6. WaitForLog(t)
    BY <2>2, <2>5, Fields, ActionsOfStart
  <2>7. ctr[d].said
    BY <1>1, <2>5, <2>6, Fields DEF WaitForLog, Printed
  <2>8. BoxNeeds(d) \subseteq box
    BY <2>7, IngressIsServed DEF ReadyInv
  <2>9. QED
    BY <2>8 DEF BoxNeeds
<1>9. QED
  BY <1>7, <1>8

-----------------------------------------------------------------------------
(* What the rows of a page see of its commands.                            *)

Seen ==
  [docker |-> {"arcnode_network"},
   postgres |-> {"pg_listens", "pg_hba", "pg_databases", "timescaledb", "pgvector"},
   neo4j |-> {"neo4j_conf", "neo4j_listens"},
   ollama |-> {"ollama_listens", "models_pulled", "embedding_variant", "models_loaded",
               "ollama_settings"},
   der_control_api |-> {"der_ingress_conf"}, https |-> {"https_conf"},
   prometheus |-> {"prometheus_data", "prometheus_conf"}, grafana |-> {"grafana_data"}]

\* Every command of page p is one its rows see, or none of any page's.
AllSeen(p) ==
  \A i \in 1..Len(Script[p]) :
    Script[p][i].op = "run" \/ (Script[p][i].op = "write" /\ p = "ollama") =>
      Script[p][i].arg \in Seen[p] \cup Unread

LEMMA DockerSeen == AllSeen("docker")
<1>1. Len(Script["docker"]) = 4
  BY DockerIs
<1>2. ASSUME NEW i \in 1..4 PROVE i \in {1, 2, 3, 4}
  OBVIOUS
<1>3. QED
  BY <1>1, <1>2, DockerIs, Fields DEF AllSeen, Seen, Unread

LEMMA PostgresSeen == AllSeen("postgres")
<1>1. Len(Script["postgres"]) = 12
  BY PostgresIs
<1>2. ASSUME NEW i \in 1..12 PROVE i \in {1, 2, 3, 4, 5, 6, 7, 8, 9, 10, 11, 12}
  OBVIOUS
<1>3. QED
  BY <1>1, <1>2, PostgresIs, Fields DEF AllSeen, Seen, Unread

LEMMA Neo4jSeen == AllSeen("neo4j")
<1>1. Len(Script["neo4j"]) = 11
  BY Neo4jIs
<1>2. ASSUME NEW i \in 1..11 PROVE i \in {1, 2, 3, 4, 5, 6, 7, 8, 9, 10, 11}
  OBVIOUS
<1>3. QED
  BY <1>1, <1>2, Neo4jIs, Fields DEF AllSeen, Seen, Unread

LEMMA OllamaSeen == AllSeen("ollama")
<1>1. Len(Script["ollama"]) = 11
  BY OllamaIs
<1>2. ASSUME NEW i \in 1..11 PROVE i \in {1, 2, 3, 4, 5, 6, 7, 8, 9, 10, 11}
  OBVIOUS
<1>3. QED
  BY <1>1, <1>2, OllamaIs, Fields DEF AllSeen, Seen, Unread

LEMMA DerControlSeen == AllSeen("der_control_api")
<1>1. Len(Script["der_control_api"]) = 15
  BY DerControlIs
<1>2. ASSUME NEW i \in 1..15 PROVE i \in {1, 2, 3, 4, 5, 6, 7, 8, 9, 10, 11, 12, 13, 14, 15}
  OBVIOUS
<1>3. QED
  BY <1>1, <1>2, DerControlIs, Fields DEF AllSeen, Seen, Unread

LEMMA HttpsSeen == AllSeen("https")
<1>1. Len(Script["https"]) = 11
  BY HttpsIs
<1>2. ASSUME NEW i \in 1..11 PROVE i \in {1, 2, 3, 4, 5, 6, 7, 8, 9, 10, 11}
  OBVIOUS
<1>3. QED
  BY <1>1, <1>2, HttpsIs, Fields DEF AllSeen, Seen, Unread

LEMMA PrometheusSeen == AllSeen("prometheus")
<1>1. Len(Script["prometheus"]) = 6
  BY PrometheusIs
<1>2. ASSUME NEW i \in 1..6 PROVE i \in {1, 2, 3, 4, 5, 6}
  OBVIOUS
<1>3. QED
  BY <1>1, <1>2, PrometheusIs, Fields DEF AllSeen, Seen, Unread

LEMMA GrafanaSeen == AllSeen("grafana")
<1>1. Len(Script["grafana"]) = 9
  BY GrafanaIs
<1>2. ASSUME NEW i \in 1..9 PROVE i \in {1, 2, 3, 4, 5, 6, 7, 8, 9}
  OBVIOUS
<1>3. QED
  BY <1>1, <1>2, GrafanaIs, Fields DEF AllSeen, Seen, Unread

\* The services whose rows stand for a file of their configuration.
LEMMA TheseAreServed ==
  {"der-control-ingress", "https-ingress", "prometheus", "grafana"} \subseteq Service
<1>1. ASSUME NEW p \in Pages, NEW i \in 1..Len(Script[p]), Script[p][i].op \in {"up", "recreate"}
      PROVE  Script[p][i].arg \in Service
  <2>1. Script[p][i].arg \in Arguments(p, {"up", "recreate"})
    BY <1>1 DEF Arguments
  <2>2. QED
    BY <2>1 DEF Service, ServicesOf
<1>2. {"https", "prometheus", "grafana"} \subseteq Pages
  BY DEF Pages, STEPS
<1>3. "https-ingress" \in Service
  <2>1. 7 \in 1..Len(Script["https"]) /\ Script["https"][7] = Do("recreate", "https-ingress")
    BY HttpsIs
  <2>2. QED
    BY <1>1, <1>2, <2>1, Fields
<1>4. "prometheus" \in Service
  <2>1. 3 \in 1..Len(Script["prometheus"]) /\ Script["prometheus"][3] = Do("up", "prometheus")
    BY PrometheusIs
  <2>2. QED
    BY <1>1, <1>2, <2>1, Fields
<1>5. "grafana" \in Service
  <2>1. 5 \in 1..Len(Script["grafana"]) /\ Script["grafana"][5] = Do("up", "grafana")
    BY GrafanaIs
  <2>2. QED
    BY <1>1, <1>2, <2>1, Fields
<1>6. QED
  BY <1>3, <1>4, <1>5, IngressIsServed

\* A container that answers, or has printed its line, found what it needs.
LEMMA ReadyFound ==
  ASSUME ReadyInv
  PROVE  /\ Answers("https-ingress") => "https_conf" \in box
         /\ Printed("prometheus") => {"prometheus_data", "prometheus_conf"} \subseteq box
         /\ Answers("grafana") => "grafana_data" \in box
BY TheseAreServed DEF ReadyInv, BoxNeeds, Answers, Printed

LEMMA SeenIs ==
  /\ Seen["docker"] = {"arcnode_network"}
  /\ Seen["postgres"] = {"pg_listens", "pg_hba", "pg_databases", "timescaledb", "pgvector"}
  /\ Seen["neo4j"] = {"neo4j_conf", "neo4j_listens"}
  /\ Seen["ollama"] = {"ollama_listens", "models_pulled", "embedding_variant", "models_loaded",
                       "ollama_settings"}
  /\ Seen["der_control_api"] = {"der_ingress_conf"} /\ Seen["https"] = {"https_conf"}
  /\ Seen["prometheus"] = {"prometheus_data", "prometheus_conf"}
  /\ Seen["grafana"] = {"grafana_data"}
BY DEF Seen

\* Rows that are good have seen what the page's commands were for.
LEMMA RowsSee ==
  ASSUME WizardInv, ReadyInv, WaitedInv, NEW t \in Tab, At(t, "check"), Verified(req[t]),
         req[t].page \in DOMAIN Seen, req[t].page \notin Unseen
  PROVE  Seen[req[t].page] \subseteq box
<1> DEFINE p == req[t].page
           r == req[t]
<1>1. CASE p = "docker"
  <2>1. Verified(r) = DockerRows
    BY <1>1 DEF Verified
  <2>2. QED
    BY <1>1, <2>1, SeenIs DEF DockerRows, Holds
<1>2. CASE p = "postgres"
  <2>1. Verified(r) = (PostgresRows(r.pw) /\ PostgresAccessRows(r.pw))
    BY <1>2 DEF Verified
  <2>2. QED
    BY <1>2, <2>1, SeenIs DEF PostgresRows, PostgresAccessRows, Holds
<1>3. CASE p = "neo4j"
  <2>1. Verified(r) = Neo4jRows(r.pw)
    BY <1>3 DEF Verified
  <2>2. QED
    BY <1>3, <2>1, SeenIs DEF Neo4jRows, Holds
<1>4. CASE p = "ollama"
  <2>1. Verified(r) = OllamaRows
    BY <1>4 DEF Verified
  <2>2. QED
    BY <1>4, <2>1, SeenIs DEF OllamaRows, Holds
<1>5. CASE p = "der_control_api"
  <2>1. Verified(r) = DerControlRows
    BY <1>5 DEF Verified
  <2>2. ctr["der-control-ingress"].state # "none"
    BY <2>1 DEF DerControlRows, Running
  <2>3. req[t].pc > 13
    <3>1. req[t].pc = Len(Script["der_control_api"]) - 1
      BY <1>5, Places DEF At
    <3>2. QED
      BY <3>1, DerControlIs
  <2>4. "der_control_api" \notin cut
    BY <1>5 DEF Unseen
  <2>5. QED
    BY <1>5, <2>2, <2>3, <2>4, SeenIs DEF WaitedInv
<1>6. CASE p = "https"
  <2>1. Verified(r) = HttpsRows(r.cert)
    BY <1>6 DEF Verified
  <2>2. QED
    BY <1>6, <2>1, ReadyFound, SeenIs DEF HttpsRows
<1>7. CASE p = "prometheus"
  <2>1. Verified(r) = PrometheusRows
    BY <1>7 DEF Verified
  <2>2. QED
    BY <1>7, <2>1, ReadyFound, SeenIs DEF PrometheusRows
<1>8. CASE p = "grafana"
  <2>1. Verified(r) = GrafanaRows(r.pw)
    BY <1>8 DEF Verified
  <2>2. QED
    BY <1>8, <2>1, ReadyFound, SeenIs DEF GrafanaRows
<1>9. QED
  BY <1>1, <1>2, <1>3, <1>4, <1>5, <1>6, <1>7, <1>8 DEF Seen

\* The checks come after all of the page's work.
LEMMA BehindItsChecks ==
  ASSUME WizardInv, NEW t \in Tab, At(t, "check"), NEW x \in EffectsOf[req[t].page]
  PROVE  \E i \in Behind(req[t]) :
           /\ i \in 1..(Len(Script[req[t].page]) - 1)
           /\ Script[req[t].page][i].op \in {"write", "run"} /\ Script[req[t].page][i].arg = x
<1> DEFINE p == req[t].page
           n == Len(Script[p])
<1>1. p \in Pages /\ n \in Nat /\ n >= 2 /\ req[t].pc = n - 1
  BY Where, Places DEF At
<1>2. PICK i \in 1..n : Script[p][i].op \in {"write", "run"} /\ Script[p][i].arg = x
  BY <1>1 DEF EffectsOf, Arguments
<1>3. Script[p][n].op = "mark" /\ Script[p][n - 1].op = "check"
  BY <1>1, ScriptsAreWork DEF WorkThenVerified
<1>4. i # n /\ i # n - 1
  BY <1>2, <1>3
<1>5. i \in 1..((n - 1) - 1) /\ i \in 1..(n - 1)
  <2> HIDE DEF n
  <2>1. QED
    BY <1>1, <1>2, <1>4
<1>6. QED
  BY <1>1, <1>2, <1>5 DEF Behind

LEMMA RowsSeeAll ==
  ASSUME WizardInv, ReadyInv, WrittenInv, WaitedInv, NEW t \in Tab, At(t, "check"),
         Verified(req[t]), req[t].page \notin Unseen
  PROVE  EffectsOf[req[t].page] \ Unread \subseteq box
<1> DEFINE p == req[t].page
<1>1. SUFFICES ASSUME NEW x \in EffectsOf[p], x \notin Unread PROVE x \in box
  OBVIOUS
<1>2. PICK i \in Behind(req[t]) :
        /\ i \in 1..(Len(Script[p]) - 1)
        /\ Script[p][i].op \in {"write", "run"} /\ Script[p][i].arg = x
  BY BehindItsChecks
<1>3. p \in Pages /\ Busy(t) /\ p # "ssh_lockdown" /\ Len(Script[p]) \in Nat
  BY Where DEF At, Unseen
<1>4. CASE Script[p][i].op = "write" /\ p # "ollama"
  BY <1>2, <1>3, <1>4 DEF WrittenInv, Written
<1>5. CASE Script[p][i].op = "run" \/ (Script[p][i].op = "write" /\ p = "ollama")
  <2>1. Follows(p, i, Script[p][i], Script[p][i + 1])
    BY <1>2, <1>3, ScriptsFlow DEF Flows
  <2>2. p \in {"docker", "postgres", "neo4j", "ollama", "der_control_api", "https",
               "prometheus", "grafana"}
    BY <1>3, <1>5, <2>1 DEF Follows
  <2>3. AllSeen(p)
    BY <2>2, DockerSeen, PostgresSeen, Neo4jSeen, OllamaSeen, DerControlSeen, HttpsSeen,
       PrometheusSeen, GrafanaSeen
  <2>4. p \in DOMAIN Seen
    BY <2>2 DEF Seen
  <2>5. i \in 1..Len(Script[p])
    BY <1>2, <1>3
  <2>6. x \in Seen[p]
    BY <1>1, <1>2, <1>5, <2>3, <2>5 DEF AllSeen
  <2>7. QED
    BY <2>4, <2>6, RowsSee
<1>6. QED
  BY <1>2, <1>4, <1>5

LEMMA MarkedKept ==
  ASSUME WizardInv, WizardInv', ReadyInv, WrittenInv, WaitedInv, MarkedInv, [Next]_vars
  PROVE  MarkedInv'
<1>1. SUFFICES ASSUME NEW t \in Tab, At(t, "mark")', req'[t].page \notin Unseen'
               PROVE  EffectsOf[req'[t].page] \ Unread \subseteq box'
  BY DEF MarkedInv
<1>2. box \subseteq box' /\ cut \subseteq cut'
  BY BoxGrows, CutGrows
<1>3. req'[t].page \notin Unseen
  BY <1>1, <1>2 DEF Unseen
<1>4. CASE req'[t] = req[t]
  <2>1. At(t, "mark")
    BY <1>1, <1>4 DEF At, Busy, Now
  <2>2. QED
    BY <1>2, <1>3, <1>4, <2>1 DEF MarkedInv
<1>5. CASE req'[t] # req[t]
  <2>1. At(t, "check") /\ Verified(req[t]) /\ req'[t].page = req[t].page
    BY <1>1, <1>5, ToTheMark
  <2>2. QED
    BY <1>2, <1>3, <2>1, RowsSeeAll
<1>6. QED
  BY <1>4, <1>5

LEMMA EffectsKept ==
  ASSUME WizardInv, WizardInv', Alone, EffectsInv, [Next]_vars PROVE EffectsInv'
<1>1. ReadyInv' /\ WrittenInv' /\ WaitedInv' /\ MarkedInv'
  BY ReadyKept, WrittenKept, WaitedKept, MarkedKept DEF EffectsInv
<1>2. ASSUME NEW p \in done' \ (skipped' \cup {"ssh_lockdown"} \cup ({"der_control_api"} \cap cut'))
      PROVE  EffectsOf[p] \ Unread \subseteq box'
  <2>1. box \subseteq box' /\ cut \subseteq cut'
    BY BoxGrows, CutGrows
  <2>2. p \notin Unseen
    BY <1>2, <2>1 DEF Unseen
  <2>3. CASE p \in done \ skipped
    <3>1. p \in done \ (skipped \cup {"ssh_lockdown"} \cup ({"der_control_api"} \cap cut))
      BY <2>2, <2>3 DEF Unseen
    <3>2. QED
      BY <2>1, <3>1 DEF EffectsInv, EffectsInForce
  <2>4. CASE p \notin done \ skipped
    <3>1. PICK t \in Tab : Mark(t) /\ req[t].page = p
      BY <1>2, <2>4, DoneByItsMark
    <3>2. At(t, "mark")
      BY <3>1 DEF Mark
    <3>3. QED
      BY <2>1, <2>2, <3>1, <3>2 DEF EffectsInv, MarkedInv
  <2>5. QED
    BY <2>3, <2>4
<1>3. QED
  BY <1>1, <1>2 DEF EffectsInv, EffectsInForce

\* The invariant of the effects, with what it takes of WizardInv and Alone.
LEMMA EffectsInvHolds == Spec => []EffectsInv
<1>1. Init => EffectsInv
  <2> SUFFICES ASSUME Init PROVE EffectsInv
    OBVIOUS
  <2>1. \A t \in Tab : req[t].page = "none"
    BY NoRequestIsOne DEF Init
  <2>2. \A t \in Tab : ~Busy(t) /\ ~At(t, "mark")
    BY <2>1 DEF Busy, At
  <2>3. done = {} /\ \A c \in Service : ctr[c] = [state |-> "none", said |-> FALSE]
    BY DEF Init, NoContainer
  <2>4. QED
    BY <2>1, <2>2, <2>3
       DEF EffectsInv, ReadyInv, WrittenInv, WaitedInv, MarkedInv, EffectsInForce
<1>2. WizardInv /\ WizardInv' /\ Alone /\ EffectsInv /\ [Next]_vars => EffectsInv'
  BY EffectsKept
<1>3. QED
  BY <1>1, <1>2, WizardInvHolds, AloneHolds, PTL DEF Spec

\* Whatever the tabs, passwords, keys and bounds: a page that is done has
\* brought about what it set out to, although nobody looks at an exit status
\* (system_runner.py:20) and containers die under the checks.
THEOREM EffectsAreInForce == Spec => []EffectsInForce
<1>1. EffectsInv => EffectsInForce
  BY DEF EffectsInv
<1>2. QED
  BY <1>1, EffectsInvHolds, PTL

=============================================================================
