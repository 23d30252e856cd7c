------------------------------ MODULE SiteCert ------------------------------
(***************************************************************************)
(* The certificate of a cloud box.  UserData (cfn_resources) enables       *)
(* site-cert.sh as a service, then starts the stack; "issue" runs at every *)
(* boot until it succeeds, "renew" weekly, and both end in                 *)
(* install_certificate, which writes the four files the two ingresses read *)
(* and reloads them.                                                       *)
(*                                                                         *)
(* A file is the certificate it belongs to: 1, 2, ... are those Let's      *)
(* Encrypt issued, in their order, and -1 and -2 the two self-signed ones  *)
(* UserData made, one for each ingress.  A job stops at its first failing  *)
(* command (set -e), and systemd starts a failed "issue" again.  How the   *)
(* name comes to resolve is SiteDns's subject.                             *)
(***************************************************************************)
EXTENDS Integers

CONSTANTS
  MaxVersion,   \* bound: certificates Let's Encrypt issues
  MaxRenewals,  \* bound: weekly runs of site-cert.sh renew
  MaxFaults,    \* bound: commands of a job that fail for a reason of their own
  MaxReboots    \* bound: reboots of the box

ASSUME BoundsAssumption ==
  MaxVersion \in Nat /\ MaxRenewals \in Nat /\ MaxFaults \in Nat /\ MaxReboots \in Nat

VARIABLES
  boot,      \* how far UserData is
  job,       \* where each run of site-cert.sh is
  resolved,  \* does the site's name resolve to this box?
  due,       \* would certbot issue, or keep the certificate it has?
  live,      \* the certificate in letsencrypt/live, 0 while there is none
  file,      \* the certificates in tls/ and der-control-tls/
  up,        \* is an ingress's nginx running?
  serves,    \* the certificate it loaded, 0 before its first
  cuts,      \* how often an installation was cut short
  renewals, faults, reboots

tls    == <<file, up, serves>>
bounds == <<renewals, faults, reboots>>
vars   == <<boot, job, resolved, due, live, tls, cuts, bounds>>

Job     == {"issue", "renew"}
Ingress == {"https", "der"}

\* What each ingress reads; nginx takes no key that is not its certificate's.
Cert == [https |-> "server", der |-> "cert"]
Key  == [https |-> "server_key", der |-> "key"]
File == {"server", "server_key", "cert", "key"}
Matched(i) == file[Cert[i]] = file[Key[i]]

\* Two openssl req: a pair of its own for each ingress.
SelfSigned == [server |-> -1, server_key |-> -1, cert |-> -2, key |-> -2]

\* Faulty variant of Then: only the HTTPS ingress is reloaded.
ThenWithoutDer(step) ==
  CASE step = "server"       -> "server_key"
    [] step = "server_key"   -> "cert"
    [] step = "cert"         -> "key"
    [] step = "key"          -> "reload_https"
    [] OTHER                 -> "done"

\* Faulty variant of Then: the HTTPS ingress's key is forgotten.
ThenWithoutKey(step) ==
  CASE step = "server"       -> "cert"
    [] step = "cert"         -> "key"
    [] step = "key"          -> "reload_https"
    [] step = "reload_https" -> "reload_der"
    [] OTHER                 -> "done"

\* The commands of install_certificate, each with the one that follows it.
Then(step) ==
  CASE step = "server"       -> "server_key"
    [] step = "server_key"   -> "cert"
    [] step = "cert"         -> "key"
    [] step = "key"          -> "reload_https"
    [] step = "reload_https" -> "reload_der"
    [] OTHER                 -> "done"

Install == File \cup {"reload_https", "reload_der"}
Certbot == {"standalone", "webroot"}
Running == {"register", "obtain", "compare"} \cup Certbot \cup Install
Resting == {"off", "done", "failed"}

TypeOK ==
  /\ boot \in {"start", "compose", "up", "failed"}
  /\ job \in [Job -> Resting \cup Running]
  /\ resolved \in BOOLEAN /\ due \in BOOLEAN
  /\ live \in Nat
  /\ file \in [File -> Int]
  /\ up \in [Ingress -> BOOLEAN]
  /\ serves \in [Ingress -> Int]
  /\ cuts \in Nat
  /\ renewals \in Nat /\ faults \in Nat /\ reboots \in Nat

Init ==
  /\ boot = "start"
  /\ job = [j \in Job |-> "off"]
  /\ resolved = FALSE /\ due = TRUE
  /\ live = 0
  /\ file = SelfSigned
  /\ up = [i \in Ingress |-> FALSE]
  /\ serves = [i \in Ingress |-> 0]
  /\ cuts = 0
  /\ renewals = 0 /\ faults = 0 /\ reboots = 0

Goto(j, step) == job' = [job EXCEPT ![j] = step]
Installing == \E j \in Job : job[j] \in Install
PortTaken == up["https"] \/ \E j \in Job : job[j] = "standalone"

-----------------------------------------------------------------------------
(* UserData, docker and systemd. *)

\* systemctl enable --now arcnode-site-cert: the service runs beside the script.
EnableService ==
  /\ boot = "start"
  /\ boot' = "compose"
  /\ Goto("issue", "register")
  /\ UNCHANGED <<resolved, due, live, tls, cuts, bounds>>

\* docker compose up -d: the HTTPS ingress publishes port 80, and a port in use
\* fails the script, whose trap fails the stack.
ComposeUp ==
  /\ boot = "compose"
  /\ \/ /\ PortTaken
        /\ boot' = "failed"
        /\ UNCHANGED <<up, serves>>
     \/ /\ ~PortTaken
        /\ boot' = "up"
        /\ up' = [i \in Ingress |-> Matched(i)]
        /\ serves' = [i \in Ingress |-> IF Matched(i) THEN file[Cert[i]] ELSE serves[i]]
  /\ UNCHANGED <<job, resolved, due, live, file, cuts, bounds>>

\* restart: unless-stopped.
ContainerStarts(i) ==
  /\ boot = "up"
  /\ ~up[i] /\ Matched(i)
  /\ i = "https" => ~PortTaken
  /\ up' = [up EXCEPT ![i] = TRUE]
  /\ serves' = [serves EXCEPT ![i] = file[Cert[i]]]
  /\ UNCHANGED <<boot, job, resolved, due, live, file, cuts, bounds>>

\* The weekly timer.
StartRenew ==
  /\ boot \in {"compose", "up"}
  /\ job["renew"] \in Resting
  /\ renewals < MaxRenewals
  /\ renewals' = renewals + 1
  /\ Goto("renew", "obtain")
  /\ UNCHANGED <<boot, resolved, due, live, tls, cuts, faults, reboots>>

\* Restart=on-failure.
RestartIssue ==
  /\ job["issue"] = "failed"
  /\ Goto("issue", "register")
  /\ UNCHANGED <<boot, resolved, due, live, tls, cuts, bounds>>

\* The jobs and the containers are gone; the enabled service starts at boot.
Reboot ==
  /\ boot = "up"
  /\ reboots < MaxReboots
  /\ reboots' = reboots + 1
  /\ job' = [j \in Job |-> IF j = "issue" THEN "register" ELSE "off"]
  /\ up' = [i \in Ingress |-> FALSE]
  /\ cuts' = IF Installing THEN cuts + 1 ELSE cuts
  /\ UNCHANGED <<boot, resolved, due, live, file, serves, renewals, faults>>

\* Months later: no job is between asking certbot and having installed.
ComesDue ==
  /\ ~due
  /\ live < MaxVersion
  /\ \A j \in Job : job[j] \notin {"compare"} \cup Certbot \cup Install
  /\ due' = TRUE
  /\ UNCHANGED <<boot, job, resolved, live, tls, cuts, bounds>>

-----------------------------------------------------------------------------
(* site-cert.sh. *)

\* A command fails: curl, docker, the disk.
CommandFails(j) ==
  /\ job[j] \in Running
  /\ faults < MaxFaults
  /\ faults' = faults + 1
  /\ Goto(j, "failed")
  /\ cuts' = IF job[j] \in Install THEN cuts + 1 ELSE cuts
  /\ UNCHANGED <<boot, resolved, due, live, tls, renewals, reboots>>

\* register_address and wait_for_dns.
Register ==
  /\ job["issue"] = "register"
  /\ resolved' = TRUE
  /\ Goto("issue", "obtain")
  /\ UNCHANGED <<boot, due, live, tls, cuts, bounds>>

\* obtain_certificate asks docker ps for the ingress, which lists a container
\* that is running and one that is being restarted.  Certbot has its own lock.
ChooseChallenge(j) ==
  /\ job[j] = "obtain"
  /\ \/ \E k \in Job : job[k] \in Certbot /\ Goto(j, "failed")
     \/ /\ \A k \in Job : job[k] \notin Certbot
        /\ \/ boot = "up" /\ Goto(j, "webroot")
           \/ ~up["https"] /\ Goto(j, "standalone")
  /\ UNCHANGED <<boot, resolved, due, live, tls, cuts, bounds>>

\* Faulty variant of RunCertbot: without --keep-until-expiring.
RunCertbotAnyway(j) ==
  LET answered == resolved /\ (job[j] = "webroot" => up["https"])
  IN  /\ job[j] \in Certbot
      /\ \/ answered /\ Goto(j, "compare") /\ due' = FALSE /\ live' = live + 1
         \/ ~answered /\ Goto(j, "failed") /\ UNCHANGED <<due, live>>
      /\ UNCHANGED <<boot, resolved, tls, cuts, bounds>>

\* certbot certonly --keep-until-expiring.
RunCertbot(j) ==
  LET answered == resolved /\ (job[j] = "webroot" => up["https"])
  IN  /\ job[j] \in Certbot
      /\ \/ ~due /\ Goto(j, "compare") /\ UNCHANGED <<due, live>>
         \/ due /\ answered /\ Goto(j, "compare") /\ due' = FALSE /\ live' = live + 1
         \/ due /\ ~answered /\ Goto(j, "failed") /\ UNCHANGED <<due, live>>
      /\ UNCHANGED <<boot, resolved, tls, cuts, bounds>>

\* Faulty variant of Compare: cmp's answer is taken the other way round.
CompareWrongWay(j) ==
  /\ job[j] = "compare"
  /\ Goto(j, IF file["server"] = live THEN "server" ELSE "done")
  /\ UNCHANGED <<boot, resolved, due, live, tls, cuts, bounds>>

\* cmp -s: one file decides whether anything is to be installed.
Compare(j) ==
  /\ job[j] = "compare"
  /\ Goto(j, IF file["server"] = live THEN "done" ELSE "server")
  /\ UNCHANGED <<boot, resolved, due, live, tls, cuts, bounds>>

CopyFile(j) ==
  /\ job[j] \in File
  /\ file' = [file EXCEPT ![job[j]] = live]
  /\ Goto(j, Then(job[j]))
  /\ UNCHANGED <<boot, resolved, due, live, up, serves, cuts, bounds>>

\* reload_nginx: a container docker ps does not list is passed over, and one
\* that is being restarted, or cannot take the pair, fails the job.
Reload(j, i) ==
  /\ job[j] = (IF i = "https" THEN "reload_https" ELSE "reload_der")
  /\ \/ /\ up[i] /\ Matched(i)
        /\ serves' = [serves EXCEPT ![i] = file[Cert[i]]]
        /\ Goto(j, Then(job[j]))
        /\ UNCHANGED cuts
     \/ /\ ~up[i]
        /\ Goto(j, Then(job[j]))
        /\ UNCHANGED <<serves, cuts>>
     \/ /\ boot = "up" /\ ~(up[i] /\ Matched(i))
        /\ Goto(j, "failed")
        /\ cuts' = cuts + 1
        /\ UNCHANGED serves
  /\ UNCHANGED <<boot, resolved, due, live, file, up, bounds>>

Script(j) ==
  \/ j = "issue" /\ (Register \/ RestartIssue)
  \/ ChooseChallenge(j) \/ RunCertbot(j) \/ Compare(j) \/ CopyFile(j)
  \/ \E i \in Ingress : Reload(j, i)

Next ==
  \/ EnableService \/ ComposeUp \/ StartRenew \/ Reboot \/ ComesDue
  \/ \E i \in Ingress : ContainerStarts(i)
  \/ \E j \in Job : Script(j) \/ CommandFails(j)

Spec == Init /\ [][Next]_vars

\* A started script goes on, systemd and docker restart what they were told to.
FairSpec ==
  /\ Spec
  /\ \A j \in Job : WF_vars(Script(j))
  /\ \A i \in Ingress : WF_vars(ContainerStarts(i))

-----------------------------------------------------------------------------
(* What must hold. *)

\* Whatever the jobs, the containers and the boot interleave: with no
\* installation under way and none ever cut short, either both ingresses still
\* have the self-signed pair that UserData made for each, or all four files are
\* of one issued certificate; and a running ingress serves what is in its files.
\* This is what lets cmp go by server.pem alone.
OneCertificate ==
  cuts = 0 /\ ~Installing =>
    /\ \/ file = SelfSigned
       \/ file["server"] > 0 /\ \A f \in File : file[f] = file["server"]
    /\ \A i \in Ingress : up[i] => serves[i] = file[Cert[i]]

\* Once the stack is up, "issue" gets there, however often it is restarted and
\* whoever else runs certbot: the box leaves its self-signed certificates.
IssueInstalls == boot = "up" ~> cuts > 0 \/ (job["issue"] = "done" /\ file["server"] > 0)

\* An ingress that a reboot takes down comes back: its files never stay a
\* certificate and the key of another.
IngressComesBack ==
  \A i \in Ingress : boot = "up" /\ ~up[i] ~> up[i] \/ cuts > 0

\* site-cert.sh's header says of the two ingresses: "Both get the same
\* certificate."  When "issue" has succeeded and nothing runs, the four files
\* should be of one certificate, even if a reboot came between two of them: an
\* ingress whose key is another's does not start.
BothGetTheSame ==
  job["issue"] = "done" /\ (\A j \in Job : job[j] \in Resting) =>
    \A f, g \in File : file[f] = file[g]

-----------------------------------------------------------------------------
(* The inductive invariant: an installation has written what it is past,    *)
(* and the live certificate stands still under it.                          *)

Written(step) ==
  CASE step = "server"     -> {}
    [] step = "server_key" -> {"server"}
    [] step = "cert"       -> {"server", "server_key"}
    [] step = "key"        -> {"server", "server_key", "cert"}
    [] OTHER               -> File

Progress(j) ==
  /\ job[j] \in {"compare"} \cup Install => ~due
  /\ job[j] \in Install => \A f \in Written(job[j]) : file[f] = live
  /\ job[j] = "reload_der" /\ up["https"] => serves["https"] = live

\* Certbot has a certificate to keep only once it was issued one.
KeepsAnIssued == ~due => live > 0

NothingRunsYet == boot = "start" => \A j \in Job : job[j] = "off"

CertInv ==
  /\ TypeOK
  /\ NothingRunsYet /\ KeepsAnIssued
  /\ \A j \in Job : Progress(j)
  /\ OneCertificate

=============================================================================
