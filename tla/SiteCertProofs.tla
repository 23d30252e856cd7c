--------------------------- MODULE SiteCertProofs ---------------------------
(* Outside an installation the files are the self-signed pairs of UserData  *)
(* or of one issued certificate, for every number of renewals, faults and   *)
(* reboots.                                                                 *)
EXTENDS SiteCert, TLAPS

LEMMA InitInv == Init => CertInv
<1> SUFFICES ASSUME Init PROVE CertInv
  OBVIOUS
<1>1. TypeOK
  <2>1. file \in [File -> Int]
    BY DEF Init, SelfSigned, File
  <2>2. /\ job \in [Job -> Resting \cup Running]
        /\ up \in [Ingress -> BOOLEAN] /\ serves \in [Ingress -> Int]
    BY DEF Init, Resting
  <2>3. QED BY <2>1, <2>2 DEF Init, TypeOK
<1>2. \A j \in Job : Progress(j)
  BY DEF Init, Progress, Install, File
<1>3. OneCertificate
  BY DEF Init, OneCertificate, File
<1>4. QED BY <1>1, <1>2, <1>3 DEF CertInv, NothingRunsYet, KeepsAnIssued, Init

LEMMA ThenType == \A step \in Install : Then(step) \in Resting \cup Running
BY DEF Then, Install, File, Running, Resting

LEMMA NextType == TypeOK /\ [Next]_vars => TypeOK'
<1> SUFFICES ASSUME TypeOK, [Next]_vars PROVE TypeOK'
  OBVIOUS
<1> USE DEF TypeOK, Goto, Running, Resting, Certbot, Job, Ingress, tls, bounds
<1>1. CASE EnableService \/ StartRenew \/ ComesDue
  <2>1. CASE EnableService BY <2>1 DEF EnableService
  <2>2. CASE StartRenew BY <2>2 DEF StartRenew
  <2>3. CASE ComesDue BY <2>3 DEF ComesDue
  <2>4. QED BY <1>1, <2>1, <2>2, <2>3
<1>2. CASE ComposeUp
  <2>1. \A i \in Ingress : file[Cert[i]] \in Int
    BY DEF Cert, File
  <2>2. up' \in [Ingress -> BOOLEAN] /\ serves' \in [Ingress -> Int]
    <3>1. CASE UNCHANGED <<up, serves>>
      BY <3>1
    <3>2. CASE /\ up' = [i \in Ingress |-> Matched(i)]
               /\ serves' = [i \in Ingress |-> IF Matched(i) THEN file[Cert[i]] ELSE serves[i]]
      <4>1. \A i \in Ingress : (IF Matched(i) THEN file[Cert[i]] ELSE serves[i]) \in Int
        BY <2>1
      <4>2. \A i \in Ingress : Matched(i) \in BOOLEAN
        BY DEF Matched
      <4>3. QED BY <3>2, <4>1, <4>2
    <3>3. QED BY <1>2, <3>1, <3>2 DEF ComposeUp
  <2>3. boot' \in {"up", "failed"}
    BY <1>2 DEF ComposeUp
  <2>4. QED BY <1>2, <2>2, <2>3 DEF ComposeUp
<1>3. CASE Reboot
  <2>1. job' \in [Job -> Resting \cup Running] /\ up' \in [Ingress -> BOOLEAN]
    BY <1>3 DEF Reboot
  <2>2. QED BY <1>3, <2>1 DEF Reboot
<1>4. ASSUME NEW i \in Ingress, ContainerStarts(i) PROVE TypeOK'
  BY <1>4 DEF ContainerStarts, Cert, File
<1>5. ASSUME NEW j \in Job, CommandFails(j) PROVE TypeOK'
  BY <1>5 DEF CommandFails
<1>6. ASSUME NEW j \in Job, Script(j) PROVE TypeOK'
  <2>1. CASE Register \/ RestartIssue
    BY <2>1 DEF Register, RestartIssue
  <2>2. CASE ChooseChallenge(j)
    BY <2>2 DEF ChooseChallenge
  <2>3. CASE RunCertbot(j)
    <3>1. job' \in [Job -> Resting \cup Running]
      BY <2>3 DEF RunCertbot
    <3>2. due' \in BOOLEAN
      <4>1. due' = due \/ due' = FALSE
        BY <2>3 DEF RunCertbot
      <4>2. QED BY <4>1
    <3>3. live' \in Nat
      <4>1. live' = live \/ live' = live + 1
        BY <2>3 DEF RunCertbot
      <4>2. QED BY <4>1
    <3>4. QED BY <2>3, <3>1, <3>2, <3>3 DEF RunCertbot
  <2>4. CASE Compare(j)
    <3>1. {"done", "server"} \subseteq Resting \cup Running
      BY DEF Install, File
    <3>2. QED BY <2>4, <3>1 DEF Compare
  <2>5. CASE CopyFile(j)
    <3>1. Then(job[j]) \in Resting \cup Running
      BY <2>5, ThenType DEF CopyFile, Install
    <3>2. QED BY <2>5, <3>1 DEF CopyFile
  <2>6. ASSUME NEW i \in Ingress, Reload(j, i) PROVE TypeOK'
    <3>1. Then(job[j]) \in Resting \cup Running
      BY <2>6, ThenType DEF Reload, Install
    <3>2. QED BY <2>6, <3>1 DEF Reload, Cert, File
  <2>7. QED BY <1>6, <2>1, <2>2, <2>3, <2>4, <2>5, <2>6 DEF Script
<1>7. CASE UNCHANGED vars
  BY <1>7 DEF vars
<1>8. QED BY <1>1, <1>2, <1>3, <1>4, <1>5, <1>6, <1>7 DEF Next

-----------------------------------------------------------------------------
(* What one command of an installation adds to what is written. *)

LEMMA Writes ==
  ASSUME NEW step \in File
  PROVE  /\ Then(step) \in Install \ {"reload_der"}
         /\ Written(Then(step)) = Written(step) \cup {step}
BY DEF Then, Written, File, Install

LEMMA Reloads ==
  /\ Then("reload_https") = "reload_der"
  /\ Then("reload_der") = "done"
  /\ Written("reload_https") = File
  /\ Written("reload_der") = File
BY DEF Then, Written

\* A step that leaves the certificate, the files and the ingresses alone, and takes
\* jobs only to where no installation is, or out of one that is cut short.
LEMMA QuietStep ==
  ASSUME CertInv, UNCHANGED <<live, file, serves>>,
         \A i \in Ingress : up'[i] => up[i],
         \A j \in Job : \/ job'[j] = job[j]
                        \/ job'[j] \notin {"compare"} \cup Install
                        \/ job'[j] = "compare" /\ ~due'
                        \/ job'[j] = "server" /\ job[j] = "compare",
         due' /\ ~due => \A j \in Job : job'[j] \notin {"compare"} \cup Install,
         cuts' = 0 => cuts = 0 /\ \A j \in Job : job[j] \in Install => job'[j] \in Install
  PROVE  (\A j \in Job : Progress(j)') /\ OneCertificate'
<1>1. ASSUME NEW j \in Job PROVE Progress(j)'
  <2>1. Progress(j)
    BY DEF CertInv
  <2>2. Written("server") = {} /\ "compare" \notin Install /\ "server" \in Install
    BY DEF Written, Install, File
  <2>3. "reload_der" \in Install /\ "https" \in Ingress
    BY DEF Install, Ingress
  <2>4. job'[j] \in {"compare"} \cup Install => ~due'
    BY <2>1, <2>2 DEF Progress, CertInv, TypeOK
  <2>5. QED BY <2>1, <2>2, <2>3, <2>4 DEF Progress
<1>2. ASSUME cuts' = 0, ~Installing' PROVE cuts = 0 /\ ~Installing
  BY <1>2 DEF Installing
<1>3. OneCertificate'
  BY <1>2 DEF CertInv, OneCertificate
<1>4. QED BY <1>1, <1>3

LEMMA NextNothingRunsYet == TypeOK /\ NothingRunsYet /\ [Next]_vars => NothingRunsYet'
<1> SUFFICES ASSUME TypeOK, NothingRunsYet, [Next]_vars, boot' = "start"
             PROVE  \A j \in Job : job'[j] = "off"
  BY DEF NothingRunsYet
<1>1. boot = "start" => \A j \in Job : job[j] = "off"
  BY DEF NothingRunsYet
<1>2. CASE EnableService \/ ComposeUp \/ StartRenew \/ Reboot \/ ComesDue
  BY <1>1, <1>2 DEF EnableService, ComposeUp, StartRenew, Reboot, ComesDue
<1>3. ASSUME NEW i \in Ingress, ContainerStarts(i) PROVE \A j \in Job : job'[j] = "off"
  BY <1>1, <1>3 DEF ContainerStarts
<1>4. ASSUME NEW j \in Job, Script(j) \/ CommandFails(j) PROVE FALSE
  <2>1. boot = "start"
    BY <1>4 DEF Script, CommandFails, Register, RestartIssue, ChooseChallenge, RunCertbot,
                Compare, CopyFile, Reload
  <2>2. job[j] = "off"
    BY <1>1, <2>1
  <2>3. QED
    BY <1>4, <2>2 DEF Script, CommandFails, Register, RestartIssue, ChooseChallenge,
                      RunCertbot, Compare, CopyFile, Reload, Running, Certbot, Install, File
<1>5. CASE UNCHANGED vars
  BY <1>1, <1>5 DEF vars
<1>6. QED BY <1>2, <1>3, <1>4, <1>5 DEF Next

\* A certificate is kept, not issued, only once certbot has one.
LEMMA NextKeepsAnIssued == TypeOK /\ KeepsAnIssued /\ [Next]_vars => KeepsAnIssued'
<1> SUFFICES ASSUME TypeOK, KeepsAnIssued, [Next]_vars PROVE KeepsAnIssued'
  OBVIOUS
<1>1. UNCHANGED <<due, live>> \/ (due' = TRUE /\ live' = live) \/ live' = live + 1
  <2>1. CASE EnableService \/ ComposeUp \/ StartRenew \/ Reboot \/ ComesDue
    BY <2>1 DEF EnableService, ComposeUp, StartRenew, Reboot, ComesDue
  <2>2. ASSUME NEW i \in Ingress, ContainerStarts(i) PROVE UNCHANGED <<due, live>>
    BY <2>2 DEF ContainerStarts
  <2>3. ASSUME NEW j \in Job, Script(j) \/ CommandFails(j)
        PROVE  UNCHANGED <<due, live>> \/ live' = live + 1
    BY <2>3 DEF Script, CommandFails, Register, RestartIssue, ChooseChallenge, RunCertbot,
                Compare, CopyFile, Reload
  <2>4. QED BY <2>1, <2>2, <2>3 DEF Next, vars
<1>2. QED BY <1>1 DEF KeepsAnIssued, TypeOK

LEMMA NextInv == CertInv /\ [Next]_vars => CertInv'
<1> SUFFICES ASSUME CertInv, [Next]_vars PROVE CertInv'
  OBVIOUS
<1>1. TypeOK /\ TypeOK' /\ NothingRunsYet' /\ KeepsAnIssued'
  BY NextType, NextNothingRunsYet, NextKeepsAnIssued DEF CertInv
<1> DEFINE Rest == (\A j \in Job : Progress(j)') /\ OneCertificate'
<1> SUFFICES Rest
  BY <1>1 DEF CertInv
<1>2. CASE EnableService \/ StartRenew \/ ComesDue \/ Reboot
  <2>1. CASE EnableService
    <3>1. \A j \in Job : job'[j] = job[j] \/ job'[j] = "register"
      BY <1>1, <2>1 DEF EnableService, TypeOK, Goto
    <3>2. UNCHANGED <<live, file, serves, due, up, cuts>>
      BY <2>1 DEF EnableService, tls
    <3>3. \A j \in Job : job[j] \notin Install
      BY <2>1 DEF EnableService, CertInv, NothingRunsYet, Install, File
    <3>4. QED BY <3>1, <3>2, <3>3, QuietStep DEF Install, File
  <2>2. CASE StartRenew
    BY <1>1, <2>2, QuietStep
    DEF StartRenew, TypeOK, Goto, Install, File, Job, Resting, tls, bounds
  <2>3. CASE ComesDue
    BY <1>1, <2>3, QuietStep DEF ComesDue, TypeOK, tls, bounds
  <2>4. CASE Reboot
    <3>1. cuts' = 0 => cuts = 0 /\ ~Installing
      BY <1>1, <2>4 DEF Reboot, TypeOK
    <3>2. \A j \in Job : job'[j] \notin {"compare"} \cup Install
      BY <2>4 DEF Reboot, Install, File
    <3>3. QED BY <1>1, <2>4, <3>1, <3>2, QuietStep DEF Reboot, TypeOK, Installing
  <2>5. QED BY <1>2, <2>1, <2>2, <2>3, <2>4
<1>3. CASE ComposeUp
  <2>1. \A j \in Job : Progress(j)'
    BY <1>1, <1>3 DEF ComposeUp, CertInv, Progress, TypeOK, Written, Install, File, Ingress,
                      Cert, Matched
  <2>2. OneCertificate'
    BY <1>1, <1>3 DEF ComposeUp, CertInv, OneCertificate, TypeOK, File, Ingress, Cert,
                      Installing
  <2>3. QED BY <2>1, <2>2
<1>4. ASSUME NEW i \in Ingress, ContainerStarts(i) PROVE Rest
  <2>1. \A j \in Job : Progress(j)'
    BY <1>1, <1>4 DEF ContainerStarts, CertInv, Progress, TypeOK, Written, Install, File,
                      Ingress, Cert
  <2>2. OneCertificate'
    BY <1>1, <1>4 DEF ContainerStarts, CertInv, OneCertificate, TypeOK, File, Ingress, Cert,
                      Installing
  <2>3. QED BY <2>1, <2>2
<1>5. ASSUME NEW j \in Job, CommandFails(j) PROVE Rest
  <2>1. cuts' = 0 => cuts = 0 /\ job[j] \notin Install
    BY <1>1, <1>5 DEF CommandFails, TypeOK
  <2>2. QED
    BY <1>1, <1>5, <2>1, QuietStep DEF CommandFails, TypeOK, Goto, Install, File, tls, bounds
<1>6. ASSUME NEW j \in Job, Script(j) PROVE Rest
  <2>1. CASE Register \/ RestartIssue
    BY <1>1, <2>1, QuietStep
    DEF Register, RestartIssue, TypeOK, Goto, Install, File, Job, tls, bounds
  <2>2. CASE ChooseChallenge(j)
    BY <1>1, <2>2, QuietStep
    DEF ChooseChallenge, TypeOK, Goto, Install, File, Certbot, tls, bounds
  <2>3. CASE RunCertbot(j)
    <3>1. job[j] \notin Install /\ "compare" \notin Install /\ "failed" \notin Install
      BY <2>3 DEF RunCertbot, Certbot, Install, File
    <3>2. CASE UNCHANGED <<due, live>>
      BY <1>1, <2>3, <3>1, <3>2, QuietStep
      DEF RunCertbot, TypeOK, Goto, tls, bounds
    <3>3. CASE due /\ due' = FALSE
      <4>1. \A k \in Job : job[k] \notin Install /\ job'[k] \notin Install
        BY <1>1, <2>3, <3>1, <3>3 DEF RunCertbot, TypeOK, Goto, CertInv, Progress
      <4>2. \A k \in Job : Progress(k)'
        BY <3>3, <4>1 DEF Progress, Install
      <4>3. OneCertificate'
        BY <2>3, <4>1 DEF RunCertbot, CertInv, OneCertificate, Installing, tls
      <4>4. QED BY <4>2, <4>3
    <3>4. QED BY <2>3, <3>2, <3>3 DEF RunCertbot
  <2>4. CASE Compare(j)
    BY <1>1, <2>4, QuietStep DEF Compare, TypeOK, Goto, Install, File, tls, bounds
  <2>5. CASE CopyFile(j)
    <3>1. /\ job'[j] \in Install \ {"reload_der"}
          /\ Written(job'[j]) = Written(job[j]) \cup {job[j]}
      BY <1>1, <2>5, Writes DEF CopyFile, TypeOK, Goto
    <3>2. \A f \in File : file[f] = live => file'[f] = live
      BY <1>1, <2>5 DEF CopyFile, TypeOK
    <3>3. \A k \in Job : Written(job[k]) \subseteq File
      BY DEF Written, File
    <3>4. Progress(j)'
      BY <1>1, <2>5, <3>1, <3>2, <3>3 DEF CopyFile, TypeOK, CertInv, Progress, Install
    <3>5. ASSUME NEW k \in Job \ {j} PROVE Progress(k)'
      BY <1>1, <2>5, <3>2, <3>3 DEF CopyFile, TypeOK, Goto, CertInv, Progress
    <3>6. Installing'
      BY <3>1 DEF Installing
    <3>7. QED BY <3>4, <3>5, <3>6 DEF OneCertificate
  <2>6. ASSUME NEW i \in Ingress, Reload(j, i) PROVE Rest
    <3>1. job[j] \in Install /\ ~due /\ \A f \in File : file[f] = live
      BY <2>6, Reloads DEF Reload, Install, CertInv, Progress
    <3>2. CASE cuts' = cuts + 1
      BY <1>1, <2>6, <3>2, QuietStep DEF Reload, TypeOK, Goto, Install, File, bounds
    <3>3. CASE UNCHANGED cuts
      <4>1. job' = [job EXCEPT ![j] = Then(job[j])]
        BY <1>1, <2>6, <3>3 DEF Reload, Goto, TypeOK
      <4>2. up'[i] => serves'[i] = live
        BY <1>1, <2>6, <3>1, <3>3 DEF Reload, TypeOK, Cert, File, Ingress
      <4>3. \A h \in Ingress : serves[h] = live => serves'[h] = live
        BY <1>1, <2>6, <4>2 DEF Reload, TypeOK
      <4>4. ASSUME NEW k \in Job PROVE Progress(k)'
        BY <1>1, <2>6, <3>1, <4>1, <4>2, <4>3, Reloads
        DEF Reload, TypeOK, CertInv, Progress, Install, File, Written, Ingress
      <4>5. ASSUME ~Installing' PROVE \A h \in Ingress : up'[h] => serves'[h] = live
        <5>1. job[j] = "reload_der" /\ i = "der"
          BY <1>1, <2>6, <4>1, <4>5, Reloads DEF Reload, TypeOK, Installing, Install, Ingress
        <5>2. up["https"] => serves["https"] = live
          BY <5>1 DEF CertInv, Progress
        <5>3. QED BY <2>6, <4>2, <4>3, <5>1, <5>2 DEF Ingress, Reload
      <4>6. OneCertificate'
        <5>1. live > 0
          BY <3>1 DEF CertInv, KeepsAnIssued
        <5>2. file' = file /\ \A h \in Ingress : Cert[h] \in File
          BY <2>6 DEF Reload, Ingress, Cert, File
        <5>3. "server" \in File
          BY DEF File
        <5>4. QED BY <3>1, <4>5, <5>1, <5>2, <5>3 DEF OneCertificate
      <4>7. QED BY <4>4, <4>6
    <3>4. QED BY <2>6, <3>2, <3>3 DEF Reload
  <2>7. QED BY <1>6, <2>1, <2>2, <2>3, <2>4, <2>5, <2>6 DEF Script
<1>7. CASE UNCHANGED vars
  BY <1>1, <1>7, QuietStep DEF vars, tls, bounds
<1>8. QED BY <1>2, <1>3, <1>4, <1>5, <1>6, <1>7 DEF Next

\* The inductive invariant of the certificate jobs: an installation has written what
\* it is past, no certificate is issued under it, and certbot keeps a certificate only
\* once it was issued one.
THEOREM CertInvHolds == Spec => []CertInv
<1>1. QED BY InitInv, NextInv, PTL DEF Spec

\* Whatever the jobs, reboots and containers interleave, whenever nothing installs and
\* no installation was cut short: the files are UserData's two self-signed pairs, or
\* all four of one issued certificate, and a running ingress serves what they hold.
THEOREM OneCertificateHolds == Spec => []OneCertificate
<1>1. CertInv => OneCertificate
  BY DEF CertInv
<1>2. QED BY <1>1, CertInvHolds, PTL
=============================================================================
