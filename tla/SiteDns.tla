------------------------------ MODULE SiteDns ------------------------------
(***************************************************************************)
(* How a cloud box gets its DNS name.  site-cert.sh on the box tells       *)
(* platform-api its address; SiteAddressService checks the callback and    *)
(* DnsClient.upsert_record writes the record.  Namecheap has no call to    *)
(* add one record: setHosts replaces them all, so an upsert reads the      *)
(* zone, swaps in its record and writes the whole set back.                *)
(*                                                                         *)
(* An asyncio.Lock keeps the upserts of one process apart.  Two writers    *)
(* are outside it: dns_cli, a process of its own, and a setHosts whose     *)
(* caller gave up (a timeout, a restart) and which Namecheap applies       *)
(* later.                                                                  *)
(*                                                                         *)
(* A box's address never changes (an Elastic IP), so a record is named by  *)
(* its host alone, and the zone is the set of hosts that have theirs.      *)
(***************************************************************************)
EXTENDS Naturals

CONSTANTS
  Box,          \* cloud boxes; each has one order, and writes one host
  Operator,     \* runs of dns_cli upsert, each for a host of its own
  Other,        \* hosts of the zone that nobody here writes
  None,         \* nobody holds the lock
  MaxFaults,    \* bound: Namecheap calls that raise
  MaxRestarts   \* bound: restarts of platform-api

Writer == Box \cup Operator
Host   == Writer \cup Other

\* Hosts are told apart: the name of a box ends in six digits of its order id.
ASSUME HostAssumption ==
  /\ Box \cap Operator = {}
  /\ Writer \cap Other = {}
  /\ None \notin Writer
ASSUME BoundsAssumption == MaxFaults \in Nat /\ MaxRestarts \in Nat

VARIABLES
  claim,     \* is a box's callback good, or why it is refused
  stage,     \* where site-cert.sh issue is on each box
  pc,        \* where each writer's request is
  read,      \* what getHosts gave it
  lock,      \* DnsClient._write_lock
  zone,      \* the hosts that have their record at Namecheap
  late,      \* setHosts calls given up on that Namecheap may yet apply
  outside,   \* has a writer outside the lock called setHosts?
  faults, restarts

vars == <<claim, stage, pc, read, lock, zone, late, outside, faults, restarts>>

Claim == {"good", "wrong_token", "unknown_order", "private_address"}
Stage == {"register", "wait_for_dns", "obtain_certificate"}

\* A request inside upsert_record, between taking the lock and giving it back.
Locked  == {"get_hosts", "set_hosts"}
Handled == {"check", "acquire"} \cup Locked
Pc      == {"idle", "ok", "refused", "error"} \cup Handled

TypeOK ==
  /\ claim \in [Box -> Claim]
  /\ stage \in [Box -> Stage]
  /\ pc \in [Writer -> Pc]
  /\ read \in [Writer -> SUBSET Host]
  /\ lock \in Box \cup {None}
  /\ zone \in SUBSET Host
  /\ late \in SUBSET SUBSET Host
  /\ outside \in BOOLEAN
  /\ faults \in 0..MaxFaults
  /\ restarts \in 0..MaxRestarts

Init ==
  /\ claim \in [Box -> Claim]
  /\ stage = [b \in Box |-> "register"]
  /\ pc = [w \in Writer |-> "idle"]
  /\ read = [w \in Writer |-> {}]
  /\ lock = None
  /\ zone = Other
  /\ late = {}
  /\ outside = FALSE
  /\ faults = 0
  /\ restarts = 0

At(w, here, next) == pc[w] = here /\ pc' = [pc EXCEPT ![w] = next]

-----------------------------------------------------------------------------
(* site-cert.sh issue; systemd starts it again when it fails. *)

\* register_address: the curl, and its retries of a 5xx or a refused connection.
Register(b) ==
  /\ stage[b] = "register"
  /\ At(b, "idle", "check")
  /\ UNCHANGED <<claim, stage, read, lock, zone, late, outside, faults, restarts>>

Answered(b) ==
  /\ \/ At(b, "ok", "idle") /\ stage' = [stage EXCEPT ![b] = "wait_for_dns"]
     \/ At(b, "error", "idle") /\ UNCHANGED stage
     \/ At(b, "refused", "idle") /\ UNCHANGED stage
  /\ UNCHANGED <<claim, read, lock, zone, late, outside, faults, restarts>>

\* wait_for_dns: "no guessed delay, no fallback".
Resolved(b) ==
  /\ stage[b] = "wait_for_dns"
  /\ b \in zone
  /\ stage' = [stage EXCEPT ![b] = "obtain_certificate"]
  /\ UNCHANGED <<claim, pc, read, lock, zone, late, outside, faults, restarts>>

-----------------------------------------------------------------------------
(* The callback: SiteAddressService.register, then upsert_record. *)

\* Faulty variant of CheckCallback: any address is taken.
CheckCallbackNotAddress(b) ==
  /\ IF claim[b] \in {"good", "private_address"}
     THEN At(b, "check", "acquire")
     ELSE At(b, "check", "refused")
  /\ UNCHANGED <<claim, stage, read, lock, zone, late, outside, faults, restarts>>

\* The token, the order and the address are checked in this order.
CheckCallback(b) ==
  /\ IF claim[b] = "good" THEN At(b, "check", "acquire") ELSE At(b, "check", "refused")
  /\ UNCHANGED <<claim, stage, read, lock, zone, late, outside, faults, restarts>>

\* Faulty variant of Acquire: the lock is not waited for.
AcquireWithoutWaiting(b) ==
  /\ At(b, "acquire", "get_hosts")
  /\ lock' = b
  /\ UNCHANGED <<claim, stage, read, zone, late, outside, faults, restarts>>

Acquire(b) ==
  /\ lock = None
  /\ At(b, "acquire", "get_hosts")
  /\ lock' = b
  /\ UNCHANGED <<claim, stage, read, zone, late, outside, faults, restarts>>

\* Faulty variant of Release: a call that raised does not give the lock back.
ReleaseOnReturn(w) == lock' = IF lock = w /\ pc'[w] = "ok" THEN None ELSE lock

\* Leaving "async with", by a return or an exception.
Release(w) == lock' = IF lock = w THEN None ELSE lock

\* list_records.
GetHosts(w) ==
  /\ \/ /\ At(w, "get_hosts", "set_hosts")
        /\ read' = [read EXCEPT ![w] = zone]
        /\ UNCHANGED <<lock, faults>>
     \/ /\ faults < MaxFaults
        /\ faults' = faults + 1
        /\ At(w, "get_hosts", "error")
        /\ Release(w)
        /\ UNCHANGED read
  /\ UNCHANGED <<claim, stage, zone, late, outside, restarts>>

\* Faulty variant of Records: the record given, without the rest.
RecordsOnlyOwn(w) == {w}

Records(w) == read[w] \cup {w}

\* _set_records.  A call that raises was applied, was not, or will be.
SetHosts(w) ==
  /\ \/ At(w, "set_hosts", "ok") /\ zone' = Records(w) /\ UNCHANGED <<late, faults>>
     \/ /\ faults < MaxFaults
        /\ faults' = faults + 1
        /\ At(w, "set_hosts", "error")
        /\ \/ zone' = Records(w) /\ UNCHANGED late
           \/ UNCHANGED <<zone, late>>
           \/ late' = late \cup {Records(w)} /\ UNCHANGED zone
  /\ Release(w)
  /\ outside' = (outside \/ w \in Operator)
  /\ UNCHANGED <<claim, stage, read, restarts>>

-----------------------------------------------------------------------------
(* Outside the lock. *)

\* dns_cli upsert: a DnsClient of its own, so a lock of its own.
RunDnsCli(p) ==
  /\ At(p, "idle", "get_hosts")
  /\ UNCHANGED <<claim, stage, read, lock, zone, late, outside, faults, restarts>>

\* Namecheap gets to a call whose caller has gone.
ApplyLate ==
  /\ \E records \in late : zone' = records /\ late' = late \ {records}
  /\ outside' = TRUE
  /\ UNCHANGED <<claim, stage, pc, read, lock, faults, restarts>>

\* platform-api restarts: its requests are gone, what they sent is not.
Restart ==
  /\ restarts < MaxRestarts
  /\ restarts' = restarts + 1
  /\ pc' = [w \in Writer |-> IF w \in Box /\ pc[w] \in Handled THEN "error" ELSE pc[w]]
  /\ lock' = None
  /\ LET sent == {Records(b) : b \in {w \in Box : pc[w] = "set_hosts"}}
     IN  \E some \in SUBSET sent : late' = late \cup some
  /\ UNCHANGED <<claim, stage, read, zone, outside, faults>>

Script(b)  == Register(b) \/ Answered(b) \/ Resolved(b)
Request(b) == CheckCallback(b) \/ Acquire(b) \/ GetHosts(b) \/ SetHosts(b)

Next ==
  \/ \E b \in Box : Script(b) \/ Request(b)
  \/ \E p \in Operator : RunDnsCli(p) \/ GetHosts(p) \/ SetHosts(p)
  \/ ApplyLate
  \/ Restart

Spec == Init /\ [][Next]_vars

\* The script and the server go on while they can; nobody has to run dns_cli.
FairSpec == Spec /\ \A b \in Box : WF_vars(Script(b)) /\ WF_vars(Request(b))

-----------------------------------------------------------------------------
(* What must hold. *)

\* An upsert keeps the rest: while only requests of this process write, no
\* record of the zone is ever lost, whatever calls raise and in whatever order
\* the callbacks arrive (the comment on _write_lock).
KeepsTheRest == [][zone \subseteq zone' \/ outside']_vars

\* upsert_record says it sets its record "keeping the rest".  Whoever calls it, and
\* whenever Namecheap gets to it, no record of the zone should be lost.
EveryUpsertKeepsTheRest == [][zone \subseteq zone']_vars

\* A box that was told its name is set finds it set: it waits for it without
\* ever asking again.
AcknowledgedNameStands ==
  \A b \in Box : stage[b] # "register" /\ b \notin zone => outside

\* A callback that is refused writes nothing, now or later.
RefusedWritesNothing ==
  \A b \in Box : claim[b] # "good" => b \notin zone \cup UNION late

\* A box with a good callback gets past its name, unless somebody outside the
\* lock writes: no exception and no restart leaves the lock held.
BoxGetsItsName ==
  \A b \in Box :
    claim[b] = "good" /\ stage[b] = "register" ~> stage[b] = "obtain_certificate" \/ outside

-----------------------------------------------------------------------------
(* The inductive invariant: one request at a time is between its getHosts   *)
(* and its setHosts, and what it read is still what Namecheap has.          *)

HoldsLock(b) == pc[b] \in Locked => lock = b
ReadIsCurrent(b) == pc[b] = "set_hosts" /\ ~outside => read[b] = zone
Asked(w) == w \in Operator \/ claim[w] = "good"
OnlyAsked(hosts) == \A w \in hosts \cap Writer : Asked(w)

DnsInv ==
  /\ TypeOK
  /\ \A b \in Box : HoldsLock(b) /\ ReadIsCurrent(b)
  /\ \A b \in Box : pc[b] = "ok" \/ stage[b] # "register" => b \in zone \/ outside
  /\ \A b \in Box : pc[b] \in {"acquire", "ok"} \cup Locked => claim[b] = "good"
  /\ OnlyAsked(zone)
  /\ \A records \in late : OnlyAsked(records)
  /\ \A w \in Writer : OnlyAsked(read[w])

=============================================================================
