--------------------------- MODULE SiteDnsProofs ---------------------------
(* Upserts keep each other's records, for every number of boxes and faults. *)
EXTENDS SiteDns, TLAPS

LEMMA InitInv == Init => DnsInv
<1> SUFFICES ASSUME Init PROVE DnsInv
  OBVIOUS
<1>1. TypeOK
  <2>1. claim \in [Box -> Claim] /\ stage \in [Box -> Stage]
    BY DEF Init, Stage
  <2>2. pc \in [Writer -> Pc] /\ lock \in Box \cup {None} /\ outside \in BOOLEAN
    BY DEF Init, Pc
  <2>3. read \in [Writer -> SUBSET Host] /\ zone \in SUBSET Host /\ late \in SUBSET SUBSET Host
    BY DEF Init, Host
  <2>4. faults \in 0..MaxFaults /\ restarts \in 0..MaxRestarts
    BY BoundsAssumption DEF Init
  <2>5. QED BY <2>1, <2>2, <2>3, <2>4 DEF TypeOK
<1>2. OnlyAsked(zone)
  BY HostAssumption DEF Init, OnlyAsked
<1>3. \A w \in Writer : OnlyAsked(read[w])
  BY DEF Init, OnlyAsked
<1>4. QED BY <1>1, <1>2, <1>3 DEF Init, DnsInv, HoldsLock, ReadIsCurrent, Locked, Writer

LEMMA NextType == TypeOK /\ [Next]_vars => TypeOK'
<1> SUFFICES ASSUME TypeOK, [Next]_vars PROVE TypeOK'
  OBVIOUS
<1> USE HostAssumption, BoundsAssumption
    DEF TypeOK, At, Stage, Pc, Handled, Locked, Host, Writer
<1>1. ASSUME NEW b \in Box, Script(b) PROVE TypeOK'
  BY <1>1 DEF Script, Register, Answered, Resolved
<1>2. ASSUME NEW b \in Box, CheckCallback(b) \/ Acquire(b) PROVE TypeOK'
  BY <1>2 DEF CheckCallback, Acquire
<1>3. ASSUME NEW w \in Writer, GetHosts(w) PROVE TypeOK'
  BY <1>3 DEF GetHosts, Release
<1>4. ASSUME NEW w \in Writer, SetHosts(w) PROVE TypeOK'
  BY <1>4 DEF SetHosts, Release, Records
<1>5. ASSUME NEW p \in Operator, RunDnsCli(p) PROVE TypeOK'
  BY <1>5 DEF RunDnsCli
<1>6. CASE ApplyLate
  BY <1>6 DEF ApplyLate
<1>7. CASE Restart
  <2>1. {Records(b) : b \in {w \in Box : pc[w] = "set_hosts"}} \in SUBSET SUBSET Host
    BY DEF Records
  <2>2. late' \in SUBSET SUBSET Host
    BY <1>7, <2>1 DEF Restart
  <2>3. pc' \in [Writer -> Pc]
    BY <1>7 DEF Restart
  <2>4. QED BY <1>7, <2>2, <2>3 DEF Restart
<1>8. CASE UNCHANGED vars
  BY <1>8 DEF vars
<1>9. QED BY <1>1, <1>2, <1>3, <1>4, <1>5, <1>6, <1>7, <1>8 DEF Next, Request

\* Only setHosts takes work: its caller holds the lock, so nobody else is between
\* a getHosts and a setHosts, and what it read is the zone unless an outsider wrote.
LEMMA NextInv == DnsInv /\ [Next]_vars => DnsInv'
<1> SUFFICES ASSUME DnsInv, [Next]_vars PROVE DnsInv'
  OBVIOUS
<1>1. TypeOK /\ TypeOK'
  BY NextType DEF DnsInv
<1> USE HostAssumption, <1>1
    DEF DnsInv, TypeOK, At, Handled, Locked, Host, Writer, HoldsLock, ReadIsCurrent,
        OnlyAsked, Asked
<1>2. ASSUME NEW b \in Box, Script(b) PROVE DnsInv'
  BY <1>2 DEF Script, Register, Answered, Resolved
<1>3. ASSUME NEW b \in Box, CheckCallback(b) PROVE DnsInv'
  BY <1>3 DEF CheckCallback
<1>4. ASSUME NEW b \in Box, Acquire(b) PROVE DnsInv'
  BY <1>4 DEF Acquire
<1>5. ASSUME NEW w \in Writer, GetHosts(w) PROVE DnsInv'
  BY <1>5 DEF GetHosts, Release
<1>6. ASSUME NEW w \in Writer, SetHosts(w) PROVE DnsInv'
  <2>1. w \in Box => read[w] = zone \/ outside
    BY <1>6 DEF SetHosts
  <2>2. w \in Box => \A b \in Box \ {w} : pc[b] \notin Locked /\ pc'[b] = pc[b]
    BY <1>6 DEF SetHosts
  <2>3. ASSUME NEW b \in Box PROVE HoldsLock(b)' /\ ReadIsCurrent(b)'
    BY <1>6, <2>2 DEF SetHosts, Release
  <2>4. ASSUME NEW b \in Box, (pc[b] = "ok" \/ stage[b] # "register")' 
        PROVE  (b \in zone \/ outside)'
    BY <1>6, <2>1, <2>4 DEF SetHosts, Records
  <2>5. \A b \in Box : pc'[b] \in {"acquire", "ok"} \cup Locked => claim'[b] = "good"
    BY <1>6 DEF SetHosts
  <2>6. OnlyAsked(Records(w))
    BY <1>6 DEF SetHosts, Records
  <2>7. OnlyAsked(zone)' /\ \A records \in late' : OnlyAsked(records)
    BY <1>6, <2>6 DEF SetHosts
  <2>8. \A v \in Writer : OnlyAsked(read[v])'
    BY <1>6 DEF SetHosts
  <2>9. QED
    BY <1>6, <2>3, <2>4, <2>5, <2>7, <2>8 DEF SetHosts
<1>7. ASSUME NEW p \in Operator, RunDnsCli(p) PROVE DnsInv'
  BY <1>7 DEF RunDnsCli
<1>8. CASE ApplyLate
  BY <1>8 DEF ApplyLate
<1>9. CASE Restart
  BY <1>9 DEF Restart, Records
<1>10. CASE UNCHANGED vars
  BY <1>10 DEF vars
<1>11. QED BY <1>2, <1>3, <1>4, <1>5, <1>6, <1>7, <1>8, <1>9, <1>10 DEF Next, Request

\* The lock keeps every read-modify-write of the process apart.
THEOREM DnsInvHolds == Spec => []DnsInv
<1>1. QED BY InitInv, NextInv, PTL DEF Spec

\* No upsert of the process costs another host its record.
THEOREM UpsertKeepsTheRest == Spec => KeepsTheRest
<1>1. ASSUME DnsInv, [Next]_vars PROVE [zone \subseteq zone' \/ outside']_vars
  <2>1. CASE \E w \in Writer : SetHosts(w)
    <3>1. PICK w \in Writer : SetHosts(w)
      BY <2>1
    <3>2. CASE w \in Operator
      BY <3>1, <3>2 DEF SetHosts
    <3>3. CASE w \in Box
      <4>1. read[w] = zone \/ outside
        BY <1>1, <3>1, <3>3 DEF DnsInv, ReadIsCurrent, SetHosts, At
      <4>2. QED BY <1>1, <3>1, <4>1 DEF SetHosts, Records, DnsInv, TypeOK
    <3>4. QED BY <3>1, <3>2, <3>3 DEF Writer
  <2>2. CASE ApplyLate
    BY <2>2 DEF ApplyLate
  <2>3. CASE UNCHANGED zone
    BY <2>3
  <2>4. CASE ~(\E w \in Writer : SetHosts(w)) /\ ~ApplyLate
    <3>1. UNCHANGED zone
      BY <1>1, <2>4
      DEF Next, Script, Request, Register, Answered, Resolved, CheckCallback, Acquire,
          GetHosts, RunDnsCli, Restart, vars, Writer
    <3>2. QED BY <2>3, <3>1
  <2>5. QED BY <2>1, <2>2, <2>4
<1>2. QED BY <1>1, DnsInvHolds, PTL DEF Spec, KeepsTheRest

\* Who was told its name is set has its record.
THEOREM AcknowledgedNamesStand == Spec => []AcknowledgedNameStands
<1>1. DnsInv => AcknowledgedNameStands
  BY DEF DnsInv, AcknowledgedNameStands
<1>2. QED BY <1>1, DnsInvHolds, PTL

\* A refused callback leaves no record behind.
THEOREM RefusedCallbacksWriteNothing == Spec => []RefusedWritesNothing
<1>1. DnsInv => RefusedWritesNothing
  BY HostAssumption DEF DnsInv, RefusedWritesNothing, OnlyAsked, Asked, Writer
<1>2. QED BY <1>1, DnsInvHolds, PTL

=============================================================================
