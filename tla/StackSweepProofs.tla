--------------------------- MODULE StackSweepProofs ---------------------------
(***************************************************************************)
(* Proofs about StackSweep, for every set of plans and any number of       *)
(* faults: the sweep takes no secret or parameter of a customer's stack    *)
(* whose every status is one it asks for.                                  *)
(***************************************************************************)
EXTENDS StackSweep, TLAPS

\* What the sweep's list and cutoff say of the stack at each of its steps: a
\* list without an old stack was made while it had a status left out of
\* ALIVE_STACK_STATUSES, or after its deletion was asked for by the sweep.
SweepKnows ==
  /\ old => stack # "none"
  /\ stack \notin ALIVE_STACK_STATUSES \cup {"none"} => strayed
  /\ sweep.aged \/ gone # {} => old
  /\ sweep.aged /\ ~sweep.knows => smoke \/ strayed

SweepType ==
  /\ smoke \in BOOLEAN /\ old \in BOOLEAN /\ strayed \in BOOLEAN
  /\ sweep \in [at : {"idle", "stacks", "secrets"}, knows : BOOLEAN, aged : BOOLEAN]

SweepInv == SweepType /\ SweepKnows /\ KeepsSecrets

LEMMA InitSweepInv == ASSUME SweepInit PROVE SweepInv
<1>1. gone = {} /\ stack = "none"
  BY Zenon DEF SweepInit, Init
<1>2. sweep = Idle /\ ~smoke /\ ~old /\ ~strayed
      /\ smoke \in BOOLEAN /\ old \in BOOLEAN /\ strayed \in BOOLEAN
  BY Zenon DEF SweepInit
<1>3. SweepType
  BY <1>2 DEF SweepType, Idle
<1>4. SweepKnows
  BY <1>1, <1>2 DEF SweepKnows, Idle
<1>5. QED
  BY <1>1, <1>3, <1>4 DEF SweepInv, KeepsSecrets

\* A step of the creation leaves the stack alive and what it has alone.
LEMMA CreationSteps ==
  ASSUME Next
  PROVE  /\ gone' = gone
         /\ stack' \in {stack, "CREATE_IN_PROGRESS", "CREATE_COMPLETE", "ROLLBACK_IN_PROGRESS"}
<1>1. CASE CreateStack
  BY <1>1 DEF CreateStack
<1>2. CASE CreateQuick
  BY <1>2 DEF CreateQuick
<1>3. CASE \E r \in Plain : CreateLate(r)
  BY <1>3 DEF CreateLate
<1>4. CASE Finish
  BY <1>4 DEF Finish
<1>5. CASE Fail
  BY <1>5 DEF Fail, RollBack
<1>6. ASSUME NEW c \in Custom, GiveUp(c) \/ Invoke(c) \/ Accept(c)
      PROVE  /\ gone' = gone
             /\ stack' \in {stack, "ROLLBACK_IN_PROGRESS"}
  BY <1>6 DEF GiveUp, RollBack, Invoke, Accept
<1>7. ASSUME NEW c \in Custom, Handle(c)
      PROVE  gone' = gone /\ stack' = stack
  BY <1>7 DEF Handle, Work, WorkRaises, Answer, AnswerRaises, TimesOut
<1>8. CASE Launch \/ Run \/ RunFailsUnseen \/ RunTraps \/ Signalled
  BY <1>8 DEF Launch, Run, RunFailsUnseen, RunTraps, Signalled
<1>9. CASE CreationPolicy
  BY <1>9 DEF CreationPolicy, RollBack
<1>10. QED
  BY <1>1, <1>2, <1>3, <1>4, <1>5, <1>6, <1>7, <1>8, <1>9 DEF Next

LEMMA StepSweepInv ==
  ASSUME SweepInv, [SweepNext]_vars
  PROVE  SweepInv'
<1> USE DEF SweepInv, SweepType, SweepKnows, KeepsSecrets
<1>1. CASE Next /\ UNCHANGED sweepVars
  <2>1. UNCHANGED <<smoke, old, strayed, sweep, gone>>
    BY <1>1, CreationSteps DEF sweepVars
  <2>2. old => stack' # "none"
    BY <1>1, CreationSteps
  <2>3. stack' \notin ALIVE_STACK_STATUSES \cup {"none"} => strayed
    BY <1>1, CreationSteps DEF ALIVE_STACK_STATUSES
  <2>4. QED
    BY <2>1, <2>2, <2>3
<1>2. CASE Age
  <2>1. UNCHANGED <<stack, gone, strayed, sweep>>
    BY <1>2 DEF Age, stackVars
  <2>2. /\ ~old /\ stack # "none"
        /\ old' = TRUE /\ smoke' \in BOOLEAN
    BY <1>2 DEF Age
  <2>3. SweepType' /\ KeepsSecrets'
    BY <2>1, <2>2
  <2>4. SweepKnows'
    BY <2>1, <2>2
  <2>5. QED
    BY <2>3, <2>4
<1>3. CASE Move
  <2>1. stack' # "none"
    BY <1>3 DEF Move, Moves
  <2>2. strayed' = (strayed \/ stack' \notin ALIVE_STACK_STATUSES)
    BY <1>3 DEF Move
  <2>3. UNCHANGED <<smoke, old, sweep, gone>>
    BY <1>3 DEF Move
  <2>4. QED
    BY <2>1, <2>2, <2>3
<1>4. CASE StartSweep
  <2>1. sweep' = [at |-> "stacks", knows |-> Listed, aged |-> old]
    BY <1>4 DEF StartSweep
  <2>2. UNCHANGED <<stack, gone, smoke, old, strayed>>
    BY <1>4 DEF StartSweep, stackVars
  <2>3. old /\ ~Listed => strayed
    BY DEF Listed
  <2>4. Listed \in BOOLEAN
    BY DEF Listed
  <2>5. QED
    BY <2>1, <2>2, <2>3, <2>4
<1>5. CASE SweepStacks
  <2>1. UNCHANGED <<gone, smoke, old, strayed>>
    BY <1>5 DEF SweepStacks
  <2>2. CASE /\ smoke /\ stack' = "DELETE_IN_PROGRESS"
             /\ sweep' = [sweep EXCEPT !.at = "secrets", !.knows = FALSE]
    BY <2>1, <2>2 DEF ALIVE_STACK_STATUSES
  <2>3. CASE UNCHANGED stack /\ sweep' = [sweep EXCEPT !.at = "secrets"]
    BY <2>1, <2>3
  <2>4. QED
    BY <1>5, <2>2, <2>3 DEF SweepStacks
<1>6. CASE SweepSecrets
  <2>1. UNCHANGED <<stack, smoke, old, strayed>> /\ sweep' = Idle
    BY <1>6 DEF SweepSecrets
  <2>2. gone' # gone => sweep.aged /\ ~sweep.knows
    BY <1>6 DEF SweepSecrets
  <2>3. QED
    BY <2>1, <2>2 DEF Idle
<1>7. CASE UNCHANGED vars
  BY <1>7 DEF vars, stackVars, sweepVars
<1>8. QED
  BY <1>1, <1>2, <1>3, <1>4, <1>5, <1>6, <1>7 DEF SweepNext

\* A stack that is no smoke test's and has only ever had statuses of
\* ALIVE_STACK_STATUSES (tools/gc/handler.py:34-46) keeps its secrets and parameters
\* next to any number of sweeps, whatever happens between a sweep's three listings
\* (49-81, 106).  It says nothing of a stack that was once in another status
\* (strayed): a sweep that lists in the meantime does take those.
THEOREM ListedStacksKeepTheirSecrets == SweepSpec => []KeepsSecrets
<1>1. SweepInv => KeepsSecrets
  BY DEF SweepInv
<1>2. QED
  BY <1>1, InitSweepInv, StepSweepInv, PTL DEF SweepSpec

=============================================================================
