--------------------------- MODULE ModuleExecProofs ---------------------------
(***************************************************************************)
(* What module_txs tells of the chain, for any number of rows, overlapping *)
(* activations of poll(), requests, errors and crashes; and that without   *)
(* overlap no row executes twice, with overlap once per activation.        *)
(***************************************************************************)
EXTENDS ModuleExec, FiniteSetTheorems, WellFoundedInduction, TLAPS

(* Every non-empty set of rows has an oldest one: the sets of older rows   *)
(* are finite, and strict inclusion of finite sets is well-founded.        *)
LEMMA OldestExists ==
    ASSUME NEW S \in SUBSET Nat, IsFiniteSet(S), S # {}
    PROVE  \E x \in S : \A y \in S : x <= y
<1> DEFINE Older(x) == {y \in S : y < x}
           Heads == {Older(x) : x \in S}
<1>1. Heads \subseteq FiniteSubsetsOf(Nat) /\ Heads # {}
  <2>1. ASSUME NEW x \in S
        PROVE  Older(x) \in FiniteSubsetsOf(Nat)
    <3>1. Older(x) \in SUBSET S
      OBVIOUS
    <3>2. IsFiniteSet(Older(x))
      <4> HIDE DEF Older
      <4> QED BY <3>1, FS_Subset
    <3>3. QED
      BY <3>1, <3>2 DEF FiniteSubsetsOf
  <2> HIDE DEF Older
  <2>2. QED
    BY <2>1
<1>2. PICK A \in Heads :
          \A B \in Heads : ~ (<<B, A>> \in StrictSubsetOrdering(Nat))
  <2> HIDE DEF Heads
  <2> QED
    BY <1>1, FS_StrictSubsetOrderingWellFounded, WFMin
<1>3. PICK x \in S : A = Older(x)
  OBVIOUS
<1>4. ASSUME NEW y \in S, ~ (x <= y)
      PROVE  FALSE
  <2>1. y < x /\ y \in Nat /\ x \in Nat
    BY <1>4
  <2>2. Older(y) \subseteq Older(x) /\ y \in Older(x) /\ y \notin Older(y)
    <3>1. ASSUME NEW z \in S, z < y
          PROVE  z < x
      BY <2>1, <3>1
    <3>2. ~ (y < y)
      BY <2>1
    <3>3. QED
      BY <2>1, <3>1, <3>2
  <2>3. <<Older(y), A>> \in StrictSubsetOrdering(Nat)
    BY <2>2, <1>3 DEF StrictSubsetOrdering
  <2>4. QED
    BY <2>3, <1>2
<1>5. QED
  BY <1>4

LEMMA MinIsFetched ==
    ASSUME NEW S \in SUBSET Txs, S # {}
    PROVE  Min(S) \in S
<1>1. IsFiniteSet(Txs) /\ Txs \in SUBSET Nat
  BY ExecAssumption, FS_Interval DEF Txs
<1>2. IsFiniteSet(S) /\ S \in SUBSET Nat
  BY <1>1, FS_Subset
<1>3. QED
  BY <1>2, OldestExists DEF Min

LEMMA CurrentFetched ==
    ASSUME ExecTypeOK, NEW a \in Activations, Running(a)
    PROVE  Current(a) \in poll[a].todo /\ Current(a) \in Txs
<1>1. poll[a].todo \in SUBSET Txs /\ poll[a].todo # {}
  BY DEF ExecTypeOK, Running
<1>2. QED
  BY <1>1, MinIsFetched DEF Current

-----------------------------------------------------------------------------
(* What every fetched row went through, with any overlap.                  *)
FetchedTell ==
    \A a \in Activations : Running(a) =>
        /\ \A t \in poll[a].todo : row[t] # "NONE"
        /\ poll[a].at = "call" => row[Current(a)] # "PENDING"
        /\ poll[a].at = "confirm" => executions[Current(a)] > 0

ChainTold == ExecTypeOK /\ FetchedTell /\ RowsTellChain

(* What the only activation knows of the rows it fetched.                  *)
LoneActivation ==
    ~pollsMet => \A a \in Activations : Running(a) =>
        /\ \A b \in Activations : Running(b) => a = b
        /\ \A t \in poll[a].todo : t # Current(a) => row[t] = "PENDING"
        /\ poll[a].at \in {"check", "expire", "block", "submit"}
             => row[Current(a)] = "PENDING"
        /\ poll[a].at = "call"
             => row[Current(a)] = "SUBMITTED" /\ executions[Current(a)] = 0
        /\ poll[a].at \notin {"catch", "auditCatch", "fail"} => ~poll[a].reverted
        /\ poll[a].reverted => executions[Current(a)] = 0

ExecInv == ChainTold /\ LoneActivation /\ LonePollExecutesOnce

LEMMA InitExecInv == Init => ExecInv
<1> SUFFICES ASSUME Init
             PROVE  ExecInv
  OBVIOUS
<1> USE ExecAssumption DEF Init, ExecInit, Idle
<1>1. ExecTypeOK
  <2>1. /\ row \in [Txs -> {"NONE", "PENDING", "SUBMITTED"} \cup Final]
        /\ executions \in [Txs -> Nat]
    OBVIOUS
  <2>2. /\ poll \in [Activations ->
              [at : PollSteps \cup {"idle"}, todo : SUBSET Txs,
               key : Keys \cup {None}, reverted : BOOLEAN]]
        /\ \A a \in Activations : poll[a].at # "idle" => poll[a].todo # {}
    OBVIOUS
  <2>3. pollsMet \in BOOLEAN
    OBVIOUS
  <2>4. execFaults \in 0..MaxExecFaults
    OBVIOUS
  <2>5. QED
    BY <2>1, <2>2, <2>3, <2>4 DEF ExecTypeOK
<1>2. FetchedTell /\ RowsTellChain /\ LoneActivation /\ LonePollExecutesOnce
  BY DEF FetchedTell, RowsTellChain, LoneActivation, LonePollExecutesOnce, Running
<1>3. QED
  BY <1>1, <1>2 DEF ExecInv, ChainTold

-----------------------------------------------------------------------------
(* The loop over the fetched rows: what is left was fetched.               *)
LEMMA NextTxKeepsTypes ==
    ASSUME ExecTypeOK, NEW a \in Activations, Running(a), NextTx(a)
    PROVE  /\ poll' \in [Activations ->
                [at : PollSteps \cup {"idle"}, todo : SUBSET Txs,
                 key : Keys \cup {None}, reverted : BOOLEAN]]
           /\ \A b \in Activations : poll'[b].at # "idle" => poll'[b].todo # {}
           /\ \A b \in Activations \ {a} : poll'[b] = poll[b]
           /\ \/ poll'[a] = Idle
              \/ /\ poll'[a].at = "check" /\ ~poll'[a].reverted
                 /\ poll'[a].todo = poll[a].todo \ {Current(a)}
<1> DEFINE left == poll[a].todo \ {Current(a)}
           on == [at |-> "check", todo |-> left, key |-> poll[a].key,
                  reverted |-> FALSE]
           Locals == [at : PollSteps \cup {"idle"}, todo : SUBSET Txs,
                      key : Keys \cup {None}, reverted : BOOLEAN]
<1>1. Current(a) \in poll[a].todo
  BY CurrentFetched
<1>2. poll \in [Activations -> Locals] /\ poll[a] \in Locals
  BY DEF ExecTypeOK
<1>3. Idle \in Locals /\ Idle.at = "idle"
  BY DEF Idle
<1>4. /\ on \in Locals /\ on.at = "check" /\ ~on.reverted
      /\ on.todo = poll[a].todo \ {Current(a)}
  BY <1>2 DEF PollSteps
<1>5. poll' = [poll EXCEPT ![a] = IF left = {} THEN Idle ELSE on]
  BY DEF NextTx
<1>6. CASE left = {}
  BY <1>2, <1>3, <1>5, <1>6 DEF ExecTypeOK
<1>7. CASE left # {}
  <2>1. on.todo # {}
    BY <1>7
  <2> HIDE DEF on, Locals
  <2>2. poll' = [poll EXCEPT ![a] = on]
    BY <1>5, <1>7
  <2>3. poll' \in [Activations -> Locals] /\ poll'[a] = on
        /\ \A b \in Activations \ {a} : poll'[b] = poll[b]
    BY <1>2, <1>4, <2>2
  <2>4. \A b \in Activations : poll'[b].at # "idle" => poll'[b].todo # {}
    BY <2>1, <2>3 DEF ExecTypeOK
  <2>5. QED
    BY <1>4, <2>3, <2>4 DEF Locals
<1>8. QED
  BY <1>6, <1>7

LEMMA FetchTakesPending ==
    ASSUME ExecTypeOK, NEW a \in Activations, Fetch(a)
    PROVE  /\ poll'[a].at = "check" /\ ~poll'[a].reverted
           /\ poll'[a].todo # {} /\ \A t \in poll'[a].todo : t \in Txs /\ row[t] = "PENDING"
           /\ \A b \in Activations \ {a} : poll'[b] = poll[b]
           /\ poll' \in [Activations ->
                [at : PollSteps \cup {"idle"}, todo : SUBSET Txs,
                 key : Keys \cup {None}, reverted : BOOLEAN]]
<1>1. PICK k \in Keys \cup {None} :
          poll' = [poll EXCEPT ![a] = [at |-> "check", todo |-> Oldest(Take, Pending),
                                       key |-> k, reverted |-> FALSE]]
  BY DEF Fetch, Active
<1>2. Oldest(Take, Pending) \in SUBSET Pending /\ Pending \in SUBSET Txs
  BY DEF Oldest, Pending
<1>3. Oldest(Take, Pending) # {}
  <2>1. Pending \in SUBSET Nat /\ IsFiniteSet(Pending) /\ Pending # {}
    <3>1. Txs \in SUBSET Nat /\ IsFiniteSet(Txs)
      BY ExecAssumption, FS_Interval DEF Txs
    <3>2. QED
      BY <1>2, <3>1, FS_Subset DEF Fetch
  <2>2. PICK x \in Pending : \A y \in Pending : x <= y
    BY <2>1, OldestExists
  <2>3. {u \in Pending : u < x} = {}
    <3>1. ASSUME NEW u \in Pending
          PROVE  ~ (u < x)
      <4>1. u \in Nat /\ x \in Nat /\ x <= u
        BY <2>1, <2>2
      <4>2. QED
        BY <4>1
    <3>2. QED
      BY <3>1
  <2>4. Cardinality({u \in Pending : u < x}) < Take
    BY <2>3, FS_EmptySet, ExecAssumption
  <2>5. QED
    BY <2>4 DEF Oldest
<1> HIDE DEF Oldest, Pending
<1>4. QED
  <2>1. \A t \in Pending : row[t] = "PENDING"
    BY DEF Pending
  <2>2. QED
    BY <1>1, <1>2, <1>3, <2>1 DEF ExecTypeOK, PollSteps

LEMMA FaultsStayBounded ==
    ASSUME execFaults \in Nat, FaultLeft
    PROVE  execFaults + 1 \in 0..MaxExecFaults
<1>1. IsFiniteSet(Activations)
  BY ExecAssumption, FS_Interval DEF Activations
<1>2. Stuck \in SUBSET Activations
  BY DEF Stuck
<1>3. Cardinality(Stuck) \in Nat
  BY <1>1, <1>2, FS_Subset, FS_CardinalityType
<1>4. execFaults + Cardinality(Stuck) < MaxExecFaults
  BY DEF FaultLeft, Faults
<1> HIDE DEF Stuck
<1>5. QED
  BY <1>3, <1>4, ExecAssumption

LEMMA StepKeepsExecTypes ==
    ASSUME ExecTypeOK, [Next]_vars
    PROVE  ExecTypeOK'
<1> USE ExecAssumption DEF Standing, Step, SetRow, PollSteps, Final
<1>1. ASSUME UNCHANGED execVars
      PROVE  ExecTypeOK'
  BY <1>1 DEF execVars, ExecTypeOK
<1>2. ASSUME NEW t \in Txs, RecordTx(t)
      PROVE  ExecTypeOK'
  BY <1>2 DEF RecordTx, ExecTypeOK
<1>3. ASSUME NEW a \in Activations, Fetch(a)
      PROVE  ExecTypeOK'
  <2>1. UNCHANGED <<row, executions, execFaults>>
        /\ pollsMet' = (pollsMet \/ \E b \in Activations : Running(b))
    BY <1>3 DEF Fetch
  <2>2. pollsMet' \in BOOLEAN
    BY <2>1
  <2>3. QED
    BY <1>3, <2>1, <2>2, FetchTakesPending DEF ExecTypeOK
<1>4. ASSUME NEW a \in Activations, Running(a)
      PROVE  Current(a) \in Txs
  BY <1>4, CurrentFetched
<1>5. ASSUME NEW a \in Activations, Check(a) \/ ExpireKey(a)
      PROVE  ExecTypeOK'
  <2>1. PICK step \in PollSteps : poll' = [poll EXCEPT ![a].at = step]
    BY <1>5 DEF Check, ExpireKey
  <2>2. UNCHANGED <<row, executions, pollsMet, execFaults>> /\ Running(a)
    BY <1>5 DEF Check, ExpireKey, Running
  <2>3. QED
    BY <2>1, <2>2 DEF ExecTypeOK, Running
<1>6. ASSUME NEW a \in Activations, Block(a) \/ AuditConfirmed(a) \/ AuditCaught(a)
                                       \/ MarkFailed(a)
      PROVE  ExecTypeOK'
  <2>1. Running(a) /\ NextTx(a) /\ UNCHANGED <<executions, pollsMet, execFaults>>
    BY <1>6 DEF Block, AuditConfirmed, AuditCaught, MarkFailed, Running
  <2>2. row' \in [Txs -> {"NONE", "PENDING", "SUBMITTED"} \cup Final]
    BY <1>6 DEF Block, AuditConfirmed, AuditCaught, MarkFailed, ExecTypeOK
  <2>3. QED
    BY <2>1, <2>2, NextTxKeepsTypes DEF ExecTypeOK
<1>7. ASSUME NEW a \in Activations, MarkSubmitted(a) \/ Confirm(a) \/ CatchError(a)
      PROVE  ExecTypeOK'
  BY <1>7 DEF MarkSubmitted, Confirm, CatchError, ExecTypeOK
<1>8. ASSUME NEW a \in Activations, Execute(a)
      PROVE  ExecTypeOK'
  BY <1>4, <1>8 DEF Execute, ExecTypeOK, Running
<1>9. ASSUME NEW a \in Activations, ExecDatabaseError(a)
      PROVE  ExecTypeOK'
  <2>1. Idle \in [at : PollSteps \cup {"idle"}, todo : SUBSET Txs,
                  key : Keys \cup {None}, reverted : BOOLEAN]
    BY DEF Idle
  <2>2. UNCHANGED <<row, executions, pollsMet>> /\ execFaults' \in 0..MaxExecFaults
    BY <1>9, FaultsStayBounded DEF ExecDatabaseError, ExecTypeOK
  <2>3. \/ poll' = [poll EXCEPT ![a] = Idle]
        \/ \E step \in PollSteps : poll' = [poll EXCEPT ![a].at = step]
    BY <1>9 DEF ExecDatabaseError
  <2>4. Running(a)
    BY <1>9 DEF ExecDatabaseError
  <2>5. CASE poll' = [poll EXCEPT ![a] = Idle]
    BY <2>1, <2>2, <2>5 DEF ExecTypeOK, Idle
  <2>6. CASE \E step \in PollSteps : poll' = [poll EXCEPT ![a].at = step]
    BY <2>2, <2>4, <2>6 DEF ExecTypeOK, Running
  <2>7. QED
    BY <2>3, <2>5, <2>6
<1>10. ASSUME WorkerCrash
       PROVE  ExecTypeOK'
  BY <1>10, FaultsStayBounded DEF WorkerCrash, ExecTypeOK, Idle
<1>11. QED
  BY <1>1, <1>2, <1>3, <1>5, <1>6, <1>7, <1>8, <1>9, <1>10
     DEF Next, PollStep, vars, execVars

-----------------------------------------------------------------------------
(* Where the row of each activation stands does not change with a step     *)
(* inside its try block.                                                   *)
LEMMA SameCurrent ==
    ASSUME NEW a \in Activations, poll'[a].todo = poll[a].todo
    PROVE  Current(a)' = Current(a)
BY DEF Current

LEMMA StepKeepsRows ==
    ASSUME ChainTold, [Next]_vars
    PROVE  FetchedTell' /\ RowsTellChain'
<1> DEFINE Goal == FetchedTell' /\ RowsTellChain'
<1>0. ExecTypeOK'
  BY StepKeepsExecTypes DEF ChainTold
<1>a. \A a \in Activations : Running(a) => /\ Current(a) \in poll[a].todo
                                          /\ Current(a) \in Txs
  BY CurrentFetched DEF ChainTold
<1>b. \A a \in Activations : poll'[a].todo = poll[a].todo => Current(a)' = Current(a)
  BY SameCurrent
<1> USE DEF ChainTold, FetchedTell, RowsTellChain, Running, Standing, Step, SetRow
<1>1. ASSUME UNCHANGED execVars
      PROVE  Goal
  BY <1>1, <1>b DEF execVars
<1>2. ASSUME NEW t \in Txs, RecordTx(t)
      PROVE  Goal
  BY <1>2, <1>a, <1>b DEF RecordTx, ExecTypeOK
<1>3. ASSUME NEW a \in Activations, Fetch(a)
      PROVE  Goal
  <2>1. UNCHANGED <<row, executions>>
    BY <1>3 DEF Fetch
  <2>2. QED
    BY <1>3, <1>b, <2>1, FetchTakesPending
<1>4. ASSUME NEW a \in Activations, Check(a) \/ ExpireKey(a)
      PROVE  Goal
  BY <1>4, <1>a, <1>b DEF Check, ExpireKey, ExecTypeOK
<1>5. ASSUME NEW a \in Activations, Block(a) \/ AuditConfirmed(a) \/ AuditCaught(a)
                                       \/ MarkFailed(a)
      PROVE  Goal
  <2>1. /\ NextTx(a) /\ Running(a) /\ UNCHANGED executions
        /\ \/ UNCHANGED row
           \/ \E status \in {"BLOCKED", "FAILED"} :
                 row' = [row EXCEPT ![Current(a)] = status]
    BY <1>5 DEF Block, AuditConfirmed, AuditCaught, MarkFailed
  <2>2. \A t \in Txs : row'[t] = row[t] \/ row'[t] \in {"BLOCKED", "FAILED"}
    BY <2>1 DEF ExecTypeOK
  <2>3. RowsTellChain'
    BY <2>1, <2>2
  <2>4. /\ \A b \in Activations \ {a} : poll'[b] = poll[b]
        /\ poll'[a].at \in {"idle", "check"} /\ poll'[a].todo \subseteq poll[a].todo
    BY <2>1, NextTxKeepsTypes DEF Idle
  <2>5. ASSUME NEW b \in Activations, poll'[b].at # "idle"
        PROVE  /\ \A t \in poll'[b].todo : row'[t] # "NONE"
               /\ poll'[b].at = "call" => row'[Current(b)'] # "PENDING"
               /\ poll'[b].at = "confirm" => executions'[Current(b)'] > 0
    <3>1. CASE b = a
      BY <3>1, <2>1, <2>2, <2>4, <2>5 DEF Idle, ExecTypeOK
    <3>2. CASE b # a
      BY <3>2, <2>1, <2>2, <2>4, <2>5, <1>a, <1>b DEF ExecTypeOK
    <3>3. QED
      BY <3>1, <3>2
  <2>6. QED
    BY <2>3, <2>5
<1>6. ASSUME NEW a \in Activations, MarkSubmitted(a)
      PROVE  Goal
  BY <1>6, <1>a, <1>b DEF MarkSubmitted, ExecTypeOK
<1>7. ASSUME NEW a \in Activations, Confirm(a)
      PROVE  Goal
  BY <1>7, <1>a, <1>b DEF Confirm, ExecTypeOK
<1>8. ASSUME NEW a \in Activations, CatchError(a)
      PROVE  Goal
  BY <1>8, <1>a, <1>b DEF CatchError, ExecTypeOK
<1>9. ASSUME NEW a \in Activations, Execute(a)
      PROVE  Goal
  BY <1>9, <1>a, <1>b DEF Execute, ExecTypeOK
<1>10. ASSUME NEW a \in Activations, ExecDatabaseError(a)
       PROVE  Goal
  BY <1>10, <1>b DEF ExecDatabaseError, ExecTypeOK, Idle
<1>11. ASSUME WorkerCrash
       PROVE  Goal
  BY <1>11 DEF WorkerCrash, Idle
<1>12. QED
  BY <1>1, <1>2, <1>3, <1>4, <1>5, <1>6, <1>7, <1>8, <1>9, <1>10, <1>11
     DEF Next, PollStep, vars, execVars

(* While activations do not overlap, no other step touches a fetched row.  *)
LEMMA StepKeepsLone ==
    ASSUME ExecInv, [Next]_vars
    PROVE  LoneActivation' /\ LonePollExecutesOnce'
<1> DEFINE Goal == LoneActivation' /\ LonePollExecutesOnce'
<1>0. ExecTypeOK'
  BY StepKeepsExecTypes DEF ExecInv, ChainTold
<1>a. \A a \in Activations : Running(a) => /\ Current(a) \in poll[a].todo
                                          /\ Current(a) \in Txs
  BY CurrentFetched DEF ExecInv, ChainTold
<1>b. \A a \in Activations : poll'[a].todo = poll[a].todo => Current(a)' = Current(a)
  BY SameCurrent
<1>c. \A t \in Txs : executions[t] \in Nat
                    /\ (row[t] \in {"NONE", "PENDING"} => executions[t] = 0)
  BY DEF ExecInv, ChainTold, ExecTypeOK, RowsTellChain
<1> USE DEF ExecInv, ChainTold, FetchedTell, LoneActivation, LonePollExecutesOnce,
            Running, Standing, Step, SetRow
<1>1. ASSUME UNCHANGED execVars
      PROVE  Goal
  BY <1>1, <1>b DEF execVars
<1>2. ASSUME NEW t \in Txs, RecordTx(t)
      PROVE  Goal
  BY <1>2, <1>a, <1>b DEF RecordTx, ExecTypeOK
<1>3. ASSUME NEW a \in Activations, Fetch(a)
      PROVE  Goal
  <2>1. UNCHANGED <<row, executions>>
        /\ (~pollsMet' => ~pollsMet /\ \A b \in Activations : ~Running(b))
    BY <1>3 DEF Fetch
  <2>2. Current(a)' \in poll'[a].todo
    <3>1. poll'[a].todo \in SUBSET Txs /\ poll'[a].todo # {}
      BY <1>3, FetchTakesPending
    <3>2. QED
      BY <3>1, MinIsFetched DEF Current
  <2>3. QED
    BY <1>3, <2>1, <2>2, FetchTakesPending
<1>4. ASSUME NEW a \in Activations, Check(a) \/ ExpireKey(a)
      PROVE  Goal
  <2>1. /\ poll[a].at \in {"check", "expire"}
        /\ UNCHANGED <<row, executions, pollsMet>>
        /\ \E step \in {"block", "expire", "submit", "fail"} :
              poll' = [poll EXCEPT ![a].at = step]
    BY <1>4 DEF Check, ExpireKey
  <2>2. QED
    BY <2>1, <1>a, <1>b DEF ExecTypeOK
<1>5. ASSUME NEW a \in Activations, Block(a) \/ AuditConfirmed(a) \/ AuditCaught(a)
                                       \/ MarkFailed(a)
      PROVE  Goal
  <2>1. /\ NextTx(a) /\ Running(a) /\ UNCHANGED <<executions, pollsMet>>
        /\ \/ UNCHANGED row
           \/ row' = [row EXCEPT ![Current(a)] = "BLOCKED"] /\ poll[a].at = "block"
           \/ row' = [row EXCEPT ![Current(a)] = "FAILED"]
    BY <1>5 DEF Block, AuditConfirmed, AuditCaught, MarkFailed
  <2>2. /\ \A b \in Activations \ {a} : poll'[b] = poll[b]
        /\ \/ poll'[a].at = "idle"
           \/ /\ poll'[a].at = "check" /\ ~poll'[a].reverted
              /\ poll'[a].todo = poll[a].todo \ {Current(a)}
    BY <2>1, NextTxKeepsTypes DEF Idle
  <2>3. Running(a)' => Current(a)' \in poll'[a].todo
    <3> SUFFICES ASSUME poll'[a].at # "idle"
                 PROVE  Current(a)' \in poll'[a].todo
      OBVIOUS
    <3>1. poll'[a].todo \in SUBSET Txs /\ poll'[a].todo # {}
      BY <1>0 DEF ExecTypeOK
    <3>2. QED
      BY <3>1, MinIsFetched DEF Current
  <2>4. LoneActivation'
    <3> SUFFICES ASSUME ~pollsMet, NEW b \in Activations, poll'[b].at # "idle"
                 PROVE  /\ b = a
                        /\ \A t \in poll'[a].todo : row'[t] = "PENDING"
                        /\ poll'[a].at = "check" /\ ~poll'[a].reverted
                        /\ Current(a)' \in poll'[a].todo
      BY <2>1
    <3>1. b = a
      BY <2>1, <2>2
    <3>2. \A t \in poll'[a].todo : row'[t] = row[t] /\ row[t] = "PENDING"
      BY <2>1, <2>2, <3>1 DEF ExecTypeOK
    <3>3. QED
      BY <2>2, <2>3, <3>1, <3>2
  <2>5. LonePollExecutesOnce'
    <3>1. poll[a].at = "block" /\ ~pollsMet => executions[Current(a)] = 0
      BY <1>a, <1>c, <2>1
    <3>2. QED
      BY <2>1, <3>1, <1>a DEF ExecTypeOK
  <2>6. QED
    BY <2>4, <2>5
<1>6. ASSUME NEW a \in Activations, MarkSubmitted(a)
      PROVE  Goal
  BY <1>6, <1>a, <1>b, <1>c DEF MarkSubmitted, ExecTypeOK
<1>7. ASSUME NEW a \in Activations, Confirm(a)
      PROVE  Goal
  BY <1>7, <1>a, <1>b, <1>c DEF Confirm, ExecTypeOK
<1>8. ASSUME NEW a \in Activations, CatchError(a)
      PROVE  Goal
  BY <1>8, <1>a, <1>b, <1>c DEF CatchError, ExecTypeOK
<1>9. ASSUME NEW a \in Activations, Execute(a)
      PROVE  Goal
  BY <1>9, <1>a, <1>b, <1>c DEF Execute, ExecTypeOK
<1>10. ASSUME NEW a \in Activations, ExecDatabaseError(a)
       PROVE  Goal
  BY <1>10, <1>a, <1>b, <1>c DEF ExecDatabaseError, ExecTypeOK, Idle
<1>11. ASSUME WorkerCrash
       PROVE  Goal
  BY <1>11 DEF WorkerCrash, Idle
<1>12. QED
  BY <1>1, <1>2, <1>3, <1>4, <1>5, <1>6, <1>7, <1>8, <1>9, <1>10, <1>11
     DEF Next, PollStep, vars, execVars

LEMMA ExecInvHolds == Spec => []ExecInv
<1>1. Init => ExecInv
  BY InitExecInv
<1>2. ExecInv /\ [Next]_vars => ExecInv'
  BY StepKeepsExecTypes, StepKeepsRows, StepKeepsLone DEF ExecInv, ChainTold
<1>3. QED
  BY <1>1, <1>2, PTL DEF Spec

(* The rows, the locals of activations and the counts keep their types.    *)
THEOREM ExecTypeCorrect == Spec => []ExecTypeOK
<1>1. ExecInv => ExecTypeOK
  BY DEF ExecInv, ChainTold
<1>2. QED
  BY <1>1, ExecInvHolds, PTL

(* processModuleTx writes SUBMITTED before it sends and CONFIRMED after a  *)
(* receipt: overlap, errors and crashes included, a call on chain has a    *)
(* row that no poll takes for a new one.                                   *)
THEOREM RowsTell == Spec => []RowsTellChain
<1>1. ExecInv => RowsTellChain
  BY DEF ExecInv, ChainTold
<1>2. QED
  BY <1>1, ExecInvHolds, PTL

(* A worker whose polls never outlive the interval executes each row once, *)
(* and a row it reports as blocked never, however many errors and crashes. *)
THEOREM LonePollIsSafe == Spec => []LonePollExecutesOnce
<1>1. ExecInv => LonePollExecutesOnce
  BY DEF ExecInv
<1>2. QED
  BY <1>1, ExecInvHolds, PTL

-----------------------------------------------------------------------------
(* The activations that may still execute a row: they fetched it and have  *)
(* not come past its call.                                                 *)
MayExecute(a, t) ==
    /\ Running(a) /\ t \in poll[a].todo
    /\ Current(a) = t => poll[a].at \in {"check", "submit", "call"}

Left(t) == {a \in Activations : MayExecute(a, t)}

ExecutionsLeft ==
    \A t \in Txs : executions[t] + Cardinality(Left(t)) <= MaxPolls

(* Executions and those who may still execute are at most the activations, *)
(* if only one who might executes and nobody might again once one did.     *)
LEMMA OneLessLeft ==
    ASSUME NEW n \in Nat, NEW n2 \in Nat,
           NEW B \in SUBSET Activations, NEW B2 \in SUBSET Activations,
           n + Cardinality(B) <= MaxPolls,
           \/ n2 = n /\ B2 \subseteq B
           \/ n2 = 0
           \/ n2 = n + 1 /\ \E a \in B : B2 \subseteq B \ {a}
    PROVE  n2 + Cardinality(B2) <= MaxPolls
<1>1. IsFiniteSet(Activations) /\ Cardinality(Activations) = MaxPolls
  <2>1. 1 \in Int /\ MaxPolls \in Int /\ MaxPolls \in Nat
    BY ExecAssumption
  <2>2. QED
    BY <2>1, FS_Interval DEF Activations
<1>2. /\ IsFiniteSet(B) /\ IsFiniteSet(B2) /\ Cardinality(B2) <= MaxPolls
      /\ Cardinality(B) \in Nat /\ Cardinality(B2) \in Nat /\ MaxPolls \in Nat
  BY <1>1, FS_Subset, FS_CardinalityType, ExecAssumption
<1>3. CASE n2 = n /\ B2 \subseteq B
  <2>1. Cardinality(B2) <= Cardinality(B)
    BY <1>2, <1>3, FS_Subset
  <2>2. QED
    BY <1>2, <1>3, <2>1
<1>4. CASE n2 = 0
  BY <1>2, <1>4
<1>5. CASE n2 = n + 1 /\ \E a \in B : B2 \subseteq B \ {a}
  <2>1. PICK a \in B : B2 \subseteq B \ {a}
    BY <1>5
  <2>2. IsFiniteSet(B \ {a}) /\ Cardinality(B \ {a}) = Cardinality(B) - 1
    BY <1>2, FS_RemoveElement
  <2>3. Cardinality(B2) <= Cardinality(B \ {a})
    BY <2>1, <2>2, FS_Subset
  <2>4. QED
    BY <1>2, <1>5, <2>2, <2>3
<1>6. QED
  BY <1>3, <1>4, <1>5

(* Each step takes nothing up, executes a row that it may, or fetches rows *)
(* that were never executed.                                               *)
LEMMA StepLeaves ==
    ASSUME ChainTold, [Next]_vars, NEW t \in Txs
    PROVE  \/ executions'[t] = executions[t] /\ Left(t)' \subseteq Left(t)
           \/ executions'[t] = 0
           \/ /\ executions'[t] = executions[t] + 1
              /\ \E a \in Left(t) : Left(t)' \subseteq Left(t) \ {a}
<1> DEFINE Quiet == executions'[t] = executions[t] /\ Left(t)' \subseteq Left(t)
<1>a. \A a \in Activations : Running(a) => /\ Current(a) \in poll[a].todo
                                          /\ Current(a) \in Txs
  BY CurrentFetched DEF ChainTold
<1>b. \A a \in Activations : poll'[a].todo = poll[a].todo => Current(a)' = Current(a)
  BY SameCurrent
<1>c. ExecTypeOK
  BY DEF ChainTold
<1> USE DEF Left, MayExecute, Running, Standing, Step
<1>1. ASSUME UNCHANGED execVars
      PROVE  Quiet
  BY <1>1, <1>b DEF execVars
<1>2. ASSUME NEW u \in Txs, RecordTx(u)
      PROVE  Quiet
  BY <1>2, <1>b DEF RecordTx
<1>3. ASSUME NEW a \in Activations, Fetch(a)
      PROVE  Quiet \/ executions'[t] = 0
  <2>1. executions' = executions
    BY <1>3 DEF Fetch
  <2>2. CASE row[t] = "PENDING"
    BY <1>c, <2>1, <2>2 DEF ExecTypeOK, ChainTold, RowsTellChain
  <2>3. CASE row[t] # "PENDING"
    <3>1. t \notin poll'[a].todo /\ \A b \in Activations \ {a} : poll'[b] = poll[b]
      BY <1>3, <1>c, <2>3, FetchTakesPending
    <3>2. QED
      BY <1>b, <2>1, <3>1
  <2>4. QED
    BY <2>2, <2>3
<1>4. ASSUME NEW a \in Activations, Check(a) \/ ExpireKey(a)
      PROVE  Quiet
  BY <1>4, <1>b, <1>c DEF Check, ExpireKey, ExecTypeOK
<1>5. ASSUME NEW a \in Activations, Block(a) \/ AuditConfirmed(a) \/ AuditCaught(a)
                                       \/ MarkFailed(a)
      PROVE  Quiet
  <2>1. Running(a) /\ NextTx(a) /\ executions' = executions
    BY <1>5 DEF Block, AuditConfirmed, AuditCaught, MarkFailed
  <2>2. /\ \A b \in Activations \ {a} : poll'[b] = poll[b]
        /\ \/ poll'[a].at = "idle"
           \/ poll'[a].todo = poll[a].todo \ {Current(a)}
    BY <1>c, <2>1, NextTxKeepsTypes DEF Idle
  <2>3. MayExecute(a, t)' => MayExecute(a, t)
    BY <2>1, <2>2
  <2>4. QED
    BY <1>b, <2>1, <2>2, <2>3
<1>6. ASSUME NEW a \in Activations,
             MarkSubmitted(a) \/ Confirm(a) \/ CatchError(a)
      PROVE  Quiet
  BY <1>6, <1>b, <1>c DEF MarkSubmitted, Confirm, CatchError, ExecTypeOK
<1>7. ASSUME NEW a \in Activations, Execute(a)
      PROVE  \/ Quiet
             \/ /\ executions'[t] = executions[t] + 1
                /\ Left(t)' \subseteq Left(t) \ {a} /\ a \in Left(t)
  <2>1. /\ Running(a) /\ poll[a].at = "call"
        /\ \A b \in Activations \ {a} : poll'[b] = poll[b]
        /\ poll'[a].todo = poll[a].todo /\ poll'[a].at \in {"confirm", "catch", "wait"}
    BY <1>7, <1>c DEF Execute, ExecTypeOK
  <2>2. \/ executions' = executions
        \/ executions' = [executions EXCEPT ![Current(a)] = @ + 1]
    BY <1>7 DEF Execute
  <2>3. Left(t)' \subseteq Left(t) /\ (t = Current(a) => a \notin Left(t)' /\ a \in Left(t))
    BY <1>a, <1>b, <2>1
  <2>4. executions'[t] = IF executions' # executions /\ t = Current(a)
                         THEN executions[t] + 1 ELSE executions[t]
    BY <1>c, <2>2 DEF ExecTypeOK
  <2>5. QED
    BY <2>3, <2>4
<1>8. ASSUME NEW a \in Activations, ExecDatabaseError(a)
      PROVE  Quiet
  BY <1>8, <1>b, <1>c DEF ExecDatabaseError, ExecTypeOK, Idle
<1>9. ASSUME WorkerCrash
      PROVE  Quiet
  BY <1>9 DEF WorkerCrash, Idle
<1>10. QED
  BY <1>1, <1>2, <1>3, <1>4, <1>5, <1>6, <1>7, <1>8, <1>9
     DEF Next, PollStep, vars, execVars

(* setInterval does not wait for poll(): however many activations overlap, *)
(* and whatever fails, a row is executed at most once by each of those     *)
(* that may run at once.                                                   *)
THEOREM OverlapBoundsRows == Spec => []OverlapBoundsExecutions
<1>1. Init => ExecutionsLeft
  <2> SUFFICES ASSUME Init, NEW t \in Txs
               PROVE  executions[t] + Cardinality(Left(t)) <= MaxPolls
    BY DEF ExecutionsLeft
  <2>1. executions[t] = 0 /\ Left(t) = {}
    BY DEF Init, ExecInit, Idle, Left, MayExecute, Running
  <2>2. QED
    BY <2>1, FS_EmptySet, ExecAssumption
<1>2. ASSUME ExecInv, ExecInv', ExecutionsLeft, [Next]_vars
      PROVE  ExecutionsLeft'
  <2> SUFFICES ASSUME NEW t \in Txs
               PROVE  executions'[t] + Cardinality(Left(t)') <= MaxPolls
    BY DEF ExecutionsLeft
  <2> DEFINE n == executions[t]  n2 == executions'[t]  B == Left(t)  B2 == Left(t)'
  <2>1. n \in Nat /\ n2 \in Nat /\ n + Cardinality(B) <= MaxPolls
    BY <1>2 DEF ExecInv, ChainTold, ExecTypeOK, ExecutionsLeft
  <2>2. B \in SUBSET Activations /\ B2 \in SUBSET Activations
    BY DEF Left
  <2>3. \/ n2 = n /\ B2 \subseteq B
        \/ n2 = 0
        \/ n2 = n + 1 /\ \E a \in B : B2 \subseteq B \ {a}
    BY <1>2, StepLeaves DEF ExecInv
  <2>4. n2 + Cardinality(B2) <= MaxPolls
    <3> HIDE DEF n, n2, B, B2
    <3>1. QED
      BY <2>1, <2>2, <2>3, OneLessLeft
  <2>5. QED
    BY <2>4
<1>3. ExecInv /\ ExecutionsLeft => OverlapBoundsExecutions
  <2> SUFFICES ASSUME ExecInv, ExecutionsLeft, NEW t \in Txs
               PROVE  executions[t] <= MaxPolls
    BY DEF OverlapBoundsExecutions
  <2>1. Cardinality(Left(t)) \in Nat
    <3>1. IsFiniteSet(Activations)
      BY ExecAssumption, FS_Interval DEF Activations
    <3>2. Left(t) \in SUBSET Activations
      BY DEF Left
    <3>3. QED
      BY <3>1, <3>2, FS_Subset, FS_CardinalityType
  <2>2. executions[t] \in Nat
    BY DEF ExecInv, ChainTold, ExecTypeOK
  <2>3. QED
    BY <2>1, <2>2, ExecAssumption DEF ExecutionsLeft
<1>4. QED
  BY <1>1, <1>2, <1>3, ExecInvHolds, PTL DEF Spec

-----------------------------------------------------------------------------
(* The keys of the service beside the worker.                              *)
ArgsNamed ==
    \A r \in Requests :
        /\ request[r].op = "revoke" => request[r].arg \in Keys
        /\ At(r, "register", "point") => request[r].arg \in Keys
        /\ request[r].op \in {"allow", "disallow"} => request[r].arg \in Addresses

(* What the only request in flight knows of the keys, and what holds when  *)
(* none that stopped half-way is left behind.                              *)
LoneRequest ==
    ~overlapped =>
        /\ \A r, q \in InFlight : r = q
        /\ ~automation.enabled => Active = {}
        /\ \A r \in Requests :
             /\ request[r].op = "register" /\ request[r].at \in {"rotate", "create", "point"}
                  => automation.enabled
             /\ At(r, "disable", "write") \/ At(r, "register", "create") => Active = {}
             /\ At(r, "register", "point") => Active \subseteq {request[r].arg}
             /\ request[r].op = "revoke" /\ request[r].at \in {"read", "clear"}
                  => keys[request[r].arg] # "ACTIVE"
             /\ At(r, "revoke", "clear") => automation.key = request[r].arg
        /\ (\A r \in Requests : request[r].at # "failed" /\ ~At(r, "register", "point"))
             => Active \subseteq {automation.key}

KeysInv == AutomationTypeOK /\ ArgsNamed /\ LoneRequest

LEMMA InitKeysInv == Init => KeysInv
<1> SUFFICES ASSUME AutomationInit
             PROVE  KeysInv
  BY DEF Init
<1> USE AutomationAssumption DEF AutomationInit
<1>1. AutomationTypeOK
  <2>1. /\ automation \in [enabled : BOOLEAN, key : Keys \cup {None}]
        /\ keys \in [Keys -> Statuses]
    <3>1. CASE /\ automation = [enabled |-> FALSE, key |-> None]
               /\ keys = [k \in Keys |-> "NONE"]
      BY <3>1 DEF Statuses
    <3>2. CASE /\ 1 \in Keys
               /\ automation = [enabled |-> TRUE, key |-> 1]
               /\ keys = [k \in Keys |-> IF k = 1 THEN "ACTIVE" ELSE "NONE"]
      <4>1. keys \in [Keys -> Statuses]
        BY <3>2 DEF Statuses
      <4>2. automation \in [enabled : BOOLEAN, key : Keys \cup {None}]
        BY <3>2
      <4>3. QED
        BY <4>1, <4>2
    <3>3. QED
      BY <3>1, <3>2
  <2>2. request \in [Requests -> [op  : Operations \cup {"none"},
                                  at  : Steps \cup {"idle", "done", "failed"},
                                  arg : Keys \cup Addresses \cup {None}]]
    OBVIOUS
  <2>3. lapsed \subseteq Keys /\ allowlist \subseteq Addresses /\ menu \in Menus
        /\ overlapped \in BOOLEAN
    OBVIOUS
  <2>4. QED
    BY <2>1, <2>2, <2>3 DEF AutomationTypeOK
<1>2. ArgsNamed /\ LoneRequest
  BY DEF ArgsNamed, LoneRequest, InFlight, Active, At, Steps
<1>3. QED
  BY <1>1, <1>2 DEF KeysInv

LEMMA BegunRequests ==
    ASSUME NEW r \in Requests, Route(r)
    PROVE  \E op \in Operations, arg \in Keys \cup Addresses \cup {None} :
              /\ Begin(r, op, arg)
              /\ op = "revoke" => arg \in Keys
              /\ op \in {"allow", "disallow"} => arg \in Addresses
<1> USE DEF Operations
<1>1. CASE PostEnable(r)
  BY <1>1 DEF PostEnable
<1>2. CASE PostDisable(r)
  BY <1>2 DEF PostDisable
<1>3. CASE PutSettings(r)
  BY <1>3 DEF PutSettings
<1>4. CASE PostSessionKey(r)
  BY <1>4 DEF PostSessionKey
<1>5. CASE DeleteSessionKey(r)
  BY <1>5 DEF DeleteSessionKey
<1>6. CASE PostAllowlist(r)
  BY <1>6 DEF PostAllowlist
<1>7. CASE DeleteAllowlist(r)
  BY <1>7 DEF DeleteAllowlist
<1>8. QED
  BY <1>1, <1>2, <1>3, <1>4, <1>5, <1>6, <1>7 DEF Route

LEMMA StepKeepsServiceTypes ==
    ASSUME AutomationTypeOK, ArgsNamed, [Next]_vars
    PROVE  AutomationTypeOK' /\ ArgsNamed'
<1> DEFINE Goal == AutomationTypeOK' /\ ArgsNamed'
<1> USE AutomationAssumption
    DEF AutomationTypeOK, ArgsNamed, At, Goto, Statuses, Steps, Operations
<1>1. ASSUME UNCHANGED automationVars
      PROVE  Goal
  BY <1>1 DEF automationVars
<1>2. ASSUME NEW r \in Requests, Route(r)
      PROVE  Goal
  <2>1. PICK op \in Operations, arg \in Keys \cup Addresses \cup {None} :
           /\ Begin(r, op, arg)
           /\ op = "revoke" => arg \in Keys
           /\ op \in {"allow", "disallow"} => arg \in Addresses
    BY <1>2, BegunRequests
  <2>2. QED
    BY <2>1 DEF Begin
<1>3. ASSUME NEW r \in Requests,
             \/ FindAutomation(r) \/ CheckDisable(r) \/ UpdateSettings(r)
             \/ CheckRegister(r) \/ FindKey(r) \/ ReadPointer(r)
             \/ CheckAllow(r) \/ FindAddress(r) \/ RequestFails(r)
      PROVE  Goal
  BY <1>3 DEF FindAutomation, CheckDisable, UpdateSettings, CheckRegister,
     RequireEnabled, FindKey, ReadPointer, CheckAllow, FindAddress, RequestFails
<1>4. ASSUME NEW r \in Requests,
             UpsertAutomation(r) \/ Disable(r) \/ PointAtKey(r) \/ ClearPointer(r)
      PROVE  Goal
  <2>1. CASE UpsertAutomation(r)
    <3>1. automation' \in [enabled : BOOLEAN, key : Keys \cup {None}]
      BY <2>1 DEF UpsertAutomation
    <3>2. QED
      BY <2>1, <3>1 DEF UpsertAutomation
  <2>2. CASE Disable(r)
    BY <2>2 DEF Disable
  <2>3. CASE PointAtKey(r)
    BY <2>3 DEF PointAtKey
  <2>4. CASE ClearPointer(r)
    BY <2>4 DEF ClearPointer
  <2>5. QED
    BY <1>4, <2>1, <2>2, <2>3, <2>4
<1>5. ASSUME NEW r \in Requests,
             \/ RevokeActiveKeys(r) \/ RotateActiveKeys(r) \/ CreateSessionKey(r)
             \/ RevokeKey(r)
      PROVE  Goal
  <2>1. CASE RevokeActiveKeys(r)
    BY <2>1 DEF RevokeActiveKeys, Retire
  <2>2. CASE RotateActiveKeys(r)
    BY <2>2 DEF RotateActiveKeys, Retire
  <2>3. CASE CreateSessionKey(r)
    <3>1. PICK k \in Keys :
             /\ keys' = [keys EXCEPT ![k] = "ACTIVE"]
             /\ request' = [request EXCEPT ![r] =
                              [op |-> "register", at |-> "point", arg |-> k]]
      BY <2>3 DEF CreateSessionKey
    <3>2. /\ request[r].op = "register"
          /\ UNCHANGED <<automation, lapsed, allowlist, menu, overlapped>>
      BY <2>3 DEF CreateSessionKey
    <3>3. request' \in [Requests -> [op  : Operations \cup {"none"},
                                    at  : Steps \cup {"idle", "done", "failed"},
                                    arg : Keys \cup Addresses \cup {None}]]
      BY <3>1
    <3>4. keys' \in [Keys -> Statuses]
      BY <3>1
    <3>5. ArgsNamed'
      BY <3>1, <3>2
    <3>6. QED
      BY <3>2, <3>3, <3>4, <3>5
  <2>4. CASE RevokeKey(r)
    BY <2>4 DEF RevokeKey
  <2>5. QED
    BY <1>5, <2>1, <2>2, <2>3, <2>4
<1>6. ASSUME NEW r \in Requests, AddAddress(r) \/ RemoveAddress(r)
      PROVE  Goal
  BY <1>6 DEF AddAddress, RemoveAddress
<1>7. ASSUME NEW k \in Keys, Lapse(k)
      PROVE  Goal
  BY <1>7 DEF Lapse
<1>8. ASSUME NEW a \in Activations, ExpireKey(a)
      PROVE  Goal
  BY <1>8 DEF ExpireKey
<1>9. QED
  BY <1>1, <1>2, <1>3, <1>4, <1>5, <1>6, <1>7, <1>8
     DEF Next, RequestsGoOn, RequestStep, RecordTx, Fetch, PollStep, Check, Block,
         MarkSubmitted, Execute, Confirm, AuditConfirmed, CatchError, AuditCaught,
         MarkFailed, ExecDatabaseError, WorkerCrash, vars

LEMMA StepKeepsLoneRequest ==
    ASSUME KeysInv, [Next]_vars
    PROVE  LoneRequest'
<1>0. AutomationTypeOK' /\ ArgsNamed'
  BY StepKeepsServiceTypes DEF KeysInv
<1> USE AutomationAssumption
    DEF KeysInv, AutomationTypeOK, ArgsNamed, LoneRequest, InFlight, Active, At, Goto,
        Statuses, Steps
<1>1. ASSUME UNCHANGED automationVars
      PROVE  LoneRequest'
  BY <1>1 DEF automationVars
<1>2. ASSUME NEW r \in Requests, Route(r)
      PROVE  LoneRequest'
  <2>1. PICK op \in Operations, arg \in Keys \cup Addresses \cup {None} :
           /\ Begin(r, op, arg)
           /\ op = "revoke" => arg \in Keys
           /\ op \in {"allow", "disallow"} => arg \in Addresses
    BY <1>2, BegunRequests
  <2>2. /\ \A q \in Requests \ {r} : request'[q] = request[q]
        /\ request[r].at = "idle" /\ request'[r].at = "check"
        /\ UNCHANGED <<automation, keys>>
        /\ ~overlapped' => ~overlapped /\ \A q \in Requests : request[q].at \notin Steps
    BY <2>1 DEF Begin
  <2>3. QED
    BY <2>2
<1>3. ASSUME NEW r \in Requests,
             \/ FindAutomation(r) \/ CheckDisable(r) \/ UpdateSettings(r)
             \/ CheckRegister(r) \/ FindKey(r) \/ ReadPointer(r)
             \/ CheckAllow(r) \/ FindAddress(r) \/ RequestFails(r)
      PROVE  LoneRequest'
  BY <1>3 DEF FindAutomation, CheckDisable, UpdateSettings, CheckRegister,
     RequireEnabled, FindKey, ReadPointer, CheckAllow, FindAddress, RequestFails
<1>4. ASSUME NEW r \in Requests,
             UpsertAutomation(r) \/ Disable(r) \/ PointAtKey(r) \/ ClearPointer(r)
      PROVE  LoneRequest'
  BY <1>4 DEF UpsertAutomation, Disable, PointAtKey, ClearPointer
<1>5. ASSUME NEW r \in Requests,
             \/ RevokeActiveKeys(r) \/ RotateActiveKeys(r) \/ CreateSessionKey(r)
             \/ RevokeKey(r)
      PROVE  LoneRequest'
  BY <1>5 DEF RevokeActiveKeys, RotateActiveKeys, CreateSessionKey, RevokeKey, Retire
<1>6. ASSUME NEW r \in Requests, AddAddress(r) \/ RemoveAddress(r)
      PROVE  LoneRequest'
  BY <1>6 DEF AddAddress, RemoveAddress
<1>7. ASSUME NEW k \in Keys, Lapse(k)
      PROVE  LoneRequest'
  BY <1>7 DEF Lapse
<1>8. ASSUME NEW a \in Activations, ExpireKey(a)
      PROVE  LoneRequest'
  BY <1>8 DEF ExpireKey
<1>9. QED
  BY <1>1, <1>2, <1>3, <1>4, <1>5, <1>6, <1>7, <1>8
     DEF Next, RequestsGoOn, RequestStep, RecordTx, Fetch, PollStep, Check, Block,
         MarkSubmitted, Execute, Confirm, AuditConfirmed, CatchError, AuditCaught,
         MarkFailed, ExecDatabaseError, WorkerCrash, vars

LEMMA KeysInvHolds == Spec => []KeysInv
<1>1. Init => KeysInv
  BY InitKeysInv
<1>2. KeysInv /\ [Next]_vars => KeysInv'
  BY StepKeepsServiceTypes, StepKeepsLoneRequest DEF KeysInv
<1>3. QED
  BY <1>1, <1>2, PTL DEF Spec

(* The tables of the service and of the worker keep their types.           *)
THEOREM ModuleExecTypes == Spec => []TypeOK
<1>1. KeysInv => AutomationTypeOK
  BY DEF KeysInv
<1>2. AutomationTypeOK /\ ExecTypeOK => TypeOK
  BY DEF TypeOK
<1>3. QED
  BY <1>1, <1>2, KeysInvHolds, ExecTypeCorrect, PTL

(* SafeAutomationService: while the requests of a user follow each other,  *)
(* with any number of keys, whatever the worker does and wherever requests *)
(* stop, a disabled module has no ACTIVE key, and unless one stopped       *)
(* half-way the ACTIVE key is the one the automation row names.            *)
THEOREM KeysStayInOrder == Spec => []KeysInOrder
<1>1. KeysInv => KeysInOrder
  BY DEF KeysInv, LoneRequest, KeysInOrder, At
<1>2. QED
  BY <1>1, KeysInvHolds, PTL
=============================================================================
