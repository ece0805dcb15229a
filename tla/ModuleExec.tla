------------------------------ MODULE ModuleExec ------------------------------
(***************************************************************************)
(* ModuleExecWorker (workers/module-exec.worker.ts): activations of poll() *)
(* that setInterval starts whether or not the last one has returned, each  *)
(* executing the PENDING rows of module_txs it fetched, beside the         *)
(* requests of SafeAutomation.  The transaction itself is atomic on chain: *)
(* it executes, or reverts with one of the module's reasons.               *)
(***************************************************************************)
EXTENDS SafeAutomation, FiniteSetsExt

CONSTANTS
    MaxPolls,      \* bound on activations of poll() that run at once
    MaxTx,         \* bound on module_txs rows, numbered by createdAt
    Take,          \* rows one poll fetches (10)
    MaxBusy,       \* bound on requests and activations in flight at once, above one that goes on
    MaxInputs,     \* bound on requests, rows and faults together
    MaxExecFaults  \* bound on database errors, crashes and transactions never mined

Activations == 1..MaxPolls
Txs == 1..MaxTx

ASSUME ExecAssumption ==
    /\ MaxPolls \in Nat
    /\ MaxTx \in Nat
    /\ Take \in Nat \ {0}
    /\ MaxBusy \in Nat
    /\ MaxInputs \in Nat
    /\ MaxExecFaults \in Nat

VARIABLES
    row,         \* status of each module_txs row, NONE before it exists
    executions,  \* how often the call of each row executed on chain
    poll,        \* locals of each activation
    pollsMet,    \* two activations have run at once
    execFaults   \* database errors and crashes so far

execVars == <<row, executions, poll, pollsMet, execFaults>>
vars     == <<automationVars, execVars>>

Final == {"CONFIRMED", "FAILED", "BLOCKED"}

PollSteps == {"check", "expire", "block", "submit", "call", "wait", "confirm",
              "audit", "catch", "auditCatch", "fail"}

(* The rows an activation still has to do, the key it fetched with them,   *)
(* None if there was none or the module was disabled, and whether the call *)
(* reverted with a reason of the module.                                   *)
Idle == [at |-> "idle", todo |-> {}, key |-> None, reverted |-> FALSE]

ExecTypeOK ==
    /\ row \in [Txs -> {"NONE", "PENDING", "SUBMITTED"} \cup Final]
    /\ executions \in [Txs -> Nat]
    /\ poll \in [Activations ->
          [at : PollSteps \cup {"idle"}, todo : SUBSET Txs, key : Keys \cup {None},
           reverted : BOOLEAN]]
    /\ \A a \in Activations : poll[a].at # "idle" => poll[a].todo # {}
    /\ pollsMet \in BOOLEAN
    /\ execFaults \in 0..MaxExecFaults

TypeOK == AutomationTypeOK /\ ExecTypeOK

ExecInit ==
    /\ row = [t \in Txs |-> "NONE"]
    /\ executions = [t \in Txs |-> 0]
    /\ poll = [a \in Activations |-> Idle]
    /\ pollsMet = FALSE
    /\ execFaults = 0

Init == AutomationInit /\ ExecInit

Running(a)  == poll[a].at # "idle"
Stuck == {a \in Activations : poll[a].at = "wait"}
Going == {a \in Activations : Running(a)} \ Stuck
Busy  == Cardinality(InFlight) + Cardinality({a \in Activations : Running(a)})
Faults == execFaults + Cardinality(Stuck)
Inputs == Cardinality({r \in Requests : request[r].at # "idle"})
            + Cardinality({t \in Txs : row[t] # "NONE"}) + Faults
FaultLeft == Faults < MaxExecFaults /\ Inputs < MaxInputs

Standing(a, step) == poll[a].at = step
Current(a)  == Min(poll[a].todo)
Step(a, step)     == poll' = [poll EXCEPT ![a].at = step]
SetRow(a, status) == row' = [row EXCEPT ![Current(a)] = status]

(* Mutant: the end of the fetched rows is not noticed.                     *)
NextTxBeyond(a) ==
    poll' = [poll EXCEPT ![a].at = "check", ![a].todo = @ \ {Current(a)},
                         ![a].reverted = FALSE]

(* The loop of poll() goes on with the next row it fetched.                *)
NextTx(a) ==
    LET left == poll[a].todo \ {Current(a)} IN
    poll' = [poll EXCEPT ![a] =
        IF left = {} THEN Idle
        ELSE [at |-> "check", todo |-> left, key |-> poll[a].key, reverted |-> FALSE]]

-----------------------------------------------------------------------------
(* recordModuleTx                                                          *)
RecordTx(t) ==
    /\ row[t] = "NONE" /\ Inputs < MaxInputs
    /\ \A u \in 1..(t - 1) : row[u] # "NONE"
    /\ row' = [row EXCEPT ![t] = "PENDING"]
    /\ UNCHANGED <<automationVars, executions, poll, pollsMet, execFaults>>

Oldest(n, S) == {t \in S : Cardinality({u \in S : u < t}) < n}

(* Mutant: rows that look stuck are fetched again.                         *)
PendingOrSubmitted == {t \in Txs : row[t] \in {"PENDING", "SUBMITTED"}}

Pending == {t \in Txs : row[t] = "PENDING"}

(* The PENDING rows by createdAt, the automation row, and one ACTIVE key.  *)
Fetch(a) ==
    /\ ~Running(a) /\ \A b \in 1..(a - 1) : Running(b)
    /\ Busy < MaxBusy \/ Going = {}
    /\ Pending # {}
    /\ \E k \in IF automation.enabled /\ Active # {} THEN Active ELSE {None} :
         poll' = [poll EXCEPT ![a] =
            [at |-> "check", todo |-> Oldest(Take, Pending), key |-> k,
             reverted |-> FALSE]]
    /\ pollsMet' = (pollsMet \/ \E b \in Activations : Running(b))
    /\ UNCHANGED <<automationVars, row, executions, execFaults>>

(* processModuleTx decides on what poll() fetched and on the clock; the     *)
(* encryption key may be missing or not decrypt the session key.           *)
Check(a) ==
    /\ Standing(a, "check")
    /\ IF poll[a].key = None THEN Step(a, "block")
       ELSE IF poll[a].key \in lapsed THEN Step(a, "expire")
       ELSE Step(a, "submit") \/ Step(a, "fail")
    /\ UNCHANGED <<automationVars, row, executions, pollsMet, execFaults>>

ExpireKey(a) ==
    /\ Standing(a, "expire")
    /\ keys' = [keys EXCEPT ![poll[a].key] = "EXPIRED"]
    /\ Step(a, "block")
    /\ UNCHANGED <<automation, lapsed, allowlist, request, menu, overlapped, row,
                   executions, pollsMet, execFaults>>

Block(a) ==
    /\ Standing(a, "block")
    /\ SetRow(a, "BLOCKED")
    /\ NextTx(a)
    /\ UNCHANGED <<automationVars, executions, pollsMet, execFaults>>

(* Mutant: the row stays PENDING until the call is confirmed.              *)
SendFirst(a) ==
    /\ Standing(a, "submit")
    /\ Step(a, "call")
    /\ UNCHANGED <<automationVars, row, executions, pollsMet, execFaults>>

MarkSubmitted(a) ==
    /\ Standing(a, "submit")
    /\ SetRow(a, "SUBMITTED")
    /\ Step(a, "call")
    /\ UNCHANGED <<automationVars, executions, pollsMet, execFaults>>

(* executeFromSessionKey and wait(): the call executes, with or without a  *)
(* receipt that arrives; it reverts, or the chain never got it; or it was  *)
(* sent and no block ever takes it, and wait(), which has no timeout, does *)
(* not return.                                                             *)
Execute(a) ==
    /\ Standing(a, "call")
    /\ \/ /\ executions' = [executions EXCEPT ![Current(a)] = @ + 1]
          /\ Step(a, "confirm") \/ Step(a, "catch")
       \/ /\ \E r \in BOOLEAN :
                poll' = [poll EXCEPT ![a].at = "catch", ![a].reverted = r]
          /\ UNCHANGED executions
       \/ /\ FaultLeft
          /\ Step(a, "wait")
          /\ UNCHANGED executions
    /\ UNCHANGED <<automationVars, row, pollsMet, execFaults>>

Confirm(a) ==
    /\ Standing(a, "confirm")
    /\ SetRow(a, "CONFIRMED")
    /\ Step(a, "audit")
    /\ UNCHANGED <<automationVars, executions, pollsMet, execFaults>>

AuditConfirmed(a) ==
    /\ Standing(a, "audit")
    /\ NextTx(a)
    /\ UNCHANGED <<automationVars, row, executions, pollsMet, execFaults>>

(* Mutant: an error that is no reason of the module leaves the row.        *)
CatchReverted(a) ==
    /\ Standing(a, "catch")
    /\ IF poll[a].reverted THEN SetRow(a, "BLOCKED") ELSE UNCHANGED row
    /\ Step(a, "auditCatch")
    /\ UNCHANGED <<automationVars, executions, pollsMet, execFaults>>

(* The catch block: a reason of the module blocks the row, all else fails  *)
(* it, and an error after the confirmation lands here too.                 *)
CatchError(a) ==
    /\ Standing(a, "catch")
    /\ SetRow(a, IF poll[a].reverted THEN "BLOCKED" ELSE "FAILED")
    /\ Step(a, "auditCatch")
    /\ UNCHANGED <<automationVars, executions, pollsMet, execFaults>>

AuditCaught(a) ==
    /\ Standing(a, "auditCatch")
    /\ NextTx(a)
    /\ UNCHANGED <<automationVars, row, executions, pollsMet, execFaults>>

(* FAILED is written by processModuleTx for a key it cannot use, and by    *)
(* the catch of poll() for whatever processModuleTx throws.                *)
MarkFailed(a) ==
    /\ Standing(a, "fail")
    /\ SetRow(a, "FAILED")
    /\ NextTx(a)
    /\ UNCHANGED <<automationVars, executions, pollsMet, execFaults>>

(* A database call throws: inside the try block the catch block runs,      *)
(* elsewhere the catch of poll(), and an error in that ends the poll.      *)
ExecDatabaseError(a) ==
    /\ Running(a) /\ poll[a].at \notin {"check", "call", "wait"}
    /\ FaultLeft
    /\ execFaults' = execFaults + 1
    /\ CASE poll[a].at \in {"confirm", "audit"} -> Step(a, "catch")
         [] poll[a].at = "fail"                 -> poll' = [poll EXCEPT ![a] = Idle]
         [] OTHER                               -> Step(a, "fail")
    /\ UNCHANGED <<automationVars, row, executions, pollsMet>>

(* The worker process dies; rows stay as they are.                         *)
WorkerCrash ==
    /\ FaultLeft
    /\ \E a \in Activations : Running(a)
    /\ execFaults' = execFaults + 1
    /\ poll' = [a \in Activations |-> Idle]
    /\ UNCHANGED <<automationVars, row, executions, pollsMet>>

PollStep(a) ==
    \/ Check(a) \/ ExpireKey(a) \/ Block(a) \/ MarkSubmitted(a)
    \/ Execute(a) \/ Confirm(a) \/ AuditConfirmed(a) \/ CatchError(a)
    \/ AuditCaught(a) \/ MarkFailed(a)

Next ==
    \/ /\ Busy < MaxBusy /\ Inputs < MaxInputs
       /\ (\E r \in Requests : Route(r)) /\ UNCHANGED execVars
    \/ RequestsGoOn /\ UNCHANGED execVars
    \/ \E t \in Txs : RecordTx(t)
    \/ \E a \in Activations : Fetch(a) \/ PollStep(a) \/ ExecDatabaseError(a)
    \/ WorkerCrash

Spec == Init /\ [][Next]_vars

(* setInterval starts poll() again and again, and every call an activation *)
(* awaits settles, but for a wait() whose transaction is never mined.      *)
FairSpec == Spec /\ WF_vars(\E a \in Activations : Fetch(a) \/ PollStep(a))

-----------------------------------------------------------------------------
(* Whatever overlaps, fails or crashes: a call that reached the chain was  *)
(* marked before, so that no later poll takes its row for a new one, and a *)
(* CONFIRMED row did execute.                                              *)
RowsTellChain ==
    \A t \in Txs :
        /\ executions[t] > 0 => row[t] \notin {"NONE", "PENDING"}
        /\ row[t] = "CONFIRMED" => executions[t] > 0

(* While one activation runs at a time, database errors, crashes and lost  *)
(* replies included, no row executes twice, and what is reported as        *)
(* blocked by a constraint never executed.                                 *)
LonePollExecutesOnce ==
    ~pollsMet => \A t \in Txs : /\ executions[t] <= 1
                                /\ row[t] = "BLOCKED" => executions[t] = 0

(* With overlap, errors and crashes, each activation that runs at once may *)
(* execute a row it fetched before another marked it, but no more often.   *)
OverlapBoundsExecutions == \A t \in Txs : executions[t] <= MaxPolls

(* "single instance recommended to avoid duplicate processing" of the      *)
(* runbook: one instance of the worker executes a row once.                *)
OneExecution == \A t \in Txs : executions[t] <= 1

(* While no crash or database error strikes the worker, a PENDING row is   *)
(* taken up, whatever happens to its key and though earlier activations    *)
(* wait for ever, with rows like it in hand; and a row that was taken up   *)
(* is settled, unless it is one that an activation waits for.              *)
TxsSettle ==
    [](execFaults = 0) => \A t \in Txs :
        /\ row[t] = "PENDING" ~> row[t] # "PENDING"
        /\ row[t] = "SUBMITTED"
             ~> row[t] \in Final \/ \E a \in Stuck : Current(a) = t
=============================================================================
