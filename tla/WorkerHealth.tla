----------------------------- MODULE WorkerHealth -----------------------------
(***************************************************************************)
(* What GET /system/status says of the workers (routes/system.ts): each    *)
(* writes the time of its latest run to Redis before it does anything      *)
(* else, and the route compares four such pings with the clock.  Both      *)
(* processes use a Redis client that waits for a lost connection as long   *)
(* as it takes (maxRetriesPerRequest: null), so nothing fails while Redis  *)
(* is away: writes and reads wait.                                         *)
(***************************************************************************)
EXTENDS Naturals, Sequences

CONSTANTS
    Workers,       \* in the order the route asks for them, a sequence
    Interval,      \* time between two runs of each worker
    RunsAtOnce,    \* workers whose start() also makes a first run
    ShortStale, LongStale,  \* 2 and 10 minutes
    LongStaleFor,  \* the workers LongStale is for
    MaxHealthTime, MaxOutages, MaxStarts   \* bounds of the model

WorkerSet == {Workers[i] : i \in DOMAIN Workers}

ASSUME HealthAssumption ==
    /\ Workers \in Seq(WorkerSet)
    /\ Interval \in [WorkerSet -> Nat \ {0}]
    /\ {ShortStale, LongStale, MaxOutages, MaxStarts} \subseteq Nat
    /\ MaxHealthTime \in Nat \ {0}

VARIABLES
    time,
    up,         \* the worker process is running
    nextRun,    \* when setInterval runs each worker again
    queued,     \* the latest ping each worker still has to get to Redis
    redisUp,
    lastPing,   \* worker:*:last-ping, 0 if there is none
    report,     \* the status request: pings read so far, what it answers
    stoppedAt,  \* history: when the process ended, or is still running
    startedAt,  \* history: when it was started last
    outages, starts

healthVars == <<time, up, nextRun, queued, redisUp, lastPing, report, stoppedAt,
                startedAt, outages, starts>>

NoAnswer == [w \in WorkerSet |-> "none"]
NoReport == [pings |-> <<>>, began |-> 0, answer |-> NoAnswer]

HealthTypeOK ==
    /\ time \in 1..MaxHealthTime /\ {stoppedAt, startedAt} \subseteq 0..MaxHealthTime
    /\ {up, redisUp} \subseteq BOOLEAN
    /\ nextRun \in [WorkerSet -> Nat]
    /\ queued \in [WorkerSet -> 0..MaxHealthTime]
    /\ lastPing \in [WorkerSet -> 0..MaxHealthTime]
    /\ report \in [pings : Seq(0..MaxHealthTime), began : 0..MaxHealthTime,
                   answer : [WorkerSet -> {"none", "running", "stopped"}]]
    /\ outages \in 0..MaxOutages /\ starts \in 0..MaxStarts

HealthInit ==
    /\ time = 1 /\ up = FALSE /\ redisUp = TRUE
    /\ nextRun = [w \in WorkerSet |-> 0]
    /\ queued = [w \in WorkerSet |-> 0]
    /\ lastPing = [w \in WorkerSet |-> 0]
    /\ report = NoReport
    /\ stoppedAt = 0 /\ startedAt = 0 /\ outages = 0 /\ starts = 0

-----------------------------------------------------------------------------
(* main() of the worker process, and start() of each worker.               *)
StartWorkers ==
    /\ ~up /\ starts < MaxStarts
    /\ up' = TRUE
    /\ nextRun' = [w \in WorkerSet |-> IF w \in RunsAtOnce THEN time ELSE time + Interval[w]]
    /\ startedAt' = time
    /\ starts' = starts + 1
    /\ UNCHANGED <<time, queued, redisUp, lastPing, report, stoppedAt, outages>>

(* A shutdown or a crash.                                                  *)
StopWorkers ==
    /\ up
    /\ up' = FALSE
    /\ queued' = [w \in WorkerSet |-> 0]
    /\ stoppedAt' = time
    /\ UNCHANGED <<time, nextRun, redisUp, lastPing, report, startedAt, outages, starts>>

Due(w) == up /\ nextRun[w] <= time

(* poll(), check() or sync() begins; an earlier one may still be waiting.  *)
RunWorker(w) ==
    /\ Due(w)
    /\ queued' = [queued EXCEPT ![w] = time]
    /\ nextRun' = [nextRun EXCEPT ![w] = @ + Interval[w]]
    /\ UNCHANGED <<time, up, redisUp, lastPing, report, stoppedAt, startedAt, outages, starts>>

WritePing(w) ==
    /\ redisUp /\ queued[w] # 0
    /\ lastPing' = [lastPing EXCEPT ![w] = queued[w]]
    /\ queued' = [queued EXCEPT ![w] = 0]
    /\ UNCHANGED <<time, up, nextRun, redisUp, report, stoppedAt, startedAt, outages, starts>>

SwitchRedis ==
    /\ redisUp => outages < MaxOutages
    /\ redisUp' = ~redisUp
    /\ outages' = IF redisUp THEN outages + 1 ELSE outages
    /\ UNCHANGED <<time, up, nextRun, queued, lastPing, report, stoppedAt, startedAt, starts>>

(* Timers that are due run, and writes land, within a tick.                *)
PassTime ==
    /\ time < MaxHealthTime
    /\ \A w \in WorkerSet : ~Due(w) /\ (redisUp => queued[w] = 0)
    /\ time' = time + 1
    /\ UNCHANGED <<up, nextRun, queued, redisUp, lastPing, report, stoppedAt, startedAt,
                   outages, starts>>

-----------------------------------------------------------------------------
(* The route reads one ping after the other.  It changes nothing, so one   *)
(* request at any time stands for all.                                     *)
ReadPing ==
    /\ redisUp /\ Len(report.pings) < Len(Workers) /\ report.answer = NoAnswer
    /\ report' = [pings |-> Append(report.pings, lastPing[Workers[Len(report.pings) + 1]]),
                  began |-> IF report.pings = <<>> THEN time ELSE report.began,
                  answer |-> NoAnswer]
    /\ UNCHANGED <<time, up, nextRun, queued, redisUp, lastPing, stoppedAt, startedAt,
                   outages, starts>>

StaleAfter(w) == IF w \in LongStaleFor THEN LongStale ELSE ShortStale

(* Mutant: a worker that has left no ping is taken to run.                 *)
StaleIfThere(w, ping) == ping # 0 /\ ping + StaleAfter(w) < time

StalePing(w, ping) == ping = 0 \/ ping + StaleAfter(w) < time

(* With the last ping read, the clock is read and the answer made.         *)
AnswerStatus ==
    /\ Len(report.pings) = Len(Workers)
    /\ report' = [report EXCEPT
         !.pings = <<>>,
         !.answer = [w \in WorkerSet |->
            LET i == CHOOSE j \in DOMAIN Workers : Workers[j] = w
            IN  IF StalePing(w, report.pings[i]) THEN "stopped" ELSE "running"]]
    /\ UNCHANGED <<time, up, nextRun, queued, redisUp, lastPing, stoppedAt, startedAt,
                   outages, starts>>

HealthNext ==
    \/ StartWorkers \/ StopWorkers \/ SwitchRedis \/ PassTime
    \/ \E w \in WorkerSet : RunWorker(w) \/ WritePing(w)
    \/ ReadPing \/ AnswerStatus

HealthSpec == HealthInit /\ [][HealthNext]_healthVars

-----------------------------------------------------------------------------
(* The answer as it is given, before time passes.  A worker that is said   *)
(* to run has run within its limit; one that is said to have stopped has   *)
(* not been up, or Redis away, or the request on its way, for longer than  *)
(* leaves room for a run, if its runs are closer together than its limit.  *)
WorkersTold == [][AnswerStatus =>
    \A w \in WorkerSet :
        /\ report'.answer[w] = "running" =>
             startedAt # 0 /\ (up \/ time <= stoppedAt + StaleAfter(w))
        /\ report'.answer[w] = "stopped" /\ up /\ outages = 0 =>
             \/ report.began <= startedAt + Interval[w]
             \/ (time - report.began) + Interval[w] > StaleAfter(w)]_healthVars
=============================================================================
