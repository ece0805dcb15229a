----------------------------- MODULE EventStream -----------------------------
(***************************************************************************)
(* The event streams of copy attempts and sync logs (routes/copy.ts,       *)
(* routes/sync.ts), which hooks/useSSE.ts opens: one connection, ticks     *)
(* that setInterval starts whether or not the last query has answered, and *)
(* writers whose rows appear while the ticks run.                          *)
(***************************************************************************)
EXTENDS Naturals, FiniteSets, FiniteSetsExt

CONSTANTS
    MaxRows,       \* bound on rows; their ids are ordered as their createdAt
    MaxTicks,      \* bound on ticks whose query is under way at once
    BatchSize,     \* take: 10 or 20
    MaxReconnects  \* bound on reconnects

ASSUME StreamAssumption ==
    MaxRows \in Nat /\ MaxTicks \in Nat /\ BatchSize \in Nat /\ MaxReconnects \in Nat

RowIds == 1..MaxRows
Ticks  == 1..MaxTicks

VARIABLES
    visible,     \* rows that queries see
    inOrder,     \* no row has appeared after one with a larger id
    lastId,      \* of the connection, 0 stands for ''
    tick,        \* each tick: the id it asks from, the rows it was given
    sent,        \* history: rows written to the connection
    reconnects

streamVars == <<visible, inOrder, lastId, tick, sent, reconnects>>

NoTick == [at |-> "idle", from |-> 0, rows |-> {}]

StreamTypeOK ==
    /\ visible \subseteq RowIds
    /\ lastId \in RowIds \cup {0}
    /\ tick \in [Ticks -> [at : {"idle", "asked", "answered"}, from : RowIds \cup {0},
                           rows : SUBSET RowIds]]
    /\ sent \subseteq RowIds
    /\ inOrder \in BOOLEAN
    /\ reconnects \in 0..MaxReconnects

StreamInit ==
    /\ \E n \in 0..MaxRows : visible = 1..n
    /\ inOrder = TRUE
    /\ lastId = 0
    /\ tick = [t \in Ticks |-> NoTick]
    /\ sent = {}
    /\ reconnects = 0

(* A worker commits a row; another may have been given a larger id before. *)
RowAppears(r) ==
    /\ r \notin visible
    /\ visible' = visible \cup {r}
    /\ inOrder' = (inOrder /\ \A v \in visible : v < r)
    /\ UNCHANGED <<lastId, tick, sent, reconnects>>

(* The interval fires: the where clause is made from lastId.               *)
StartTick(t) ==
    /\ tick[t].at = "idle"
    /\ tick' = [tick EXCEPT ![t] = [at |-> "asked", from |-> lastId, rows |-> {}]]
    /\ UNCHANGED <<visible, inOrder, lastId, sent, reconnects>>

(* Mutant: the latest rows come first.                                     *)
LatestRows(from) ==
    {r \in visible : r > from /\ Cardinality({v \in visible : v > r}) < BatchSize}

(* The oldest rows after lastId, no more than a batch.                     *)
FindMany(from) ==
    {r \in visible : r > from
                    /\ Cardinality({v \in visible : from < v /\ v < r}) < BatchSize}

(* The database runs the query; an error is swallowed and the tick is over.*)
AnswerTick(t) ==
    /\ tick[t].at = "asked"
    /\ \/ tick' = [tick EXCEPT ![t].at = "answered", ![t].rows = FindMany(tick[t].from)]
       \/ tick' = [tick EXCEPT ![t] = NoTick]
    /\ UNCHANGED <<visible, inOrder, lastId, sent, reconnects>>

(* The rows are written from the oldest to the latest, which lastId is     *)
(* then, whether it was further on before or not.                          *)
WriteRows(t) ==
    /\ tick[t].at = "answered"
    /\ LET rows == tick[t].rows IN
         /\ sent' = sent \cup rows
         /\ lastId' = IF rows = {} THEN lastId ELSE Max(rows)
    /\ tick' = [tick EXCEPT ![t] = NoTick]
    /\ UNCHANGED <<visible, inOrder, reconnects>>

(* The connection closes, its interval with it, and the browser opens a    *)
(* new one that starts from the beginning.                                 *)
Reconnect ==
    /\ reconnects < MaxReconnects
    /\ reconnects' = reconnects + 1
    /\ lastId' = 0
    /\ tick' = [t \in Ticks |-> NoTick]
    /\ sent' = {}
    /\ UNCHANGED <<visible, inOrder>>

StreamNext ==
    \/ \E r \in RowIds : RowAppears(r)
    \/ \E t \in Ticks : StartTick(t) \/ AnswerTick(t) \/ WriteRows(t)
    \/ Reconnect

StreamSpec == StreamInit /\ [][StreamNext]_streamVars

-----------------------------------------------------------------------------
(* However ticks overlap, fail and finish out of order, and though lastId  *)
(* goes back: while rows appear in the order of their ids, the stream has  *)
(* left out nothing before what it sent, and before where it asks from.    *)
NoGaps ==
    inOrder =>
        /\ \A r \in sent : {v \in visible : v < r} \subseteq sent
        /\ lastId # 0 => lastId \in sent
=============================================================================
