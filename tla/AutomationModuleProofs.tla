------------------------ MODULE AutomationModuleProofs ------------------------
(***************************************************************************)
(* The rate limits and the daily budget of the contract hold for any       *)
(* session keys, constraints, windows and sequences of calls.  The limits  *)
(* speak of the history, the contract only keeps a count or a sum and the  *)
(* start of a window: the inductive invariants tie the two.                *)
(***************************************************************************)
EXTENDS AutomationModule, FiniteSetTheorems, WellFoundedInduction, TLAPS

(* Two windows of a key are one window, or they do not overlap.            *)
Earlier(g, h) == g = h \/ g + Hour <= h

(* What the Safe executed in the window the contract is counting.          *)
Window(k) == {f \in executed : f.key = k /\ f.epoch = epoch[k]
                                         /\ f.hour = lastHourReset[k]}

KeysRegistered ==
    \A k \in Keys : /\ active[k] => constraints[k] \in Constraints
                    /\ lastHourReset[k] <= now

(* Every execution happened in the window it is counted in, and that       *)
(* window is the current one of its key or an earlier one.                 *)
InTheirWindows ==
    \A e \in executed :
        /\ e.n <= Cardinality(executed)
        /\ e.epoch <= epoch[e.key]
        /\ e.hour <= e.at /\ e.at < e.hour + Hour /\ e.at <= now
        /\ e.epoch = epoch[e.key] => Earlier(e.hour, lastHourReset[e.key])

(* The windows of the executions follow each other.                        *)
InOrder ==
    \A e, f \in executed :
        /\ e.n = f.n => e = f
        /\ e.key = f.key /\ e.epoch = f.epoch /\ e.n <= f.n
             => Earlier(e.hour, f.hour)

CountIsExact == \A k \in Keys : Cardinality(Window(k)) = hourlyTxCount[k]

RateInv ==
    /\ ModuleTypeOK
    /\ KeysRegistered
    /\ InTheirWindows
    /\ InOrder
    /\ CountIsExact
    /\ HourlyRate

-----------------------------------------------------------------------------
(* The greatest member of a finite set of numbers: the sets of members     *)
(* above a member are finite, and strict inclusion is well-founded.        *)
LEMMA GreatestExists ==
    ASSUME NEW S \in SUBSET Nat, IsFiniteSet(S), S # {}
    PROVE  \E x \in S : \A y \in S : x >= y
<1> DEFINE Above(x) == {y \in S : y > x}
           Tails == {Above(x) : x \in S}
<1>1. Tails \subseteq FiniteSubsetsOf(Nat) /\ Tails # {}
  <2>1. ASSUME NEW x \in S
        PROVE  Above(x) \in FiniteSubsetsOf(Nat)
    <3>1. Above(x) \in SUBSET S
      OBVIOUS
    <3>2. IsFiniteSet(Above(x))
      <4> HIDE DEF Above
      <4> QED BY <3>1, FS_Subset
    <3>3. QED
      BY <3>1, <3>2 DEF FiniteSubsetsOf
  <2> HIDE DEF Above
  <2>2. QED
    BY <2>1
<1>2. PICK A \in Tails :
          \A B \in Tails : ~ (<<B, A>> \in StrictSubsetOrdering(Nat))
  <2> HIDE DEF Tails
  <2> QED
    BY <1>1, FS_StrictSubsetOrderingWellFounded, WFMin
<1>3. PICK x \in S : A = Above(x)
  OBVIOUS
<1>4. ASSUME NEW y \in S, ~ (x >= y)
      PROVE  FALSE
  <2>1. y > x /\ y \in Nat /\ x \in Nat
    BY <1>4
  <2>2. Above(y) \subseteq Above(x) /\ y \in Above(x) /\ y \notin Above(y)
    <3>1. ASSUME NEW z \in S, z > y
          PROVE  z > x
      BY <2>1, <3>1
    <3>2. ~ (y > y)
      BY <2>1
    <3>3. QED
      BY <2>1, <3>1, <3>2
  <2>3. <<Above(y), A>> \in StrictSubsetOrdering(Nat)
    BY <2>2, <1>3 DEF StrictSubsetOrdering
  <2>4. QED
    BY <2>3, <1>2
<1>5. QED
  BY <1>4

LEMMA MaxIsGreatest ==
    ASSUME NEW S \in SUBSET Nat, IsFiniteSet(S), S # {}
    PROVE  Max(S) \in S /\ \A y \in S : Max(S) >= y
BY GreatestExists DEF Max

-----------------------------------------------------------------------------
LEMMA InitRateInv == ModuleInit => RateInv
<1> SUFFICES ASSUME ModuleInit
             PROVE  RateInv
  OBVIOUS
<1> USE ModuleAssumption DEF ModuleInit
<1>1. IsFiniteSet({}) /\ Cardinality({}) = 0
  BY FS_EmptySet
<1>2. ModuleTypeOK
  BY <1>1 DEF ModuleTypeOK
<1>3. KeysRegistered /\ InTheirWindows /\ InOrder /\ HourlyRate
  BY DEF KeysRegistered, InTheirWindows, InOrder, HourlyRate
<1>4. ASSUME NEW k \in Keys
      PROVE  Cardinality(Window(k)) = hourlyTxCount[k]
  <2>1. Window(k) = {}
    BY DEF Window
  <2>2. QED
    BY <1>1, <2>1
<1>5. QED
  BY <1>2, <1>3, <1>4 DEF RateInv, CountIsExact

(* Steps that leave the history, the counts and the windows alone.         *)
LEMMA SettingsKeepRates ==
    ASSUME RateInv, ModuleTypeOK', KeysRegistered', now' >= now,
           UNCHANGED <<hourlyTxCount, lastHourReset, epoch, executed>>
    PROVE  RateInv'
<1> USE DEF RateInv
<1>1. InTheirWindows'
  <2> SUFFICES ASSUME NEW e \in executed
               PROVE  e.at <= now'
    BY DEF InTheirWindows, Earlier
  <2>1. e.at \in Nat /\ now \in Nat /\ now' \in Nat /\ e.at <= now
    BY DEF ModuleTypeOK, Execution, InTheirWindows
  <2>2. QED
    BY <2>1
<1>2. InOrder'
  BY DEF InOrder, Earlier
<1>3. CountIsExact'
  BY DEF CountIsExact, Window
<1>4. HourlyRate'
  BY DEF HourlyRate, SameHour, ExecutedUpTo
<1>5. QED
  BY <1>1, <1>2, <1>3, <1>4

(* Registering a key starts its history afresh.                            *)
LEMMA RegisterKeepsRates ==
    ASSUME RateInv, NEW k \in Keys, NEW c \in Constraints,
           RegisterSessionKey(k, c)
    PROVE  RateInv'
<1> USE ModuleAssumption DEF RateInv
<1>1. ModuleTypeOK'
  BY DEF ModuleTypeOK, RegisterSessionKey, listVars
<1>2. KeysRegistered'
  BY DEF ModuleTypeOK, KeysRegistered, RegisterSessionKey
<1>3. InTheirWindows'
  <2> SUFFICES ASSUME NEW e \in executed
               PROVE  /\ e.epoch <= epoch'[e.key]
                      /\ e.epoch = epoch'[e.key]
                           => Earlier(e.hour, lastHourReset'[e.key])
    BY DEF InTheirWindows, RegisterSessionKey, Earlier
  <2>1. e.epoch \in Nat /\ epoch[e.key] \in Nat /\ e.key \in Keys
        /\ e.epoch <= epoch[e.key]
    BY DEF ModuleTypeOK, Execution, InTheirWindows
  <2>2. CASE e.key = k
    <3>1. epoch'[e.key] = epoch[e.key] + 1
      BY <2>2 DEF RegisterSessionKey, ModuleTypeOK
    <3>2. QED
      BY <2>1, <3>1
  <2>3. CASE e.key # k
    <3>1. epoch'[e.key] = epoch[e.key] /\ lastHourReset'[e.key] = lastHourReset[e.key]
      BY <2>1, <2>3 DEF RegisterSessionKey, ModuleTypeOK
    <3>2. QED
      BY <2>1, <3>1 DEF InTheirWindows
  <2>4. QED
    BY <2>2, <2>3
<1>4. InOrder'
  BY DEF InOrder, Earlier, RegisterSessionKey
<1>5. ASSUME NEW j \in Keys
      PROVE  Cardinality(Window(j)') = hourlyTxCount'[j]
  <2>1. CASE j = k
    <3>1. ASSUME NEW f \in executed, f.key = j
          PROVE  f.epoch # epoch'[j]
      <4>1. epoch'[j] = epoch[j] + 1 /\ epoch[j] \in Nat
        BY <2>1 DEF RegisterSessionKey, ModuleTypeOK
      <4>2. f.epoch \in Nat /\ f.epoch <= epoch[j]
        BY <3>1 DEF ModuleTypeOK, Execution, InTheirWindows
      <4>3. QED
        BY <4>1, <4>2
    <3>2. Window(j)' = {}
      BY <3>1 DEF Window, RegisterSessionKey
    <3>3. hourlyTxCount'[j] = 0
      BY <2>1 DEF RegisterSessionKey, ModuleTypeOK
    <3>4. QED
      BY <3>2, <3>3, FS_EmptySet
  <2>2. CASE j # k
    <3>1. /\ epoch'[j] = epoch[j] /\ lastHourReset'[j] = lastHourReset[j]
          /\ hourlyTxCount'[j] = hourlyTxCount[j] /\ executed' = executed
      BY <2>2 DEF RegisterSessionKey, ModuleTypeOK
    <3>2. Window(j)' = Window(j)
      BY <3>1 DEF Window
    <3>3. QED
      BY <3>1, <3>2 DEF CountIsExact
  <2>3. QED
    BY <2>1, <2>2
<1>6. CountIsExact'
  BY <1>5 DEF CountIsExact
<1>7. HourlyRate'
  BY DEF HourlyRate, SameHour, ExecutedUpTo, RegisterSessionKey
<1>8. QED
  BY <1>1, <1>2, <1>3, <1>4, <1>6, <1>7

-----------------------------------------------------------------------------
(* The entry Execute adds to the history.                                  *)
Entry(k, call) ==
    [n |-> Cardinality(executed) + 1, key |-> k, epoch |-> epoch[k],
     at |-> now, day |-> DayStart(k), hour |-> HourStart(k),
     notional |-> call.notional, under |-> constraints[k]]

LEMMA ExecuteKeepsTypes ==
    ASSUME RateInv, NEW k \in Keys, NEW call \in Calls, Execute(k, call)
    PROVE  /\ ModuleTypeOK' /\ KeysRegistered'
           /\ Entry(k, call) \in Execution
           /\ Entry(k, call) \notin executed
           /\ executed' = executed \cup {Entry(k, call)}
           /\ Cardinality(executed) \in Nat
           /\ Cardinality(executed') = Cardinality(executed) + 1
<1> USE ModuleAssumption DEF RateInv
<1> DEFINE e == Entry(k, call)
<1>1. /\ lastHourReset[k] \in Nat /\ lastDayReset[k] \in Nat /\ now \in Nat
      /\ lastHourReset[k] <= now /\ epoch[k] \in Nat
      /\ hourlyTxCount[k] \in Nat /\ dailyNotionalUsed[k] \in Nat
  BY DEF ModuleTypeOK, KeysRegistered
<1>2. call.notional \in Nat
  BY DEF Calls
<1>3. /\ HourStart(k) \in Nat /\ HourStart(k) <= now /\ DayStart(k) \in Nat
  BY <1>1 DEF HourStart, DayStart
<1>4. HourUsed(k) + 1 \in 0..MaxUint32 /\ DayUsed(k) + call.notional \in 0..MaxUint256
  BY <1>1, <1>2 DEF Execute, CountersFit, HourUsed, DayUsed
<1>5. constraints[k] \in Constraints
  BY DEF Execute, Permitted, KeysRegistered
<1>6. Cardinality(executed) \in Nat
  BY FS_CardinalityType DEF ModuleTypeOK
<1>7. e \in Execution
  BY <1>1, <1>2, <1>3, <1>5, <1>6 DEF Execution, Entry
<1>8. e \notin executed
  <2> SUFFICES ASSUME e \in executed
               PROVE  FALSE
    OBVIOUS
  <2>1. e.n <= Cardinality(executed)
    BY DEF InTheirWindows
  <2>2. e.n = Cardinality(executed) + 1
    BY DEF Entry
  <2>3. QED
    BY <2>1, <2>2, <1>6
<1>9. executed' = executed \cup {e}
  BY DEF Execute, Entry
<1>10. IsFiniteSet(executed') /\ Cardinality(executed') = Cardinality(executed) + 1
  BY <1>8, <1>9, FS_AddElement DEF ModuleTypeOK
<1>11. ModuleTypeOK'
  <2>1. /\ dailyNotionalUsed' \in [Keys -> 0..MaxUint256]
        /\ hourlyTxCount' \in [Keys -> 0..MaxUint32]
        /\ lastDayReset' \in [Keys -> Nat]
        /\ lastHourReset' \in [Keys -> Nat]
    BY <1>3, <1>4 DEF Execute, ModuleTypeOK
  <2>2. executed' \subseteq Execution
    BY <1>7, <1>9 DEF ModuleTypeOK
  <2>3. QED
    BY <2>1, <2>2, <1>10 DEF ModuleTypeOK, Execute, listVars
<1>12. KeysRegistered'
  BY <1>3 DEF KeysRegistered, Execute, ModuleTypeOK
<1>13. QED
  BY <1>6, <1>7, <1>8, <1>9, <1>10, <1>11, <1>12

(* The window an execution falls into: the one the contract counts, or a   *)
(* new one that no execution has been in.                                  *)
LEMMA ExecuteKeepsWindows ==
    ASSUME RateInv, NEW k \in Keys, NEW call \in Calls, Execute(k, call)
    PROVE  /\ InTheirWindows' /\ InOrder'
           /\ \A f \in executed : f.key = k /\ f.epoch = epoch[k]
                  => Earlier(f.hour, HourStart(k))
                     /\ (NewHour(k) => f.hour # HourStart(k))
<1> USE ModuleAssumption DEF RateInv
<1> DEFINE e == Entry(k, call)
<1>1. /\ lastHourReset[k] \in Nat /\ now \in Nat /\ lastHourReset[k] <= now
      /\ epoch[k] \in Nat
  BY DEF ModuleTypeOK, KeysRegistered
<1>2. /\ e.n = Cardinality(executed) + 1 /\ e.key = k /\ e.epoch = epoch[k]
      /\ e.at = now /\ e.hour = HourStart(k)
  BY DEF Entry
<1>3. /\ executed' = executed \cup {e}
      /\ Cardinality(executed) \in Nat
      /\ Cardinality(executed') = Cardinality(executed) + 1
  BY ExecuteKeepsTypes
<1>4. /\ epoch' = epoch /\ now' = now
      /\ lastHourReset' = [lastHourReset EXCEPT ![k] = HourStart(k)]
  BY DEF Execute
<1>5. ASSUME NEW f \in executed
      PROVE  /\ f.key \in Keys /\ f.n \in Nat /\ f.hour \in Nat /\ f.at \in Nat
             /\ f.epoch \in Nat /\ f.n <= Cardinality(executed)
             /\ f.epoch <= epoch[f.key]
             /\ f.hour <= f.at /\ f.at < f.hour + Hour /\ f.at <= now
             /\ f.epoch = epoch[f.key] => Earlier(f.hour, lastHourReset[f.key])
  BY DEF ModuleTypeOK, Execution, InTheirWindows
<1>6. /\ HourStart(k) \in Nat /\ HourStart(k) <= now /\ now < HourStart(k) + Hour
      /\ Earlier(lastHourReset[k], HourStart(k))
      /\ NewHour(k) => lastHourReset[k] < HourStart(k)
  BY <1>1 DEF HourStart, NewHour, Earlier
<1>7. ASSUME NEW f \in executed, f.key = k, f.epoch = epoch[k]
      PROVE  /\ Earlier(f.hour, HourStart(k))
             /\ NewHour(k) => f.hour # HourStart(k)
  <2>1. Earlier(f.hour, lastHourReset[k]) /\ f.hour \in Nat
    BY <1>5, <1>7
  <2>2. QED
    BY <2>1, <1>1, <1>6 DEF Earlier
<1> HIDE DEF e
<1>8. InTheirWindows'
  <2> SUFFICES ASSUME NEW f \in executed'
               PROVE  /\ f.n <= Cardinality(executed')
                      /\ f.epoch <= epoch'[f.key]
                      /\ f.hour <= f.at /\ f.at < f.hour + Hour /\ f.at <= now'
                      /\ f.epoch = epoch'[f.key]
                           => Earlier(f.hour, lastHourReset'[f.key])
    BY DEF InTheirWindows, Earlier
  <2>1. CASE f = e
    <3>1. lastHourReset'[k] = HourStart(k)
      BY <1>4 DEF ModuleTypeOK
    <3>2. QED
      BY <2>1, <3>1, <1>1, <1>2, <1>3, <1>4, <1>6 DEF Earlier
  <2>2. CASE f \in executed /\ f.key = k
    <3>1. lastHourReset'[k] = HourStart(k)
      BY <1>4 DEF ModuleTypeOK
    <3>2. QED
      BY <2>2, <3>1, <1>3, <1>4, <1>5, <1>7
  <2>3. CASE f \in executed /\ f.key # k
    <3>1. lastHourReset'[f.key] = lastHourReset[f.key]
      BY <2>3, <1>4, <1>5 DEF ModuleTypeOK
    <3>2. QED
      BY <2>3, <3>1, <1>3, <1>4, <1>5
  <2>4. QED
    BY <2>1, <2>2, <2>3, <1>3
<1>9. InOrder'
  <2> SUFFICES ASSUME NEW f \in executed', NEW g \in executed'
               PROVE  /\ f.n = g.n => f = g
                      /\ f.key = g.key /\ f.epoch = g.epoch /\ f.n <= g.n
                           => Earlier(f.hour, g.hour)
    BY DEF InOrder, Earlier
  <2>1. CASE f = e /\ g = e
    BY <2>1 DEF Earlier
  <2>2. CASE f = e /\ g \in executed
    BY <2>2, <1>2, <1>3, <1>5
  <2>3. CASE f \in executed /\ g = e
    <3>1. f.n # g.n
      BY <2>3, <1>2, <1>3, <1>5
    <3>2. QED
      BY <3>1, <2>3, <1>2, <1>7
  <2>4. CASE f \in executed /\ g \in executed
    BY <2>4 DEF InOrder
  <2>5. QED
    BY <2>1, <2>2, <2>3, <2>4, <1>3
<1>10. QED
  BY <1>7, <1>8, <1>9

LEMMA ExecuteKeepsCount ==
    ASSUME RateInv, NEW k \in Keys, NEW call \in Calls, Execute(k, call)
    PROVE  /\ CountIsExact'
           /\ IsFiniteSet(Window(k)') /\ Cardinality(Window(k)') = HourUsed(k) + 1
           /\ lastHourReset'[k] = HourStart(k)
<1> USE DEF RateInv
<1> DEFINE e == Entry(k, call)
<1>1. /\ e.n = Cardinality(executed) + 1 /\ e.key = k /\ e.epoch = epoch[k]
      /\ e.hour = HourStart(k)
  BY DEF Entry
<1>2. executed' = executed \cup {e} /\ e \notin executed
  BY ExecuteKeepsTypes
<1> HIDE DEF e
<1>3. epoch' = epoch
  BY DEF Execute
<1>4. /\ lastHourReset'[k] = HourStart(k) /\ hourlyTxCount'[k] = HourUsed(k) + 1
      /\ \A j \in Keys : j # k => /\ lastHourReset'[j] = lastHourReset[j]
                                  /\ hourlyTxCount'[j] = hourlyTxCount[j]
  BY DEF Execute, ModuleTypeOK
<1>5. ASSUME NEW j \in Keys
      PROVE  IsFiniteSet(Window(j)) /\ Cardinality(Window(j)) = hourlyTxCount[j]
  <2>1. Window(j) \in SUBSET executed
    BY DEF Window
  <2>2. QED
    BY <2>1, FS_Subset DEF ModuleTypeOK, CountIsExact
<1>6. IsFiniteSet(Window(k)') /\ Cardinality(Window(k)') = HourUsed(k) + 1
  <2>1. CASE NewHour(k)
    <3>1. \A f \in executed : f.key = k /\ f.epoch = epoch[k] => f.hour # HourStart(k)
      BY <2>1, ExecuteKeepsWindows
    <3>2. Window(k)' = {} \cup {e}
      BY <3>1, <1>1, <1>2, <1>3, <1>4 DEF Window
    <3>3. HourUsed(k) = 0
      BY <2>1 DEF HourUsed
    <3>4. IsFiniteSet({} \cup {e}) /\ Cardinality({} \cup {e}) = 0 + 1
      BY FS_EmptySet, FS_AddElement
    <3>5. QED
      BY <3>2, <3>3, <3>4
  <2>2. CASE ~ NewHour(k)
    <3>1. HourStart(k) = lastHourReset[k] /\ HourUsed(k) = hourlyTxCount[k]
      BY <2>2 DEF HourStart, HourUsed
    <3>2. Window(k)' = Window(k) \cup {e} /\ e \notin Window(k)
      BY <3>1, <1>1, <1>2, <1>3, <1>4 DEF Window
    <3>3. QED
      BY <3>1, <3>2, <1>5, FS_AddElement
  <2>3. QED
    BY <2>1, <2>2
<1>7. ASSUME NEW j \in Keys, j # k
      PROVE  Window(j)' = Window(j)
  BY <1>1, <1>2, <1>3, <1>4, <1>7 DEF Window
<1>8. CountIsExact'
  BY <1>4, <1>5, <1>6, <1>7 DEF CountIsExact
<1>9. QED
  BY <1>4, <1>6, <1>8

LEMMA ExecuteKeepsRates ==
    ASSUME RateInv, NEW k \in Keys, NEW call \in Calls, Execute(k, call)
    PROVE  RateInv'
<1> USE DEF RateInv
<1>0. PICK e \in Execution : e = Entry(k, call)
  BY ExecuteKeepsTypes
<1>1. /\ e.n = Cardinality(executed) + 1 /\ e.key = k /\ e.epoch = epoch[k]
      /\ e.hour = HourStart(k) /\ e.under = constraints[k]
  BY <1>0 DEF Entry
<1>2. executed' = executed \cup {e} /\ Cardinality(executed) \in Nat
  BY <1>0, ExecuteKeepsTypes
<1>3. ASSUME NEW f \in executed, f.under.maxTxPerHour > 0
      PROVE  Cardinality(SameHour(f)') <= f.under.maxTxPerHour
  <2>1. ~ (e.n <= f.n)
    BY <1>1, <1>2 DEF InTheirWindows, ModuleTypeOK, Execution
  <2>2. SameHour(f)' = SameHour(f)
    BY <2>1, <1>2 DEF SameHour, ExecutedUpTo
  <2>3. QED
    BY <2>2, <1>3 DEF HourlyRate
<1>4. ASSUME e.under.maxTxPerHour > 0
      PROVE  Cardinality(SameHour(e)') <= e.under.maxTxPerHour
  <2>1. /\ IsFiniteSet(Window(k)') /\ Cardinality(Window(k)') = HourUsed(k) + 1
        /\ lastHourReset'[k] = HourStart(k)
    BY ExecuteKeepsCount
  <2>2. SameHour(e)' \in SUBSET (Window(k)')
    BY <2>1, <1>1 DEF SameHour, ExecutedUpTo, Window, Execute
  <2>3. Cardinality(SameHour(e)') <= HourUsed(k) + 1
    BY <2>1, <2>2, FS_Subset
  <2>4. Cardinality(SameHour(e)') \in Nat
    BY <2>1, <2>2, FS_Subset, FS_CardinalityType
  <2>5. constraints[k].maxTxPerHour \in Nat /\ HourUsed(k) \in Nat
    BY ModuleAssumption DEF Execute, Permitted, KeysRegistered, HourUsed, ModuleTypeOK
  <2>6. HourUsed(k) < constraints[k].maxTxPerHour
    BY <1>1, <1>4, <2>5 DEF Execute, WithinLimits, WithinHour
  <2>7. QED
    BY <1>1, <2>3, <2>4, <2>5, <2>6
<1>5. HourlyRate'
  <2> SUFFICES ASSUME NEW f \in executed', f.under.maxTxPerHour > 0
               PROVE  Cardinality(SameHour(f)') <= f.under.maxTxPerHour
    BY DEF HourlyRate
  <2>1. QED
    BY <1>2, <1>3, <1>4
<1>6. QED
  BY <1>5, ExecuteKeepsTypes, ExecuteKeepsWindows, ExecuteKeepsCount

-----------------------------------------------------------------------------
LEMMA ModuleKeepsRates == RateInv /\ [ModuleNext]_moduleVars => RateInv'
<1> SUFFICES ASSUME RateInv, [ModuleNext]_moduleVars
             PROVE  RateInv'
  OBVIOUS
<1> USE ModuleAssumption
<1>1. ASSUME NEW k \in Keys, NEW c \in Constraints, RegisterSessionKey(k, c)
      PROVE  RateInv'
  BY <1>1, RegisterKeepsRates
<1>2. ASSUME NEW k \in Keys, NEW c \in Constraints, UpdateConstraints(k, c)
      PROVE  RateInv'
  <2>1. ModuleTypeOK' /\ KeysRegistered' /\ now' >= now
    BY <1>2 DEF UpdateConstraints, ModuleTypeOK, KeysRegistered, RateInv, listVars
  <2>2. QED
    BY <1>2, <2>1, SettingsKeepRates DEF UpdateConstraints
<1>3. ASSUME NEW k \in Keys, RevokeSessionKey(k)
      PROVE  RateInv'
  <2>1. ModuleTypeOK' /\ KeysRegistered' /\ now' >= now
    BY <1>3 DEF RevokeSessionKey, ModuleTypeOK, KeysRegistered, RateInv, listVars
  <2>2. QED
    BY <1>3, <2>1, SettingsKeepRates DEF RevokeSessionKey
<1>4. ASSUME NEW k \in Keys, NEW call \in Calls, Execute(k, call)
      PROVE  RateInv'
  BY <1>4, ExecuteKeepsRates
<1>5. ASSUME NEW allowed \in BOOLEAN, NEW t \in Targets,
             SetTargetAllowed(t, allowed) \/ SetTokenAllowed(t, allowed)
      PROVE  RateInv'
  <2>1. ModuleTypeOK' /\ KeysRegistered' /\ now' >= now
    <3>1. CASE SetTargetAllowed(t, allowed)
      BY <3>1 DEF SetTargetAllowed, Put, ModuleTypeOK, KeysRegistered, RateInv,
                  keyVars
    <3>2. CASE SetTokenAllowed(t, allowed)
      BY <3>2 DEF SetTokenAllowed, Put, ModuleTypeOK, KeysRegistered, RateInv,
                  keyVars
    <3>3. QED
      BY <1>5, <3>1, <3>2
  <2>2. QED
    BY <1>5, <2>1, SettingsKeepRates DEF SetTargetAllowed, SetTokenAllowed, keyVars
<1>6. ASSUME NEW allowed \in BOOLEAN, NEW sel \in Selectors,
             SetSelectorAllowed(sel, allowed)
      PROVE  RateInv'
  <2>1. ModuleTypeOK' /\ KeysRegistered' /\ now' >= now
    BY <1>6 DEF SetSelectorAllowed, Put, ModuleTypeOK, KeysRegistered, RateInv,
                keyVars
  <2>2. QED
    BY <1>6, <2>1, SettingsKeepRates DEF SetSelectorAllowed, keyVars
<1>7. ASSUME NEW allowed \in BOOLEAN, NEW r \in Recipients,
             SetWithdrawalAddress(r, allowed)
      PROVE  RateInv'
  <2>1. ModuleTypeOK' /\ KeysRegistered' /\ now' >= now
    BY <1>7 DEF SetWithdrawalAddress, Put, ModuleTypeOK, KeysRegistered, RateInv,
                keyVars
  <2>2. QED
    BY <1>7, <2>1, SettingsKeepRates DEF SetWithdrawalAddress, keyVars
<1>8. ASSUME NextBlock
      PROVE  RateInv'
  <2>1. ModuleTypeOK' /\ KeysRegistered' /\ now' >= now
    BY <1>8 DEF NextBlock, ModuleTypeOK, KeysRegistered, RateInv, keyVars, listVars
  <2>2. QED
    BY <1>8, <2>1, SettingsKeepRates DEF NextBlock, keyVars
<1>9. ASSUME UNCHANGED moduleVars
      PROVE  RateInv'
  <2>1. ModuleTypeOK' /\ KeysRegistered' /\ now' >= now
    BY <1>9 DEF moduleVars, keyVars, listVars, ModuleTypeOK, KeysRegistered, RateInv
  <2>2. QED
    BY <1>9, <2>1, SettingsKeepRates DEF moduleVars, keyVars
<1>10. QED
  BY <1>1, <1>2, <1>3, <1>4, <1>5, <1>6, <1>7, <1>8, <1>9 DEF ModuleNext

LEMMA RateInvHolds == ModuleSpec => []RateInv
<1>1. ModuleInit => RateInv
  BY InitRateInv
<1>2. RateInv /\ [ModuleNext]_moduleVars => RateInv'
  BY ModuleKeepsRates
<1>3. QED
  BY <1>1, <1>2, PTL DEF ModuleSpec

(* The contract's storage and the history keep their types: no counter     *)
(* leaves the range of its Solidity type, whatever is called.              *)
THEOREM ModuleTypeCorrect == ModuleSpec => []ModuleTypeOK
<1>1. RateInv => ModuleTypeOK
  BY DEF RateInv
<1>2. QED
  BY <1>1, RateInvHolds, PTL

(* Constraint 6 of executeFromSessionKey: the executions of one hour       *)
(* window stay within the maxTxPerHour in force at the last of them.       *)
THEOREM HourlyRateHolds == ModuleSpec => []HourlyRate
<1>1. RateInv => HourlyRate
  BY DEF RateInv
<1>2. QED
  BY <1>1, RateInvHolds, PTL

-----------------------------------------------------------------------------
(* A stretch of Hour ticks meets two windows at most: its executions       *)
(* outside the window of the last one are all in one earlier window.       *)
LEMMA TwoWindows ==
    ASSUME RateInv, NEW e \in executed,
           NEW f \in ExecutedUpTo(e), f.at > e.at - Hour, f.hour # e.hour,
           NEW g \in ExecutedUpTo(e), g.at > e.at - Hour, g.hour # e.hour,
           f.n <= g.n
    PROVE  f.hour = g.hour
<1> USE ModuleAssumption DEF RateInv
<1>1. /\ f.n \in Nat /\ f.hour \in Nat /\ f.at \in Nat
      /\ g.n \in Nat /\ g.hour \in Nat /\ g.at \in Nat
      /\ e.n \in Nat /\ e.hour \in Nat /\ e.at \in Nat
  BY DEF ExecutedUpTo, ModuleTypeOK, Execution
<1>2. /\ f.at < f.hour + Hour /\ e.hour <= e.at
  BY DEF ExecutedUpTo, InTheirWindows
<1>3. Earlier(f.hour, g.hour) /\ Earlier(g.hour, e.hour)
  BY DEF ExecutedUpTo, InOrder
<1>4. QED
  BY <1>1, <1>2, <1>3 DEF Earlier

(* The history up to an execution is finite, and so is what happened in    *)
(* the Hour before it.                                                     *)
LEMMA RollingHourBound ==
    ASSUME RateInv, NEW e \in executed, NEW M \in Nat,
           \A f \in ExecutedUpTo(e) : f.at > e.at - Hour
                => f.under.maxTxPerHour > 0 /\ f.under.maxTxPerHour <= M
    PROVE  Cardinality({f \in ExecutedUpTo(e) : f.at > e.at - Hour}) <= 2 * M
<1> USE ModuleAssumption DEF RateInv
<1> DEFINE recent == {f \in ExecutedUpTo(e) : f.at > e.at - Hour}
           old == {f \in recent : f.hour # e.hour}
<1>1. ASSUME NEW T \in SUBSET executed
      PROVE  IsFiniteSet(T) /\ Cardinality(T) \in Nat
  BY <1>1, FS_Subset, FS_CardinalityType DEF ModuleTypeOK
<1>2. \A f \in executed : /\ f.n \in Nat /\ f.at \in Nat
                          /\ f.under.maxTxPerHour \in Nat
  BY DEF ModuleTypeOK, Execution
<1>3. ASSUME NEW f \in recent
      PROVE  f \in executed /\ Cardinality(SameHour(f)) <= M
  <2>1. f \in executed /\ f.under.maxTxPerHour > 0 /\ f.under.maxTxPerHour <= M
    BY DEF ExecutedUpTo
  <2>2. Cardinality(SameHour(f)) <= f.under.maxTxPerHour
    BY <2>1 DEF HourlyRate
  <2>3. SameHour(f) \in SUBSET executed
    BY DEF SameHour, ExecutedUpTo
  <2>4. Cardinality(SameHour(f)) \in Nat
    BY <2>3, <1>1
  <2>5. QED
    BY <2>1, <2>2, <2>4, <1>2
<1>4. e \in recent
  BY <1>2 DEF ExecutedUpTo
<1>5. recent \in SUBSET executed /\ old \in SUBSET executed
  BY DEF ExecutedUpTo
<1>6. CASE old = {}
  <2>1. recent \in SUBSET SameHour(e) /\ SameHour(e) \in SUBSET executed
    BY <1>6 DEF SameHour, ExecutedUpTo
  <2>2. Cardinality(recent) <= Cardinality(SameHour(e))
    BY <2>1, <1>1, FS_Subset
  <2>3. Cardinality(SameHour(e)) <= M
    BY <1>3, <1>4
  <2>4. Cardinality(recent) \in Nat /\ Cardinality(SameHour(e)) \in Nat
    BY <2>1, <1>1, <1>5
  <2> HIDE DEF recent
  <2>5. Cardinality(recent) <= 2 * M
    BY <2>2, <2>3, <2>4
  <2>6. QED
    BY <2>5 DEF recent
<1>7. CASE old # {}
  <2>1. PICK g \in old : \A f \in old : g.n >= f.n
    <3> DEFINE N == {f.n : f \in old}
               num == [f \in old |-> f.n]
    <3>1. num \in Surjection(old, N)
      BY DEF Surjection
    <3>2. IsFiniteSet(old)
      BY <1>1, <1>5
    <3>3. IsFiniteSet(N)
      <4> HIDE DEF N, num, old
      <4> QED BY <3>1, <3>2, FS_Surjection
    <3>4. N \in SUBSET Nat /\ N # {}
      BY <1>2, <1>5, <1>7
    <3>5. PICK x \in N : \A y \in N : x >= y
      <4> HIDE DEF N
      <4> QED BY <3>3, <3>4, GreatestExists
    <3>6. QED
      BY <3>5
  <2>2. \A f \in old : f.hour = g.hour
    BY <2>1, <1>2, <1>5, TwoWindows
  <2>3. recent \in SUBSET (SameHour(e) \cup SameHour(g))
    BY <2>1, <2>2, <1>2, <1>5 DEF SameHour, ExecutedUpTo
  <2>4. SameHour(e) \in SUBSET executed /\ SameHour(g) \in SUBSET executed
    BY DEF SameHour, ExecutedUpTo
  <2>5. Cardinality(SameHour(e)) <= M /\ Cardinality(SameHour(g)) <= M
    BY <1>3, <1>4
  <2>6. /\ IsFiniteSet(SameHour(e)) /\ IsFiniteSet(SameHour(g))
        /\ Cardinality(SameHour(e)) \in Nat /\ Cardinality(SameHour(g)) \in Nat
        /\ Cardinality(recent) \in Nat
    BY <2>4, <1>1, <1>5
  <2>7. /\ IsFiniteSet(SameHour(e) \cup SameHour(g))
        /\ Cardinality(SameHour(e) \cup SameHour(g)) =
             Cardinality(SameHour(e)) + Cardinality(SameHour(g))
               - Cardinality(SameHour(e) \cap SameHour(g))
    BY <2>6, FS_Union
  <2>8. Cardinality(SameHour(e) \cap SameHour(g)) \in Nat
    <3>1. SameHour(e) \cap SameHour(g) \in SUBSET executed
      BY <2>4
    <3>2. QED
      BY <3>1, <1>1
  <2>9. Cardinality(recent) <= Cardinality(SameHour(e) \cup SameHour(g))
    <3> HIDE DEF recent
    <3> QED BY <2>3, <2>7, FS_Subset
  <2>10. Cardinality(recent) <= 2 * M
    <3> HIDE DEF recent
    <3> QED BY <2>5, <2>6, <2>7, <2>8, <2>9
  <2>11. QED
    BY <2>10 DEF recent
<1>8. QED
  BY <1>6, <1>7

LEMMA RollingHourKept == RateInv => RollingHour
<1> SUFFICES ASSUME RateInv, NEW e \in executed
             PROVE  LET recent == {f \in ExecutedUpTo(e) : f.at > e.at - Hour}
                        limits == {f.under.maxTxPerHour : f \in recent}
                    IN  0 \notin limits => Cardinality(recent) <= 2 * Max(limits)
  BY DEF RollingHour
<1> USE ModuleAssumption DEF RateInv
<1> DEFINE recent == {f \in ExecutedUpTo(e) : f.at > e.at - Hour}
           limits == {f.under.maxTxPerHour : f \in recent}
           limitOf == [f \in recent |-> f.under.maxTxPerHour]
<1> SUFFICES ASSUME 0 \notin limits
             PROVE  Cardinality(recent) <= 2 * Max(limits)
  OBVIOUS
<1>1. recent \in SUBSET executed /\ IsFiniteSet(recent)
  <2>1. recent \in SUBSET executed
    BY DEF ExecutedUpTo
  <2>2. QED
    BY <2>1, FS_Subset DEF ModuleTypeOK
<1>2. e \in recent
  BY DEF ExecutedUpTo, ModuleTypeOK, Execution
<1>3. limits \in SUBSET Nat /\ limits # {}
  BY <1>1, <1>2 DEF ModuleTypeOK, Execution
<1>4. IsFiniteSet(limits)
  <2>1. limitOf \in Surjection(recent, limits)
    BY DEF Surjection
  <2> HIDE DEF limitOf, limits, recent
  <2>2. QED
    BY <2>1, <1>1, FS_Surjection
<1>5. Max(limits) \in limits /\ \A y \in limits : Max(limits) >= y
  <2> HIDE DEF limits
  <2> QED BY <1>3, <1>4, MaxIsGreatest
<1>6. Max(limits) \in Nat
  BY <1>3, <1>5
<1>7. ASSUME NEW f \in ExecutedUpTo(e), f.at > e.at - Hour
      PROVE  f.under.maxTxPerHour > 0 /\ f.under.maxTxPerHour <= Max(limits)
  <2>1. PICK x \in limits : x = f.under.maxTxPerHour
    BY <1>7
  <2>2. x \in Nat /\ x # 0 /\ Max(limits) >= x
    <3> HIDE DEF limits
    <3> QED BY <2>1, <1>3, <1>5
  <2>3. x > 0 /\ x <= Max(limits)
    <3> HIDE DEF limits
    <3> QED BY <2>2, <1>6
  <2>4. QED
    BY <2>1, <2>3
<1>8. QED
  <2> HIDE DEF limits
  <2> QED BY <1>6, <1>7, RollingHourBound

(* Fixed windows admit a burst across their boundary, but never more than  *)
(* twice the largest rate limit in force in any stretch of one hour.       *)
THEOREM RollingHourHolds == ModuleSpec => []RollingHour
BY RollingHourKept, RateInvHolds, PTL

-----------------------------------------------------------------------------
(* The notionals of executions are added up one by one: what the sum of    *)
(* each set of them is, given that of the smaller ones.                    *)
Added(h, S) == [T \in SUBSET S |->
    IF T = {} THEN 0 ELSE LET f == CHOOSE f \in T : TRUE IN f.notional + h[T \ {f}]]

Adds(h, S) == h = Added(h, S)

(* A set of subsets of a finite set has a smallest one.                    *)
LEMMA SmallestExists ==
    ASSUME NEW S, IsFiniteSet(S), NEW Sets \in SUBSET (SUBSET S), Sets # {}
    PROVE  \E T \in Sets : \A U \in Sets : U \subseteq T => U = T
<1>1. Sets \subseteq FiniteSubsetsOf(S)
  BY FS_Subset DEF FiniteSubsetsOf
<1>2. PICK T \in Sets : \A U \in Sets : ~ (<<U, T>> \in StrictSubsetOrdering(S))
  BY <1>1, FS_StrictSubsetOrderingWellFounded, WFMin
<1>3. QED
  BY <1>2 DEF StrictSubsetOrdering

(* What such a sum is of a set of executions.                              *)
LEMMA SumStep ==
    ASSUME NEW S, NEW h, Adds(h, S), NEW T \in SUBSET S
    PROVE  /\ T = {} => h[T] = 0
           /\ T # {} => LET f == CHOOSE f \in T : TRUE
                        IN  f \in T /\ h[T] = f.notional + h[T \ {f}]
<1>1. h[T] = Added(h, S)[T]
  BY DEF Adds
<1> DEFINE f == CHOOSE f \in T : TRUE
<1>2. Added(h, S)[T] = IF T = {} THEN 0 ELSE f.notional + h[T \ {f}]
  BY DEF Added
<1>3. QED
  BY <1>1, <1>2

(* Two such sums agree on the sets that both add up...                     *)
LEMMA SumsAgree ==
    ASSUME NEW S, IsFiniteSet(S), NEW g, Adds(g, S),
           NEW R, NEW h, Adds(h, R), NEW T \in SUBSET (S \cap R)
    PROVE  g[T] = h[T]
<1> DEFINE Differ == {U \in SUBSET T : g[U] # h[U]}
<1> SUFFICES ASSUME Differ # {} PROVE FALSE
  OBVIOUS
<1>1. PICK U \in Differ : \A V \in Differ : V \subseteq U => V = U
  <2>1. Differ \in SUBSET (SUBSET S)
    OBVIOUS
  <2> HIDE DEF Differ
  <2>2. QED
    BY <2>1, SmallestExists
<1>2. CASE U = {}
  <2>1. U \in SUBSET S /\ U \in SUBSET R
    OBVIOUS
  <2>2. QED
    BY <1>2, <2>1, SumStep
<1>3. CASE U # {}
  <2> DEFINE f == CHOOSE f \in U : TRUE
  <2>1. f \in U
    BY <1>3
  <2>2. g[U] = f.notional + g[U \ {f}] /\ h[U] = f.notional + h[U \ {f}]
    <3>1. U \in SUBSET S /\ U \in SUBSET R
      OBVIOUS
    <3>2. g[U] = f.notional + g[U \ {f}]
      BY <1>3, <3>1, SumStep
    <3>3. h[U] = f.notional + h[U \ {f}]
      BY <1>3, <3>1, SumStep
    <3>4. QED
      BY <3>2, <3>3
  <2>3. U \ {f} \in SUBSET T /\ U \ {f} \subseteq U /\ U \ {f} # U
    BY <2>1
  <2>4. g[U \ {f}] = h[U \ {f}]
    BY <2>3, <1>1
  <2>5. QED
    BY <2>2, <2>4
<1>4. QED
  BY <1>2, <1>3

(* ...and there is one for every finite set.                               *)
LEMMA SumExists ==
    ASSUME NEW S, IsFiniteSet(S)
    PROVE  \E g : Adds(g, S)
<1> DEFINE Without == {T \in SUBSET S : ~ \E g : Adds(g, T)}
           Of(T) == CHOOSE g : Adds(g, T)
<1> SUFFICES ASSUME Without # {} PROVE FALSE
  OBVIOUS
<1>1. PICK T \in Without : \A U \in Without : U \subseteq T => U = T
  <2>1. Without \in SUBSET (SUBSET S)
    OBVIOUS
  <2> HIDE DEF Without
  <2>2. QED
    BY <2>1, SmallestExists
<1>2. ASSUME NEW U \in SUBSET T, U # T
      PROVE  Adds(Of(U), U)
  <2>1. \E g : Adds(g, U)
    BY <1>1, <1>2
  <2>2. QED
    BY <2>1
<1>3. \A U \in SUBSET T : IsFiniteSet(U)
  BY FS_Subset
<1> DEFINE h == [U \in SUBSET T |->
      IF U = {} THEN 0
      ELSE LET f == CHOOSE f \in U : TRUE IN f.notional + Of(U \ {f})[U \ {f}]]
<1>4. ASSUME NEW V \in SUBSET T, V # T
      PROVE  h[V] = Of(V)[V]
  <2>0. Adds(Of(V), V)
    BY <1>2, <1>4
  <2> HIDE DEF Of
  <2>1. CASE V = {}
    BY <2>0, <2>1, SumStep
  <2>2. CASE V # {}
    <3> DEFINE f == CHOOSE f \in V : TRUE
    <3>1. f \in V
      BY <2>2
    <3>2. h[V] = f.notional + Of(V \ {f})[V \ {f}]
      BY <2>2
    <3>3. Of(V)[V] = f.notional + Of(V)[V \ {f}]
      BY <2>0, <2>2, SumStep
    <3>4. V \ {f} \in SUBSET T /\ V \ {f} # T /\ V \ {f} \in SUBSET (V \cap (V \ {f}))
      BY <3>1
    <3>5. Adds(Of(V \ {f}), V \ {f})
      BY <3>4, <1>2
    <3>6. Of(V)[V \ {f}] = Of(V \ {f})[V \ {f}]
      <4> HIDE DEF f
      <4> QED BY <2>0, <3>4, <3>5, <1>3, SumsAgree
    <3>7. QED
      BY <3>2, <3>3, <3>6
  <2>3. QED
    BY <2>1, <2>2
<1>5. ASSUME NEW U \in SUBSET T
      PROVE  h[U] = Added(h, T)[U]
  <2>1. CASE U = {}
    BY <2>1 DEF Added
  <2>2. CASE U # {}
    <3> DEFINE f == CHOOSE f \in U : TRUE
    <3>1. f \in U
      BY <2>2
    <3>2. h[U] = f.notional + Of(U \ {f})[U \ {f}]
      BY <2>2
    <3>3. h[U \ {f}] = Of(U \ {f})[U \ {f}]
      <4>1. U \ {f} \in SUBSET T /\ U \ {f} # T
        BY <3>1
      <4> HIDE DEF h, f, Of
      <4>2. QED
        BY <4>1, <1>4
    <3> HIDE DEF h, Of
    <3>4. Added(h, T)[U] = f.notional + h[U \ {f}]
      BY <2>2 DEF Added
    <3>5. QED
      BY <3>2, <3>3, <3>4
  <2>3. QED
    BY <2>1, <2>2
<1>6. Adds(h, T)
  <2>1. h = [U \in SUBSET T |-> h[U]] /\ Added(h, T) = [U \in SUBSET T |-> Added(h, T)[U]]
    BY DEF Added
  <2> HIDE DEF h
  <2>2. QED
    BY <2>1, <1>5 DEF Adds
<1>7. QED
  <2> HIDE DEF h
  <2> QED BY <1>1, <1>6

(* MapThenSumSet is that sum.                                              *)
LEMMA SumIs ==
    ASSUME NEW S, IsFiniteSet(S), NEW h, Adds(h, S)
    PROVE  NotionalOf(S) = h[S]
<1> DEFINE iter == CHOOSE g : Adds(g, S)
<1>1. NotionalOf(S) = iter[S]
  BY DEF NotionalOf, MapThenSumSet, MapThenFoldSet, Adds, Added
<1>2. Adds(iter, S)
  OBVIOUS
<1>3. QED
  <2> HIDE DEF iter
  <2>1. S \in SUBSET (S \cap S)
    OBVIOUS
  <2>2. iter[S] = h[S]
    BY <1>2, <2>1, SumsAgree
  <2>3. QED
    BY <1>1, <2>2

(* It does not matter which execution is taken out first.                  *)
LEMMA AnyFirst ==
    ASSUME NEW S \in SUBSET Execution, IsFiniteSet(S), NEW h, Adds(h, S),
           NEW T \in SUBSET S
    PROVE  h[T] \in Nat /\ \A e \in T : h[T] = e.notional + h[T \ {e}]
<1> DEFINE Wrong == {U \in SUBSET S :
      ~ (h[U] \in Nat /\ \A e \in U : h[U] = e.notional + h[U \ {e}])}
<1> SUFFICES ASSUME Wrong # {} PROVE FALSE
  OBVIOUS
<1>1. PICK U \in Wrong : \A V \in Wrong : V \subseteq U => V = U
  <2>1. Wrong \in SUBSET (SUBSET S)
    OBVIOUS
  <2> HIDE DEF Wrong
  <2>2. QED
    BY <2>1, SmallestExists
<1>2. CASE U = {}
  BY <1>2, SumStep
<1>3. CASE U # {}
  <2>0. PICK one : one = CHOOSE f \in U : TRUE
    OBVIOUS
  <2>1. one \in U /\ U \in SUBSET S
    BY <1>3, <2>0
  <2>2. h[U] = one.notional + h[U \ {one}]
    BY <1>3, <2>0, <2>1, SumStep
  <2>3. ASSUME NEW V \in SUBSET U, V # U
        PROVE  h[V] \in Nat /\ \A e \in V : h[V] = e.notional + h[V \ {e}]
    BY <2>1, <2>3, <1>1
  <2>4. \A e \in U : e.notional \in Nat
    BY <2>1 DEF Execution
  <2>5. h[U] \in Nat
    BY <2>1, <2>2, <2>3, <2>4
  <2>6. ASSUME NEW e \in U, e # one
        PROVE  h[U] = e.notional + h[U \ {e}]
    <3>1. e \in U \ {one} /\ one \in U \ {e} /\ U \ {one} # U /\ U \ {e} # U
      BY <2>1, <2>6
    <3>2. (U \ {one}) \ {e} = (U \ {e}) \ {one}
      OBVIOUS
    <3>3. h[U \ {one}] = e.notional + h[(U \ {one}) \ {e}]
      BY <2>3, <3>1
    <3>4. h[U \ {e}] = one.notional + h[(U \ {e}) \ {one}]
      BY <2>3, <3>1
    <3>5. h[(U \ {e}) \ {one}] \in Nat
      <4>1. (U \ {e}) \ {one} \in SUBSET U /\ (U \ {e}) \ {one} # U
        BY <2>1
      <4>2. QED
        BY <4>1, <2>3
    <3>6. PICK rest \in Nat : rest = h[(U \ {e}) \ {one}]
      BY <3>5
    <3>7. h[U] = one.notional + (e.notional + rest) /\ h[U \ {e}] = one.notional + rest
      BY <2>2, <3>2, <3>3, <3>4, <3>6
    <3>8. one.notional \in Nat /\ e.notional \in Nat
      BY <2>1, <2>4
    <3>9. QED
      BY <3>6, <3>7, <3>8
  <2>7. QED
    BY <2>2, <2>5, <2>6, <1>1
<1>4. QED
  BY <1>2, <1>3

(* The notional of no executions, and of one more.                         *)
LEMMA NotionalOfNone == NotionalOf({}) = 0
<1>1. PICK h : Adds(h, {})
  BY SumExists, FS_EmptySet
<1>2. h[{}] = 0
  BY <1>1, SumStep
<1>3. QED
  BY <1>1, <1>2, SumIs, FS_EmptySet

(* One execution more adds its notional to the sum.                        *)
LEMMA NotionalOfOneMore ==
    ASSUME NEW S \in SUBSET Execution, IsFiniteSet(S), NEW e \in Execution, e \notin S
    PROVE  NotionalOf(S) \in Nat /\ NotionalOf(S \cup {e}) = NotionalOf(S) + e.notional
<1>1. S \cup {e} \in SUBSET Execution /\ IsFiniteSet(S \cup {e})
  BY FS_AddElement
<1>2. PICK g : Adds(g, S)
  BY SumExists
<1>3. PICK h : Adds(h, S \cup {e})
  BY <1>1, SumExists
<1>4. NotionalOf(S) = g[S] /\ NotionalOf(S \cup {e}) = h[S \cup {e}]
  BY <1>1, <1>2, <1>3, SumIs
<1>5. h[S \cup {e}] = e.notional + h[(S \cup {e}) \ {e}]
  BY <1>1, <1>3, AnyFirst
<1>6. (S \cup {e}) \ {e} = S
  OBVIOUS
<1>7. g[S] \in Nat
  BY <1>2, AnyFirst
<1>8. g[S] = h[S]
  <2>1. S \in SUBSET (S \cap (S \cup {e}))
    OBVIOUS
  <2>2. QED
    BY <1>2, <1>3, <2>1, SumsAgree
<1>9. e.notional \in Nat
  BY DEF Execution
<1>10. PICK sum \in Nat : sum = g[S]
  BY <1>7
<1>11. h[S \cup {e}] = e.notional + sum
  BY <1>5, <1>6, <1>8, <1>10
<1>12. QED
  BY <1>4, <1>9, <1>10, <1>11

-----------------------------------------------------------------------------
(* What the Safe executed in the day the contract is adding up.            *)
DayWindow(k) == {f \in executed : f.key = k /\ f.epoch = epoch[k]
                                            /\ f.day = lastDayReset[k]}

(* Days follow each other, and the contract adds up the latest.            *)
DaysFollow ==
    \A e \in executed : e.epoch = epoch[e.key] => e.day <= lastDayReset[e.key]

SpentIsExact == \A k \in Keys : NotionalOf(DayWindow(k)) = dailyNotionalUsed[k]

BudgetInv == RateInv /\ DaysFollow /\ SpentIsExact /\ DailyBudget

(* Before the first call every key has spent nothing.                      *)
LEMMA InitBudgetInv == ModuleInit => BudgetInv
<1> SUFFICES ASSUME ModuleInit
             PROVE  BudgetInv
  OBVIOUS
<1>1. executed = {} /\ \A k \in Keys : DayWindow(k) = {} /\ dailyNotionalUsed[k] = 0
  BY DEF ModuleInit, DayWindow
<1>2. SpentIsExact
  BY <1>1, NotionalOfNone DEF SpentIsExact
<1>3. DaysFollow /\ DailyBudget
  BY <1>1 DEF DaysFollow, DailyBudget
<1>4. QED
  BY <1>2, <1>3, InitRateInv DEF BudgetInv

(* Steps that leave the history, the sums and the days alone.              *)
LEMMA SettingsKeepBudgets ==
    ASSUME BudgetInv, RateInv',
           UNCHANGED <<dailyNotionalUsed, lastDayReset, epoch, executed>>
    PROVE  BudgetInv'
<1>1. DaysFollow'
  BY DEF BudgetInv, DaysFollow
<1>2. SpentIsExact'
  BY DEF BudgetInv, SpentIsExact, DayWindow
<1>3. DailyBudget'
  BY DEF BudgetInv, DailyBudget, SameDay, ExecutedUpTo
<1>4. QED
  BY <1>1, <1>2, <1>3 DEF BudgetInv

(* Registering a key starts with nothing spent.                            *)
LEMMA RegisterKeepsBudgets ==
    ASSUME BudgetInv, RateInv', NEW k \in Keys, NEW c \in Constraints,
           RegisterSessionKey(k, c)
    PROVE  BudgetInv'
<1>1. /\ executed' = executed
      /\ epoch'[k] = epoch[k] + 1 /\ dailyNotionalUsed'[k] = 0
      /\ \A j \in Keys : j # k => /\ epoch'[j] = epoch[j]
                                  /\ lastDayReset'[j] = lastDayReset[j]
                                  /\ dailyNotionalUsed'[j] = dailyNotionalUsed[j]
  BY DEF RegisterSessionKey, BudgetInv, RateInv, ModuleTypeOK
<1>2. ASSUME NEW f \in executed
      PROVE  f.key \in Keys /\ (f.key = k => f.epoch # epoch'[k])
  <2>1. f.key \in Keys /\ f.epoch \in Nat /\ f.epoch <= epoch[f.key] /\ epoch[k] \in Nat
    BY DEF BudgetInv, RateInv, ModuleTypeOK, Execution, InTheirWindows
  <2>2. QED
    BY <1>1, <2>1
<1>3. DaysFollow'
  BY <1>1, <1>2 DEF BudgetInv, DaysFollow
<1>4. ASSUME NEW j \in Keys
      PROVE  NotionalOf(DayWindow(j)') = dailyNotionalUsed'[j]
  <2>1. CASE j = k
    <3>1. DayWindow(j)' = {}
      BY <1>1, <1>2, <2>1 DEF DayWindow
    <3>2. QED
      BY <1>1, <2>1, <3>1, NotionalOfNone
  <2>2. CASE j # k
    <3>1. DayWindow(j)' = DayWindow(j)
      BY <1>1, <2>2 DEF DayWindow
    <3>2. QED
      BY <1>1, <2>2, <3>1 DEF BudgetInv, SpentIsExact
  <2>3. QED
    BY <2>1, <2>2
<1>5. SpentIsExact'
  BY <1>4 DEF SpentIsExact
<1>6. DailyBudget'
  BY <1>1 DEF BudgetInv, DailyBudget, SameDay, ExecutedUpTo
<1>7. QED
  BY <1>3, <1>5, <1>6 DEF BudgetInv

(* An execution is added to its day, or is the first of a new one.         *)
LEMMA ExecuteKeepsSpent ==
    ASSUME BudgetInv, NEW k \in Keys, NEW call \in Calls, Execute(k, call)
    PROVE  /\ DaysFollow' /\ SpentIsExact'
           /\ lastDayReset'[k] = DayStart(k)
           /\ NotionalOf(DayWindow(k)') = DayUsed(k) + call.notional
<1> USE DEF BudgetInv
<1>0. PICK e \in Execution : e = Entry(k, call)
  BY ExecuteKeepsTypes
<1>1. /\ e.n = Cardinality(executed) + 1 /\ e.key = k /\ e.epoch = epoch[k]
      /\ e.day = DayStart(k) /\ e.notional = call.notional
  BY <1>0 DEF Entry
<1>2. executed' = executed \cup {e} /\ e \notin executed
  BY <1>0, ExecuteKeepsTypes
<1>3. /\ epoch' = epoch /\ lastDayReset'[k] = DayStart(k)
      /\ dailyNotionalUsed'[k] = DayUsed(k) + call.notional
      /\ \A j \in Keys : j # k => /\ lastDayReset'[j] = lastDayReset[j]
                                  /\ dailyNotionalUsed'[j] = dailyNotionalUsed[j]
  BY DEF Execute, RateInv, ModuleTypeOK
<1>4. ASSUME NEW f \in executed
      PROVE  f.key \in Keys /\ f.day \in Nat
  BY DEF RateInv, ModuleTypeOK, Execution
<1>5. /\ lastDayReset[k] \in Nat /\ DayStart(k) \in Nat
      /\ lastDayReset[k] <= DayStart(k)
      /\ NewDay(k) => lastDayReset[k] < DayStart(k)
  BY ModuleAssumption DEF RateInv, ModuleTypeOK, DayStart, NewDay
<1>6. ASSUME NEW f \in executed, f.key = k, f.epoch = epoch[k]
      PROVE  f.day <= DayStart(k) /\ (NewDay(k) => f.day # DayStart(k))
  <2>1. f.day <= lastDayReset[k]
    BY <1>6 DEF DaysFollow
  <2>2. QED
    BY <2>1, <1>4, <1>5
<1>7. DaysFollow'
  <2> SUFFICES ASSUME NEW f \in executed', f.epoch = epoch'[f.key]
               PROVE  f.day <= lastDayReset'[f.key]
    BY DEF DaysFollow
  <2>1. CASE f = e
    BY <2>1, <1>1, <1>3, <1>5
  <2>2. CASE f \in executed /\ f.key = k
    BY <2>2, <1>3, <1>6
  <2>3. CASE f \in executed /\ f.key # k
    BY <2>3, <1>3, <1>4 DEF DaysFollow
  <2>4. QED
    BY <2>1, <2>2, <2>3, <1>2
<1>8. ASSUME NEW j \in Keys
      PROVE  DayWindow(j) \in SUBSET Execution /\ IsFiniteSet(DayWindow(j))
  <2>1. DayWindow(j) \in SUBSET executed
    BY DEF DayWindow
  <2>2. QED
    BY <2>1, FS_Subset DEF RateInv, ModuleTypeOK
<1>9. NotionalOf(DayWindow(k)') = DayUsed(k) + call.notional
  <2>1. CASE NewDay(k)
    <3>1. DayWindow(k)' = {} \cup {e}
      BY <2>1, <1>1, <1>2, <1>3, <1>6 DEF DayWindow
    <3>2. NotionalOf({} \cup {e}) = 0 + e.notional
      BY NotionalOfNone, NotionalOfOneMore, FS_EmptySet
    <3>3. DayUsed(k) = 0
      BY <2>1 DEF DayUsed
    <3>4. QED
      BY <3>1, <3>2, <3>3, <1>1
  <2>2. CASE ~ NewDay(k)
    <3>1. DayStart(k) = lastDayReset[k] /\ DayUsed(k) = dailyNotionalUsed[k]
      BY <2>2 DEF DayStart, DayUsed
    <3>2. DayWindow(k)' = DayWindow(k) \cup {e} /\ e \notin DayWindow(k)
      BY <3>1, <1>1, <1>2, <1>3 DEF DayWindow
    <3>3. NotionalOf(DayWindow(k) \cup {e}) = NotionalOf(DayWindow(k)) + e.notional
      BY <3>2, <1>8, NotionalOfOneMore
    <3>4. NotionalOf(DayWindow(k)) = DayUsed(k)
      BY <3>1 DEF SpentIsExact
    <3>5. QED
      BY <3>2, <3>3, <3>4, <1>1
  <2>3. QED
    BY <2>1, <2>2
<1>10. ASSUME NEW j \in Keys, j # k
       PROVE  NotionalOf(DayWindow(j)') = dailyNotionalUsed'[j]
  <2>1. DayWindow(j)' = DayWindow(j)
    BY <1>1, <1>2, <1>3, <1>10 DEF DayWindow
  <2>2. QED
    BY <2>1, <1>3, <1>10 DEF SpentIsExact
<1>11. SpentIsExact'
  BY <1>3, <1>9, <1>10 DEF SpentIsExact
<1>12. QED
  BY <1>3, <1>7, <1>9, <1>11

(* An execution keeps the window of its key exact and within the budget.   *)
LEMMA ExecuteKeepsBudgets ==
    ASSUME BudgetInv, RateInv', NEW k \in Keys, NEW call \in Calls, Execute(k, call)
    PROVE  BudgetInv'
<1> USE DEF BudgetInv
<1>0. PICK e \in Execution : e = Entry(k, call)
  BY ExecuteKeepsTypes
<1>1. /\ e.n = Cardinality(executed) + 1 /\ e.key = k /\ e.epoch = epoch[k]
      /\ e.day = DayStart(k) /\ e.under = constraints[k]
  BY <1>0 DEF Entry
<1>2. executed' = executed \cup {e} /\ Cardinality(executed) \in Nat
  BY <1>0, ExecuteKeepsTypes
<1>3. ASSUME NEW f \in executed
      PROVE  f.n \in Nat /\ f.n <= Cardinality(executed)
  BY DEF RateInv, ModuleTypeOK, Execution, InTheirWindows
<1>4. ASSUME NEW f \in executed, f.under.maxNotionalPerDay > 0
      PROVE  NotionalOf(SameDay(f)') <= f.under.maxNotionalPerDay
  <2>1. ~ (e.n <= f.n)
    BY <1>1, <1>2, <1>3
  <2>2. SameDay(f)' = SameDay(f)
    BY <2>1, <1>2 DEF SameDay, ExecutedUpTo
  <2>3. QED
    BY <2>2, <1>4 DEF DailyBudget
<1>5. ASSUME e.under.maxNotionalPerDay > 0
      PROVE  NotionalOf(SameDay(e)') <= e.under.maxNotionalPerDay
  <2>1. /\ lastDayReset'[k] = DayStart(k)
        /\ NotionalOf(DayWindow(k)') = DayUsed(k) + call.notional
    BY ExecuteKeepsSpent
  <2>2. epoch' = epoch /\ \A f \in executed' : f.n <= e.n
    <3>1. e.n <= e.n
      BY <1>1, <1>2
    <3>2. \A f \in executed : f.n <= e.n
      BY <1>1, <1>2, <1>3
    <3>3. QED
      BY <3>1, <3>2, <1>2 DEF Execute
  <2>3. SameDay(e)' = DayWindow(k)'
    BY <2>1, <2>2, <1>1 DEF SameDay, ExecutedUpTo, DayWindow
  <2>4. constraints[k].maxNotionalPerDay # 0
    BY <1>1, <1>5
  <2>5. DayUsed(k) + call.notional <= constraints[k].maxNotionalPerDay
    BY <2>4 DEF Execute, WithinLimits, WithinDay
  <2>6. QED
    BY <2>1, <2>3, <2>5, <1>1
<1>6. DailyBudget'
  <2> SUFFICES ASSUME NEW f \in executed', f.under.maxNotionalPerDay > 0
               PROVE  NotionalOf(SameDay(f)') <= f.under.maxNotionalPerDay
    BY DEF DailyBudget
  <2>1. QED
    BY <1>2, <1>4, <1>5
<1>7. QED
  BY <1>6, ExecuteKeepsSpent

(* So do all calls of the contract.                                        *)
LEMMA ModuleKeepsBudgets == BudgetInv /\ [ModuleNext]_moduleVars => BudgetInv'
<1> SUFFICES ASSUME BudgetInv, [ModuleNext]_moduleVars
             PROVE  BudgetInv'
  OBVIOUS
<1>0. RateInv'
  BY ModuleKeepsRates DEF BudgetInv
<1>1. ASSUME NEW k \in Keys, NEW c \in Constraints, RegisterSessionKey(k, c)
      PROVE  BudgetInv'
  BY <1>0, <1>1, RegisterKeepsBudgets
<1>2. ASSUME NEW k \in Keys, NEW c \in Constraints, UpdateConstraints(k, c)
      PROVE  BudgetInv'
  BY <1>0, <1>2, SettingsKeepBudgets DEF UpdateConstraints
<1>3. ASSUME NEW k \in Keys, RevokeSessionKey(k)
      PROVE  BudgetInv'
  BY <1>0, <1>3, SettingsKeepBudgets DEF RevokeSessionKey
<1>4. ASSUME NEW k \in Keys, NEW call \in Calls, Execute(k, call)
      PROVE  BudgetInv'
  BY <1>0, <1>4, ExecuteKeepsBudgets
<1>5. ASSUME NEW allowed \in BOOLEAN,
             \/ \E t \in Targets : SetTargetAllowed(t, allowed) \/ SetTokenAllowed(t, allowed)
             \/ \E sel \in Selectors : SetSelectorAllowed(sel, allowed)
             \/ \E r \in Recipients : SetWithdrawalAddress(r, allowed)
      PROVE  BudgetInv'
  BY <1>0, <1>5, SettingsKeepBudgets
     DEF SetTargetAllowed, SetTokenAllowed, SetSelectorAllowed, SetWithdrawalAddress, keyVars
<1>6. CASE NextBlock \/ UNCHANGED moduleVars
  BY <1>0, <1>6, SettingsKeepBudgets DEF NextBlock, moduleVars, keyVars
<1>7. QED
  BY <1>1, <1>2, <1>3, <1>4, <1>5, <1>6 DEF ModuleNext

(* Constraint 5 of executeFromSessionKey: the notional executed in one day *)
(* window stays within the maxNotionalPerDay in force at the last          *)
(* execution of it, for any keys, amounts, limits, updates and resets.     *)
THEOREM DailyBudgetHolds == ModuleSpec => []DailyBudget
<1>1. BudgetInv => DailyBudget
  BY DEF BudgetInv
<1>2. QED
  BY <1>1, InitBudgetInv, ModuleKeepsBudgets, PTL DEF ModuleSpec
=============================================================================
