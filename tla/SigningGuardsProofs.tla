------------------------- MODULE SigningGuardsProofs -------------------------
(***************************************************************************)
(* Proofs about SigningRateLimiter and SigningCircuitBreaker, for every    *)
(* value of their settings, any number of users and requests, and any      *)
(* order in which requests consult them and report to them.  Both rest on  *)
(* lemmas about SlidingWindow: a pruned list is the part of the full log   *)
(* that is not stale yet, so bounding the list bounds every stretch of the *)
(* log.                                                                    *)
(***************************************************************************)
EXTENDS SigningRateLimiter, SigningCircuitBreaker, FiniteSetTheorems,
        WellFoundedInduction, TLAPS

(* w is the log without a prefix, and that prefix is stale.                *)
IsWindow(w, width, log, now) ==
    \E k \in 0..Len(log) :
        /\ Len(w) = Len(log) - k
        /\ \A n \in 1..Len(w) : w[n] = log[k + n]
        /\ \A i \in 1..k : now - log[i] >= width

(* Every non-empty set of numbers has a least element: the initial         *)
(* segments of its members are finite sets, and strict inclusion of finite *)
(* sets is well-founded.                                                   *)
LEMMA LeastExists ==
    ASSUME NEW S \in SUBSET Nat, S # {}
    PROVE  \E x \in S : \A y \in S : x <= y
<1> DEFINE Segments == {1..n : n \in S}
<1>1. Segments \subseteq FiniteSubsetsOf(Nat) /\ Segments # {}
  <2>1. ASSUME NEW n \in S
        PROVE  1..n \in FiniteSubsetsOf(Nat)
    <3>1. 1..n \in SUBSET Nat /\ n \in Int
      OBVIOUS
    <3>2. IsFiniteSet(1..n)
      BY <3>1, FS_Interval
    <3>3. QED
      BY <3>1, <3>2 DEF FiniteSubsetsOf
  <2>2. QED
    BY <2>1
<1>2. PICK I \in Segments :
          \A J \in Segments : ~ (<<J, I>> \in StrictSubsetOrdering(Nat))
  <2> HIDE DEF Segments
  <2> QED
    BY <1>1, FS_StrictSubsetOrderingWellFounded, WFMin
<1>3. PICK x \in S : I = 1..x
  OBVIOUS
<1>4. ASSUME NEW y \in S, y < x
      PROVE  FALSE
  <2>1. 1..y \in Segments /\ 1..y \subseteq 1..x /\ 1..y # 1..x
    <3>1. x \in 1..x /\ x \notin 1..y
      BY <1>4
    <3>2. QED
      BY <1>4, <3>1
  <2>2. <<1..y, 1..x>> \in StrictSubsetOrdering(Nat)
    BY <2>1, <1>3 DEF StrictSubsetOrdering
  <2>3. QED
    BY <2>1, <2>2, <1>2, <1>3
<1>5. QED
  BY <1>4

LEMMA MinIsLeast ==
    ASSUME NEW S \in SUBSET Nat, S # {}
    PROVE  Min(S) \in S /\ \A y \in S : Min(S) <= y
BY LeastExists DEF Min

(* Pruning keeps the type of a list and never makes it longer.             *)
LEMMA PruneType ==
    ASSUME NEW w \in Seq(Nat), NEW width \in Nat, clock \in Nat
    PROVE  Prune(w, width) \in Seq(Nat) /\ Len(Prune(w, width)) <= Len(w)
<1> DEFINE fresh == {n \in DOMAIN w : clock - w[n] < width}
<1>1. CASE fresh = {}
  BY <1>1 DEF Prune
<1>2. CASE fresh # {}
  <2>1. fresh \in SUBSET Nat
    OBVIOUS
  <2>2. Min(fresh) \in fresh
    <3> HIDE DEF fresh
    <3> QED BY <1>2, <2>1, MinIsLeast
  <2>3. Min(fresh) \in 1..Len(w)
    BY <2>2
  <2>4. Prune(w, width) = SubSeq(w, Min(fresh), Len(w))
    BY <1>2 DEF Prune
  <2> HIDE DEF fresh
  <2>5. QED
    BY <2>3, <2>4
<1>3. QED
  BY <1>1, <1>2

(* A pruned window is still a window of the same log.                      *)
LEMMA PrunedIsWindow ==
    ASSUME NEW w \in Seq(Nat), NEW log \in Seq(Nat), NEW width \in Nat,
           clock \in Nat,
           IsWindow(w, width, log, clock)
    PROVE  IsWindow(Prune(w, width), width, log, clock)
<1> DEFINE fresh == {n \in DOMAIN w : clock - w[n] < width}
<1>1. PICK k \in 0..Len(log) :
          /\ Len(w) = Len(log) - k
          /\ \A n \in 1..Len(w) : w[n] = log[k + n]
          /\ \A i \in 1..k : clock - log[i] >= width
  BY DEF IsWindow
<1>2. CASE fresh = {}
  <2>1. Prune(w, width) = <<>>
    BY <1>2 DEF Prune
  <2>2. ASSUME NEW i \in 1..Len(log)
        PROVE  clock - log[i] >= width
    <3>1. CASE i <= k
      BY <1>1, <3>1
    <3>2. CASE i > k
      <4>1. i - k \in 1..Len(w) /\ w[i - k] = log[i]
        BY <1>1, <3>2
      <4>2. i - k \notin fresh /\ w[i - k] \in Nat
        BY <1>2, <4>1
      <4>3. QED
        BY <4>1, <4>2
    <3>3. QED
      BY <3>1, <3>2
  <2>3. /\ Len(log) \in 0..Len(log)
        /\ Len(<<>>) = Len(log) - Len(log)
        /\ \A n \in 1..Len(<<>>) : <<>>[n] = log[Len(log) + n]
    OBVIOUS
  <2> HIDE DEF fresh
  <2>4. QED
    BY <2>1, <2>2, <2>3 DEF IsWindow
<1>3. CASE fresh # {}
  <2>1. fresh \in SUBSET Nat
    OBVIOUS
  <2>2. Min(fresh) \in fresh /\ \A y \in fresh : Min(fresh) <= y
    <3> HIDE DEF fresh
    <3> QED BY <1>3, <2>1, MinIsLeast
  <2> DEFINE m == Min(fresh)
  <2>3. m \in 1..Len(w)
    BY <2>2
  <2>4. ASSUME NEW n \in 1..Len(w), n < m
        PROVE  clock - w[n] >= width
    <3>1. n \notin fresh
      <4> SUFFICES ASSUME n \in fresh
                   PROVE  FALSE
        OBVIOUS
      <4>1. m <= n
        <5> HIDE DEF fresh
        <5> QED BY <2>2
      <4>2. m \in Nat /\ n \in Nat
        BY <2>3
      <4> HIDE DEF m
      <4>3. QED
        BY <2>4, <4>1, <4>2
    <3>2. w[n] \in Nat /\ n \in DOMAIN w
      OBVIOUS
    <3> HIDE DEF m
    <3>3. QED
      BY <3>1, <3>2
  <2>5. Prune(w, width) = SubSeq(w, m, Len(w))
    BY <1>3 DEF Prune
  <2> HIDE DEF fresh, m
  <2>6. /\ Len(Prune(w, width)) = Len(w) - m + 1
        /\ \A n \in 1..Len(w) - m + 1 : Prune(w, width)[n] = w[m + n - 1]
    BY <2>3, <2>5
  <2>7. k + m - 1 \in 0..Len(log)
    BY <1>1, <2>3
  <2>8. Len(Prune(w, width)) = Len(log) - (k + m - 1)
    BY <1>1, <2>3, <2>6
  <2>9. \A n \in 1..Len(Prune(w, width)) : Prune(w, width)[n] = log[(k + m - 1) + n]
    <3>1. ASSUME NEW n \in 1..Len(w) - m + 1
          PROVE  w[m + n - 1] = log[(k + m - 1) + n]
      <4>1. m + n - 1 \in 1..Len(w) /\ k + (m + n - 1) = (k + m - 1) + n
        BY <1>1, <2>3
      <4>2. QED
        BY <1>1, <4>1
    <3>2. QED
      BY <2>6, <3>1
  <2>10. ASSUME NEW i \in 1..(k + m - 1)
         PROVE  clock - log[i] >= width
    <3>1. CASE i <= k
      BY <1>1, <3>1
    <3>2. CASE i > k
      <4>1. i - k \in 1..Len(w) /\ i - k < m /\ k + (i - k) = i
        BY <1>1, <2>3, <3>2
      <4>2. QED
        BY <1>1, <2>4, <4>1
    <3>3. QED
      BY <1>1, <2>3, <3>1, <3>2
  <2>11. QED
    BY <2>7, <2>8, <2>9, <2>10 DEF IsWindow
<1>4. QED
  BY <1>2, <1>3

(* A stamp appended to the window and to the log keeps them together.      *)
LEMMA AppendedIsWindow ==
    ASSUME NEW w \in Seq(Nat), NEW log \in Seq(Nat), NEW width \in Nat,
           NEW now \in Nat,
           IsWindow(w, width, log, now)
    PROVE  IsWindow(Append(w, now), width, Append(log, now), now)
<1>1. PICK k \in 0..Len(log) :
          /\ Len(w) = Len(log) - k
          /\ \A n \in 1..Len(w) : w[n] = log[k + n]
          /\ \A i \in 1..k : now - log[i] >= width
  BY DEF IsWindow
<1>2. k \in 0..Len(Append(log, now))
  OBVIOUS
<1>3. Len(Append(w, now)) = Len(Append(log, now)) - k
  BY <1>1
<1>4. ASSUME NEW n \in 1..Len(Append(w, now))
      PROVE  Append(w, now)[n] = Append(log, now)[k + n]
  <2>1. CASE n \in 1..Len(w)
    <3>1. k + n \in 1..Len(log)
      BY <1>1, <2>1
    <3>2. Append(w, now)[n] = w[n]
      BY <2>1
    <3>3. Append(log, now)[k + n] = log[k + n]
      BY <3>1
    <3>4. QED
      BY <1>1, <2>1, <3>2, <3>3
  <2>2. CASE n = Len(w) + 1
    <3>1. k + n = Len(log) + 1
      BY <1>1, <2>2
    <3>2. Append(w, now)[Len(w) + 1] = now /\ Append(log, now)[Len(log) + 1] = now
      OBVIOUS
    <3>3. QED
      BY <2>2, <3>1, <3>2
  <2>3. n \in 1..Len(w) \/ n = Len(w) + 1
    BY Len(Append(w, now)) = Len(w) + 1
  <2>4. QED
    BY <2>1, <2>2, <2>3
<1>5. \A i \in 1..k : now - Append(log, now)[i] >= width
  BY <1>1
<1>6. QED
  BY <1>2, <1>3, <1>4, <1>5 DEF IsWindow

(* Stale stamps stay stale.                                                *)
LEMMA LaterIsWindow ==
    ASSUME NEW w \in Seq(Nat), NEW log \in Seq(Nat), NEW width \in Nat,
           NEW now \in Nat, NEW later \in Nat, now <= later,
           IsWindow(w, width, log, now)
    PROVE  IsWindow(w, width, log, later)
<1>1. PICK k \in 0..Len(log) :
          /\ Len(w) = Len(log) - k
          /\ \A n \in 1..Len(w) : w[n] = log[k + n]
          /\ \A i \in 1..k : now - log[i] >= width
  BY DEF IsWindow
<1>2. ASSUME NEW i \in 1..k
      PROVE  later - log[i] >= width
  <2>1. log[i] \in Nat
    <3>1. i \in 1..Len(log)
      OBVIOUS
    <3>2. QED
      BY <3>1
  <2>2. now - log[i] >= width
    BY <1>1
  <2>3. QED
    BY <2>1, <2>2
<1>3. QED
  BY <1>1, <1>2 DEF IsWindow

LEMMA EmptyIsWindow ==
    ASSUME NEW width \in Nat, NEW now \in Nat
    PROVE  IsWindow(<<>>, width, <<>>, now)
BY DEF IsWindow

(* While the window holds at most limit stamps after a stamp is added, no  *)
(* stretch of the log gets more than limit.                                *)
LEMMA AtMostAfterAppend ==
    ASSUME NEW log \in Seq(Nat), NEW w \in Seq(Nat), NEW limit \in Nat,
           NEW width \in Nat, NEW now \in Nat,
           AtMost(limit, width, log),
           IsWindow(w, width, Append(log, now), now),
           Len(w) <= limit
    PROVE  AtMost(limit, width, Append(log, now))
<1> DEFINE L == Append(log, now)
<1>1. PICK k \in 0..Len(L) :
          /\ Len(w) = Len(L) - k
          /\ \A i \in 1..k : now - L[i] >= width
  BY DEF IsWindow
<1>2. Len(L) = Len(log) + 1 /\ L[Len(log) + 1] = now
      /\ \A i \in 1..Len(log) : L[i] = log[i]
  OBVIOUS
<1>3. DOMAIN L = 1..Len(log) + 1 /\ DOMAIN log = 1..Len(log)
  OBVIOUS
<1> HIDE DEF L
<1>4. ASSUME NEW i \in DOMAIN L, i + limit \in DOMAIN L
      PROVE  L[i + limit] - L[i] >= width
  <2>1. CASE i + limit <= Len(log)
    <3>1. i \in DOMAIN log /\ i + limit \in DOMAIN log
      BY <1>3, <1>4, <2>1
    <3>2. log[i + limit] - log[i] >= width
      BY <3>1 DEF AtMost
    <3>3. QED
      BY <1>2, <1>3, <3>1, <3>2
  <2>2. CASE i + limit = Len(log) + 1
    <3>1. i \in 1..k
      BY <1>1, <1>2, <1>3, <2>2
    <3>2. QED
      BY <1>1, <1>2, <2>2, <3>1
  <2>3. QED
    BY <1>3, <1>4, <2>1, <2>2
<1>5. QED
  BY <1>4 DEF AtMost, L

(* The first stamp that pruning keeps is fresh.                            *)
LEMMA PrunedIsFresh ==
    ASSUME NEW w \in Seq(Nat), NEW width \in Nat, clock \in Nat,
           Len(Prune(w, width)) > 0
    PROVE  clock - Prune(w, width)[1] < width
<1> DEFINE fresh == {n \in DOMAIN w : clock - w[n] < width}
<1>1. fresh # {} /\ fresh \in SUBSET Nat
  BY DEF Prune
<1>2. Min(fresh) \in fresh
  <2> HIDE DEF fresh
  <2> QED BY <1>1, MinIsLeast
<1>3. Min(fresh) \in 1..Len(w) /\ clock - w[Min(fresh)] < width
  BY <1>2
<1>4. Prune(w, width) = SubSeq(w, Min(fresh), Len(w))
  BY <1>1 DEF Prune
<1> HIDE DEF fresh
<1>5. Prune(w, width)[1] = w[Min(fresh)]
  BY <1>3, <1>4
<1>6. QED
  BY <1>3, <1>5

(* A pruned window of limit stamps shows that its log was busy.            *)
LEMMA FullIsBusy ==
    ASSUME NEW w \in Seq(Nat), NEW log \in Seq(Nat), NEW width \in Nat,
           NEW limit \in Nat \ {0}, clock \in Nat,
           IsWindow(w, width, log, clock),
           Len(Prune(w, width)) = limit
    PROVE  Busy(limit, width, log)
<1>1. IsWindow(Prune(w, width), width, log, clock)
  BY PrunedIsWindow
<1>2. PICK k \in 0..Len(log) :
          /\ limit = Len(log) - k
          /\ \A n \in 1..limit : Prune(w, width)[n] = log[k + n]
  BY <1>1 DEF IsWindow
<1>3. clock - Prune(w, width)[1] < width
  BY PrunedIsFresh
<1>4. Len(log) >= limit /\ k + 1 = Len(log) - limit + 1 /\ Prune(w, width)[1] = log[k + 1]
  BY <1>2
<1>5. QED
  BY <1>3, <1>4 DEF Busy

-----------------------------------------------------------------------------
(* The rate limiter: its lists keep their bounds, and no stretch of one    *)
(* minute admits more than the limits.                                     *)

(* The lists are windows of the full history, which keeps to the limits.   *)
UserWindowsTrue ==
    \A u \in Users : IsWindow(userWindow[u], RateWindow, admitted[u], clock)

GlobalWindowTrue == IsWindow(globalWindow, RateWindow, admittedAll, clock)

LimiterInv ==
    /\ LimiterTypeOK
    /\ UserWindowsTrue
    /\ GlobalWindowTrue
    /\ UserRate
    /\ GlobalRate

-----------------------------------------------------------------------------
(* What a check finds in the windows before it decides.                    *)
LEMMA RecentIsWindow ==
    ASSUME LimiterInv, NEW u \in Users
    PROVE  /\ Recent(u) \in Seq(Nat)
           /\ Len(Recent(u)) <= PerUser
           /\ IsWindow(Recent(u), RateWindow, admitted[u], clock)
<1>1. /\ userWindow[u] \in Seq(Nat) /\ admitted[u] \in Seq(Nat)
      /\ clock \in Nat /\ RateWindow \in Nat /\ PerUser \in Nat
      /\ Len(userWindow[u]) <= PerUser
  BY LimiterAssumption DEF LimiterInv, LimiterTypeOK
<1>2. IsWindow(userWindow[u], RateWindow, admitted[u], clock)
  BY DEF LimiterInv, UserWindowsTrue
<1>3. IsWindow(Prune(userWindow[u], RateWindow), RateWindow, admitted[u], clock)
  BY <1>1, <1>2, PrunedIsWindow
<1>4. /\ Prune(userWindow[u], RateWindow) \in Seq(Nat)
      /\ Len(Prune(userWindow[u], RateWindow)) <= Len(userWindow[u])
  BY <1>1, PruneType
<1>5. QED
  BY <1>1, <1>3, <1>4 DEF Recent

LEMMA RecentAllIsWindow ==
    ASSUME LimiterInv
    PROVE  /\ RecentAll \in Seq(Nat)
           /\ Len(RecentAll) <= Global
           /\ IsWindow(RecentAll, RateWindow, admittedAll, clock)
<1>1. /\ globalWindow \in Seq(Nat) /\ admittedAll \in Seq(Nat)
      /\ clock \in Nat /\ RateWindow \in Nat /\ Global \in Nat
      /\ Len(globalWindow) <= Global
  BY LimiterAssumption DEF LimiterInv, LimiterTypeOK
<1>2. IsWindow(globalWindow, RateWindow, admittedAll, clock)
  BY DEF LimiterInv, GlobalWindowTrue
<1>3. IsWindow(Prune(globalWindow, RateWindow), RateWindow, admittedAll, clock)
  BY <1>1, <1>2, PrunedIsWindow
<1>4. /\ Prune(globalWindow, RateWindow) \in Seq(Nat)
      /\ Len(Prune(globalWindow, RateWindow)) <= Len(globalWindow)
  BY <1>1, PruneType
<1>5. QED
  BY <1>1, <1>3, <1>4 DEF RecentAll

(* What one admitted request does to a window below its limit: w is the    *)
(* pruned window, log the history, both before the request.                *)
LEMMA AdmittedKeepsRate ==
    ASSUME NEW w \in Seq(Nat), NEW log \in Seq(Nat), NEW width \in Nat,
           NEW now \in Nat, NEW limit \in Nat,
           IsWindow(w, width, log, now), Len(w) < limit,
           AtMost(limit, width, log)
    PROVE  /\ Append(w, now) \in Seq(Nat)
           /\ Append(log, now) \in Seq(Nat)
           /\ Len(Append(w, now)) <= limit
           /\ IsWindow(Append(w, now), width, Append(log, now), now)
           /\ AtMost(limit, width, Append(log, now))
<1>1. /\ Append(w, now) \in Seq(Nat) /\ Append(log, now) \in Seq(Nat)
      /\ Len(Append(w, now)) <= limit
  OBVIOUS
<1>2. IsWindow(Append(w, now), width, Append(log, now), now)
  BY AppendedIsWindow
<1>3. AtMost(limit, width, Append(log, now))
  BY <1>1, <1>2, AtMostAfterAppend
<1>4. QED
  BY <1>1, <1>2, <1>3

-----------------------------------------------------------------------------
LEMMA LimiterInvInit == LimiterInit => LimiterInv
<1> SUFFICES ASSUME LimiterInit
             PROVE  LimiterInv
  OBVIOUS
<1> USE LimiterAssumption
<1>1. LimiterTypeOK
  BY DEF LimiterInit, LimiterTypeOK
<1>2. UserWindowsTrue
  BY EmptyIsWindow DEF LimiterInit, UserWindowsTrue
<1>3. GlobalWindowTrue
  BY EmptyIsWindow DEF LimiterInit, GlobalWindowTrue
<1>4. UserRate /\ GlobalRate
  BY DEF LimiterInit, UserRate, GlobalRate, AtMost
<1>5. QED
  BY <1>1, <1>2, <1>3, <1>4 DEF LimiterInv

LEMMA AdmitKeepsInv ==
    ASSUME LimiterInv, NEW u \in Users, Admit(u), UNCHANGED clock
    PROVE  LimiterInv'
<1>1. /\ clock \in Nat /\ RateWindow \in Nat /\ PerUser \in Nat /\ Global \in Nat
      /\ admitted[u] \in Seq(Nat) /\ admittedAll \in Seq(Nat)
      /\ AtMost(PerUser, RateWindow, admitted[u])
      /\ AtMost(Global, RateWindow, admittedAll)
  BY LimiterAssumption DEF LimiterInv, LimiterTypeOK, UserRate, GlobalRate
<1>2. Len(Recent(u)) < PerUser /\ Len(RecentAll) < Global
  BY <1>1, RecentIsWindow, RecentAllIsWindow DEF Admit, UserFull, GlobalFull
<1>3. /\ Append(Recent(u), clock) \in Seq(Nat)
      /\ Append(admitted[u], clock) \in Seq(Nat)
      /\ Len(Append(Recent(u), clock)) <= PerUser
      /\ IsWindow(Append(Recent(u), clock), RateWindow, Append(admitted[u], clock), clock)
      /\ AtMost(PerUser, RateWindow, Append(admitted[u], clock))
  BY <1>1, <1>2, RecentIsWindow, AdmittedKeepsRate
<1>4. /\ Append(RecentAll, clock) \in Seq(Nat)
      /\ Append(admittedAll, clock) \in Seq(Nat)
      /\ Len(Append(RecentAll, clock)) <= Global
      /\ IsWindow(Append(RecentAll, clock), RateWindow, Append(admittedAll, clock), clock)
      /\ AtMost(Global, RateWindow, Append(admittedAll, clock))
  BY <1>1, <1>2, RecentAllIsWindow, AdmittedKeepsRate
<1>5. /\ userWindow' = [userWindow EXCEPT ![u] = Append(Recent(u), clock)]
      /\ globalWindow' = Append(RecentAll, clock)
      /\ admitted' = [admitted EXCEPT ![u] = Append(admitted[u], clock)]
      /\ admittedAll' = Append(admittedAll, clock)
      /\ clock' = clock
      /\ userWindow \in [Users -> Seq(Nat)] /\ admitted \in [Users -> Seq(Nat)]
  BY DEF Admit, LimiterInv, LimiterTypeOK
<1>6. \A v \in Users :
        /\ userWindow'[v] = IF v = u THEN Append(Recent(u), clock) ELSE userWindow[v]
        /\ admitted'[v] = IF v = u THEN Append(admitted[u], clock) ELSE admitted[v]
  BY <1>5
<1>7. LimiterTypeOK'
  <2>1. userWindow' \in [Users -> Seq(Nat)] /\ admitted' \in [Users -> Seq(Nat)]
    BY <1>3, <1>5
  <2>2. \A v \in Users : Len(userWindow'[v]) <= PerUser
    BY <1>3, <1>6 DEF LimiterInv, LimiterTypeOK
  <2>3. QED
    BY <1>1, <1>4, <1>5, <2>1, <2>2 DEF LimiterTypeOK
<1>8. UserWindowsTrue'
  BY <1>3, <1>5, <1>6 DEF LimiterInv, UserWindowsTrue
<1>9. GlobalWindowTrue'
  BY <1>4, <1>5 DEF GlobalWindowTrue
<1>10. UserRate'
  BY <1>3, <1>6 DEF LimiterInv, UserRate
<1>11. GlobalRate'
  BY <1>4, <1>5 DEF GlobalRate
<1>12. QED
  BY <1>7, <1>8, <1>9, <1>10, <1>11 DEF LimiterInv

(* Refusing and reading prune some of the windows and add nothing.         *)
LEMMA PruningKeepsInv ==
    ASSUME LimiterInv, UNCHANGED <<clock, admitted, admittedAll>>,
           userWindow' \in [Users -> Seq(Nat)],
           \A v \in Users : userWindow'[v] \in {userWindow[v], Recent(v)},
           globalWindow' \in {globalWindow, RecentAll}
    PROVE  LimiterInv'
<1>1. \A v \in Users :
        /\ Len(userWindow'[v]) <= PerUser
        /\ IsWindow(userWindow'[v], RateWindow, admitted[v], clock)
  BY RecentIsWindow DEF LimiterInv, LimiterTypeOK, UserWindowsTrue
<1>2. /\ globalWindow' \in Seq(Nat)
      /\ Len(globalWindow') <= Global
      /\ IsWindow(globalWindow', RateWindow, admittedAll, clock)
  BY RecentAllIsWindow DEF LimiterInv, LimiterTypeOK, GlobalWindowTrue
<1>3. LimiterTypeOK'
  BY <1>1, <1>2 DEF LimiterInv, LimiterTypeOK
<1>4. UserWindowsTrue' /\ GlobalWindowTrue'
  BY <1>1, <1>2 DEF UserWindowsTrue, GlobalWindowTrue
<1>5. UserRate' /\ GlobalRate'
  BY DEF LimiterInv, UserRate, GlobalRate
<1>6. QED
  BY <1>3, <1>4, <1>5 DEF LimiterInv

LEMMA TickKeepsInv ==
    ASSUME LimiterInv, Tick, UNCHANGED windowVars
    PROVE  LimiterInv'
<1>1. /\ clock \in Nat /\ clock' \in Nat /\ clock <= clock' /\ RateWindow \in Nat
      /\ \A u \in Users : userWindow[u] \in Seq(Nat) /\ admitted[u] \in Seq(Nat)
      /\ globalWindow \in Seq(Nat) /\ admittedAll \in Seq(Nat)
  BY LimiterAssumption DEF LimiterInv, LimiterTypeOK, Tick
<1>2. \A u \in Users : IsWindow(userWindow[u], RateWindow, admitted[u], clock')
  BY <1>1, LaterIsWindow DEF LimiterInv, UserWindowsTrue
<1>3. IsWindow(globalWindow, RateWindow, admittedAll, clock')
  BY <1>1, LaterIsWindow DEF LimiterInv, GlobalWindowTrue
<1>4. LimiterTypeOK' /\ UserRate' /\ GlobalRate'
  BY <1>1 DEF LimiterInv, LimiterTypeOK, UserRate, GlobalRate, windowVars
<1>5. UserWindowsTrue' /\ GlobalWindowTrue'
  BY <1>2, <1>3 DEF UserWindowsTrue, GlobalWindowTrue, windowVars
<1>6. QED
  BY <1>4, <1>5 DEF LimiterInv

LEMMA ForgetKeepsInv ==
    ASSUME LimiterInv, ForgetWindows, UNCHANGED clock
    PROVE  LimiterInv'
<1>1. clock' = clock /\ clock \in Nat
  BY DEF LimiterInv, LimiterTypeOK
<1> USE LimiterAssumption
<1>2. LimiterTypeOK'
  BY <1>1 DEF ForgetWindows, LimiterTypeOK
<1>3. UserWindowsTrue'
  BY <1>1, EmptyIsWindow DEF ForgetWindows, UserWindowsTrue
<1>4. GlobalWindowTrue'
  BY <1>1, EmptyIsWindow DEF ForgetWindows, GlobalWindowTrue
<1>5. UserRate' /\ GlobalRate'
  BY DEF ForgetWindows, UserRate, GlobalRate, AtMost
<1>6. QED
  BY <1>2, <1>3, <1>4, <1>5 DEF LimiterInv

LEMMA LimiterInvStep == LimiterInv /\ [LimiterNext]_limiterVars => LimiterInv'
<1> SUFFICES ASSUME LimiterInv, [LimiterNext]_limiterVars
             PROVE  LimiterInv'
  OBVIOUS
<1>0. userWindow \in [Users -> Seq(Nat)]
  BY DEF LimiterInv, LimiterTypeOK
<1>1. ASSUME NEW u \in Users, Admit(u), UNCHANGED clock
      PROVE  LimiterInv'
  BY <1>1, AdmitKeepsInv
<1>2. ASSUME NEW u \in Users, RefuseUser(u) \/ RefuseGlobal(u), UNCHANGED clock
      PROVE  LimiterInv'
  <2>1. /\ userWindow' = [userWindow EXCEPT ![u] = Recent(u)]
        /\ globalWindow' \in {globalWindow, RecentAll}
        /\ UNCHANGED <<clock, admitted, admittedAll>>
    BY <1>2 DEF RefuseUser, RefuseGlobal
  <2>2. Recent(u) \in Seq(Nat)
    BY RecentIsWindow
  <2>3. /\ userWindow' \in [Users -> Seq(Nat)]
        /\ \A v \in Users : userWindow'[v] \in {userWindow[v], Recent(v)}
    BY <1>0, <2>1, <2>2
  <2>4. QED
    BY <2>1, <2>3, PruningKeepsInv
<1>3. CASE ReadWindows /\ UNCHANGED clock
  <2>1. /\ userWindow' = [v \in Users |-> Recent(v)]
        /\ globalWindow' \in {globalWindow, RecentAll}
        /\ UNCHANGED <<clock, admitted, admittedAll>>
    BY <1>3 DEF ReadWindows
  <2>2. /\ userWindow' \in [Users -> Seq(Nat)]
        /\ \A v \in Users : userWindow'[v] \in {userWindow[v], Recent(v)}
    BY <2>1, RecentIsWindow
  <2>3. QED
    BY <2>1, <2>2, PruningKeepsInv
<1>4. CASE ForgetWindows /\ UNCHANGED clock
  BY <1>4, ForgetKeepsInv
<1>5. CASE Tick /\ UNCHANGED windowVars
  BY <1>5, TickKeepsInv
<1>6. CASE UNCHANGED limiterVars
  BY <1>0, <1>6, PruningKeepsInv DEF limiterVars, windowVars
<1>7. QED
  BY <1>1, <1>2, <1>3, <1>4, <1>5, <1>6 DEF LimiterNext

(* The windows are windows of the history, and everything that follows.    *)
THEOREM LimiterInvAlways == LimiterSpec => []LimiterInv
BY LimiterInvInit, LimiterInvStep, PTL DEF LimiterSpec

(* checkAndIncrement, getStats: the maps stay within the limits, whatever  *)
(* is refused, read or pruned.                                             *)
THEOREM LimiterTypeCorrect == LimiterSpec => []LimiterTypeOK
<1>1. LimiterInv => LimiterTypeOK
  BY DEF LimiterInv
<1>2. QED
  BY <1>1, LimiterInvAlways, PTL

(* PER_USER_PER_MINUTE holds in every stretch of one minute.               *)
THEOREM UserRateHolds == LimiterSpec => []UserRate
<1>1. LimiterInv => UserRate
  BY DEF LimiterInv
<1>2. QED
  BY <1>1, LimiterInvAlways, PTL

(* GLOBAL_PER_MINUTE holds in every stretch of one minute.                 *)
THEOREM GlobalRateHolds == LimiterSpec => []GlobalRate
<1>1. LimiterInv => GlobalRate
  BY DEF LimiterInv
<1>2. QED
  BY <1>1, LimiterInvAlways, PTL

(* Both maps of checkAndIncrement keep their limits.                       *)
THEOREM RatesHold == LimiterSpec => []RatesKept
<1>1. UserRate /\ GlobalRate => RatesKept
  BY DEF RatesKept
<1>2. QED
  BY <1>1, UserRateHolds, GlobalRateHolds, PTL

-----------------------------------------------------------------------------
LEMMA RefusalHasCause ==
    ASSUME LimiterInv, NEW u \in Users
    PROVE  /\ RefuseUser(u) => Busy(PerUser, RateWindow, admitted[u])
           /\ RefuseGlobal(u) => Busy(Global, RateWindow, admittedAll)
<1>1. /\ clock \in Nat /\ RateWindow \in Nat
      /\ PerUser \in Nat \ {0} /\ Global \in Nat \ {0}
      /\ userWindow[u] \in Seq(Nat) /\ admitted[u] \in Seq(Nat)
      /\ globalWindow \in Seq(Nat) /\ admittedAll \in Seq(Nat)
      /\ IsWindow(userWindow[u], RateWindow, admitted[u], clock)
      /\ IsWindow(globalWindow, RateWindow, admittedAll, clock)
  BY LimiterAssumption
     DEF LimiterInv, LimiterTypeOK, UserWindowsTrue, GlobalWindowTrue
<1>2. ASSUME RefuseUser(u)
      PROVE  Busy(PerUser, RateWindow, admitted[u])
  <2>1. Len(Prune(userWindow[u], RateWindow)) = PerUser
    BY <1>1, <1>2, RecentIsWindow DEF RefuseUser, UserFull, Recent
  <2>2. QED
    BY <1>1, <2>1, FullIsBusy
<1>3. ASSUME RefuseGlobal(u)
      PROVE  Busy(Global, RateWindow, admittedAll)
  <2>1. Len(Prune(globalWindow, RateWindow)) = Global
    BY <1>1, <1>3, RecentAllIsWindow DEF RefuseGlobal, GlobalFull, RecentAll
  <2>2. QED
    BY <1>1, <2>1, FullIsBusy
<1>4. QED
  BY <1>2, <1>3

(* A refused request met a full minute of admitted ones, so refused        *)
(* requests are never charged to the user or to the others.                *)
THEOREM RefusalsHaveCause == LimiterSpec => RefusedForCause
<1>1. LimiterInv /\ [LimiterNext]_limiterVars
      => [\A u \in Users :
            /\ RefuseUser(u) => Busy(PerUser, RateWindow, admitted[u])
            /\ RefuseGlobal(u) => Busy(Global, RateWindow, admittedAll)]_limiterVars
  BY RefusalHasCause
<1>2. QED
  BY <1>1, LimiterInvAlways, PTL DEF LimiterSpec, RefusedForCause

-----------------------------------------------------------------------------
(* The circuit breaker.                                                    *)

(* While CLOSED the list of failures is a window of every failure since it *)
(* closed, and is short of the threshold.                                  *)
ClosedInv ==
    circuit = "CLOSED" =>
        /\ Len(failures) < FailureThreshold
        /\ IsWindow(failures, FailureWindow, failed, clock)
        /\ AtMost(FailureThreshold - 1, FailureWindow, failed)

(* The stamp an OPEN breaker recovers by lies between the trip and now;    *)
(* probes are never counted as failed.                                     *)
OpenInv == circuit = "OPEN" => trippedAt <= openedAt /\ openedAt <= clock

HalfOpenInv ==
    /\ halfOpenFailures = 0
    /\ QuietPeriod

BreakerInv == BreakerTypeOK /\ ClosedInv /\ OpenInv /\ HalfOpenInv

-----------------------------------------------------------------------------
LEMMA BreakerInvInit == BreakerInit => BreakerInv
<1> SUFFICES ASSUME BreakerInit
             PROVE  BreakerInv
  OBVIOUS
<1> USE BreakerAssumption
<1>1. BreakerTypeOK
  BY DEF BreakerInit, BreakerTypeOK
<1>2. ClosedInv
  BY EmptyIsWindow DEF BreakerInit, ClosedInv, AtMost
<1>3. OpenInv /\ HalfOpenInv
  BY DEF BreakerInit, OpenInv, HalfOpenInv, QuietPeriod
<1>4. QED
  BY <1>1, <1>2, <1>3 DEF BreakerInv

(* transitionTo                                                            *)
LEMMA ToOpenKeepsInv ==
    ASSUME BreakerInv, ToOpen, UNCHANGED clock,
           failures' \in Seq(Nat), failed' \in Seq(Nat)
    PROVE  BreakerInv'
<1> USE BreakerAssumption
<1>1. BreakerTypeOK'
  BY DEF BreakerInv, BreakerTypeOK, ToOpen
<1>2. OpenInv'
  BY DEF BreakerInv, BreakerTypeOK, OpenInv, ToOpen
<1>3. ClosedInv' /\ HalfOpenInv'
  BY DEF ClosedInv, HalfOpenInv, QuietPeriod, ToOpen
<1>4. QED
  BY <1>1, <1>2, <1>3 DEF BreakerInv

LEMMA ToClosedKeepsInv ==
    ASSUME BreakerInv, ToClosed, UNCHANGED clock
    PROVE  BreakerInv'
<1> USE BreakerAssumption
<1>1. BreakerTypeOK'
  BY DEF BreakerInv, BreakerTypeOK, ToClosed
<1>2. ClosedInv'
  <2>1. IsWindow(<<>>, FailureWindow, <<>>, clock)
    BY EmptyIsWindow DEF BreakerInv, BreakerTypeOK
  <2>2. QED
    BY <2>1 DEF ClosedInv, ToClosed, AtMost
<1>3. OpenInv' /\ HalfOpenInv'
  BY DEF OpenInv, HalfOpenInv, QuietPeriod, ToClosed
<1>4. QED
  BY <1>1, <1>2, <1>3 DEF BreakerInv

(* OPEN becomes HALF_OPEN, on a request or when the status is read.        *)
LEMMA ProbingKeepsInv ==
    ASSUME BreakerInv, circuit = "OPEN", Recovered, circuit' = "HALF_OPEN",
           halfOpenSuccesses' = 0, halfOpenFailures' = 0, probes' \in Nat,
           failures' \in Seq(Nat), UNCHANGED <<clock, openedAt, failed, trippedAt>>
    PROVE  BreakerInv'
<1> USE BreakerAssumption
<1>1. BreakerTypeOK'
  BY DEF BreakerInv, BreakerTypeOK
<1>2. HalfOpenInv'
  BY DEF BreakerInv, BreakerTypeOK, OpenInv, HalfOpenInv, QuietPeriod, Recovered
<1>3. ClosedInv' /\ OpenInv'
  BY DEF ClosedInv, OpenInv
<1>4. QED
  BY <1>1, <1>2, <1>3 DEF BreakerInv

(* Steps that leave the state of the circuit alone.                        *)
LEMMA CountingKeepsInv ==
    ASSUME BreakerInv,
           UNCHANGED <<clock, circuit, halfOpenFailures, openedAt, failed, trippedAt>>,
           probes' \in Nat, halfOpenSuccesses' \in 0..HalfOpenMaxCalls - 1,
           failures' \in {failures, Prune(failures, FailureWindow)}
    PROVE  BreakerInv'
<1> USE BreakerAssumption
<1>1. /\ failures \in Seq(Nat) /\ failed \in Seq(Nat) /\ clock \in Nat
      /\ FailureWindow \in Nat
  BY DEF BreakerInv, BreakerTypeOK
<1>2. /\ Prune(failures, FailureWindow) \in Seq(Nat)
      /\ Len(Prune(failures, FailureWindow)) <= Len(failures)
  BY <1>1, PruneType
<1>3. BreakerTypeOK'
  BY <1>2 DEF BreakerInv, BreakerTypeOK
<1>4. ClosedInv'
  <2> SUFFICES ASSUME circuit = "CLOSED"
               PROVE  /\ Len(failures') < FailureThreshold
                      /\ IsWindow(failures', FailureWindow, failed, clock)
                      /\ AtMost(FailureThreshold - 1, FailureWindow, failed)
    BY DEF ClosedInv
  <2>1. /\ Len(failures) < FailureThreshold
        /\ IsWindow(failures, FailureWindow, failed, clock)
        /\ AtMost(FailureThreshold - 1, FailureWindow, failed)
    BY DEF BreakerInv, ClosedInv
  <2>2. IsWindow(Prune(failures, FailureWindow), FailureWindow, failed, clock)
    BY <1>1, <2>1, PrunedIsWindow
  <2>3. Len(failures') < FailureThreshold
    <3>1. Len(failures) \in Nat /\ Len(Prune(failures, FailureWindow)) \in Nat
      BY <1>1, <1>2
    <3>2. QED
      BY <1>2, <2>1, <3>1
  <2>4. QED
    BY <2>1, <2>2, <2>3
<1>5. OpenInv' /\ HalfOpenInv'
  BY DEF BreakerInv, OpenInv, HalfOpenInv, QuietPeriod
<1>6. QED
  BY <1>3, <1>4, <1>5 DEF BreakerInv

(* recordFailure, when it counts the failure and stays below the threshold.*)
LEMMA CountedFacts ==
    ASSUME BreakerInv, Len(failed) < MaxFailures
    PROVE  /\ Counted \in Seq(Nat)
           /\ Append(failed, clock) \in Seq(Nat)
           /\ Len(Counted) <= Len(failures) + 1
           /\ circuit = "CLOSED" =>
                 IsWindow(Counted, FailureWindow, Append(failed, clock), clock)
<1> USE BreakerAssumption
<1>1. /\ failures \in Seq(Nat) /\ failed \in Seq(Nat) /\ clock \in Nat
      /\ FailureWindow \in Nat
  BY DEF BreakerInv, BreakerTypeOK
<1>2. /\ Append(failures, clock) \in Seq(Nat)
      /\ Append(failed, clock) \in Seq(Nat)
      /\ Len(Append(failures, clock)) = Len(failures) + 1
  BY <1>1
<1>3. Counted \in Seq(Nat) /\ Len(Counted) <= Len(failures) + 1
  BY <1>1, <1>2, PruneType DEF Counted
<1>4. ASSUME circuit = "CLOSED"
      PROVE  IsWindow(Counted, FailureWindow, Append(failed, clock), clock)
  <2>1. IsWindow(failures, FailureWindow, failed, clock)
    BY <1>4 DEF BreakerInv, ClosedInv
  <2>2. IsWindow(Append(failures, clock), FailureWindow, Append(failed, clock), clock)
    BY <1>1, <2>1, AppendedIsWindow
  <2>3. QED
    BY <1>1, <1>2, <2>2, PrunedIsWindow DEF Counted
<1>5. QED
  BY <1>2, <1>3, <1>4

LEMMA RecordFailureKeepsInv ==
    ASSUME BreakerInv, RecordFailure, UNCHANGED clock
    PROVE  BreakerInv'
<1> USE BreakerAssumption
<1>1. /\ failed' = Append(failed, clock)
      /\ failed' \in Seq(Nat) /\ Counted \in Seq(Nat) /\ failures \in Seq(Nat)
      /\ Len(failed) < MaxFailures
  BY CountedFacts DEF RecordFailure, BreakerInv, BreakerTypeOK
<1>2. CASE circuit = "HALF_OPEN" /\ ToOpen /\ UNCHANGED failures
  BY <1>1, <1>2, ToOpenKeepsInv
<1>3. CASE failures' = Counted /\ ToOpen
  BY <1>1, <1>3, ToOpenKeepsInv
<1>4. CASE /\ circuit # "HALF_OPEN"
           /\ failures' = Counted
           /\ Len(Counted) < FailureThreshold
           /\ UNCHANGED <<circuit, halfOpenSuccesses, halfOpenFailures, openedAt,
                          trippedAt, probes>>
  <2>1. BreakerTypeOK'
    BY <1>1, <1>4 DEF BreakerInv, BreakerTypeOK
  <2>2. ClosedInv'
    <3> SUFFICES ASSUME circuit = "CLOSED"
                 PROVE  /\ Len(Counted) < FailureThreshold
                        /\ IsWindow(Counted, FailureWindow, Append(failed, clock), clock)
                        /\ AtMost(FailureThreshold - 1, FailureWindow, Append(failed, clock))
      BY <1>1, <1>4 DEF ClosedInv
    <3>1. IsWindow(Counted, FailureWindow, Append(failed, clock), clock)
      BY <1>1, CountedFacts
    <3>2. /\ failed \in Seq(Nat) /\ clock \in Nat /\ FailureWindow \in Nat
          /\ FailureThreshold - 1 \in Nat
          /\ AtMost(FailureThreshold - 1, FailureWindow, failed)
      BY DEF BreakerInv, BreakerTypeOK, ClosedInv
    <3>3. Len(Counted) <= FailureThreshold - 1
      <4>1. Len(Counted) \in Nat
        BY <1>1
      <4>2. QED
        BY <1>4, <4>1
    <3>4. AtMost(FailureThreshold - 1, FailureWindow, Append(failed, clock))
      BY <1>1, <3>1, <3>2, <3>3, AtMostAfterAppend
    <3>5. QED
      BY <1>4, <3>1, <3>4
  <2>3. OpenInv' /\ HalfOpenInv'
    BY <1>4 DEF BreakerInv, OpenInv, HalfOpenInv, QuietPeriod
  <2>4. QED
    BY <2>1, <2>2, <2>3 DEF BreakerInv
<1>5. QED
  BY <1>2, <1>3, <1>4 DEF RecordFailure

-----------------------------------------------------------------------------
LEMMA BreakerTickKeepsInv ==
    ASSUME BreakerInv, Tick, UNCHANGED circuitVars
    PROVE  BreakerInv'
<1> USE BreakerAssumption
<1>1. /\ clock \in Nat /\ clock' \in Nat /\ clock <= clock' /\ trippedAt \in Nat
      /\ failures \in Seq(Nat) /\ failed \in Seq(Nat) /\ FailureWindow \in Nat
  BY DEF BreakerInv, BreakerTypeOK, Tick
<1>2. BreakerTypeOK'
  BY <1>1 DEF BreakerInv, BreakerTypeOK, circuitVars
<1>3. circuit = "CLOSED" => IsWindow(failures, FailureWindow, failed, clock')
  BY <1>1, LaterIsWindow DEF BreakerInv, ClosedInv
<1>4. ClosedInv'
  BY <1>3 DEF BreakerInv, ClosedInv, circuitVars
<1>5. /\ UNCHANGED <<circuit, halfOpenFailures, openedAt, trippedAt>>
      /\ openedAt \in Nat
  BY DEF BreakerInv, BreakerTypeOK, circuitVars
<1>6. OpenInv'
  BY <1>1, <1>5 DEF BreakerInv, OpenInv
<1>7. HalfOpenInv'
  <2>1. /\ halfOpenFailures = 0
        /\ circuit = "HALF_OPEN" => clock - trippedAt >= RecoveryTimeout
    BY DEF BreakerInv, HalfOpenInv, QuietPeriod
  <2>2. clock - trippedAt >= RecoveryTimeout => clock' - trippedAt >= RecoveryTimeout
    <3>1. /\ clock \in Int /\ clock' = clock + 1
          /\ trippedAt \in Int /\ RecoveryTimeout \in Int
      BY <1>1 DEF Tick
    <3>2. QED
      BY <3>1
  <2>3. QED
    BY <1>5, <2>1, <2>2 DEF HalfOpenInv, QuietPeriod
<1>8. QED
  BY <1>2, <1>4, <1>6, <1>7 DEF BreakerInv

LEMMA ForgetBreakerKeepsInv ==
    ASSUME BreakerInv, ForgetBreaker, UNCHANGED clock
    PROVE  BreakerInv'
<1> USE BreakerAssumption
<1>1. BreakerTypeOK'
  BY DEF BreakerInv, BreakerTypeOK, ForgetBreaker
<1>2. IsWindow(<<>>, FailureWindow, <<>>, clock)
  BY EmptyIsWindow DEF BreakerInv, BreakerTypeOK
<1>3. ClosedInv'
  BY <1>2 DEF ClosedInv, ForgetBreaker, AtMost
<1>4. OpenInv' /\ HalfOpenInv'
  BY DEF OpenInv, HalfOpenInv, QuietPeriod, ForgetBreaker
<1>5. QED
  BY <1>1, <1>3, <1>4 DEF BreakerInv

(* Nothing changes but perhaps a count of probes or of their successes.    *)
LEMMA IdleKeepsInv ==
    ASSUME BreakerInv, UNCHANGED <<clock, circuitVars>>
    PROVE  BreakerInv'
<1>1. probes' \in Nat /\ halfOpenSuccesses' \in 0..HalfOpenMaxCalls - 1
  BY DEF BreakerInv, BreakerTypeOK, circuitVars
<1>2. QED
  BY <1>1, CountingKeepsInv DEF circuitVars

LEMMA BreakerInvStep == BreakerInv /\ [BreakerNext]_breakerVars => BreakerInv'
<1> SUFFICES ASSUME BreakerInv, [BreakerNext]_breakerVars
             PROVE  BreakerInv'
  OBVIOUS
<1> USE BreakerAssumption
<1>0. /\ failures \in Seq(Nat) /\ clock \in Nat /\ probes \in Nat
      /\ halfOpenSuccesses \in 0..HalfOpenMaxCalls - 1
      /\ Prune(failures, FailureWindow) \in Seq(Nat)
  BY PruneType DEF BreakerInv, BreakerTypeOK
<1>1. CASE AllowRequest /\ UNCHANGED clock
  <2>1. CASE circuit = "OPEN" /\ Recovered /\ ToHalfOpen(1)
    BY <1>0, <1>1, <2>1, ProbingKeepsInv DEF ToHalfOpen
  <2>2. CASE circuit = "HALF_OPEN"
    BY <1>0, <1>1, <2>2, CountingKeepsInv DEF AllowRequest
  <2>3. QED
    BY <1>1, <2>1, <2>2, IdleKeepsInv DEF AllowRequest
<1>2. CASE RefuseRequest /\ UNCHANGED clock
  BY <1>2, IdleKeepsInv DEF RefuseRequest
<1>3. CASE RecordSuccess /\ UNCHANGED clock
  <2>1. CASE ToClosed
    BY <1>3, <2>1, ToClosedKeepsInv
  <2>2. CASE /\ halfOpenSuccesses + 1 < HalfOpenMaxCalls
             /\ halfOpenSuccesses' = halfOpenSuccesses + 1
             /\ UNCHANGED <<circuit, failures, halfOpenFailures, openedAt, failed,
                            trippedAt, probes>>
    BY <1>0, <1>3, <2>2, CountingKeepsInv
  <2>3. QED
    BY <1>3, <2>1, <2>2, IdleKeepsInv DEF RecordSuccess
<1>4. CASE RecordFailure /\ UNCHANGED clock
  BY <1>4, RecordFailureKeepsInv
<1>5. CASE ReadBreaker /\ UNCHANGED clock
  <2>1. CASE circuit = "OPEN" /\ openedAt # 0 /\ Recovered
    BY <1>0, <1>5, <2>1, ProbingKeepsInv DEF ReadBreaker
  <2>2. CASE ~(circuit = "OPEN" /\ openedAt # 0 /\ Recovered)
    BY <1>0, <1>5, <2>2, CountingKeepsInv DEF ReadBreaker
  <2>3. QED
    BY <2>1, <2>2
<1>6. CASE ForgetBreaker /\ UNCHANGED clock
  BY <1>6, ForgetBreakerKeepsInv
<1>7. CASE Tick /\ UNCHANGED circuitVars
  BY <1>7, BreakerTickKeepsInv
<1>8. CASE UNCHANGED breakerVars
  BY <1>8, IdleKeepsInv DEF breakerVars
<1>9. QED
  BY <1>1, <1>2, <1>3, <1>4, <1>5, <1>6, <1>7, <1>8 DEF BreakerNext

(* The states of the breaker agree with its counters and stamps.           *)
THEOREM BreakerInvAlways == BreakerSpec => []BreakerInv
BY BreakerInvInit, BreakerInvStep, PTL DEF BreakerSpec

(* The fields of the class keep their types; half-open successes stay      *)
(* below HALF_OPEN_MAX_CALLS.                                              *)
THEOREM BreakerTypeCorrect == BreakerSpec => []BreakerTypeOK
<1>1. BreakerInv => BreakerTypeOK
  BY DEF BreakerInv
<1>2. QED
  BY <1>1, BreakerInvAlways, PTL

(* recordFailure trips the breaker in time, whatever was pruned or read.   *)
THEOREM BreakerTripsInTime == BreakerSpec => []TripsInTime
<1>1. BreakerInv => TripsInTime
  BY DEF BreakerInv, ClosedInv, TripsInTime
<1>2. QED
  BY <1>1, BreakerInvAlways, PTL

(* allowRequest and getState wait out RECOVERY_TIMEOUT_MS before probing.  *)
THEOREM BreakerKeepsQuiet == BreakerSpec => []QuietPeriod
<1>1. BreakerInv => QuietPeriod
  BY DEF BreakerInv, HalfOpenInv
<1>2. QED
  BY <1>1, BreakerInvAlways, PTL

(* allowRequest never refuses a probe for want of calls: the counter that  *)
(* closes the breaker reaches its limit first.                             *)
THEOREM BreakerNeverStuck == BreakerSpec => []NeverStuck
<1>1. BreakerInv => NeverStuck
  BY BreakerAssumption
     DEF BreakerInv, BreakerTypeOK, HalfOpenInv, NeverStuck, ProbesLeft
<1>2. QED
  BY <1>1, BreakerInvAlways, PTL

-----------------------------------------------------------------------------
LEMMA TripHasCause ==
    ASSUME BreakerInv, [BreakerNext]_breakerVars,
           circuit = "CLOSED", circuit' = "OPEN"
    PROVE  Busy(FailureThreshold, FailureWindow, failed')
<1> USE BreakerAssumption
<1>1. /\ RecordFailure
      /\ Len(failed) < MaxFailures
      /\ failed' = Append(failed, clock)
      /\ Len(Counted) >= FailureThreshold
      /\ UNCHANGED clock
  BY DEF BreakerNext, breakerVars, circuitVars, AllowRequest, RefuseRequest,
         RecordSuccess, RecordFailure, ReadBreaker, ForgetBreaker, ToHalfOpen,
         ToClosed
<1>2. /\ failures \in Seq(Nat) /\ failed \in Seq(Nat) /\ clock \in Nat
      /\ FailureWindow \in Nat /\ Len(failures) < FailureThreshold
      /\ IsWindow(failures, FailureWindow, failed, clock)
  BY DEF BreakerInv, BreakerTypeOK, ClosedInv
<1>3. Counted \in Seq(Nat) /\ Len(Counted) <= Len(failures) + 1
  BY <1>1, CountedFacts
<1>4. Len(Prune(Append(failures, clock), FailureWindow)) = FailureThreshold
  BY <1>1, <1>2, <1>3 DEF Counted
<1>5. IsWindow(Append(failures, clock), FailureWindow, Append(failed, clock), clock)
  BY <1>2, AppendedIsWindow
<1>6. Append(failures, clock) \in Seq(Nat) /\ Append(failed, clock) \in Seq(Nat)
  BY <1>2
<1>7. QED
  BY <1>1, <1>2, <1>4, <1>5, <1>6, FullIsBusy

(* recordFailure opens a CLOSED breaker only for a full window of failures.*)
THEOREM BreakerTripsForCause == BreakerSpec => TripsForCause
<1>1. BreakerInv /\ [BreakerNext]_breakerVars
      => [circuit = "CLOSED" /\ circuit' = "OPEN"
            => Busy(FailureThreshold, FailureWindow, failed')]_breakerVars
  BY TripHasCause
<1>2. QED
  BY <1>1, BreakerInvAlways, PTL DEF BreakerSpec, TripsForCause
=============================================================================
