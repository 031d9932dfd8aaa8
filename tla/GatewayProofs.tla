---------------------------- MODULE GatewayProofs -----------------------------
(***************************************************************************)
(* What the parts of a gateway process guarantee each other, for any       *)
(* number of requests, routes, pools, providers, models and probes, and    *)
(* any length of lockouts.                                                 *)
(*                                                                         *)
(* The invariant has one part for each piece of shared state: the daily    *)
(* lockouts, the calls under way, the lists of the pools, the models that  *)
(* are gone, and the ledger file with its lock.  For each part one lemma   *)
(* says which steps touch it, and the others look only at those.           *)
(***************************************************************************)
EXTENDS Gateway, FiniteSetTheorems, NaturalsInduction, WellFoundedInduction, TLAPS

-----------------------------------------------------------------------------
(* Numbers and sequences                                                   *)

LEMMA MinOfTwo ==
    ASSUME NEW m \in Nat, NEW n \in Nat
    PROVE  Min({m, n}) \in {m, n} /\ Min({m, n}) <= m /\ Min({m, n}) <= n
<1>1. \E x \in {m, n} : \A y \in {m, n} : x <= y
  <2>1. CASE m <= n
    BY <2>1
  <2>2. CASE n <= m
    BY <2>2
  <2> QED BY <2>1, <2>2
<1>2. Min({m, n}) \in {m, n} /\ \A y \in {m, n} : Min({m, n}) <= y
  BY <1>1 DEF Min
<1> QED BY <1>2

LEMMA MaxOfTwo ==
    ASSUME NEW m \in Nat, NEW n \in Nat
    PROVE  Max({m, n}) \in {m, n} /\ m <= Max({m, n}) /\ n <= Max({m, n})
<1>1. \E x \in {m, n} : \A y \in {m, n} : x >= y
  <2>1. CASE m <= n
    BY <2>1
  <2>2. CASE n <= m
    BY <2>2
  <2> QED BY <2>1, <2>2
<1>2. Max({m, n}) \in {m, n} /\ \A y \in {m, n} : Max({m, n}) >= y
  BY <1>1 DEF Max
<1> QED BY <1>2

LEMMA NatMin ==
    ASSUME NEW T \in SUBSET Nat, T # {}
    PROVE  \E x \in T : \A y \in T : x <= y
<1> DEFINE R == OpToRel(<, Nat)
<1>1. IsWellFoundedOn(R, Nat)
  BY NatLessThanWellFounded
<1>2. PICK x \in T : \A y \in T : ~(<<y, x>> \in R)
  <2> HIDE DEF R
  <2> QED BY <1>1, WFMin, Zenon
<1>3. ASSUME NEW y \in T PROVE x <= y
  <2>1. ~(<<y, x>> \in R)
    BY <1>2
  <2>2. x \in Nat /\ y \in Nat
    OBVIOUS
  <2>3. CASE y < x
    BY <2>1, <2>2, <2>3 DEF OpToRel
  <2> QED BY <2>2, <2>3
<1> QED BY <1>3

\* What the filter f holds after the i-th entry of s, from what it held before.
Held(s, S, f, i) ==
    IF i = 0 THEN <<>> ELSE IF s[i] \in S THEN Append(f[i - 1], s[i]) ELSE f[i - 1]

\* f filters the first n entries of s.
Filters(s, S, n, f) == f = [i \in 0 .. n |-> Held(s, S, f, i)]

LEMMA FiltersAt ==
    ASSUME NEW s, NEW S, NEW n, NEW f, Filters(s, S, n, f), NEW i, i \in 0 .. n
    PROVE  f[i] = Held(s, S, f, i)
<1> DEFINE F(g) == [j \in 0 .. n |-> Held(s, S, g, j)]
<1>1. f = F(f)
  BY Zenon DEF Filters
<1>2. F(f)[i] = Held(s, S, f, i)
  OBVIOUS
<1> HIDE DEF F
<1> QED BY <1>1, <1>2

\* The filter's function exists: it is extended one entry at a time.
LEMMA FiltersExist ==
    ASSUME NEW s, NEW S, NEW n \in Nat
    PROVE  \E f : Filters(s, S, n, f)
<1> DEFINE B == {k \in Nat : ~ \E f : Filters(s, S, k, f)}
<1>1. SUFFICES ASSUME B # {} PROVE FALSE
  OBVIOUS
<1>2. PICK k \in B : \A m \in B : k <= m
  <2>1. B \in SUBSET Nat
    OBVIOUS
  <2> HIDE DEF B
  <2> QED BY <1>1, <2>1, NatMin
<1>3. CASE k = 0
  <2> DEFINE f == [i \in 0 .. 0 |-> <<>>]
  <2>1. Filters(s, S, 0, f)
    BY DEF Filters, Held
  <2> QED BY <1>3, <2>1
<1>4. CASE k # 0
  <2>1. k - 1 \in Nat /\ ~(k <= k - 1) /\ k \in Nat
    BY <1>4
  <2>2. PICK f : Filters(s, S, k - 1, f)
    BY <1>2, <2>1
  <2> DEFINE g == [i \in 0 .. k |-> Held(s, S, f, i)]
  <2>3. ASSUME NEW i \in 0 .. k - 1 PROVE f[i] = Held(s, S, f, i)
    BY ONLY <2>2, FiltersAt, i \in 0 .. k - 1
  <2>4. \A i \in 0 .. k - 1 : g[i] = f[i]
    BY <2>1, <2>3
  <2>5. \A i \in 0 .. k : i # 0 => i - 1 \in 0 .. k - 1
    BY <2>1
  <2>6. \A i \in 0 .. k : Held(s, S, f, i) = Held(s, S, g, i)
    BY <2>4, <2>5, Zenon DEF Held
  <2>7. g = [i \in 0 .. k |-> Held(s, S, g, i)]
    <3>1. g = [i \in 0 .. k |-> Held(s, S, f, i)]
      OBVIOUS
    <3> HIDE DEF g
    <3> QED BY <2>6, <3>1
  <2>8. Filters(s, S, k, g)
    <3> HIDE DEF g
    <3> QED BY <2>7 DEF Filters
  <2> QED BY <2>8
<1> QED BY <1>3, <1>4

\* What a filter leaves are entries of the sequence that are in the set.
LEMMA FilteredRange ==
    ASSUME NEW s, NEW S, NEW T, s \in Seq(T)
    PROVE  Filtered(s, S) \in Seq({x \in Range(s) : x \in S})
<1> DEFINE n == Len(s)
           V == {x \in Range(s) : x \in S}
<1>1. n \in Nat
  OBVIOUS
<1>2. \E f : Filters(s, S, n, f)
  BY <1>1, FiltersExist, Zenon
<1>3. PICK f : Filters(s, S, n, f) /\ Filtered(s, S) = f[n]
  BY <1>2, Zenon DEF Filters, Held, Filtered
<1>4. \A i \in 1 .. n : s[i] \in Range(s)
  BY DEF Range
<1> HIDE DEF n, V
<1> DEFINE B == {k \in Nat : k <= n /\ f[k] \notin Seq(V)}
<1>5. B = {}
  <2> SUFFICES ASSUME B # {} PROVE FALSE
    OBVIOUS
  <2>1. PICK k \in B : \A m \in B : k <= m
    <3>1. B \in SUBSET Nat
      OBVIOUS
    <3> HIDE DEF B
    <3> QED BY <3>1, NatMin
  <2>2. k \in 0 .. n /\ k \in Nat /\ f[k] \notin Seq(V)
    BY <1>1
  <2>3. f[k] = Held(s, S, f, k)
    BY ONLY <1>3, <2>2, FiltersAt
  <2>4. k # 0
    BY <2>2, <2>3 DEF Held
  <2>5. k - 1 \in Nat /\ k - 1 <= n /\ ~(k <= k - 1) /\ k \in 1 .. n
    BY <1>1, <2>2, <2>4
  <2>6. f[k - 1] \in Seq(V)
    BY <2>1, <2>5
  <2>7. s[k] \in S => s[k] \in V
    BY <1>4, <2>5 DEF V
  <2> QED BY <2>2, <2>3, <2>4, <2>6, <2>7 DEF Held
<1>6. f[n] \in Seq(V)
  BY <1>1, <1>5
<1> QED BY <1>3, <1>6 DEF V

-----------------------------------------------------------------------------
(* The invariant                                                           *)

\* The time that a refusal named to an endpoint is in the health store, which the
\* executor reads, and it is the route's own lockout or the account's, which the
\* version-1 loop reads.
LockInv ==
    /\ learnt \in [Route -> 0 .. Hold] /\ exhausted \in [Route -> 0 .. Hold]
    /\ row \in [RowIds -> 0 .. Hold] /\ rowAll \in [Pool \X Providers -> 0 .. Hold]
    /\ health \in [Route -> [quota : Nat, dead : BOOLEAN]]
    /\ DOMAIN account = Providers
    /\ \A r \in Route :
           /\ learnt[r] <= health[r].quota
           /\ \/ learnt[r] <= exhausted[r]
              \/ account[ProviderOf[r]] \in Nat /\ learnt[r] <= account[ProviderOf[r]]

\* A request or a dispatch that waits for an answer waits for a route of its pool.
ReqState == [pool : Pool \cup {None}, path : {None, "complete", "stream"},
             excluded : SUBSET Route, at : Route \cup {"idle", "choosing"}]
CallState == [pool : Pool \cup {None}, attempts : Nat, at : Route \cup {"idle", "choosing"}]

Asking(q) == /\ q.at # "idle" => q.pool \in Pool
             /\ q.at \in Route => PoolOf[q.at] = q.pool

CallsInv ==
    /\ req \in [Request -> ReqState]
    /\ call \in [Dispatcher -> CallState]
    /\ synced \in SUBSET Route
    /\ \A x \in Request : Asking(req[x])
    /\ \A d \in Dispatcher : Asking(call[d])

\* Every pool lists routes of its own.
Lists(rs) == /\ rs \in [Pool -> Seq(Route)]
             /\ \A p \in Pool : \A r \in Range(rs[p]) : PoolOf[r] = p

Kept(f) == DOMAIN f = Pool

ListInv ==
    /\ Lists(routes)
    /\ turn \in [Pool -> Nat]
    /\ Kept(cooling) /\ Kept(sticky)

\* What is gone is on the dead list, and deprecated in its pool.
GoneInv ==
    /\ gone \subseteq {"executor", "dispatch"} \X Route
    /\ \A r \in Route : <<"executor", r>> \in gone => r \in dead
    /\ \A g \in gone : <<PoolOf[g[2]], ModelOf[g[2]]>> \in deprecated

\* The entries that a probe works on still have what the file had when it took the lock.
Builds(old, new) ==
    \A m \in DOMAIN LedgerRoute :
        /\ old[m] # "none" => new[m] # "none"
        /\ old[m] = "deprecated" /\ m \notin Sampled => new[m] = "deprecated"

\* Only the holder of the lock probes, and a file that nobody is writing and that
\* cannot be read has nothing in it.
FileInv ==
    /\ DOMAIN thread = Actor
    /\ work \in [Actor -> Entries]
    /\ file \in [ok : BOOLEAN, entries : Entries]
    /\ \A a \in Actor : thread[a] \in Probing => lock = a /\ Builds(file.entries, work[a])
    /\ file.ok \/ (\E a \in Actor : thread[a] = "truncated") \/ file.entries = NoEntries

Inv == LockInv /\ CallsInv /\ ListInv /\ GoneInv /\ FileInv /\ left \in [Happening -> Nat]

-----------------------------------------------------------------------------
(* Daily lockouts                                                          *)

lockouts == <<learnt, exhausted, row, rowAll, health, account>>

\* What a refusal may leave in the store: both rows, one of them, or none.
Stores(e, ticks) ==
    /\ row' = row \/ row' = Saved(e, ticks)
    /\ rowAll' = rowAll \/ rowAll' = [rowAll EXCEPT ![<<PoolOf[e], ProviderOf[e]>>] = ticks]

\* The steps that touch a lockout.
LEMMA LockMoves ==
    ASSUME Next
    PROVE  \/ UNCHANGED lockouts
           \/ \E x \in Request, e \in synced, f \in BOOLEAN, t \in 1 .. Hold :
                  Refusal(x, e, f, t) /\ Stores(e, t)
           \/ \E e \in synced : /\ health' = [health EXCEPT ![e].dead = TRUE]
                                /\ UNCHANGED <<learnt, exhausted, row, rowAll, account>>
           \/ \E d \in Dispatcher, r \in Route, f \in BOOLEAN, t \in 1 .. Hold :
                  /\ OutOfQuota(d, r, f, t) /\ Learns(r, {}, AccountWide(r, f), t)
                  /\ UNCHANGED <<row, rowAll, health>>
           \/ Tick
           \/ Restart
<1>1. CASE RequestStep
  <2>1. CASE \E x \in Request, p \in Pool, path \in {"complete", "stream"} : Serve(x, p, path)
    BY <2>1 DEF Serve, pools, lockouts
  <2>2. CASE \E x \in Request :
                 \/ GivesUp(x)
                 \/ \E e \in synced : Pick(x, e) \/ Answers(x, e) \/ Retries(x, e) \/ FallsBack(x, e)
    BY <2>2, ZenonT(30) DEF GivesUp, Pick, Answers, Retries, FallsBack, pools, lockouts
  <2>3. CASE \E x \in Request, e \in synced : Missing(x, e)
    BY <2>3, Zenon DEF Missing
  <2>4. CASE \E x \in Request, e \in synced, raises \in BOOLEAN : CoolsDown(x, e, raises)
    BY <2>4 DEF CoolsDown, lockouts
  <2>5. CASE \E x \in Request, e \in synced, f \in BOOLEAN, t \in 1 .. Hold : Refuses(x, e, f, t)
    <3>1. PICK x \in Request, e \in synced, f \in BOOLEAN, t \in 1 .. Hold : Refuses(x, e, f, t)
      BY <2>5
    <3>2. Refusal(x, e, f, t)
      BY <3>1 DEF Refuses
    <3>3. Stores(e, t)
      BY <3>1, Zenon DEF Refuses, Stores
    <3> QED BY <3>2, <3>3
  <2>6. CASE \E x \in Request, e \in synced, f \in BOOLEAN, t \in 1 .. Hold, second \in BOOLEAN :
                 RefusesUnsaved(x, e, f, t, second)
    BY <2>6 DEF RefusesUnsaved, Stores
  <2> QED BY <1>1, <2>1, <2>2, <2>3, <2>4, <2>5, <2>6, Zenon DEF RequestStep
<1>2. CASE DispatchStep
  <2>1. CASE UNCHANGED gateway /\ \E d \in Dispatcher :
                \/ \E p \in Pool : Dispatch(d, p)
                \/ Select(d) \/ Unavailable(d) \/ \E r \in Route : Served(d, r) \/ Unmarked(d, r)
    BY <2>1 DEF Dispatch, Select, Unavailable, Served, Unmarked, pools, gateway, lockouts
  <2>2. CASE /\ \E d \in Dispatcher, r \in Route : Busy(d, r) \/ NotFound(d, r)
             /\ UNCHANGED <<learnt, health, row, rowAll>>
    BY <2>2 DEF Busy, NotFound, lockouts
  <2> QED BY <1>2, <2>1, <2>2, Zenon DEF DispatchStep
<1>3. CASE CallerStep
  BY <1>3 DEF CallerStep, pools, gateway, lockouts
<1>4. CASE TimeStep
  BY <1>4 DEF TimeStep, CoolingEnds, StickyEnds, gateway, lockouts
<1>5. CASE \E a \in Actor : CanaryStep(a)
  BY <1>5, ZenonT(30) DEF CanaryStep, Loads, Truncates, Writes, Fetches, Pings, pools, gateway, lockouts
<1>6. CASE \E a \in Actor : WriteFails(a) /\ UNCHANGED gateway
  BY <1>6 DEF WriteFails, pools, gateway, lockouts
<1> QED BY <1>1, <1>2, <1>3, <1>4, <1>5, <1>6, Zenon DEF Next

\* The aggregator's routes are the only ones whose id the pools do not recognise, and
\* its refusals are the account's.
LEMMA RefusalKeepsLocks ==
    ASSUME LockInv, NEW x, NEW e \in Route, NEW f \in BOOLEAN, NEW t \in 1 .. Hold,
           Refusal(x, e, f, t), Stores(e, t)
    PROVE  LockInv'
<1> USE RouteAssumption
<1> DEFINE wide == AccountWide(e, f)
           v == ProviderOf[e]
<1>1. /\ Hold \in Nat /\ t \in Nat /\ t \in 0 .. Hold
      /\ v \in Providers /\ <<PoolOf[e], v>> \in Pool \X Providers
  BY DEF Providers, Range
<1>2. /\ learnt \in [Route -> 0 .. Hold] /\ exhausted \in [Route -> 0 .. Hold]
      /\ health \in [Route -> [quota : Nat, dead : BOOLEAN]]
      /\ DOMAIN account = Providers
  BY DEF LockInv
<1>3. row' \in [RowIds -> 0 .. Hold] /\ rowAll' \in [Pool \X Providers -> 0 .. Hold]
  <2>1. row \in [RowIds -> 0 .. Hold] /\ rowAll \in [Pool \X Providers -> 0 .. Hold]
    BY DEF LockInv
  <2>2. row' \in [RowIds -> 0 .. Hold]
    <3>1. RouteId(e) \in RowIds
      BY <1>1 DEF RouteId, RowIds
    <3> QED BY <1>1, <2>1, <3>1, Zenon DEF Stores, Saved
  <2>3. rowAll' = rowAll \/ rowAll' = [rowAll EXCEPT ![<<PoolOf[e], v>>] = t]
    BY DEF Stores
  <2>4. [rowAll EXCEPT ![<<PoolOf[e], v>>] = t] \in [Pool \X Providers -> 0 .. Hold]
    BY <1>1, <2>1, Zenon
  <2> QED BY <2>1, <2>2, <2>3, <2>4, Zenon
<1>4. exhausted' \in [Route -> 0 .. Hold]
  BY <1>1, <1>2, Zenon DEF Refusal, MarkQuota
<1>5. account' = IF wide THEN [account EXCEPT ![v] = t] ELSE account
  BY DEF Refusal, MarkQuota
<1>6. ASSUME NEW q \in Route
      PROVE  learnt'[q] = IF q = e THEN t
                          ELSE IF wide /\ ProviderOf[q] = v THEN Min({learnt[q], t})
                          ELSE learnt[q]
  BY DEF Refusal, Learns
<1>7. health' = [health EXCEPT ![e] = [quota |-> t, dead |-> @.dead \/ ~f]]
  BY DEF Refusal
<1>8. ASSUME NEW q \in Route PROVE learnt[q] \in Nat /\ learnt[q] \in 0 .. Hold
  BY <1>1, <1>2
<1>9. ASSUME NEW q \in Route
      PROVE  learnt'[q] \in 0 .. Hold /\ (q # e => learnt'[q] <= learnt[q])
             /\ (wide /\ ProviderOf[q] = v => learnt'[q] <= t)
  <2> DEFINE m == Min({learnt[q], t})
  <2>1. t \in Nat /\ learnt[q] \in Nat /\ learnt[q] \in 0 .. Hold
    BY <1>1, <1>8
  <2>2. m \in {learnt[q], t} /\ m <= learnt[q] /\ m <= t
    BY ONLY <2>1, MinOfTwo
  <2>3. learnt'[q] = IF q = e THEN t ELSE IF wide /\ ProviderOf[q] = v THEN m ELSE learnt[q]
    BY <1>6, Zenon
  <2> HIDE DEF m, wide, v
  <2> QED BY <1>1, <2>1, <2>2, <2>3
<1>10. learnt' \in [Route -> 0 .. Hold]
  <2>1. DOMAIN learnt' = Route /\ learnt' = [q \in Route |-> learnt'[q]]
    BY DEF Refusal, Learns
  <2> QED BY <1>9, <2>1
<1>11. health' \in [Route -> [quota : Nat, dead : BOOLEAN]]
  BY <1>1, <1>2, <1>7
<1>12. ASSUME NEW q \in Route
       PROVE  health'[q].quota = IF q = e THEN t ELSE health[q].quota
  BY <1>2, <1>7
<1>13. DOMAIN account' = Providers
  BY <1>2, <1>5
<1>14. ASSUME NEW q \in Route PROVE learnt'[q] <= health'[q].quota
  <2>1. learnt[q] <= health[q].quota /\ health[q].quota \in Nat
    BY <1>2 DEF LockInv
  <2>2. learnt[q] \in Nat /\ health'[q].quota = IF q = e THEN t ELSE health[q].quota
    BY <1>8, <1>12
  <2>3. CASE q = e
    <3>1. learnt'[q] = t
      BY <1>6, <2>3, Zenon
    <3> QED BY <1>1, <2>2, <2>3, <3>1
  <2>4. CASE q # e
    <3>1. learnt'[q] <= learnt[q] /\ learnt'[q] \in 0 .. Hold
      BY <1>9, <2>4
    <3> QED BY <1>1, <2>1, <2>2, <2>4, <3>1
  <2> QED BY <2>3, <2>4
<1>15. ASSUME NEW q \in Route
       PROVE  \/ learnt'[q] <= exhausted'[q]
              \/ account'[ProviderOf[q]] \in Nat /\ learnt'[q] <= account'[ProviderOf[q]]
  <2>1. CASE wide /\ ProviderOf[q] = v
    BY <1>1, <1>2, <1>5, <1>9, <2>1
  <2>2. CASE wide /\ ProviderOf[q] # v
    <3>1. exhausted'[q] = exhausted[q]
      <4>1. q # e
        BY <2>2
      <4> QED BY <2>2, <4>1 DEF Refusal, MarkQuota
    <3>2. account'[ProviderOf[q]] = account[ProviderOf[q]]
      BY <1>2, <1>5, <2>2 DEF Providers, Range
    <3>3. learnt'[q] = learnt[q]
      BY <1>6, <2>2, Zenon
    <3> QED BY <3>1, <3>2, <3>3, ZenonT(30) DEF LockInv
  <2>3. CASE ~wide /\ q = e
    <3>1. e \in Plain
      BY <2>3, GatewayAssumption, Zenon DEF AccountWide
    <3>2. exhausted'[q] = t
      BY <2>3, <3>1 DEF Refusal, MarkQuota
    <3> QED BY <1>1, <1>6, <2>3, <3>2
  <2>4. CASE ~wide /\ q # e
    <3>1. exhausted'[q] = exhausted[q]
      BY <2>4 DEF Refusal, MarkQuota
    <3>2. account' = account
      BY <1>5, <2>4
    <3>3. learnt'[q] = learnt[q]
      BY <1>6, <2>4
    <3> QED BY <3>1, <3>2, <3>3, ZenonT(30) DEF LockInv
  <2> QED BY <2>1, <2>2, <2>3, <2>4
<1> QED BY <1>3, <1>4, <1>10, <1>11, <1>13, <1>14, <1>15 DEF LockInv

LEMMA OutOfQuotaKeepsLocks ==
    ASSUME LockInv, NEW d, NEW e \in Route, NEW f \in BOOLEAN, NEW t \in 1 .. Hold,
           OutOfQuota(d, e, f, t), Learns(e, {}, AccountWide(e, f), t),
           UNCHANGED <<row, rowAll, health>>
    PROVE  LockInv'
<1> USE RouteAssumption
<1> DEFINE wide == AccountWide(e, f)
           v == ProviderOf[e]
<1>1. Hold \in Nat /\ t \in Nat /\ t \in 0 .. Hold /\ v \in Providers
  BY DEF Providers, Range
<1>2. /\ learnt \in [Route -> 0 .. Hold] /\ exhausted \in [Route -> 0 .. Hold]
      /\ health \in [Route -> [quota : Nat, dead : BOOLEAN]]
      /\ DOMAIN account = Providers
  BY Zenon DEF LockInv
<1>3. exhausted' \in [Route -> 0 .. Hold]
  BY <1>1, <1>2, ZenonT(30) DEF OutOfQuota, MarkQuota
<1>4. account' = IF wide THEN [account EXCEPT ![v] = t] ELSE account
  BY DEF OutOfQuota, MarkQuota
<1>5. ASSUME NEW q \in Route
      PROVE  learnt'[q] = IF wide /\ ProviderOf[q] = v THEN Min({learnt[q], t}) ELSE learnt[q]
  BY DEF Learns
<1>6. ASSUME NEW q \in Route PROVE learnt[q] \in Nat /\ learnt[q] \in 0 .. Hold
  BY <1>1, <1>2
<1>7. ASSUME NEW q \in Route
      PROVE  learnt'[q] \in 0 .. Hold /\ learnt'[q] <= learnt[q]
             /\ (wide /\ ProviderOf[q] = v => learnt'[q] <= t)
  <2> DEFINE m == Min({learnt[q], t})
  <2>1. t \in Nat /\ learnt[q] \in Nat /\ learnt[q] \in 0 .. Hold
    BY <1>1, <1>6
  <2>2. m \in {learnt[q], t} /\ m <= learnt[q] /\ m <= t
    BY ONLY <2>1, MinOfTwo
  <2>3. learnt'[q] = IF wide /\ ProviderOf[q] = v THEN m ELSE learnt[q]
    BY <1>5, Zenon
  <2> HIDE DEF m, wide, v
  <2> QED BY <1>1, <2>1, <2>2, <2>3
<1>8. learnt' \in [Route -> 0 .. Hold]
  <2>1. DOMAIN learnt' = Route /\ learnt' = [q \in Route |-> learnt'[q]]
    BY DEF Learns
  <2> QED BY <1>7, <2>1
<1>9. DOMAIN account' = Providers
  BY <1>2, <1>4, Zenon
<1>10. ASSUME NEW q \in Route PROVE learnt'[q] <= health[q].quota
  <2>1. learnt[q] <= health[q].quota /\ health[q].quota \in Nat
    BY <1>2, Zenon DEF LockInv
  <2> QED BY <1>1, <1>6, <1>7, <2>1
<1>11. ASSUME NEW q \in Route
       PROVE  \/ learnt'[q] <= exhausted'[q]
              \/ account'[ProviderOf[q]] \in Nat /\ learnt'[q] <= account'[ProviderOf[q]]
  <2>1. CASE wide /\ ProviderOf[q] = v
    BY <1>1, <1>2, <1>4, <1>7, <2>1, Zenon
  <2>2. CASE wide /\ ProviderOf[q] # v
    <3>1. exhausted'[q] = exhausted[q]
      <4>1. q # e
        BY <2>2, Zenon
      <4> QED BY <2>2, <4>1, Zenon DEF OutOfQuota, MarkQuota
    <3>2. account'[ProviderOf[q]] = account[ProviderOf[q]]
      BY <1>2, <1>4, <2>2 DEF Providers, Range
    <3>3. learnt'[q] = learnt[q]
      BY <1>5, <2>2, Zenon
    <3> QED BY <3>1, <3>2, <3>3 DEF LockInv
  <2>3. CASE ~wide /\ q = e
    <3>1. t = Hold
      BY <2>3 DEF OutOfQuota, LockedFor
    <3>2. exhausted'[q] = t
      BY <2>3, Zenon DEF OutOfQuota, MarkQuota
    <3>3. learnt'[q] \in 0 .. Hold
      BY <1>7
    <3> QED BY <1>1, <3>1, <3>2, <3>3
  <2>4. CASE ~wide /\ q # e
    <3>1. exhausted'[q] = exhausted[q]
      BY <2>4 DEF OutOfQuota, MarkQuota
    <3>2. account' = account
      BY <1>4, <2>4
    <3>3. learnt'[q] = learnt[q]
      BY <1>5, <2>4
    <3> QED BY <3>1, <3>2, <3>3, ZenonT(30) DEF LockInv
  <2> QED BY <2>1, <2>2, <2>3, <2>4
<1> QED BY <1>3, <1>8, <1>9, <1>10, <1>11, ZenonT(30) DEF LockInv

LEMMA LessType ==
    ASSUME NEW S, NEW f, f \in [S -> 0 .. Hold]
    PROVE  Less(f) \in [S -> 0 .. Hold]
<1>1. Hold \in Nat
  BY RouteAssumption
<1>2. DOMAIN f = S
  OBVIOUS
<1>3. Less(f) = [x \in S |-> IF f[x] = 0 THEN 0 ELSE f[x] - 1]
  BY <1>2 DEF Less
<1>4. ASSUME NEW x \in S PROVE (IF f[x] = 0 THEN 0 ELSE f[x] - 1) \in 0 .. Hold
  <2>1. f[x] \in 0 .. Hold
    OBVIOUS
  <2> QED BY <1>1, <2>1
<1> QED BY <1>3, <1>4

\* One tick takes as much from what a refusal named as from the marks it left.
LEMMA TickKeepsLocks ==
    ASSUME LockInv, Tick
    PROVE  LockInv'
<1> USE RouteAssumption
<1>1. /\ learnt \in [Route -> 0 .. Hold] /\ exhausted \in [Route -> 0 .. Hold]
      /\ row \in [RowIds -> 0 .. Hold] /\ rowAll \in [Pool \X Providers -> 0 .. Hold]
      /\ health \in [Route -> [quota : Nat, dead : BOOLEAN]]
      /\ DOMAIN account = Providers /\ Hold \in Nat
  BY DEF LockInv
<1>2. /\ learnt' = Less(learnt) /\ exhausted' = Less(exhausted)
      /\ row' = Less(row) /\ rowAll' = Less(rowAll)
  BY DEF Tick
<1>3. /\ Less(learnt) \in [Route -> 0 .. Hold] /\ Less(exhausted) \in [Route -> 0 .. Hold]
      /\ Less(row) \in [RowIds -> 0 .. Hold] /\ Less(rowAll) \in [Pool \X Providers -> 0 .. Hold]
  BY ONLY <1>1, LessType
<1>4. DOMAIN account' = Providers
  BY <1>1 DEF Tick, Less
<1>5. health' = [r \in Route |-> [health[r] EXCEPT !.quota = IF @ = 0 THEN 0 ELSE @ - 1]]
  BY DEF Tick
<1>6. ASSUME NEW r \in Route
      PROVE  /\ [health[r] EXCEPT !.quota = IF @ = 0 THEN 0 ELSE @ - 1]
                  \in [quota : Nat, dead : BOOLEAN]
             /\ health'[r].quota = IF health[r].quota = 0 THEN 0 ELSE health[r].quota - 1
             /\ health[r].quota \in Nat
  <2> DEFINE n == IF health[r].quota = 0 THEN 0 ELSE health[r].quota - 1
  <2>1. health[r] \in [quota : Nat, dead : BOOLEAN] /\ health[r].quota \in Nat
    BY <1>1
  <2>2. n \in Nat
    BY <2>1
  <2>3. health'[r] = [health[r] EXCEPT !.quota = n]
    BY <1>5
  <2> HIDE DEF n
  <2>4. [health[r] EXCEPT !.quota = n] \in [quota : Nat, dead : BOOLEAN]
    BY <2>1, <2>2, Zenon
  <2>5. [health[r] EXCEPT !.quota = n].quota = n
    BY <2>1
  <2> QED BY <2>1, <2>3, <2>4, <2>5 DEF n
<1>7. health' \in [Route -> [quota : Nat, dead : BOOLEAN]]
  BY <1>5, <1>6
<1>8. ASSUME NEW r \in Route
      PROVE  /\ learnt'[r] <= health'[r].quota
             /\ \/ learnt'[r] <= exhausted'[r]
                \/ account'[ProviderOf[r]] \in Nat /\ learnt'[r] <= account'[ProviderOf[r]]
  <2>1. learnt[r] \in Nat /\ exhausted[r] \in Nat /\ ProviderOf[r] \in Providers
    BY <1>1 DEF Providers, Range
  <2>2. learnt'[r] = IF learnt[r] = 0 THEN 0 ELSE learnt[r] - 1
    BY <1>1 DEF Tick, Less
  <2>3. exhausted'[r] = IF exhausted[r] = 0 THEN 0 ELSE exhausted[r] - 1
    BY <1>1 DEF Tick, Less
  <2>4. account'[ProviderOf[r]] = IF account[ProviderOf[r]] = 0 THEN 0
                                  ELSE account[ProviderOf[r]] - 1
    BY <1>1, <2>1 DEF Tick, Less
  <2>5. /\ learnt[r] <= health[r].quota
        /\ \/ learnt[r] <= exhausted[r]
           \/ account[ProviderOf[r]] \in Nat /\ learnt[r] <= account[ProviderOf[r]]
    BY DEF LockInv
  <2>6. learnt'[r] <= health'[r].quota
    <3>1. /\ health'[r].quota = IF health[r].quota = 0 THEN 0 ELSE health[r].quota - 1
          /\ health[r].quota \in Nat
      BY <1>6, Zenon
    <3> QED BY <2>1, <2>2, <2>5, <3>1
  <2> QED BY <2>1, <2>2, <2>3, <2>4, <2>5, <2>6
<1> QED BY <1>2, <1>3, <1>4, <1>7, <1>8, Zenon DEF LockInv

\* After a restart the rows of the store are all that is known, and both the health
\* store and the pools have them.
LEMMA RestartKeepsLocks ==
    ASSUME LockInv, Restart
    PROVE  LockInv'
<1> USE RouteAssumption
<1> DEFINE all(r) == IF r \in Range(Listed[PoolOf[r]]) THEN rowAll[PoolOf[r], ProviderOf[r]]
                     ELSE 0
<1>1. row \in [RowIds -> 0 .. Hold] /\ rowAll \in [Pool \X Providers -> 0 .. Hold] /\ Hold \in Nat
  BY DEF LockInv
<1>2. learnt' = [r \in Route |-> row[r]] /\ row' = row /\ rowAll' = rowAll
  BY DEF Restart
<1>3. exhausted' = [r \in Route |-> Max({row[r], all(r)})]
  BY DEF Restart, Reloaded
<1>4. ASSUME NEW r \in Route
      PROVE  Max({row[r], all(r)}) \in 0 .. Hold /\ row[r] <= Max({row[r], all(r)})
  <2>1. <<PoolOf[r], ProviderOf[r]>> \in Pool \X Providers
    BY DEF Providers, Range
  <2>2. rowAll[PoolOf[r], ProviderOf[r]] \in 0 .. Hold
    BY <1>1, <2>1, Zenon
  <2>3. row[r] \in Nat /\ all(r) \in Nat /\ row[r] \in 0 .. Hold /\ all(r) \in 0 .. Hold
    <3>1. row[r] \in 0 .. Hold /\ 0 \in 0 .. Hold
      BY <1>1 DEF RowIds
    <3>2. all(r) \in 0 .. Hold
      BY <2>2, <3>1, Zenon
    <3> HIDE DEF all
    <3> QED BY <1>1, <3>1, <3>2
  <2> HIDE DEF all
  <2>4. Max({row[r], all(r)}) \in {row[r], all(r)} /\ row[r] <= Max({row[r], all(r)})
    BY ONLY <2>3, MaxOfTwo
  <2> QED BY <2>3, <2>4
<1> HIDE DEF all
<1>5. exhausted' \in [Route -> 0 .. Hold] /\ \A r \in Route : learnt'[r] <= exhausted'[r]
  BY <1>2, <1>3, <1>4, Zenon
<1>6. \A r \in Route : row[r] \in 0 .. Hold /\ row[r] \in Nat
  BY <1>1 DEF RowIds
<1>7. learnt' \in [Route -> 0 .. Hold]
  BY <1>2, <1>6, Zenon
<1>8. DOMAIN account' = Providers
  BY DEF Restart, Reloaded
<1>9. health' = [r \in Route |-> [quota |-> row[r], dead |-> FALSE]]
  BY DEF Restart, Reloaded
<1>10. health' \in [Route -> [quota : Nat, dead : BOOLEAN]]
  BY <1>6, <1>9
<1>11. \A r \in Route : learnt'[r] <= health'[r].quota
  BY <1>2, <1>6, <1>9
<1> QED BY <1>1, <1>2, <1>5, <1>7, <1>8, <1>10, <1>11 DEF LockInv

LEMMA LockStep ==
    ASSUME LockInv, synced \in SUBSET Route, Next
    PROVE  LockInv'
<1>1. CASE UNCHANGED lockouts
  BY <1>1 DEF LockInv, lockouts
<1>2. CASE \E e \in synced : /\ health' = [health EXCEPT ![e].dead = TRUE]
                             /\ UNCHANGED <<learnt, exhausted, row, rowAll, account>>
  <2>1. PICK e \in Route : health' = [health EXCEPT ![e].dead = TRUE]
    BY <1>2, Zenon
  <2>2. health \in [Route -> [quota : Nat, dead : BOOLEAN]]
    BY DEF LockInv
  <2>3. health' \in [Route -> [quota : Nat, dead : BOOLEAN]]
    BY <2>1, <2>2, Zenon
  <2>4. \A r \in Route : health'[r].quota = health[r].quota
    BY <2>1, <2>2
  <2> QED BY <1>2, <2>3, <2>4 DEF LockInv
<1> QED BY <1>1, <1>2, LockMoves, RefusalKeepsLocks, OutOfQuotaKeepsLocks, TickKeepsLocks,
           RestartKeepsLocks

-----------------------------------------------------------------------------
(* The lists of the pools                                                  *)

LEMMA ListOfType ==
    ASSUME NEW S, IsFiniteSet(S)
    PROVE  ListOf(S) \in Seq(S)
<1> DEFINE n == Cardinality(S)
<1>1. n \in Nat /\ ExistsBijection(1 .. n, S)
  BY FS_CardinalityType
<1>2. \E f \in [1 .. n -> S] : IsInjective(f)
  BY <1>1 DEF ExistsBijection, Bijection, Injection
<1>3. ListOf(S) \in [1 .. n -> S]
  BY <1>2, Zenon DEF ListOf
<1> HIDE DEF n
<1> QED BY <1>1, <1>3

\* The entries of two lists, one after the other.
LEMMA ConcatRange ==
    ASSUME NEW S, NEW T, NEW s, s \in Seq(S), NEW t, t \in Seq(T)
    PROVE  s \o t \in Seq(S \cup T)
  OBVIOUS

LEMMA RangeOf ==
    ASSUME NEW S, NEW s, s \in Seq(S)
    PROVE  Range(s) \subseteq S
  BY DEF Range

\* Routes that are added to a pool's list are routes of the pool.
LEMMA ListGrows ==
    ASSUME NEW p \in Pool, NEW s, s \in Seq(Route), \A r \in Range(s) : PoolOf[r] = p,
           NEW N, N \in SUBSET Route, \A r \in N : PoolOf[r] = p
    PROVE  /\ s \o ListOf(N) \in Seq(Route)
           /\ \A r \in Range(s \o ListOf(N)) : PoolOf[r] = p
<1> DEFINE own == {r \in Route : PoolOf[r] = p}
<1>1. IsFiniteSet(N)
  BY RouteAssumption, FS_Subset
<1>2. ListOf(N) \in Seq(N)
  BY <1>1, ListOfType
<1>3. s \in Seq(own)
  BY DEF Range
<1>4. ListOf(N) \in Seq(own)
  BY <1>2
<1> DEFINE u == s \o ListOf(N)
<1>5. u \in Seq(own)
  BY <1>3, <1>4
<1> HIDE DEF u
<1>6. u \in Seq(Route) /\ Range(u) \subseteq own
  BY <1>5, RangeOf
<1> QED BY <1>6 DEF u

\* The steps that touch a list: a probe adds routes, and a restart loads the lists anew.
LEMMA RoutesMove ==
    ASSUME Next
    PROVE  \/ UNCHANGED routes
           \/ \E a \in Actor, fetched \in BOOLEAN, found \in SUBSET DOMAIN CanaryRoute :
                  Fetches(a, fetched, found)
           \/ Restart
<1>1. CASE RequestStep
  <2>1. ASSUME NEW x, NEW e, NEW p, NEW path, Serve(x, p, path) \/ GivesUp(x) \/ Pick(x, e)
        PROVE  UNCHANGED routes
    BY <2>1, ZenonT(30) DEF Serve, GivesUp, Pick, pools
  <2>2. ASSUME NEW x, NEW e, Answers(x, e) \/ Retries(x, e) \/ FallsBack(x, e)
        PROVE  UNCHANGED routes
    BY <2>2 DEF Answers, Retries, FallsBack, pools
  <2>3. ASSUME NEW x, NEW e, NEW raises, Missing(x, e) \/ CoolsDown(x, e, raises)
        PROVE  UNCHANGED routes
    BY <2>3, ZenonT(30) DEF Missing, CoolsDown
  <2>4. ASSUME NEW x, NEW e, NEW f, NEW t, NEW second,
               Refuses(x, e, f, t) \/ RefusesUnsaved(x, e, f, t, second)
        PROVE  UNCHANGED routes
    BY <2>4 DEF Refuses, RefusesUnsaved
  <2> QED BY <1>1, <2>1, <2>2, <2>3, <2>4, Zenon DEF RequestStep
<1>2. CASE DispatchStep
  BY <1>2, Zenon DEF DispatchStep, Dispatch, Select, Unavailable, Served, Unmarked, Busy, NotFound,
              OutOfQuota, pools
<1>3. CASE CallerStep
  BY <1>3 DEF CallerStep, pools
<1>4. CASE TimeStep
  BY <1>4 DEF TimeStep, Tick, CoolingEnds, StickyEnds
<1>5. CASE \E a \in Actor : CanaryStep(a)
  BY <1>5, Zenon DEF CanaryStep, Loads, Truncates, Writes, Pings, pools
<1>6. CASE \E a \in Actor : WriteFails(a)
  BY <1>6 DEF WriteFails, pools
<1> QED BY <1>1, <1>2, <1>3, <1>4, <1>5, <1>6, Zenon DEF Next

\* The lists that load_from_quirks_ledger makes.
LEMMA QuirkLists ==
    ASSUME NEW f, NEW p \in Pool
    PROVE  /\ QuirkRoutes(f)[p] \in Seq(Route)
           /\ \A r \in Range(QuirkRoutes(f)[p]) : PoolOf[r] = p
<1> DEFINE N == {r \in {LedgerRoute[m] : m \in Having(f, "active")} : PoolOf[r] = p}
<1>1. N \in SUBSET Route /\ \A r \in N : PoolOf[r] = p
  BY CanaryAssumption DEF Having
<1>2. Listed[p] \in Seq(Route) /\ \A r \in Range(Listed[p]) : PoolOf[r] = p
  BY RouteAssumption
<1>3. QuirkRoutes(f)[p] = Listed[p] \o ListOf(N)
  BY DEF QuirkRoutes
<1> HIDE DEF N
<1>4. /\ Listed[p] \o ListOf(N) \in Seq(Route)
      /\ \A r \in Range(Listed[p] \o ListOf(N)) : PoolOf[r] = p
  BY <1>1, <1>2, ListGrows
<1> QED BY <1>3, <1>4

LEMMA RoutesStep ==
    ASSUME Lists(routes), Next
    PROVE  Lists(routes)'
<1>1. CASE UNCHANGED routes
  BY <1>1 DEF Lists
<1>2. CASE \E a \in Actor, fetched \in BOOLEAN, found \in SUBSET DOMAIN CanaryRoute :
               Fetches(a, fetched, found)
  <2>1. PICK a \in Actor, fetched \in BOOLEAN, found \in SUBSET DOMAIN CanaryRoute :
                 Fetches(a, fetched, found)
    BY <1>2, Zenon
  <2> DEFINE new == {CanaryRoute[m] : m \in {k \in found : work[a][k] = "none"}}
  <2>2. routes' = [p \in Pool |-> WithRoutes(p, new)]
    BY <2>1, Zenon DEF Fetches
  <2>3. new \in SUBSET Route
    BY CanaryAssumption
  <2> HIDE DEF new
  <2>4. ASSUME NEW p \in Pool
        PROVE  /\ WithRoutes(p, new) \in Seq(Route)
               /\ \A r \in Range(WithRoutes(p, new)) : PoolOf[r] = p
    <3> DEFINE N == {r \in new : PoolOf[r] = p} \ Range(routes[p])
    <3>1. N \in SUBSET Route /\ \A r \in N : PoolOf[r] = p
      BY <2>3
    <3>2. routes[p] \in Seq(Route) /\ \A r \in Range(routes[p]) : PoolOf[r] = p
      BY DEF Lists
    <3>3. WithRoutes(p, new) = routes[p] \o ListOf(N)
      BY DEF WithRoutes
    <3> HIDE DEF N
    <3>4. /\ routes[p] \o ListOf(N) \in Seq(Route)
          /\ \A r \in Range(routes[p] \o ListOf(N)) : PoolOf[r] = p
      BY <3>1, <3>2, ListGrows
    <3> QED BY <3>3, <3>4
  <2> QED BY <2>2, <2>4 DEF Lists
<1>3. CASE Restart
  <2>1. routes' = QuirkRoutes(FileLeft)
    BY <1>3, Zenon DEF Restart
  <2>2. \A p \in Pool : /\ QuirkRoutes(FileLeft)[p] \in Seq(Route)
                        /\ \A r \in Range(QuirkRoutes(FileLeft)[p]) : PoolOf[r] = p
    BY QuirkLists
  <2>3. QuirkRoutes(FileLeft) = [p \in Pool |-> QuirkRoutes(FileLeft)[p]]
    BY DEF QuirkRoutes
  <2> QED BY <2>1, <2>2, <2>3 DEF Lists
<1> QED BY <1>1, <1>2, <1>3, RoutesMove

-----------------------------------------------------------------------------
(* Requests and dispatches                                                 *)

\* What a step does to a request.
LEMMA RequestsMove ==
    ASSUME synced \in SUBSET Route, Next
    PROVE  \/ UNCHANGED <<req, synced>>
           \/ \E x \in Request, p \in Pool, path \in {"complete", "stream"} : Serve(x, p, path)
           \/ \E x \in Request, e \in synced : Pick(x, e)
           \/ \E x \in Request : req' = Done(x) /\ UNCHANGED synced
           \/ \E x \in Request, es \in SUBSET Route :
                  /\ req[x].at \in Route
                  /\ req' = Excluding(x, es) /\ UNCHANGED synced
           \/ Restart
<1>1. CASE RequestStep
  <2> DEFINE Ends(x) == req' = Done(x) /\ UNCHANGED synced
             Skips(x) == \E es \in SUBSET Route :
                            /\ req[x].at \in Route
                            /\ req' = Excluding(x, es) /\ UNCHANGED synced
  <2>1. ASSUME NEW x, NEW e, GivesUp(x) \/ Answers(x, e)
        PROVE  Ends(x)
    BY <2>1, Zenon DEF GivesUp, Answers
  <2>2. ASSUME NEW x, NEW e \in synced, Retries(x, e) \/ FallsBack(x, e) \/ Missing(x, e)
        PROVE  Skips(x)
    <3>1. {} \in SUBSET Route /\ {e} \in SUBSET Route
      OBVIOUS
    <3>2. CASE Retries(x, e)
      BY <3>1, <3>2, Zenon DEF Retries, Using
    <3>3. CASE FallsBack(x, e)
      BY <3>1, <3>3, Zenon DEF FallsBack, Using
    <3>4. CASE Missing(x, e)
      BY <3>1, <3>4, Zenon DEF Missing, Using
    <3> QED BY <2>2, <3>2, <3>3, <3>4
  <2>3. ASSUME NEW x, NEW e \in synced, NEW raises \in BOOLEAN, CoolsDown(x, e, raises)
        PROVE  Ends(x) \/ Skips(x)
    <3>1. {e} \in SUBSET Route
      OBVIOUS
    <3> QED BY <2>3, <3>1, Zenon DEF CoolsDown, Using
  <2>4. ASSUME NEW x, NEW e \in synced, NEW f, NEW t, Refuses(x, e, f, t)
        PROVE  Skips(x)
    <3> DEFINE others == {q \in synced : PoolOf[q] = req[x].pool /\ ProviderOf[q] = ProviderOf[e]}
               es == IF AccountWide(e, f) THEN others \cup {e} ELSE {e}
    <3>1. es \in SUBSET Route
      OBVIOUS
    <3>2. req' = Excluding(x, es) /\ UNCHANGED synced /\ req[x].at \in Route
      BY <2>4, Zenon DEF Refuses, Refusal, Using
    <3> HIDE DEF es
    <3> QED BY <3>1, <3>2
  <2>5. ASSUME NEW x, NEW e, NEW f, NEW t, NEW second, RefusesUnsaved(x, e, f, t, second)
        PROVE  Ends(x)
    BY <2>5, Zenon DEF RefusesUnsaved
  <2> QED BY <1>1, <2>1, <2>2, <2>3, <2>4, <2>5, Zenon DEF RequestStep
<1>2. CASE DispatchStep
  BY <1>2 DEF DispatchStep, gateway
<1>3. CASE CallerStep
  BY <1>3 DEF CallerStep, gateway
<1>4. CASE TimeStep
  BY <1>4 DEF TimeStep, Tick, gateway
<1>5. CASE \E a \in Actor : CanaryStep(a)
  BY <1>5 DEF CanaryStep, gateway
<1>6. CASE \E a \in Actor : WriteFails(a) /\ UNCHANGED gateway
  BY <1>6, Zenon DEF gateway
<1> QED BY <1>1, <1>2, <1>3, <1>4, <1>5, <1>6, Zenon DEF Next

LEMMA RequestsStep ==
    ASSUME req \in [Request -> ReqState], synced \in SUBSET Route,
           \A x \in Request : Asking(req[x]), Next
    PROVE  /\ req' \in [Request -> ReqState] /\ synced' \in SUBSET Route
           /\ \A x \in Request : Asking(req'[x])
<1>1. CASE UNCHANGED <<req, synced>>
  BY <1>1
<1>2. CASE \E x \in Request, p \in Pool, path \in {"complete", "stream"} : Serve(x, p, path)
  <2>1. PICK x \in Request, p \in Pool, path \in {"complete", "stream"} : Serve(x, p, path)
    BY <1>2, Zenon
  <2> DEFINE new == [pool |-> p, path |-> path, excluded |-> {}, at |-> "choosing"]
  <2>2. req' = [req EXCEPT ![x] = new]
    BY <2>1, Zenon DEF Serve
  <2>3. new \in ReqState /\ new.at = "choosing" /\ new.pool = p
    BY Zenon DEF ReqState
  <2>4. Asking(new)
    BY <2>3, RouteAssumption, ZenonT(30) DEF Asking
  <2>5. synced' \in SUBSET Route
    BY <2>1, RouteAssumption DEF Serve, Sync
  <2> HIDE DEF new
  <2> QED BY <2>2, <2>3, <2>4, <2>5
<1>3. CASE \E x \in Request, e \in synced : Pick(x, e)
  <2>1. PICK x \in Request, e \in Route : Pick(x, e)
    BY <1>3
  <2> DEFINE new == [req[x] EXCEPT !.at = e]
  <2>2. req' = [req EXCEPT ![x] = new] /\ synced' = synced
    BY <2>1 DEF Pick
  <2>3. req[x] \in ReqState
    OBVIOUS
  <2>4. new \in ReqState /\ new.at = e /\ new.pool = req[x].pool
    BY <2>3 DEF ReqState
  <2>5. PoolOf[e] = req[x].pool /\ req[x].at = "choosing" /\ Asking(req[x])
    BY <2>1 DEF Pick, Eligible
  <2>6. Asking(new)
    BY <2>4, <2>5 DEF Asking
  <2> HIDE DEF new
  <2> QED BY <2>2, <2>4, <2>6
<1>4. CASE \E x \in Request : req' = Done(x) /\ UNCHANGED synced
  <2>1. NoRequest \in ReqState /\ NoRequest.at = "idle"
    BY DEF NoRequest, ReqState
  <2>2. Asking(NoRequest)
    BY <2>1, RouteAssumption DEF Asking
  <2>3. PICK x \in Request : req' = [req EXCEPT ![x] = NoRequest] /\ synced' = synced
    BY <1>4, Zenon DEF Done
  <2> QED BY <2>1, <2>2, <2>3, ZenonT(30)
<1>5. CASE \E x \in Request, es \in SUBSET Route :
              /\ req[x].at \in Route
              /\ req' = Excluding(x, es) /\ UNCHANGED synced
  <2>1. PICK x \in Request, es \in SUBSET Route :
              /\ req[x].at \in Route
              /\ req' = Excluding(x, es) /\ UNCHANGED synced
    BY <1>5
  <2> DEFINE new == [req[x] EXCEPT !.at = "choosing", !.excluded = req[x].excluded \cup es]
  <2>2. req[x] \in ReqState
    OBVIOUS
  <2>3. req' = [req EXCEPT ![x] = new]
    BY <2>1, <2>2, Zenon DEF Excluding, ReqState
  <2>4. new \in ReqState /\ new.at = "choosing" /\ new.pool = req[x].pool
    BY <2>2, Zenon DEF ReqState
  <2>5. Asking(new)
    BY <2>1, <2>4, RouteAssumption DEF Asking
  <2> HIDE DEF new
  <2> QED BY <2>1, <2>3, <2>4, <2>5
<1>6. CASE Restart
  <2>1. NoRequest \in ReqState /\ NoRequest.at = "idle"
    BY DEF NoRequest, ReqState
  <2>2. Asking(NoRequest)
    BY <2>1, RouteAssumption DEF Asking
  <2>3. req' = [x \in Request |-> NoRequest] /\ synced' = {}
    BY <1>6 DEF Restart
  <2> QED BY <2>1, <2>2, <2>3, Zenon
<1> QED BY <1>1, <1>2, <1>3, <1>4, <1>5, <1>6, RequestsMove

\* The routes of pool p that no mark but a cooldown keeps from being selected.
Unmarred(p) ==
    {r \in Route : /\ PoolOf[r] = p /\ <<p, ModelOf[r]>> \notin deprecated
                   /\ account[ProviderOf[r]] = 0 /\ exhausted[r] = 0}

LEMMA CandidatesAreUnmarred ==
    ASSUME Lists(routes), NEW p \in Pool, NEW cool
    PROVE  Candidates(p, cool) \in Seq(Unmarred(p))
<1> DEFINE S == {r \in Usable : /\ <<p, ModelOf[r]>> \notin deprecated
                                /\ account[ProviderOf[r]] = 0 /\ exhausted[r] = 0
                                /\ <<r, "route">> \notin Range(cool)}
           V == {r \in Range(routes[p]) : r \in S}
<1>1. routes[p] \in Seq(Route)
  BY DEF Lists
<1>2. Filtered(routes[p], S) \in Seq(V)
  <2> HIDE DEF S
  <2> QED BY <1>1, FilteredRange
<1>3. V \subseteq Unmarred(p)
  BY <1>1, RouteAssumption, Zenon DEF Lists, Unmarred
<1>4. Candidates(p, cool) = Filtered(routes[p], S)
  BY DEF Candidates
<1> HIDE DEF S, V
<1> QED BY <1>2, <1>3, <1>4

LEMMA SelectedIsCandidate ==
    ASSUME NEW p \in Pool, turn \in [Pool -> Nat], NEW S, NEW c, c \in Seq(S), c # <<>>
    PROVE  Selected(p, c) \in S /\ (turn[p] + 1) % Len(c) \in Nat
<1>1. Len(c) \in Nat \ {0} /\ turn[p] \in Nat
  OBVIOUS
<1>2. turn[p] % Len(c) \in 0 .. Len(c) - 1 /\ (turn[p] + 1) % Len(c) \in Nat
  BY <1>1
<1>3. (turn[p] % Len(c)) + 1 \in 1 .. Len(c)
  BY <1>1, <1>2
<1>4. c[(turn[p] % Len(c)) + 1] \in S
  BY <1>3
<1>5. Range(c) \subseteq S
  BY RangeOf
<1> QED BY <1>2, <1>4, <1>5 DEF Selected

\* What a step does to a dispatch.
LEMMA DispatchesMove ==
    ASSUME Next
    PROVE  \/ UNCHANGED <<call, turn>>
           \/ \E d \in Dispatcher, p \in Pool : Dispatch(d, p)
           \/ \E d \in Dispatcher : Select(d)
           \/ \E d \in Dispatcher : call' = Idle(d) /\ UNCHANGED turn
           \/ \E d \in Dispatcher : call[d].at \in Route /\ Again(d) /\ UNCHANGED turn
           \/ Restart
<1>1. CASE RequestStep
  <2>1. ASSUME NEW x, NEW e, NEW p, NEW path, Serve(x, p, path) \/ GivesUp(x) \/ Pick(x, e)
        PROVE  UNCHANGED <<call, turn>>
    BY <2>1, ZenonT(30) DEF Serve, GivesUp, Pick, pools
  <2>2. ASSUME NEW x, NEW e, Answers(x, e) \/ Retries(x, e) \/ FallsBack(x, e)
        PROVE  UNCHANGED <<call, turn>>
    BY <2>2, ZenonT(30) DEF Answers, Retries, FallsBack, pools
  <2>3. ASSUME NEW x, NEW e, NEW raises, Missing(x, e) \/ CoolsDown(x, e, raises)
        PROVE  UNCHANGED <<call, turn>>
    BY <2>3 DEF Missing, CoolsDown
  <2>4. ASSUME NEW x, NEW e, NEW f, NEW t, NEW second,
               Refuses(x, e, f, t) \/ RefusesUnsaved(x, e, f, t, second)
        PROVE  UNCHANGED <<call, turn>>
    BY <2>4, Zenon DEF Refuses, RefusesUnsaved
  <2> QED BY <1>1, <2>1, <2>2, <2>3, <2>4, Zenon DEF RequestStep
<1>2. CASE DispatchStep
  <2>1. ASSUME NEW d, NEW r, Unavailable(d) \/ Served(d, r)
        PROVE  call' = Idle(d) /\ UNCHANGED turn
    BY <2>1, Zenon DEF Unavailable, Served
  <2>2. ASSUME NEW d, NEW r, NEW f, NEW t,
               Unmarked(d, r) \/ Busy(d, r) \/ NotFound(d, r) \/ OutOfQuota(d, r, f, t)
        PROVE  call[d].at \in Route /\ Again(d) /\ UNCHANGED turn
    BY <2>2, Zenon DEF Unmarked, Busy, NotFound, OutOfQuota, At, pools
  <2> QED BY <1>2, <2>1, <2>2, Zenon DEF DispatchStep
<1>3. CASE CallerStep
  BY <1>3 DEF CallerStep, pools
<1>4. CASE TimeStep
  BY <1>4, Zenon DEF TimeStep, Tick, CoolingEnds, StickyEnds
<1>5. CASE \E a \in Actor : CanaryStep(a)
  BY <1>5, ZenonT(30) DEF CanaryStep, Loads, Truncates, Writes, Fetches, Pings, pools
<1>6. CASE \E a \in Actor : WriteFails(a)
  BY <1>6 DEF WriteFails, pools
<1> QED BY <1>1, <1>2, <1>3, <1>4, <1>5, <1>6, Zenon DEF Next

LEMMA DispatchesStep ==
    ASSUME call \in [Dispatcher -> CallState], turn \in [Pool -> Nat], Lists(routes),
           \A d \in Dispatcher : Asking(call[d]), Next
    PROVE  /\ call' \in [Dispatcher -> CallState] /\ turn' \in [Pool -> Nat]
           /\ \A d \in Dispatcher : Asking(call'[d])
<1> DEFINE none == [pool |-> None, attempts |-> 0, at |-> "idle"]
<1>0. none \in CallState /\ Asking(none)
  BY RouteAssumption DEF CallState, Asking
<1>1. CASE UNCHANGED <<call, turn>>
  BY <1>1
<1>2. CASE \E d \in Dispatcher, p \in Pool : Dispatch(d, p)
  <2>1. PICK d \in Dispatcher, p \in Pool : Dispatch(d, p)
    BY <1>2
  <2> DEFINE new == [pool |-> p, attempts |-> 0, at |-> "choosing"]
  <2>2. call' = [call EXCEPT ![d] = new] /\ turn' = turn
    BY <2>1 DEF Dispatch, pools
  <2>3. new \in CallState /\ Asking(new)
    BY RouteAssumption, ZenonT(30) DEF CallState, Asking
  <2> HIDE DEF new
  <2> QED BY <2>2, <2>3
<1>3. CASE \E d \in Dispatcher : Select(d)
  <2>1. PICK d \in Dispatcher : Select(d)
    BY <1>3
  <2> DEFINE p == call[d].pool
             c == Candidates(p, Relieved(p))
             new == [call[d] EXCEPT !.at = Selected(p, c), !.attempts = call[d].attempts + 1]
  <2>2. call[d] \in CallState /\ call[d].at = "choosing" /\ p \in Pool
    BY <2>1 DEF Select, Choosing, Asking
  <2>3. c \in Seq(Unmarred(p)) /\ c # <<>>
    BY <2>1, <2>2, CandidatesAreUnmarred DEF Select
  <2>4. /\ call' = [call EXCEPT ![d] = new]
        /\ turn' = [turn EXCEPT ![p] = IF sticky[p] \in Range(c) THEN @ ELSE (@ + 1) % Len(c)]
    BY <2>1, <2>2, Zenon DEF Select, CallState
  <2> HIDE DEF c
  <2>5. Selected(p, c) \in Unmarred(p) /\ (turn[p] + 1) % Len(c) \in Nat
    BY <2>2, <2>3, SelectedIsCandidate, ZenonT(30)
  <2>6. Selected(p, c) \in Route /\ PoolOf[Selected(p, c)] = p
    BY <2>5 DEF Unmarred
  <2>7. new \in CallState /\ new.at = Selected(p, c) /\ new.pool = p
    <3> DEFINE e == Selected(p, c)
               k == call[d].attempts + 1
    <3>1. k \in Nat /\ e \in Route
      BY <2>2, <2>6 DEF CallState
    <3> HIDE DEF e, k
    <3>2. [call[d] EXCEPT !.at = e, !.attempts = k] \in CallState
      BY <2>2, <3>1, Zenon DEF CallState
    <3>3. /\ [call[d] EXCEPT !.at = e, !.attempts = k].at = e
          /\ [call[d] EXCEPT !.at = e, !.attempts = k].pool = p
      BY <2>2 DEF CallState
    <3> QED BY <3>2, <3>3 DEF e, k
  <2>8. Asking(new)
    BY <2>2, <2>6, <2>7 DEF Asking
  <2>9. turn' \in [Pool -> Nat]
    BY <2>2, <2>4, <2>5
  <2> HIDE DEF new
  <2> QED BY <2>4, <2>7, <2>8, <2>9
<1>4. CASE \E d \in Dispatcher : call' = Idle(d) /\ UNCHANGED turn
  <2>1. PICK d \in Dispatcher : call' = [call EXCEPT ![d] = none] /\ turn' = turn
    BY <1>4, Zenon DEF Idle
  <2> HIDE DEF none
  <2> QED BY <1>0, <2>1
<1>5. CASE \E d \in Dispatcher : call[d].at \in Route /\ Again(d) /\ UNCHANGED turn
  <2>1. PICK d \in Dispatcher : call[d].at \in Route /\ Again(d) /\ UNCHANGED turn
    BY <1>5
  <2> DEFINE new == [call[d] EXCEPT !.at = "choosing"]
  <2>2. call' = [call EXCEPT ![d] = new]
    BY <2>1 DEF Again
  <2>3. call[d] \in CallState
    OBVIOUS
  <2>4. new \in CallState /\ new.at = "choosing" /\ new.pool = call[d].pool
    BY <2>3 DEF CallState
  <2>5. Asking(new)
    BY <2>1, <2>4, RouteAssumption DEF Asking
  <2> HIDE DEF new
  <2> QED BY <2>1, <2>2, <2>4, <2>5
<1>6. CASE Restart
  <2>1. call' = [d \in Dispatcher |-> none] /\ turn' = [p \in Pool |-> 0]
    BY <1>6 DEF Restart
  <2> HIDE DEF none
  <2> QED BY <1>0, <2>1, Zenon
<1> HIDE DEF none
<1> QED BY <1>1, <1>2, <1>3, <1>4, <1>5, <1>6, DispatchesMove

-----------------------------------------------------------------------------
(* Cooldowns and affinities are kept for every pool                        *)

LEMMA KeptStep ==
    ASSUME Kept(cooling), Kept(sticky), Next
    PROVE  Kept(cooling') /\ Kept(sticky')
<1>1. CASE RequestStep
  <2>1. ASSUME NEW x, NEW e, NEW p, NEW path, Serve(x, p, path) \/ GivesUp(x) \/ Pick(x, e)
        PROVE  Kept(cooling') /\ Kept(sticky')
    BY <2>1 DEF Serve, GivesUp, Pick, pools, Kept
  <2>2. ASSUME NEW x, NEW e, Answers(x, e) \/ Retries(x, e) \/ FallsBack(x, e)
        PROVE  Kept(cooling') /\ Kept(sticky')
    BY <2>2, Zenon DEF Answers, Retries, FallsBack, pools, Kept
  <2>3. ASSUME NEW x, NEW e, NEW raises, Missing(x, e) \/ CoolsDown(x, e, raises)
        PROVE  Kept(cooling') /\ Kept(sticky')
    BY <2>3, Zenon DEF Missing, CoolsDown, MarkCooldown, Kept
  <2>4. ASSUME NEW x, NEW e, NEW f, NEW t, NEW second,
               Refuses(x, e, f, t) \/ RefusesUnsaved(x, e, f, t, second)
        PROVE  Kept(cooling') /\ Kept(sticky')
    BY <2>4, Zenon DEF Refuses, RefusesUnsaved
  <2> QED BY <1>1, <2>1, <2>2, <2>3, <2>4, Zenon DEF RequestStep
<1>2. CASE DispatchStep
  <2>1. ASSUME NEW d, NEW r, NEW p, Dispatch(d, p) \/ Select(d) \/ Unavailable(d) \/ Served(d, r)
        PROVE  Kept(cooling') /\ Kept(sticky')
    BY <2>1 DEF Dispatch, Select, Unavailable, Served, pools, Kept
  <2>2. ASSUME NEW d, NEW r, NEW f, NEW t,
               Unmarked(d, r) \/ Busy(d, r) \/ NotFound(d, r) \/ OutOfQuota(d, r, f, t)
        PROVE  Kept(cooling') /\ Kept(sticky')
    BY <2>2, Zenon DEF Unmarked, Busy, NotFound, OutOfQuota, MarkCooldown, pools, Kept
  <2> QED BY <1>2, <2>1, <2>2, Zenon DEF DispatchStep
<1>3. CASE CallerStep
  BY <1>3 DEF CallerStep, pools
<1>4. CASE TimeStep
  BY <1>4 DEF TimeStep, Tick, CoolingEnds, StickyEnds, Kept
<1>5. CASE \E a \in Actor : CanaryStep(a)
  BY <1>5, ZenonT(30) DEF CanaryStep, Loads, Truncates, Writes, Fetches, Pings, pools
<1>6. CASE \E a \in Actor : WriteFails(a)
  BY <1>6 DEF WriteFails, pools
<1>7. CASE Restart
  BY <1>7, Zenon DEF Restart, Kept
<1> QED BY <1>1, <1>2, <1>3, <1>4, <1>5, <1>6, <1>7, Zenon DEF Next

-----------------------------------------------------------------------------
(* Models that are gone                                                    *)

\* The marks only grow, until a restart drops them all.
LEMMA MarksMove ==
    ASSUME Next
    PROVE  \/ UNCHANGED <<gone, dead>> /\ deprecated \subseteq deprecated'
           \/ \E e \in synced : Buries(e, "executor")
           \/ /\ \E r \in Route : /\ gone' = gone \cup {<<"dispatch", r>>}
                                  /\ deprecated' = deprecated \cup {<<PoolOf[r], ModelOf[r]>>}
              /\ UNCHANGED dead
           \/ gone' = {}
<1> DEFINE Grows == UNCHANGED <<gone, dead>> /\ deprecated \subseteq deprecated'
<1>1. CASE RequestStep
  <2>1. ASSUME NEW x, NEW e, NEW p, NEW path, Serve(x, p, path) \/ GivesUp(x) \/ Pick(x, e)
        PROVE  Grows
    BY <2>1, Zenon DEF Serve, GivesUp, Pick, pools
  <2>2. ASSUME NEW x, NEW e, Answers(x, e) \/ Retries(x, e) \/ FallsBack(x, e)
        PROVE  Grows
    BY <2>2, Zenon DEF Answers, Retries, FallsBack, pools
  <2>3. ASSUME NEW x, NEW e, NEW raises, CoolsDown(x, e, raises)
        PROVE  Grows
    BY <2>3, ZenonT(30) DEF CoolsDown
  <2>4. ASSUME NEW x, NEW e, NEW f, NEW t, NEW second, RefusesUnsaved(x, e, f, t, second)
        PROVE  Grows
    BY <2>4 DEF RefusesUnsaved
  <2>5. ASSUME NEW x, NEW e, NEW f, NEW t, Missing(x, e) \/ Refuses(x, e, f, t)
        PROVE  Grows \/ Buries(e, "executor")
    <3>1. CASE Missing(x, e)
      BY <3>1 DEF Missing
    <3>2. CASE Refuses(x, e, f, t)
      BY <3>2, Zenon DEF Refuses
    <3> QED BY <2>5, <3>1, <3>2
  <2> HIDE DEF Grows
  <2> QED BY <1>1, <2>1, <2>2, <2>3, <2>4, <2>5, Zenon DEF RequestStep, Grows
<1>2. CASE DispatchStep
  <2>1. ASSUME NEW d, NEW r, NEW p, UNCHANGED gateway,
               \/ Dispatch(d, p) \/ Select(d) \/ Unavailable(d) \/ Served(d, r)
               \/ Unmarked(d, r)
        PROVE  Grows
    BY <2>1 DEF Dispatch, Select, Unavailable, Served, Unmarked, pools, gateway
  <2>2. ASSUME NEW d, NEW r, NEW f, NEW t, UNCHANGED <<gone, dead>>,
               Busy(d, r) \/ OutOfQuota(d, r, f, t)
        PROVE  Grows
    BY <2>2 DEF Busy, OutOfQuota
  <2>3. ASSUME NEW d, NEW r, NotFound(d, r)
        PROVE  deprecated' = deprecated \cup {<<PoolOf[r], ModelOf[r]>>}
    BY <2>3, ZenonT(30) DEF NotFound
  <2> HIDE DEF Grows
  <2> QED BY <1>2, <2>1, <2>2, <2>3, ZenonT(30) DEF DispatchStep, Grows
<1>3. CASE CallerStep
  BY <1>3 DEF CallerStep, pools, gateway
<1>4. CASE TimeStep
  BY <1>4, Zenon DEF TimeStep, Tick, CoolingEnds, StickyEnds, gateway
<1>5. CASE \E a \in Actor : CanaryStep(a)
  BY <1>5, ZenonT(30) DEF CanaryStep, Loads, Truncates, Writes, Fetches, Pings, pools, gateway
<1>6. CASE \E a \in Actor : WriteFails(a) /\ UNCHANGED gateway
  BY <1>6, ZenonT(30) DEF WriteFails, pools, gateway
<1>7. CASE Restart
  BY <1>7, Zenon DEF Restart
<1> QED BY <1>1, <1>2, <1>3, <1>4, <1>5, <1>6, <1>7, Zenon DEF Next

LEMMA GoneStep ==
    ASSUME GoneInv, synced \in SUBSET Route, Next
    PROVE  GoneInv'
<1>1. CASE UNCHANGED <<gone, dead>> /\ deprecated \subseteq deprecated'
  BY <1>1 DEF GoneInv
<1>2. CASE \E e \in synced : Buries(e, "executor")
  BY <1>2 DEF Buries, GoneInv
<1>3. CASE /\ \E r \in Route : /\ gone' = gone \cup {<<"dispatch", r>>}
                              /\ deprecated' = deprecated \cup {<<PoolOf[r], ModelOf[r]>>}
           /\ UNCHANGED dead
  BY <1>3 DEF GoneInv
<1>4. CASE gone' = {}
  BY <1>4 DEF GoneInv
<1> QED BY <1>1, <1>2, <1>3, <1>4, MarksMove, Zenon

-----------------------------------------------------------------------------
(* The ledger file and its lock                                            *)

\* The steps that touch the file, the lock or a thread.
LEMMA CanaryMoves ==
    ASSUME Next
    PROVE  \/ UNCHANGED canary
           \/ \E t \in Thread, now \in BOOLEAN : Start(t, now)
           \/ StopSets \/ StopReturns \/ Trigger
           \/ \E a \in Actor : Wakes(a) \/ Due(a)
           \/ \E a \in Actor : Loads(a)
           \/ \E a \in Actor, fetched \in BOOLEAN, found \in SUBSET DOMAIN CanaryRoute :
                  Fetches(a, fetched, found)
           \/ \E a \in Actor : \E up, down \in SUBSET Sampled : Pings(a, up, down)
           \/ \E a \in Actor : Truncates(a)
           \/ \E a \in Actor : Writes(a) \/ WriteFails(a)
           \/ Restart
<1>1. CASE RequestStep
  <2>1. ASSUME NEW x, NEW e, NEW p, NEW path, Serve(x, p, path) \/ GivesUp(x) \/ Pick(x, e)
        PROVE  UNCHANGED canary
    BY <2>1 DEF Serve, GivesUp, Pick
  <2>2. ASSUME NEW x, NEW e, Answers(x, e) \/ Retries(x, e) \/ FallsBack(x, e)
        PROVE  UNCHANGED canary
    BY <2>2, Zenon DEF Answers, Retries, FallsBack
  <2>3. ASSUME NEW x, NEW e, NEW raises, Missing(x, e) \/ CoolsDown(x, e, raises)
        PROVE  UNCHANGED canary
    BY <2>3 DEF Missing, CoolsDown
  <2>4. ASSUME NEW x, NEW e, NEW f, NEW t, NEW second,
               Refuses(x, e, f, t) \/ RefusesUnsaved(x, e, f, t, second)
        PROVE  UNCHANGED canary
    BY <2>4, Zenon DEF Refuses, RefusesUnsaved
  <2> QED BY <1>1, <2>1, <2>2, <2>3, <2>4, Zenon DEF RequestStep
<1>2. CASE DispatchStep
  BY <1>2, Zenon DEF DispatchStep
<1>3. CASE TimeStep
  BY <1>3 DEF TimeStep, Tick
<1> QED BY <1>1, <1>2, <1>3, Zenon DEF Next, CallerStep, CanaryStep

NotedAs(v, w, ms, status) ==
    \A m \in DOMAIN LedgerRoute : v[m] = IF m \in ms THEN status ELSE w[m]

LEMMA NotedEntries ==
    ASSUME NEW w, w \in Entries, NEW ms, NEW status, status \in {"none", "active", "deprecated"}
    PROVE  Noted(w, ms, status) \in Entries /\ NotedAs(Noted(w, ms, status), w, ms, status)
  BY DEF Entries, Noted, NotedAs

\* A thread that is not probing goes to another state in which it is not.
LEMMA IdleThreadStep ==
    ASSUME FileInv, NEW a \in Actor, thread[a] \notin Probing,
           NEW s, s \notin Probing, thread' = [thread EXCEPT ![a] = s],
           UNCHANGED <<lock, file, work>>
    PROVE  FileInv'
<1>1. \A b \in Actor : thread'[b] = IF b = a THEN s ELSE thread[b]
  BY DEF FileInv
<1>2. \A b \in Actor : thread'[b] \in Probing => thread[b] \in Probing
  BY <1>1
<1>3. (\E b \in Actor : thread[b] = "truncated") => \E b \in Actor : thread'[b] = "truncated"
  BY <1>1 DEF Probing
<1>4. DOMAIN thread' = Actor
  BY Zenon DEF FileInv
<1> QED BY <1>2, <1>3, <1>4, Zenon DEF FileInv

\* A step of the probe that leaves the file's entries alone.
LEMMA ProbeStep ==
    ASSUME FileInv, NEW a \in Actor, thread[a] \in Probing \ {"truncated"},
           NEW s \in Probing, thread' = [thread EXCEPT ![a] = s],
           NEW w \in Entries, work' = [work EXCEPT ![a] = w],
           Builds(file.entries, w), UNCHANGED <<lock, file>>
    PROVE  FileInv'
<1>1. \A b \in Actor : thread'[b] = IF b = a THEN s ELSE thread[b]
  BY DEF FileInv
<1>2. work' \in [Actor -> Entries] /\ \A b \in Actor : work'[b] = IF b = a THEN w ELSE work[b]
  BY DEF FileInv
<1>3. lock = a
  BY DEF FileInv
<1>4. \A b \in Actor \ {a} : thread[b] \notin Probing
  BY <1>3 DEF FileInv
<1>5. DOMAIN thread' = Actor
  BY DEF FileInv
<1>6. ASSUME NEW b \in Actor, thread'[b] \in Probing
      PROVE  lock' = b /\ Builds(file'.entries, work'[b])
  <2>1. b = a
    BY <1>1, <1>4, <1>6
  <2> QED BY <1>2, <1>3, <2>1
<1>7. ~ \E b \in Actor : thread[b] = "truncated"
  BY <1>4 DEF Probing
<1> QED BY <1>2, <1>5, <1>6, <1>7, Zenon DEF FileInv

LEMMA FetchesStep ==
    ASSUME FileInv, NEW a \in Actor, NEW fetched \in BOOLEAN,
           NEW found \in SUBSET DOMAIN CanaryRoute, Fetches(a, fetched, found)
    PROVE  FileInv'
<1> DEFINE retired == {m \in Free : work[a][m] = "active" /\ fetched /\ m \notin found}
           new == {m \in found : work[a][m] = "none"}
           v == Noted(work[a], retired, "deprecated")
           w == Noted(v, new, "active")
<1>1. /\ thread[a] = "loaded" /\ thread' = [thread EXCEPT ![a] = "fetched"]
      /\ work' = [work EXCEPT ![a] = w] /\ UNCHANGED <<lock, file>>
  BY Zenon DEF Fetches
<1>2. work[a] \in Entries /\ Builds(file.entries, work[a])
  BY <1>1, Zenon DEF FileInv, Probing
<1> HIDE DEF retired, new
<1>3. v \in Entries /\ NotedAs(v, work[a], retired, "deprecated")
  <2>1. "deprecated" \in {"none", "active", "deprecated"}
    OBVIOUS
  <2> QED BY <1>2, <2>1, NotedEntries, Zenon
<1> HIDE DEF v
<1>4. w \in Entries /\ NotedAs(w, v, new, "active")
  <2>1. "active" \in {"none", "active", "deprecated"}
    OBVIOUS
  <2> QED BY <1>3, <2>1, NotedEntries, Zenon
<1> HIDE DEF w
<1>5. Builds(file.entries, w)
  BY <1>2, <1>3, <1>4, Zenon DEF Builds, NotedAs, retired, new
<1> QED BY <1>1, <1>4, <1>5, ProbeStep, Zenon DEF Probing

LEMMA PingsStep ==
    ASSUME FileInv, NEW a \in Actor, NEW up \in SUBSET Sampled, NEW down \in SUBSET Sampled,
           Pings(a, up, down)
    PROVE  FileInv'
<1> DEFINE known(ms) == {m \in ms : work[a][m] # "none"}
           yes == known(up)
           no == known(down)
           v == Noted(work[a], yes, "active")
           w == Noted(v, no, "deprecated")
<1>1. /\ thread[a] = "fetched" /\ thread' = [thread EXCEPT ![a] = "pinged"]
      /\ work' = [work EXCEPT ![a] = w] /\ UNCHANGED <<lock, file>>
  BY DEF Pings
<1>2. work[a] \in Entries /\ Builds(file.entries, work[a])
  BY <1>1 DEF FileInv, Probing
<1>3. yes \subseteq Sampled /\ no \subseteq Sampled
  OBVIOUS
<1> HIDE DEF yes, no
<1>4. v \in Entries /\ NotedAs(v, work[a], yes, "active")
  <2>1. "active" \in {"none", "active", "deprecated"}
    OBVIOUS
  <2> QED BY <1>2, <2>1, NotedEntries, Zenon
<1> HIDE DEF v
<1>5. w \in Entries /\ NotedAs(w, v, no, "deprecated")
  <2>1. "deprecated" \in {"none", "active", "deprecated"}
    OBVIOUS
  <2> QED BY <1>4, <2>1, NotedEntries, Zenon
<1> HIDE DEF w
<1>6. Builds(file.entries, w)
  BY <1>2, <1>3, <1>4, <1>5, Zenon DEF Builds, NotedAs
<1> QED BY <1>1, <1>5, <1>6, ProbeStep, ZenonT(30) DEF Probing

\* The file changes only under the lock, from what the holder made of it.
LEMMA FileStep ==
    ASSUME FileInv, Next
    PROVE  FileInv' /\ (file'.ok => Builds(file.entries, file'.entries))
<1> DEFINE Kind == file'.ok => Builds(file.entries, file'.entries)
<1>0. UNCHANGED file => Kind
  BY Zenon DEF Builds
<1>a. \A a \in Actor : a # None
  BY CanaryAssumption DEF Actor
<1>b. NoEntries \in Entries /\ Builds(NoEntries, NoEntries)
  BY DEF NoEntries, Entries, Builds
<1>c. [ok |-> FALSE, entries |-> NoEntries] \in [ok : BOOLEAN, entries : Entries]
  BY <1>b
<1>1. CASE UNCHANGED canary
  <2>1. UNCHANGED <<thread, lock, file, work>>
    BY <1>1 DEF canary
  <2> QED BY <1>0, <2>1 DEF FileInv
<1>2. CASE \E t \in Thread, now \in BOOLEAN : Start(t, now)
  <2>1. PICK t \in Thread, now \in BOOLEAN : Start(t, now)
    BY <1>2
  <2>2. UNCHANGED <<lock, file, work>>
    BY <2>1, Zenon DEF Start
  <2>3. CASE UNCHANGED thread
    BY <1>0, <2>2, <2>3 DEF FileInv
  <2>4. CASE thread[t] = "unborn" /\ thread' = [thread EXCEPT ![t] = IF now THEN "due" ELSE "asleep"]
    BY <1>0, <2>2, <2>4, IdleThreadStep, ZenonT(30) DEF Actor, Probing
  <2> QED BY <2>1, <2>3, <2>4 DEF Start
<1>3. CASE StopSets \/ StopReturns
  <2>1. UNCHANGED <<thread, file, work>>
    BY <1>3 DEF StopSets, StopReturns
  <2>2. \A a \in Actor : thread[a] \notin Probing
    BY <1>3, <1>a DEF StopSets, StopReturns, FileInv, Probing
  <2> QED BY <1>0, <2>1, <2>2 DEF FileInv
<1>4. CASE Trigger
  BY <1>0, <1>4, IdleThreadStep, Zenon DEF Trigger, Actor, Probing
<1>5. CASE \E a \in Actor : Wakes(a) \/ Due(a)
  BY <1>0, <1>5, IdleThreadStep, ZenonT(30) DEF Wakes, Due, Probing
<1>6. CASE \E a \in Actor : Loads(a)
  <2>1. PICK a \in Actor : Loads(a)
    BY <1>6
  <2> DEFINE w == IF file.ok THEN file.entries ELSE NoEntries
  <2>2. /\ lock = None /\ lock' = a /\ work' = [work EXCEPT ![a] = w]
        /\ thread' = [thread EXCEPT ![a] = "loaded"] /\ file' = file
    BY <2>1 DEF Loads
  <2>3. \A b \in Actor : thread[b] \notin Probing
    BY <1>a, <2>2 DEF FileInv
  <2>4. file.ok \/ file.entries = NoEntries
    BY <2>3, ZenonT(30) DEF FileInv, Probing
  <2>5. w \in Entries /\ Builds(file.entries, w)
    BY <1>b, <2>4 DEF FileInv, Builds
  <2> HIDE DEF w
  <2>6. DOMAIN thread' = Actor /\ \A b \in Actor : thread'[b] = IF b = a THEN "loaded" ELSE thread[b]
    BY <2>2 DEF FileInv
  <2>7. work' \in [Actor -> Entries] /\ work'[a] = w
    BY <2>2, <2>5 DEF FileInv
  <2>8. ASSUME NEW b \in Actor, thread'[b] \in Probing
        PROVE  lock' = b /\ Builds(file'.entries, work'[b])
    <3>1. b = a
      BY <2>3, <2>6, <2>8
    <3> QED BY <2>2, <2>5, <2>7, <3>1, Zenon
  <2> QED BY <1>0, <2>2, <2>4, <2>6, <2>7, <2>8 DEF FileInv
<1>7. CASE \E a \in Actor, fetched \in BOOLEAN, found \in SUBSET DOMAIN CanaryRoute :
               Fetches(a, fetched, found)
  <2>1. PICK a \in Actor, fetched \in BOOLEAN, found \in SUBSET DOMAIN CanaryRoute :
                 Fetches(a, fetched, found)
    BY <1>7, ZenonT(30)
  <2>2. UNCHANGED file
    BY <2>1 DEF Fetches
  <2>3. FileInv'
    BY <2>1, FetchesStep
  <2> QED BY <1>0, <2>2, <2>3
<1>8. CASE \E a \in Actor : \E up, down \in SUBSET Sampled : Pings(a, up, down)
  BY <1>0, <1>8, PingsStep, Zenon DEF Pings
<1>9. CASE \E a \in Actor : Truncates(a)
  <2>1. PICK a \in Actor : Truncates(a)
    BY <1>9
  <2>2. /\ thread[a] = "pinged" /\ thread' = [thread EXCEPT ![a] = "truncated"]
        /\ file' = [file EXCEPT !.ok = FALSE] /\ UNCHANGED <<lock, work>>
    BY <2>1 DEF Truncates
  <2>3. /\ file' \in [ok : BOOLEAN, entries : Entries]
        /\ file'.entries = file.entries /\ file'.ok = FALSE
    BY <2>2, Zenon DEF FileInv
  <2>4. DOMAIN thread' = Actor /\ \A b \in Actor : thread'[b] = IF b = a THEN "truncated" ELSE thread[b]
    BY <2>2 DEF FileInv
  <2>5. \A b \in Actor : thread'[b] \in Probing => thread[b] \in Probing
    BY <2>2, <2>4 DEF Probing
  <2> QED BY <2>2, <2>3, <2>4, <2>5 DEF FileInv
<1>10. CASE \E a \in Actor : Writes(a) \/ WriteFails(a)
  <2>1. PICK a \in Actor : Writes(a) \/ WriteFails(a)
    BY <1>10, Zenon
  <2>2. /\ thread[a] = "truncated" /\ lock' = None
        /\ thread' = [thread EXCEPT ![a] = IF a = Caller THEN "unborn" ELSE "asleep"]
        /\ work' = [work EXCEPT ![a] = NoEntries]
    BY <2>1, Zenon DEF Writes, WriteFails, AfterProbe
  <2>3. \/ file' = [ok |-> TRUE, entries |-> work[a]]
        \/ file' = [ok |-> FALSE, entries |-> NoEntries]
    BY <2>1 DEF Writes, WriteFails
  <2>4. lock = a /\ Builds(file.entries, work[a]) /\ work[a] \in Entries
    BY <2>2 DEF FileInv, Probing
  <2>5. \A b \in Actor : thread'[b] \notin Probing
    <3>1. \A b \in Actor : b # a => thread[b] \notin Probing
      BY <2>4 DEF FileInv
    <3>2. \A b \in Actor : thread'[b] = IF b = a THEN (IF a = Caller THEN "unborn" ELSE "asleep")
                                         ELSE thread[b]
      BY <2>2 DEF FileInv
    <3> QED BY <3>1, <3>2 DEF Probing
  <2>6. DOMAIN thread' = Actor /\ work' \in [Actor -> Entries]
    BY <1>b, <2>2 DEF FileInv
  <2>7. file' \in [ok : BOOLEAN, entries : Entries]
    <3>1. [ok |-> TRUE, entries |-> work[a]] \in [ok : BOOLEAN, entries : Entries]
      BY <2>4
    <3> QED BY <1>c, <2>3, <3>1, Zenon
  <2>8. file'.ok \/ file'.entries = NoEntries
    BY <2>3
  <2>9. Kind
    BY <2>3, <2>4
  <2> QED BY <2>5, <2>6, <2>7, <2>8, <2>9, Zenon DEF FileInv
<1>11. CASE Restart
  <2>1. /\ thread' = [a \in Actor |-> "unborn"] /\ work' = [a \in Actor |-> NoEntries]
        /\ file' = FileLeft
    BY <1>11 DEF Restart
  <2>2. \/ FileLeft = [ok |-> FALSE, entries |-> NoEntries]
        \/ FileLeft = file /\ (file.ok \/ file.entries = NoEntries)
    BY DEF FileLeft, FileInv
  <2>3. /\ file' \in [ok : BOOLEAN, entries : Entries]
        /\ file'.ok \/ file'.entries = NoEntries
    <3>1. file \in [ok : BOOLEAN, entries : Entries]
      BY DEF FileInv
    <3>2. file' \in [ok : BOOLEAN, entries : Entries]
      BY <1>c, <2>1, <2>2, <3>1, Zenon
    <3>3. file'.ok \/ file'.entries = NoEntries
      BY <2>1, <2>2
    <3> QED BY <3>2, <3>3
  <2>4. Kind
    BY <1>0, <2>1, <2>2
  <2>5. DOMAIN thread' = Actor /\ work' \in [Actor -> Entries]
        /\ \A a \in Actor : thread'[a] \notin Probing
    BY <1>b, <2>1 DEF Probing
  <2> QED BY <2>3, <2>4, <2>5, ZenonT(30) DEF FileInv
<1> HIDE DEF Kind
<1> QED BY <1>1, <1>2, <1>3, <1>4, <1>5, <1>6, <1>7, <1>8, <1>9, <1>10, <1>11, CanaryMoves, ZenonT(30)

-----------------------------------------------------------------------------
(* The invariant holds                                                     *)

LEMMA InvStarts ==
    ASSUME Init
    PROVE  Inv
<1> USE RouteAssumption
<1>1. LockInv
  <2>1. Hold \in Nat /\ 0 \in 0 .. Hold
    OBVIOUS
  <2>2. /\ learnt = [r \in Route |-> 0] /\ exhausted = [r \in Route |-> 0]
        /\ row = [k \in RowIds |-> 0] /\ rowAll = [k \in Pool \X Providers |-> 0]
        /\ health = [r \in Route |-> [quota |-> 0, dead |-> FALSE]]
        /\ account = [v \in Providers |-> 0]
    BY DEF Init, PoolsInit
  <2>3. rowAll \in [Pool \X Providers -> 0 .. Hold]
    BY <2>1, <2>2, Zenon
  <2>4. health \in [Route -> [quota : Nat, dead : BOOLEAN]]
    BY <2>2
  <2>5. \A r \in Route : learnt[r] <= health[r].quota /\ learnt[r] <= exhausted[r]
    BY <2>2
  <2>6. learnt \in [Route -> 0 .. Hold] /\ exhausted \in [Route -> 0 .. Hold]
        /\ row \in [RowIds -> 0 .. Hold] /\ DOMAIN account = Providers
    BY <2>1, <2>2, Zenon
  <2> QED BY <2>3, <2>4, <2>5, <2>6 DEF LockInv
<1>2. CallsInv
  <2> DEFINE none == [pool |-> None, attempts |-> 0, at |-> "idle"]
  <2>1. none \in CallState /\ Asking(none)
    BY ZenonT(30) DEF CallState, Asking
  <2>2. NoRequest \in ReqState /\ NoRequest.at = "idle"
    BY DEF NoRequest, ReqState
  <2>3. Asking(NoRequest)
    BY <2>2, ZenonT(30) DEF Asking
  <2>4. /\ req = [x \in Request |-> NoRequest] /\ synced = {}
        /\ call = [d \in Dispatcher |-> none]
    BY DEF Init, ProcessInit, PoolsInit
  <2> HIDE DEF none
  <2> QED BY <2>1, <2>2, <2>3, <2>4, Zenon DEF CallsInv
<1>3. ListInv
  <2>1. routes = QuirkRoutes(file)
    BY Zenon DEF Init
  <2>2. \A p \in Pool : /\ QuirkRoutes(file)[p] \in Seq(Route)
                        /\ \A r \in Range(QuirkRoutes(file)[p]) : PoolOf[r] = p
    BY QuirkLists, Zenon
  <2>3. QuirkRoutes(file) = [p \in Pool |-> QuirkRoutes(file)[p]]
    BY DEF QuirkRoutes
  <2>4. Lists(routes)
    BY <2>1, <2>2, <2>3, Zenon DEF Lists
  <2>5. turn \in [Pool -> Nat] /\ Kept(cooling) /\ Kept(sticky)
    BY Zenon DEF Init, PoolsInit, Kept
  <2> QED BY <2>4, <2>5, Zenon DEF ListInv
<1>4. GoneInv
  BY Zenon DEF Init, ProcessInit, GoneInv
<1>5. FileInv
  <2>1. NoEntries \in Entries /\ Shipped \in Entries
    BY Zenon DEF NoEntries, Shipped, Entries
  <2>2. /\ thread = [a \in Actor |-> "unborn"] /\ work = [a \in Actor |-> NoEntries]
        /\ file = [ok |-> TRUE, entries |-> Shipped]
    BY Zenon DEF Init, CanaryInit, CanaryStart
  <2>3. file \in [ok : BOOLEAN, entries : Entries] /\ file.ok
    BY <2>1, <2>2, ZenonT(30)
  <2> QED BY <2>1, <2>2, <2>3, Zenon DEF FileInv, Probing
<1>6. left \in [Happening -> Nat]
  BY GatewayAssumption DEF Init
<1> QED BY <1>1, <1>2, <1>3, <1>4, <1>5, <1>6, ZenonT(30) DEF Inv

LEMMA LeftMoves ==
    ASSUME Next
    PROVE  UNCHANGED left \/ \E h \in Happening : Spends(h)
<1>1. /\ "serve" \in Happening /\ "dispatch" \in Happening /\ "start" \in Happening
      /\ "stop" \in Happening /\ "trigger" \in Happening /\ "restart" \in Happening
      /\ "failure" \in Happening
  BY DEF Happening
<1> QED BY <1>1, Zenon DEF Next, RequestStep, DispatchStep, CallerStep, TimeStep, CanaryStep

LEMMA InvStep ==
    ASSUME Inv, [Next]_vars
    PROVE  Inv'
<1>1. CASE Next
  <2>1. LockInv'
    BY <1>1, LockStep, Zenon DEF Inv, CallsInv
  <2>2. /\ req' \in [Request -> ReqState] /\ synced' \in SUBSET Route
        /\ \A x \in Request : Asking(req'[x])
    BY <1>1, RequestsStep, Zenon DEF Inv, CallsInv
  <2>3. /\ call' \in [Dispatcher -> CallState] /\ turn' \in [Pool -> Nat]
        /\ \A d \in Dispatcher : Asking(call'[d])
    BY <1>1, DispatchesStep DEF Inv, CallsInv, ListInv
  <2>4. CallsInv'
    BY <2>2, <2>3, Zenon DEF CallsInv, Asking
  <2>5. Lists(routes)'
    BY <1>1, RoutesStep DEF Inv, ListInv
  <2>6. Kept(cooling') /\ Kept(sticky')
    BY <1>1, KeptStep, Zenon DEF Inv, ListInv
  <2>7. ListInv'
    BY <2>3, <2>5, <2>6 DEF ListInv, Kept
  <2>8. GoneInv'
    BY <1>1, GoneStep DEF Inv, CallsInv
  <2>9. FileInv'
    BY <1>1, FileStep DEF Inv
  <2>10. left' \in [Happening -> Nat]
    <3>1. left \in [Happening -> Nat]
      BY DEF Inv
    <3>2. ASSUME NEW h \in Happening, Spends(h) PROVE left' \in [Happening -> Nat]
      BY <3>1, <3>2 DEF Spends
    <3> QED BY <1>1, <3>1, <3>2, LeftMoves
  <2> QED BY <2>1, <2>4, <2>7, <2>8, <2>9, <2>10, Zenon DEF Inv
<1>2. CASE UNCHANGED vars
  <2>1. UNCHANGED <<learnt, exhausted, row, rowAll, health, account, req, call, synced>>
    BY <1>2, Zenon DEF vars, pools, gateway
  <2>2. UNCHANGED <<routes, turn, cooling, sticky, gone, dead, deprecated, left>>
    BY <1>2 DEF vars, pools, gateway
  <2>3. UNCHANGED <<thread, lock, file, work>>
    BY <1>2 DEF vars, canary
  <2>4. LockInv' /\ CallsInv'
    BY <2>1, Zenon DEF Inv, LockInv, CallsInv, Asking
  <2>5. ListInv' /\ GoneInv'
    BY <2>2, Zenon DEF Inv, ListInv, Lists, Kept, GoneInv
  <2>6. FileInv'
    BY <2>3 DEF Inv, FileInv
  <2> QED BY <2>2, <2>4, <2>5, <2>6, Zenon DEF Inv
<1> QED BY <1>1, <1>2

LEMMA Invariance == Spec => []Inv
<1>1. Init => Inv
  BY InvStarts
<1>2. Inv /\ [Next]_vars => Inv'
  BY InvStep
<1> QED BY <1>1, <1>2, PTL DEF Spec

-----------------------------------------------------------------------------
(* The properties                                                          *)

\* What the executor learns of a route's quota keeps it from the version-1 loop, before
\* and after a restart.
THEOREM LockoutsHoldForBothLoops == Spec => []LockoutsShared
<1>1. Inv => LockoutsShared
  <2> SUFFICES ASSUME Inv, NEW r \in Route, learnt[r] > 0,
                      r \in Range(Candidates(PoolOf[r], cooling[PoolOf[r]]))
               PROVE  FALSE
    BY Zenon DEF LockoutsShared
  <2> DEFINE p == PoolOf[r]
             c == Candidates(p, cooling[p])
  <2>1. p \in Pool /\ Lists(routes)
    BY RouteAssumption, Zenon DEF Range, Inv, ListInv
  <2>2. c \in Seq(Unmarred(p))
    BY <2>1, CandidatesAreUnmarred, Zenon
  <2> HIDE DEF c
  <2>3. Range(c) \subseteq Unmarred(p)
    BY <2>2, RangeOf, ZenonT(30)
  <2>4. r \in Range(c)
    BY DEF c
  <2>5. exhausted[r] = 0 /\ account[ProviderOf[r]] = 0
    BY <2>3, <2>4, ZenonT(30) DEF Unmarred
  <2>6. learnt[r] \in Nat
    BY RouteAssumption DEF Inv, LockInv
  <2>7. \/ learnt[r] <= exhausted[r]
        \/ account[ProviderOf[r]] \in Nat /\ learnt[r] <= account[ProviderOf[r]]
    BY Zenon DEF Inv, LockInv
  <2> QED BY <2>5, <2>6, <2>7
<1> QED BY <1>1, Invariance, PTL

\* A request goes to an endpoint only through the router.
LEMMA PicksAreEligible ==
    ASSUME Inv, Next, NEW x \in Request, Picks(x)
    PROVE  req'[x].at \in Eligible(x)
<1>1. req \in [Request -> ReqState] /\ synced \in SUBSET Route
  BY DEF Inv, CallsInv
<1>2. req[x].at = "choosing" /\ req'[x].at \in Route
  BY Zenon DEF Picks
<1>3. "choosing" \notin Route /\ "idle" \notin Route
  BY RouteAssumption, Zenon
<1>4. CASE UNCHANGED <<req, synced>>
  BY <1>2, <1>3, <1>4, ZenonT(30)
<1>5. CASE \E y \in Request, p \in Pool, path \in {"complete", "stream"} : Serve(y, p, path)
  BY <1>1, <1>2, <1>3, <1>5 DEF Serve
<1>6. CASE \E y \in Request, e \in synced : Pick(y, e)
  <2>1. PICK y \in Request, e \in synced : Pick(y, e)
    BY <1>6
  <2>2. req' = [req EXCEPT ![y].at = e] /\ e \in Eligible(y)
    BY <2>1 DEF Pick
  <2>3. y = x
    BY <1>1, <1>2, <1>3, <2>2
  <2>4. req[x] \in ReqState
    BY <1>1
  <2>5. req'[x].at = e
    BY <1>1, <2>2, <2>3, <2>4, ZenonT(30) DEF ReqState
  <2> QED BY <2>2, <2>3, <2>5
<1>7. CASE \E y \in Request : req' = Done(y) /\ UNCHANGED synced
  BY <1>1, <1>2, <1>3, <1>7 DEF Done, NoRequest
<1>8. CASE \E y \in Request, es \in SUBSET Route :
               /\ req[y].at \in Route
               /\ req' = Excluding(y, es) /\ UNCHANGED synced
  <2>1. PICK y \in Request, es \in SUBSET Route : req[y].at \in Route /\ req' = Excluding(y, es)
    BY <1>8, Zenon
  <2>2. y # x
    BY <1>2, <1>3, <2>1
  <2>3. req'[x] = req[x]
    BY <1>1, <2>1, <2>2 DEF Excluding
  <2> QED BY <1>2, <1>3, <2>3
<1>9. CASE Restart
  BY <1>2, <1>3, <1>9, Zenon DEF Restart, NoRequest
<1> QED BY <1>1, <1>4, <1>5, <1>6, <1>7, <1>8, <1>9, RequestsMove, ZenonT(30)

\* The executor sends nothing to an endpoint whose lockout is not over, whichever
\* request met the refusal, and after a restart if the store has the refusal under the
\* route's own id, whatever the routes, the requests and the lengths of the lockouts.
THEOREM QuotaIsHonoured == Spec => QuotaHonoured
<1>1. Inv /\ [Next]_vars => [\A x \in Request : Picks(x) => learnt[req'[x].at] = 0]_vars
  <2> SUFFICES ASSUME Inv, Next, NEW x \in Request, Picks(x) PROVE learnt[req'[x].at] = 0
    OBVIOUS
  <2>1. req'[x].at \in Eligible(x)
    BY PicksAreEligible, Zenon
  <2>2. PICK e \in Route : e = req'[x].at /\ e \in Eligible(x)
    BY <2>1, Zenon DEF Picks
  <2>3. health[e].quota = 0
    BY <2>2, ZenonT(30) DEF Eligible
  <2>4. learnt[e] \in Nat /\ learnt[e] <= health[e].quota
    BY RouteAssumption DEF Inv, LockInv
  <2> QED BY <2>2, <2>3, <2>4
<1> QED BY <1>1, Invariance, PTL DEF QuotaHonoured, Spec

\* The version-1 loop goes to a route only through select_route.
LEMMA SendsAreUnmarred ==
    ASSUME Inv, Next, NEW d \in Dispatcher, Sends(d)
    PROVE  call[d].pool \in Pool /\ call'[d].at \in Unmarred(call[d].pool)
<1>1. call \in [Dispatcher -> CallState] /\ Asking(call[d]) /\ Lists(routes) /\ turn \in [Pool -> Nat]
  BY Zenon DEF Inv, CallsInv, ListInv
<1>2. call[d].at = "choosing" /\ call'[d].at \in Route
  BY Zenon DEF Sends
<1>3. "choosing" \notin Route /\ "idle" \notin Route
  BY RouteAssumption
<1>4. CASE UNCHANGED <<call, turn>>
  BY <1>2, <1>3, <1>4, Zenon
<1>5. CASE \E c \in Dispatcher, p \in Pool : Dispatch(c, p)
  BY <1>1, <1>2, <1>3, <1>5, Zenon DEF Dispatch
<1>6. CASE \E c \in Dispatcher : Select(c)
  <2>1. PICK k \in Dispatcher : Select(k)
    BY <1>6
  <2> DEFINE p == call[k].pool
             c == Candidates(p, Relieved(p))
             e == Selected(p, c)
             n == call[k].attempts + 1
  <2>2. call' = [call EXCEPT ![k] = [call[k] EXCEPT !.at = e, !.attempts = n]] /\ c # <<>>
    <3>1. call[k] \in CallState
      BY <1>1
    <3> QED BY <2>1, <3>1, Zenon DEF Select, CallState
  <2> HIDE DEF e, n
  <2>3. k = d
    BY <1>1, <1>2, <1>3, <2>2, Zenon
  <2>4. p \in Pool
    BY <1>1, <1>2, <2>3, Zenon DEF Asking
  <2>5. c \in Seq(Unmarred(p))
    BY <1>1, <2>4, CandidatesAreUnmarred
  <2> HIDE DEF c
  <2>6. e \in Unmarred(p)
    BY <1>1, <2>2, <2>4, <2>5, SelectedIsCandidate, Zenon DEF e
  <2>7. call[d] \in CallState
    BY <1>1
  <2>8. call'[d].at = e
    BY <1>1, <2>2, <2>3, <2>7, ZenonT(30) DEF CallState
  <2> QED BY <2>3, <2>4, <2>6, <2>8, Zenon
<1>7. CASE \E c \in Dispatcher : call' = Idle(c) /\ UNCHANGED turn
  BY <1>1, <1>2, <1>3, <1>7 DEF Idle
<1>8. CASE \E c \in Dispatcher : call[c].at \in Route /\ Again(c) /\ UNCHANGED turn
  <2>1. PICK c \in Dispatcher : call[c].at \in Route /\ Again(c)
    BY <1>8, ZenonT(30)
  <2>2. c # d
    BY <1>2, <1>3, <2>1
  <2>3. call'[d] = call[d]
    BY <1>1, <2>1, <2>2 DEF Again
  <2> QED BY <1>2, <1>3, <2>3, Zenon
<1>9. CASE Restart
  BY <1>2, <1>3, <1>9, Zenon DEF Restart
<1> QED BY <1>4, <1>5, <1>6, <1>7, <1>8, <1>9, DispatchesMove, Zenon

\* What either loop found gone is not asked for again before a restart.
THEOREM GoneModelsStayGone == Spec => GoneStaysGone
<1> DEFINE A == /\ \A x \in Request : Picks(x) =>
                      \A r \in Route : <<"executor", r>> \in gone => ~SameModel(r, req'[x].at)
                /\ \A d \in Dispatcher : Sends(d) =>
                      \A g \in gone : ~(/\ PoolOf[g[2]] = PoolOf[call'[d].at]
                                         /\ ModelOf[g[2]] = ModelOf[call'[d].at])
<1>1. ASSUME Inv, Next PROVE A
  <2>1. ASSUME NEW x \in Request, Picks(x), NEW r \in Route, <<"executor", r>> \in gone,
               SameModel(r, req'[x].at)
        PROVE  FALSE
    <3>1. req'[x].at \in Eligible(x)
      BY <1>1, <2>1, PicksAreEligible
    <3>2. ~IsDead(req'[x].at)
      BY <3>1, Zenon DEF Eligible
    <3>3. r \in dead
      BY <1>1, <2>1, Zenon DEF Inv, GoneInv
    <3> QED BY <2>1, <3>2, <3>3, Zenon DEF IsDead
  <2>2. ASSUME NEW d \in Dispatcher, Sends(d), NEW g \in gone,
               PoolOf[g[2]] = PoolOf[call'[d].at], ModelOf[g[2]] = ModelOf[call'[d].at]
        PROVE  FALSE
    <3>1. call'[d].at \in Unmarred(call[d].pool)
      BY <1>1, <2>2, SendsAreUnmarred, Zenon
    <3>2. <<PoolOf[call'[d].at], ModelOf[call'[d].at]>> \notin deprecated
      BY <3>1, ZenonT(30) DEF Unmarred
    <3>3. <<PoolOf[g[2]], ModelOf[g[2]]>> \in deprecated
      BY <1>1, <2>2 DEF Inv, GoneInv
    <3> QED BY <2>2, <3>2, <3>3, Zenon
  <2> QED BY <2>1, <2>2, Zenon
<1>2. Inv /\ [Next]_vars => [A]_vars
  BY <1>1, Zenon
<1> QED BY <1>2, Invariance, PTL DEF GoneStaysGone, Spec

\* However many threads and callers probe, no entry of the ledger file is lost, and a
\* retired model comes back only when a ping finds it up.
THEOREM RetirementsAreKept == Spec => RetirementKept
<1> DEFINE A == \A m \in DOMAIN LedgerRoute : file'.ok =>
                   /\ file.entries[m] # "none" => file'.entries[m] # "none"
                   /\ file.entries[m] = "deprecated" /\ m \notin Sampled
                          => file'.entries[m] = "deprecated"
<1>1. ASSUME Inv, Next PROVE A
  BY <1>1, FileStep, Zenon DEF Inv, Builds
<1>2. Inv /\ [Next]_vars => [A]_vars
  BY <1>1, Zenon
<1> QED BY <1>2, Invariance, PTL DEF RetirementKept, Spec

-----------------------------------------------------------------------------
(* Isolation of the pools                                                  *)

\* A step marks nothing in the pools other than p.
MarksOnly(p) ==
    \A q \in Pool \ {p} :
        /\ cooling'[q] = cooling[q] /\ sticky'[q] = sticky[q]
        /\ \A r \in Route : PoolOf[r] = q => exhausted'[r] = exhausted[r]
        /\ \A m \in Models : (<<q, m>> \in deprecated') <=> (<<q, m>> \in deprecated)

\* Nor does it mark their endpoints for the executor, except that a model which it puts on
\* the dead list is dead there too.
Living(p) ==
    \A r \in Route : PoolOf[r] # p =>
        /\ health'[r] = health[r]
        /\ IsDead(r)' # IsDead(r) => \E e \in dead' \ dead : PoolOf[e] = p /\ SameModel(e, r)

\* The two together.
Isolated(p) ==
    \A q \in Pool \ {p} :
        /\ cooling'[q] = cooling[q] /\ sticky'[q] = sticky[q]
        /\ \A r \in Route : PoolOf[r] = q =>
               /\ exhausted'[r] = exhausted[r] /\ health'[r] = health[r]
               /\ IsDead(r)' # IsDead(r) =>
                      \E e \in dead' \ dead : PoolOf[e] = p /\ SameModel(e, r)
        /\ \A m \in Models : (<<q, m>> \in deprecated') <=> (<<q, m>> \in deprecated)

LEMMA BothIsolate ==
    ASSUME NEW p, MarksOnly(p), Living(p)
    PROVE  Isolated(p)
BY ZenonT(30) DEF MarksOnly, Living, Isolated

LEMMA UnmarkedAreLiving ==
    ASSUME UNCHANGED <<health, dead>>
    PROVE  \A p : Living(p)
<1>1. \A r : IsDead(r)' = IsDead(r)
  BY DEF IsDead, SameModel
<1> QED BY <1>1, Zenon DEF Living

\* What an endpoint's own failure marks is its own health, and its model.
LEMMA BuriedInPool ==
    ASSUME NEW e \in Route, DOMAIN health = Route, NEW h, health' = [health EXCEPT ![e] = h],
           dead' = dead \/ dead' = dead \cup {e}
    PROVE  Living(PoolOf[e])
<1> SUFFICES ASSUME NEW r \in Route, PoolOf[r] # PoolOf[e]
             PROVE  /\ health'[r] = health[r]
                    /\ IsDead(r)' # IsDead(r) =>
                           \E d \in dead' \ dead : PoolOf[d] = PoolOf[e] /\ SameModel(d, r)
  BY Zenon DEF Living
<1>1. r # e
  OBVIOUS
<1>2. health'[r] = health[r]
  BY <1>1
<1>3. CASE \E d \in dead' \ dead : PoolOf[d] = PoolOf[e] /\ SameModel(d, r)
  BY <1>2, <1>3
<1>4. CASE ~\E d \in dead' \ dead : PoolOf[d] = PoolOf[e] /\ SameModel(d, r)
  <2>1. (\E d \in dead' : d = r \/ SameModel(d, r)) <=> (\E d \in dead : d = r \/ SameModel(d, r))
    <3>1. dead \subseteq dead' /\ \A d \in dead' \ dead : d = e
      OBVIOUS
    <3>2. \A d \in dead' \ dead : d # r /\ ~SameModel(d, r)
      BY <1>1, <1>4, <3>1, Zenon
    <3> QED BY <3>1, <3>2, Zenon
  <2>2. IsDead(r)' <=> (health'[r].dead \/ \E d \in dead' : d = r \/ SameModel(d, r))
    BY Zenon DEF IsDead, SameModel
  <2>3. IsDead(r)' <=> IsDead(r)
    BY <1>2, <2>1, <2>2, ZenonT(30) DEF IsDead
  <2>4. IsDead(r)' \in BOOLEAN /\ IsDead(r) \in BOOLEAN
    BY Zenon DEF IsDead
  <2> QED BY <1>2, <2>3, <2>4
<1> QED BY <1>3, <1>4

\* The routes that an account-wide refusal locks are those that its pool lists.
LEMMA QuotaStaysInPool ==
    ASSUME Lists(routes), NEW e \in Route, NEW named, named \subseteq {e}, NEW wide, NEW t,
           MarkQuota(e, named, wide, t), NEW r \in Route, PoolOf[r] # PoolOf[e]
    PROVE  exhausted'[r] = exhausted[r]
<1> DEFINE hit == named \cup
                  {q \in Range(routes[PoolOf[e]]) : wide /\ ProviderOf[q] = ProviderOf[e]}
<1>1. PoolOf[e] \in Pool
  BY RouteAssumption, Zenon DEF Range
<1>2. r \notin hit
  BY <1>1, Zenon DEF Lists
<1>3. exhausted' = [q \in Route |-> IF q \in hit THEN t ELSE exhausted[q]]
  BY Zenon DEF MarkQuota
<1> HIDE DEF hit
<1> QED BY <1>2, <1>3, Zenon

\* A step of a request leaves the others alone and marks nothing outside its pool.
LEMMA RequestsIsolated ==
    ASSUME Inv, RequestStep
    PROVE  /\ UNCHANGED call
           /\ \E x \in Request : /\ \A y \in Request \ {x} : req'[y] = req[y]
                                /\ MarksOnly(req[x].pool) /\ Living(req[x].pool)
<1>1. /\ req \in [Request -> ReqState] /\ synced \subseteq Route /\ Lists(routes)
      /\ DOMAIN cooling = Pool /\ DOMAIN sticky = Pool /\ DOMAIN health = Route
  BY Zenon DEF Inv, CallsInv, ListInv, Kept, LockInv
<1>2. ASSUME NEW x \in Request, NEW e \in Route, Using(x, e)
      PROVE  PoolOf[e] = req[x].pool /\ req[x].pool \in Pool
  <2>1. Asking(req[x]) /\ req[x].at = e
    BY <1>2, Zenon DEF Inv, CallsInv, Using
  <2> QED BY <2>1, RouteAssumption, Zenon DEF Asking
<1> DEFINE Own(x) == /\ UNCHANGED call
                     /\ \A y \in Request \ {x} : req'[y] = req[y]
                     /\ MarksOnly(req[x].pool) /\ Living(req[x].pool)
<1>3. ASSUME NEW x \in Request, NEW e \in Route, NEW p, NEW path,
             \/ Serve(x, p, path) \/ GivesUp(x) \/ Pick(x, e) \/ Retries(x, e)
             \/ FallsBack(x, e)
      PROVE  Own(x)
  <2>1. UNCHANGED <<pools, call, health, dead>>
    BY <1>3 DEF Serve, GivesUp, Pick, Retries, FallsBack
  <2>2. \A y \in Request \ {x} : req'[y] = req[y]
    <3>1. CASE Serve(x, p, path) \/ GivesUp(x)
      BY <1>1, <3>1, Zenon DEF Serve, GivesUp, Done
    <3>2. CASE Pick(x, e) \/ Retries(x, e) \/ FallsBack(x, e)
      BY <1>1, <3>2 DEF Pick, Retries, FallsBack, Excluding
    <3> QED BY <1>3, <3>1, <3>2, Zenon
  <2> QED BY <2>1, <2>2, UnmarkedAreLiving, Zenon DEF pools, MarksOnly
<1>4. ASSUME NEW x \in Request, NEW e \in Route, Answers(x, e)
      PROVE  Own(x)
  <2>1. /\ sticky' = sticky \/ sticky' = [sticky EXCEPT ![req[x].pool] = None]
        /\ UNCHANGED <<cooling, exhausted, deprecated, call, health, dead>> /\ req' = Done(x)
    BY <1>4, Zenon DEF Answers
  <2>2. \A y \in Request \ {x} : req'[y] = req[y]
    BY <1>1, <2>1, Zenon DEF Done
  <2> QED BY <1>1, <2>1, <2>2, UnmarkedAreLiving, Zenon DEF MarksOnly
<1>5. ASSUME NEW x \in Request, NEW e \in Route, NEW raises, CoolsDown(x, e, raises)
      PROVE  Own(x)
  <2>1. PoolOf[e] = req[x].pool
    BY <1>2, <1>5, Zenon DEF CoolsDown
  <2>2. PICK v : cooling' = [cooling EXCEPT ![PoolOf[e]] = v]
    BY <1>5, Zenon DEF CoolsDown, MarkCooldown
  <2>3. UNCHANGED <<sticky, exhausted, deprecated, call, health, dead>>
    BY <1>5, Zenon DEF CoolsDown
  <2>4. \A y \in Request \ {x} : req'[y] = req[y]
    BY <1>1, <1>5 DEF CoolsDown, Done, Excluding
  <2> QED BY <1>1, <2>1, <2>2, <2>3, <2>4, UnmarkedAreLiving, Zenon DEF MarksOnly
<1>6. ASSUME NEW x \in Request, NEW e \in Route, Missing(x, e)
      PROVE  Own(x)
  <2>1. PoolOf[e] = req[x].pool
    BY <1>2, <1>6 DEF Missing
  <2>2. UNCHANGED <<cooling, sticky, exhausted, call>>
        /\ deprecated' = deprecated \cup {<<PoolOf[e], ModelOf[e]>>}
    BY <1>6 DEF Missing, Buries
  <2>3. \A y \in Request \ {x} : req'[y] = req[y]
    BY <1>1, <1>6 DEF Missing, Excluding
  <2>4. dead' = dead \cup {e} /\ \E h : health' = [health EXCEPT ![e] = h]
    BY <1>6, Zenon DEF Missing, Buries
  <2>5. Living(req[x].pool)
    BY <1>1, <2>1, <2>4, BuriedInPool, Zenon
  <2> QED BY <2>1, <2>2, <2>3, <2>5, Zenon DEF MarksOnly
<1>7. ASSUME NEW x \in Request, NEW e \in Route, NEW f, NEW t, NEW second,
             Refuses(x, e, f, t) \/ RefusesUnsaved(x, e, f, t, second)
      PROVE  Own(x)
  <2>1. Refusal(x, e, f, t) /\ UNCHANGED <<cooling, sticky, call>>
    BY <1>7, Zenon DEF Refuses, RefusesUnsaved
  <2>2. PoolOf[e] = req[x].pool
    BY <1>2, <2>1, ZenonT(30) DEF Refusal
  <2>3. MarkQuota(e, {e} \cap Plain, AccountWide(e, f), t)
    BY <2>1 DEF Refusal
  <2>4. \A r \in Route : PoolOf[r] # PoolOf[e] => exhausted'[r] = exhausted[r]
    <3>1. {e} \cap Plain \subseteq {e}
      OBVIOUS
    <3> QED BY <1>1, <2>3, <3>1, QuotaStaysInPool, Zenon
  <2>5. \/ deprecated' = deprecated
        \/ deprecated' = deprecated \cup {<<PoolOf[e], ModelOf[e]>>}
    BY <1>7, Zenon DEF Refuses, RefusesUnsaved, Buries
  <2>6. \A y \in Request \ {x} : req'[y] = req[y]
    BY <1>1, <1>7 DEF Refuses, RefusesUnsaved, Done, Excluding
  <2>7. dead' = dead \/ dead' = dead \cup {e}
    BY <1>7, Zenon DEF Refuses, RefusesUnsaved, Buries
  <2>8. \E h : health' = [health EXCEPT ![e] = h]
    BY <2>1, Zenon DEF Refusal
  <2>9. Living(req[x].pool)
    BY <1>1, <2>2, <2>7, <2>8, BuriedInPool, Zenon
  <2> QED BY <2>1, <2>2, <2>4, <2>5, <2>6, <2>9, Zenon DEF MarksOnly
<1>8. synced \subseteq Route
  BY <1>1
<1>9. \E x \in Request : Own(x)
  <2> HIDE DEF Own
  <2>1. CASE \E x \in Request, p \in Pool, path \in {"complete", "stream"} : Serve(x, p, path)
    <3>1. PICK x \in Request, p \in Pool, path \in {"complete", "stream"} : Serve(x, p, path)
      BY <2>1, Zenon
    <3>2. CASE Route = {}
      <4>1. UNCHANGED <<pools, call, health, dead>> /\ \A y \in Request \ {x} : req'[y] = req[y]
        BY <1>1, <3>1, Zenon DEF Serve
      <4> QED BY <4>1, UnmarkedAreLiving, Zenon DEF Own, MarksOnly, pools
    <3>3. CASE Route # {}
      BY <1>3, <3>1, <3>3
    <3> QED BY <3>2, <3>3
  <2>2. CASE \E x \in Request : GivesUp(x)
    <3>1. PICK x \in Request : GivesUp(x)
      BY <2>2
    <3>2. UNCHANGED <<pools, call, health, dead>> /\ \A y \in Request \ {x} : req'[y] = req[y]
      BY <1>1, <3>1, Zenon DEF GivesUp, Done
    <3> QED BY <3>2, UnmarkedAreLiving, Zenon DEF Own, MarksOnly, pools
  <2>3. CASE \E x \in Request, e \in synced : Pick(x, e) \/ Retries(x, e) \/ FallsBack(x, e)
    BY <1>3, <1>8, <2>3
  <2>4. CASE \E x \in Request, e \in synced : Answers(x, e) \/ Missing(x, e)
    BY <1>4, <1>6, <1>8, <2>4
  <2>5. CASE \E x \in Request, e \in synced, raises \in BOOLEAN : CoolsDown(x, e, raises)
    BY <1>5, <1>8, <2>5, Zenon
  <2>6. CASE \E x \in Request, e \in synced, f \in BOOLEAN, t \in 1 .. Hold, second \in BOOLEAN :
                 Refuses(x, e, f, t) \/ RefusesUnsaved(x, e, f, t, second)
    BY <1>7, <1>8, <2>6
  <2> QED BY <2>1, <2>2, <2>3, <2>4, <2>5, <2>6, ZenonT(30) DEF RequestStep
<1> QED BY <1>9

\* So does a step of a dispatch.
LEMMA DispatchesIsolated ==
    ASSUME Inv, DispatchStep
    PROVE  /\ UNCHANGED <<req, health, dead>>
           /\ \E d \in Dispatcher : /\ \A c \in Dispatcher \ {d} : call'[c] = call[c]
                                   /\ MarksOnly(call[d].pool)
<1>1. /\ call \in [Dispatcher -> CallState] /\ Lists(routes)
      /\ DOMAIN cooling = Pool /\ DOMAIN sticky = Pool
  BY Zenon DEF Inv, CallsInv, ListInv, Kept
<1>2. ASSUME NEW d \in Dispatcher, NEW r, At(d, r)
      PROVE  PoolOf[r] = call[d].pool /\ r \in Route
  <2>1. Asking(call[d]) /\ call[d].at = r /\ r \in Route
    BY <1>2 DEF Inv, CallsInv, At
  <2> QED BY <2>1 DEF Asking
<1> DEFINE Own(d) == /\ \A c \in Dispatcher \ {d} : call'[c] = call[c]
                     /\ MarksOnly(call[d].pool)
<1>3. ASSUME NEW d \in Dispatcher, NEW p, Dispatch(d, p)
      PROVE  Own(d)
  BY <1>1, <1>3, Zenon DEF Dispatch, pools, MarksOnly
<1>4. ASSUME NEW d \in Dispatcher, Select(d) \/ Unavailable(d)
      PROVE  Own(d)
  <2>1. /\ \/ cooling' = cooling
           \/ cooling' = [cooling EXCEPT ![call[d].pool] = Relieved(call[d].pool)]
        /\ UNCHANGED <<exhausted, deprecated, sticky>>
    BY <1>4 DEF Select, Unavailable
  <2>2. \A c \in Dispatcher \ {d} : call'[c] = call[c]
    BY <1>1, <1>4 DEF Select, Unavailable, Idle
  <2> QED BY <1>1, <2>1, <2>2, ZenonT(30) DEF MarksOnly
<1>5. ASSUME NEW d \in Dispatcher, NEW r, Served(d, r)
      PROVE  Own(d)
  <2>1. /\ sticky' = [sticky EXCEPT ![call[d].pool] = r]
        /\ UNCHANGED <<cooling, exhausted, deprecated>> /\ call' = Idle(d)
    BY <1>5 DEF Served
  <2> QED BY <1>1, <2>1, Zenon DEF MarksOnly, Idle
<1>6. ASSUME NEW d \in Dispatcher, NEW r, Unmarked(d, r)
      PROVE  Own(d)
  BY <1>1, <1>6 DEF Unmarked, Again, pools, MarksOnly
<1>7. ASSUME NEW d \in Dispatcher, NEW r, Busy(d, r)
      PROVE  Own(d)
  <2>1. PoolOf[r] = call[d].pool
    BY <1>2, <1>7 DEF Busy
  <2>2. PICK v : cooling' = [cooling EXCEPT ![PoolOf[r]] = v]
    BY <1>7, Zenon DEF Busy, MarkCooldown
  <2>3. UNCHANGED <<sticky, exhausted, deprecated>> /\ Again(d)
    BY <1>7 DEF Busy
  <2> QED BY <1>1, <2>1, <2>2, <2>3, ZenonT(30) DEF MarksOnly, Again
<1>8. ASSUME NEW d \in Dispatcher, NEW r, NotFound(d, r)
      PROVE  Own(d)
  <2>1. PoolOf[r] = call[d].pool
    BY <1>2, <1>8, ZenonT(30) DEF NotFound
  <2>2. /\ UNCHANGED <<cooling, sticky, exhausted>> /\ Again(d)
        /\ deprecated' = deprecated \cup {<<PoolOf[r], ModelOf[r]>>}
    BY <1>8 DEF NotFound
  <2> QED BY <1>1, <2>1, <2>2, Zenon DEF MarksOnly, Again
<1>9. ASSUME NEW d \in Dispatcher, NEW r, NEW f, NEW t, OutOfQuota(d, r, f, t)
      PROVE  Own(d)
  <2>1. PoolOf[r] = call[d].pool /\ r \in Route
    BY <1>2, <1>9, Zenon DEF OutOfQuota
  <2>2. /\ UNCHANGED <<cooling, sticky, deprecated>> /\ Again(d)
        /\ MarkQuota(r, {r}, AccountWide(r, f), t)
    BY <1>9 DEF OutOfQuota
  <2>3. \A q \in Route : PoolOf[q] # PoolOf[r] => exhausted'[q] = exhausted[q]
    <3>1. {r} \subseteq {r}
      OBVIOUS
    <3> QED BY <1>1, <2>1, <2>2, <3>1, QuotaStaysInPool, Zenon
  <2> QED BY <1>1, <2>1, <2>2, <2>3 DEF MarksOnly, Again
<1>10. UNCHANGED <<req, health, dead>>
  BY Zenon DEF DispatchStep, gateway
<1>11. \E d \in Dispatcher : Own(d)
  <2> HIDE DEF Own
  <2> QED BY <1>3, <1>4, <1>5, <1>6, <1>7, <1>8, <1>9, Zenon DEF DispatchStep
<1> QED BY <1>10, <1>11, Zenon

\* What happens to a request or a dispatch of one pool marks nothing in the other pools,
\* for any pools and routes.  The lockout of a shared account is the account's, and an
\* endpoint of another pool dies only with the very model of the provider that this pool
\* has just put on the dead list.
THEOREM PoolsAreIsolated == Spec => PoolsIsolated
<1> DEFINE Touched(p) == /\ \/ \E x \in Request : req[x].pool = p /\ req'[x] # req[x]
                            \/ \E d \in Dispatcher : call[d].pool = p /\ call'[d] # call[d]
                         /\ left'["restart"] = left["restart"]
           A == \A p \in Pool : Touched(p) => Isolated(p)
<1>1. ASSUME Inv, Next, NEW p \in Pool, Touched(p) PROVE Isolated(p)
  <2>1. CASE RequestStep
    <3>1. MarksOnly(p) /\ Living(p)
      BY <1>1, <2>1, RequestsIsolated, Zenon
    <3> QED BY <3>1, BothIsolate
  <2>2. CASE DispatchStep
    <3>1. MarksOnly(p) /\ UNCHANGED <<health, dead>>
      BY <1>1, <2>2, DispatchesIsolated, Zenon
    <3> QED BY <3>1, BothIsolate, UnmarkedAreLiving, Zenon
  <2>3. CASE UNCHANGED <<req, call>>
    BY <1>1, <2>3, Zenon
  <2>4. CASE CallerStep
    BY <2>3, <2>4 DEF CallerStep, gateway
  <2>5. CASE TimeStep
    BY <2>3, <2>5, Zenon DEF TimeStep, Tick, CoolingEnds, StickyEnds, gateway
  <2>6. CASE \E a \in Actor : CanaryStep(a)
    BY <2>3, <2>6, ZenonT(30) DEF CanaryStep, Loads, Truncates, Writes, Fetches, Pings, gateway
  <2>7. CASE \E a \in Actor : WriteFails(a) /\ UNCHANGED gateway
    BY <2>3, <2>7, Zenon DEF WriteFails, gateway
  <2>8. CASE Spends("restart")
    <3>1. left \in [Happening -> Nat] /\ "restart" \in Happening
      BY <1>1, Zenon DEF Inv, Happening
    <3>2. left'["restart"] = left["restart"] - 1 /\ left["restart"] \in Nat
      BY <2>8, <3>1 DEF Spends
    <3> QED BY <1>1, <3>2
  <2> HIDE DEF Touched
  <2> QED BY <1>1, <2>1, <2>2, <2>4, <2>5, <2>6, <2>7, <2>8, ZenonT(30) DEF Next
<1>2. Inv /\ [Next]_vars => [A]_vars
  <2> HIDE DEF Touched
  <2> QED BY <1>1
<1> QED BY <1>2, Invariance, PTL DEF PoolsIsolated, Spec, Isolated

=============================================================================
