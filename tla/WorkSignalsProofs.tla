-------------------------- MODULE WorkSignalsProofs --------------------------
(***************************************************************************)
(* Theorems about WorkSignals for any finite set of Runs, any processes,   *)
(* limits and faults.  The limits are kept by a store whose transactions   *)
(* read the clock as they commit (Stall = 0).                              *)
(*                                                                         *)
(* InUse counts the units of a limit that Runs with live leases hold.  A   *)
(* claim adds the units of one Run, which fit; whatever else happens, the  *)
(* Runs with live leases afterwards are among those before.                *)
(***************************************************************************)
EXTENDS WorkSignals, FiniteSetTheorems, TLAPS

\* Any set of numbers has a least one.
LEMMA LeastNumber ==
  ASSUME NEW T, T \subseteq Nat, T # {}
  PROVE  \E m \in T : \A n \in T : m <= n
<1> DEFINE R == {p \in Nat \X Nat : p[1] < p[2]}
<1>1. IsWellFoundedOn(R, Nat)
  BY NatLessThanWellFounded, Zenon DEF OpToRel
<1>2. PICK m \in T : \A n \in T : <<n, m>> \notin R
  <2> HIDE DEF R
  <2> QED
    BY <1>1, WFMin
<1>3. ASSUME NEW n \in T PROVE m <= n
  <2>1. n \in Nat /\ m \in Nat /\ ~(n < m)
    BY <1>2
  <2> QED
    BY <2>1
<1> QED
  BY <1>3

LEMMA MinIsLeast ==
  ASSUME NEW T, T \subseteq Nat, T # {}
  PROVE  Min(T) \in T /\ \A n \in T : Min(T) <= n
BY LeastNumber DEF Min

-----------------------------------------------------------------------------
(* Types.                                                                  *)

RunFits(R) ==
  /\ R \in RunRecords
  /\ (R.lease > 0) = (R.status = "running")
  /\ (R.owner # NoProcess) = (R.status = "running")

PoolFits(P) ==
  P \in PoolRecords /\ Cardinality(P.work) <= Concurrency /\ (P.work # {} => P.up)

LEMMA TypeFacts ==
  ASSUME WorkSignalsAssumption
  PROVE  WorkTypeOK <=>
           /\ now \in Time /\ faults \in 0 .. MaxFaults /\ queue \in [Family -> Dues]
           /\ run \in [Runs -> RunRecords] /\ \A r \in Runs : RunFits(run[r])
           /\ pool \in [Processes -> PoolRecords] /\ \A p \in Processes : PoolFits(pool[p])
BY DEF WorkTypeOK, RunFits, PoolFits

LEMMA WorkNumbers ==
  ASSUME WorkSignalsAssumption
  PROVE  /\ Time \subseteq Dues /\ Dues \subseteq Nat /\ Never \in Dues /\ 0 \in Time
         /\ Never \in Nat /\ Concurrency \in Nat
         /\ \A t \in Time : t \in Nat /\ t + LeaseLength \in Dues /\ t + LeaseLength > 0
         /\ \A a, b \in Dues : Earliest(a, b) \in Dues
BY DEF WorkSignalsAssumption, Time, Dues, Never, Earliest

LEMMA MergeTyped ==
  ASSUME WorkSignalsAssumption,
         NEW Q \in [Family -> Dues], NEW items \in [Family -> Dues]
  PROVE  Merge(Q, items) \in [Family -> Dues]
BY WorkNumbers DEF Merge

\* A record put in a field.
LEMMA CommitKeeps ==
  ASSUME WorkSignalsAssumption, WorkTypeOK, NEW r \in Runs, NEW R, RunFits(R), Commit(r, R)
  PROVE  /\ queue' \in [Family -> Dues]
         /\ run' \in [Runs -> RunRecords] /\ \A s \in Runs : RunFits(run'[s])
<1>1. now \in Time /\ R \in RunRecords /\ R.lease \in Dues /\ R.available \in Time
  BY DEF WorkTypeOK, RunFits, RunRecords
<1>2. Rows(R) \in [Family -> Dues]
  BY <1>1, WorkNumbers DEF Rows
<1>3. queue' \in [Family -> Dues]
  BY <1>2, MergeTyped DEF Commit, WorkTypeOK
<1>4. run' \in [Runs -> RunRecords] /\ \A s \in Runs : run'[s] = IF s = r THEN R ELSE run[s]
  BY <1>1 DEF Commit, WorkTypeOK
<1> QED
  BY <1>3, <1>4, TypeFacts

LEMMA SetKeeps ==
  ASSUME WorkSignalsAssumption, WorkTypeOK, NEW p \in Processes, NEW P, PoolFits(P), SetPool(p, P)
  PROVE  pool' \in [Processes -> PoolRecords] /\ \A q \in Processes : PoolFits(pool'[q])
<1>1. pool' \in [Processes -> PoolRecords] /\ \A q \in Processes : pool'[q] = IF q = p THEN P ELSE pool[q]
  BY DEF SetPool, WorkTypeOK, PoolFits
<1> QED
  BY <1>1, TypeFacts

LEMMA Deadlines ==
  ASSUME WorkSignalsAssumption, WorkTypeOK
  PROVE  NextDeadline \in Dues /\ Pending \in [Family -> Dues]
<1> DEFINE queued == {run[r].available : r \in {s \in Runs : run[s].status = "queued"}}
           leased == {run[r].lease : r \in {s \in Runs : run[s].status = "running"}}
           times == {t \in queued \union leased : t > now}
<1>1. \A r \in Runs : run[r].available \in Dues /\ run[r].lease \in Dues
  <2>1. \A r \in Runs : run[r] \in RunRecords
    BY DEF WorkTypeOK
  <2> QED
    BY <2>1, WorkNumbers DEF RunRecords
<1>2. queued \union leased \subseteq Dues /\ times \subseteq Dues
  BY <1>1
<1>3. NextDeadline = IF times = {} THEN Never ELSE Min(times)
  BY DEF NextDeadline
<1>4. Pending = [f \in Family |-> IF f = "run-due" /\ queued \union leased # {} THEN Min(queued \union leased) ELSE Never]
  BY DEF Pending
<1> HIDE DEF queued, leased, times
<1>5. times # {} => Min(times) \in Dues
  BY <1>2, WorkNumbers, MinIsLeast
<1>6. queued \union leased # {} => Min(queued \union leased) \in Dues
  BY <1>2, WorkNumbers, MinIsLeast
<1> QED
  BY <1>3, <1>4, <1>5, <1>6, WorkNumbers

LEMMA InitType == ASSUME WorkSignalsAssumption, WorkInit PROVE WorkTypeOK
<1>1. now \in Time /\ faults \in 0 .. MaxFaults
  BY DEF WorkInit, WorkSignalsAssumption, Time
<1>2. queue \in [Family -> Dues]
  BY WorkNumbers DEF WorkInit, Nothing
<1>3. run \in [Runs -> RunRecords] /\ \A r \in Runs : RunFits(run[r])
  BY WorkNumbers DEF WorkInit, RunFits, RunRecords
<1>4. PoolFits([Started EXCEPT !.healthy = TRUE, !.phase = "asleep", !.wake = FALSE, !.claim = FALSE])
  <2>1. Cardinality({}) <= Concurrency
    BY FS_EmptySet, WorkNumbers
  <2> QED
    BY <2>1 DEF PoolFits, Started, PoolRecords
<1>5. pool \in [Processes -> PoolRecords] /\ \A p \in Processes : PoolFits(pool[p])
  BY <1>4 DEF WorkInit, PoolFits
<1> QED
  BY <1>1, <1>2, <1>3, <1>5, TypeFacts

LEMMA PoolFacts ==
  ASSUME WorkSignalsAssumption, WorkTypeOK, NEW p \in Processes
  PROVE  /\ pool[p] \in PoolRecords /\ PoolFits(pool[p]) /\ pool[p].work \subseteq Runs
         /\ IsFiniteSet(pool[p].work)
<1>1. pool[p] \in PoolRecords /\ PoolFits(pool[p])
  BY TypeFacts
<1>2. pool[p].work \subseteq Runs
  BY <1>1 DEF PoolRecords
<1> QED
  BY <1>1, <1>2, FS_Subset DEF WorkSignalsAssumption

LEMMA DoneHolds ==
  ASSUME WorkSignalsAssumption, WorkTypeOK, NEW p \in Processes, NEW r \in Runs
  PROVE  PoolFits([pool[p] EXCEPT !.work = @ \ {r}, !.wake = TRUE])
<1>1. pool[p] \in PoolRecords /\ PoolFits(pool[p]) /\ IsFiniteSet(pool[p].work)
  BY PoolFacts
<1>2. /\ Cardinality(pool[p].work \ {r}) <= Cardinality(pool[p].work)
      /\ Cardinality(pool[p].work \ {r}) \in Nat /\ Cardinality(pool[p].work) \in Nat
  BY <1>1, FS_Subset, FS_CardinalityType
<1>3. Cardinality(pool[p].work \ {r}) <= Concurrency
  BY <1>1, <1>2, WorkNumbers DEF PoolFits
<1> QED
  BY <1>1, <1>3 DEF PoolFits, PoolRecords

LEMMA RunFacts ==
  ASSUME WorkSignalsAssumption, WorkTypeOK, NEW r \in Runs
  PROVE  /\ run[r] \in RunRecords /\ RunFits(run[r]) /\ now \in Time
         /\ \A c \in Clock : c \in Time
BY TypeFacts DEF Clock

-----------------------------------------------------------------------------
(* The steps keep the types.                                               *)

LEMMA EnqueueType ==
  ASSUME WorkSignalsAssumption, WorkTypeOK, NEW r \in Runs, NEW at \in Time, Enqueue(r, at)
  PROVE  WorkTypeOK'
<1> DEFINE R == [run[r] EXCEPT !.status = "queued", !.available = at]
<1>1. RunFits(R)
  BY RunFacts DEF Enqueue, RunFits, RunRecords
<1>2. Commit(r, R) /\ UNCHANGED <<now, pool, faults>>
  BY DEF Enqueue
<1> HIDE DEF R
<1> QED
  BY <1>1, <1>2, CommitKeeps DEF WorkTypeOK, RunFits

LEMMA ClaimType ==
  ASSUME WorkSignalsAssumption, WorkTypeOK, NEW p \in Processes, NEW r \in Runs, NEW c \in Clock,
         Claim(p, r, c)
  PROVE  WorkTypeOK'
<1> DEFINE R == [run[r] EXCEPT !.status = "running", !.lease = c + LeaseLength, !.owner = p]
           P == [pool[p] EXCEPT !.work = @ \union {r}]
<1>1. RunFits(R)
  <2>1. c + LeaseLength \in Dues /\ c + LeaseLength > 0 /\ p # NoProcess
    BY RunFacts, WorkNumbers DEF WorkSignalsAssumption
  <2> QED
    BY <2>1, RunFacts DEF RunFits, RunRecords
<1>2. PoolFits(P)
  <2>1. pool[p] \in PoolRecords /\ IsFiniteSet(pool[p].work) /\ pool[p].up
        /\ Cardinality(pool[p].work) < Concurrency
    BY PoolFacts DEF Claim, Claims
  <2>2. Cardinality(pool[p].work \union {r}) <= Concurrency
    <3>1. Cardinality(pool[p].work) \in Nat /\ Concurrency \in Nat
      BY <2>1, WorkNumbers, FS_CardinalityType
    <3>2. Cardinality(pool[p].work \union {r}) \in {Cardinality(pool[p].work), Cardinality(pool[p].work) + 1}
      BY <2>1, FS_AddElement
    <3> QED
      BY <2>1, <3>1, <3>2
  <2> QED
    BY <2>1, <2>2 DEF PoolFits, PoolRecords
<1>3. Commit(r, R) /\ SetPool(p, P) /\ UNCHANGED <<now, faults>>
  BY DEF Claim
<1> HIDE DEF R, P
<1> QED
  BY <1>1, <1>2, <1>3, CommitKeeps, SetKeeps DEF WorkTypeOK, RunFits, PoolFits

LEMMA FinishType ==
  ASSUME WorkSignalsAssumption, WorkTypeOK, NEW p \in Processes, NEW r \in Runs, NEW c \in Clock,
         NEW s \in {"queued", "ended"}, FinishRun(p, r, s, c)
  PROVE  WorkTypeOK'
<1> DEFINE R == [run[r] EXCEPT !.status = s, !.lease = 0, !.owner = NoProcess,
                   !.available = IF s = "queued" THEN now + 1 ELSE @]
           P == [pool[p] EXCEPT !.work = @ \ {r}, !.wake = TRUE]
<1>1. RunFits(R)
  <2>1. s = "queued" => now + 1 \in Time
    BY RunFacts DEF FinishRun, Time, WorkSignalsAssumption
  <2>2. 0 \in Dues /\ ~(0 > 0) /\ run[r] \in RunRecords
    BY WorkNumbers, RunFacts
  <2>3. R.status = s /\ R.lease = 0 /\ R.owner = NoProcess
        /\ R.available = IF s = "queued" THEN now + 1 ELSE run[r].available
    BY <2>2 DEF RunRecords
  <2>4. R \in RunRecords
    BY <2>1, <2>2 DEF RunRecords
  <2> HIDE DEF R
  <2> QED
    BY <2>2, <2>3, <2>4 DEF RunFits
<1>2. PoolFits(P)
  BY DoneHolds
<1>3. Commit(r, R) /\ SetPool(p, P) /\ UNCHANGED <<now, faults>>
  BY DEF FinishRun, Done
<1> HIDE DEF R, P
<1> QED
  BY <1>1, <1>2, <1>3, CommitKeeps, SetKeeps DEF WorkTypeOK, RunFits, PoolFits

LEMMA RenewLeaseType ==
  ASSUME WorkSignalsAssumption, WorkTypeOK, NEW p \in Processes, NEW r \in Runs, NEW c \in Clock,
         RenewLease(p, r, c)
  PROVE  WorkTypeOK'
<1> DEFINE R == [run[r] EXCEPT !.lease = c + LeaseLength]
<1>1. RunFits(R)
  <2>1. c + LeaseLength \in Dues /\ c + LeaseLength > 0 /\ run[r].status = "running"
    BY RunFacts, WorkNumbers DEF RenewLease, Live
  <2> QED
    BY <2>1, RunFacts DEF RunFits, RunRecords
<1>2. run' = [run EXCEPT ![r] = R] /\ UNCHANGED <<now, queue, pool, faults>>
  BY DEF RenewLease
<1> HIDE DEF R
<1> QED
  BY <1>1, <1>2 DEF WorkTypeOK, RunFits

\* The steps of a process that do not change a Run.
LEMMA PoolType ==
  ASSUME WorkSignalsAssumption, WorkTypeOK, NEW p \in Processes, NEW P, PoolFits(P), SetPool(p, P),
         UNCHANGED <<now, run>>, queue' \in [Family -> Dues], faults' \in 0 .. MaxFaults
  PROVE  WorkTypeOK'
BY SetKeeps DEF WorkTypeOK, PoolFits

LEMMA SignalsType ==
  ASSUME WorkSignalsAssumption, WorkTypeOK, NEW p \in Processes, NEW f \in Family,
         ConsumeWork(p, f) \/ ConsumeAgain(p, f) \/ BackstopWork(p) \/ Pass(p) \/ Schedule(p)
  PROVE  WorkTypeOK'
<1>0. /\ pool[p] \in PoolRecords /\ PoolFits(pool[p]) /\ queue \in [Family -> Dues]
      /\ faults \in 0 .. MaxFaults /\ Never \in Dues /\ MaxFaults \in Nat
  BY PoolFacts, WorkNumbers DEF WorkTypeOK, WorkSignalsAssumption
<1>1. CASE ConsumeWork(p, f) \/ ConsumeAgain(p, f)
  <2>1. queue' \in [Family -> Dues] /\ faults' \in 0 .. MaxFaults /\ UNCHANGED <<now, run>>
    BY <1>0, <1>1 DEF ConsumeWork, ConsumeAgain
  <2>2. SetPool(p, [pool[p] EXCEPT !.wake = TRUE, !.claim = TRUE])
    BY <1>1 DEF ConsumeWork, ConsumeAgain
  <2>3. PoolFits([pool[p] EXCEPT !.wake = TRUE, !.claim = TRUE])
    BY <1>0 DEF PoolFits, PoolRecords
  <2> QED
    BY <2>1, <2>2, <2>3, PoolType
<1>2. CASE BackstopWork(p)
  <2>1. queue' \in [Family -> Dues]
    BY <1>0, <1>2, Deadlines, MergeTyped DEF BackstopWork
  <2> QED
    BY <1>2, <2>1 DEF BackstopWork, WorkTypeOK
<1>3. CASE Pass(p)
  <2> DEFINE P == [pool[p] EXCEPT !.phase = IF pool[p].healthy THEN "pass" ELSE "polling",
                                  !.wake = FALSE, !.claim = TRUE]
  <2>1. PoolFits(P)
    BY <1>0 DEF PoolFits, PoolRecords
  <2>2. SetPool(p, P) /\ UNCHANGED <<now, run, queue, faults>>
    BY <1>3 DEF Pass
  <2> QED
    BY <1>0, <2>1, <2>2, PoolType
<1>4. CASE Schedule(p)
  <2>1. PoolFits([pool[p] EXCEPT !.phase = "asleep"])
    BY <1>0 DEF PoolFits, PoolRecords
  <2>2. queue' \in [Family -> Dues]
    BY <1>0, <1>4, Deadlines, WorkNumbers DEF Schedule
  <2> QED
    BY <1>0, <1>4, <2>1, <2>2, PoolType DEF Schedule
<1> QED
  BY <1>1, <1>2, <1>3, <1>4

LEMMA ClaimNothingType ==
  ASSUME WorkSignalsAssumption, WorkTypeOK, NEW p \in Processes, NEW c \in Clock, ClaimNothing(p, c)
  PROVE  WorkTypeOK'
<1>1. PoolFits([pool[p] EXCEPT !.claim = FALSE])
  BY PoolFacts DEF PoolFits, PoolRecords
<1> QED
  BY <1>1, PoolType DEF ClaimNothing, WorkTypeOK

LEMMA LoseLeaseType ==
  ASSUME WorkSignalsAssumption, WorkTypeOK, NEW p \in Processes, NEW r \in Runs, NEW c \in Clock,
         LoseLease(p, r, c)
  PROVE  WorkTypeOK'
BY DoneHolds, PoolType DEF LoseLease, Done, WorkTypeOK

LEMMA FaultsType ==
  ASSUME WorkSignalsAssumption, WorkTypeOK, NEW p \in Processes,
         ObserveConnected(p) \/ ObserveDisconnected(p) \/ Crash(p) \/ Restart(p)
  PROVE  WorkTypeOK'
<1>0. /\ pool[p] \in PoolRecords /\ PoolFits(pool[p]) /\ queue \in [Family -> Dues]
      /\ faults \in 0 .. MaxFaults /\ MaxFaults \in Nat
  BY PoolFacts DEF WorkTypeOK, WorkSignalsAssumption
<1>1. UNCHANGED <<now, run, queue>> /\ faults' \in 0 .. MaxFaults
  BY <1>0 DEF ObserveConnected, ObserveDisconnected, Crash, Restart, Fault
<1>2. \A h \in BOOLEAN : PoolFits([pool[p] EXCEPT !.healthy = h, !.wake = TRUE])
  BY <1>0 DEF PoolFits, PoolRecords
<1>3. PoolFits([Started EXCEPT !.up = FALSE]) /\ PoolFits(Started)
  <2>1. Cardinality({}) <= Concurrency
    BY FS_EmptySet, WorkNumbers
  <2> QED
    BY <2>1 DEF PoolFits, Started, PoolRecords
<1>4. \E P : PoolFits(P) /\ SetPool(p, P)
  BY <1>2, <1>3 DEF ObserveConnected, ObserveDisconnected, Crash, Restart
<1> QED
  BY <1>0, <1>1, <1>4, PoolType

LEMMA LoseQueueType ==
  ASSUME WorkSignalsAssumption, WorkTypeOK, LoseQueue
  PROVE  WorkTypeOK'
<1>1. faults' \in 0 .. MaxFaults /\ UNCHANGED <<now, run>>
  <2>1. faults \in 0 .. MaxFaults /\ MaxFaults \in Nat
    BY DEF WorkTypeOK, WorkSignalsAssumption
  <2>2. faults < MaxFaults /\ faults' = faults + 1 /\ UNCHANGED <<now, run>>
    BY DEF LoseQueue, Fault
  <2> QED
    BY <2>1, <2>2
<1>2. queue' \in [Family -> Dues]
  BY WorkNumbers DEF LoseQueue, Nothing
<1>3. \A p \in Processes : PoolFits(pool[p]) /\ PoolFits([pool[p] EXCEPT !.healthy = FALSE, !.wake = TRUE])
  BY PoolFacts DEF PoolFits, PoolRecords
<1>4. pool' = [p \in Processes |-> IF pool[p].healthy THEN [pool[p] EXCEPT !.healthy = FALSE, !.wake = TRUE]
                                   ELSE pool[p]]
  BY DEF LoseQueue
<1>5. \A p \in Processes : pool'[p] \in PoolRecords /\ PoolFits(pool'[p])
  BY <1>3, <1>4 DEF PoolFits
<1>6. pool' \in [Processes -> PoolRecords]
  BY <1>4, <1>5
<1> QED
  BY <1>1, <1>2, <1>5, <1>6 DEF WorkTypeOK, PoolFits

LEMMA NextType ==
  ASSUME WorkSignalsAssumption, WorkTypeOK, [WorkNext]_workVars
  PROVE  WorkTypeOK'
<1>1. CASE Tick
  BY <1>1 DEF Tick, WorkTypeOK, Time, WorkSignalsAssumption
<1>2. CASE LoseQueue
  BY <1>2, LoseQueueType
<1>3. CASE \E r \in Runs, at \in Time : Enqueue(r, at)
  BY <1>3, EnqueueType
<1>4. ASSUME NEW p \in Processes, Work(p) PROVE WorkTypeOK'
  BY <1>4, ClaimNothingType, ClaimType, LoseLeaseType, FinishType DEF Work
<1>5. ASSUME NEW p \in Processes, Pass(p) \/ Schedule(p) \/ BackstopWork(p)
      PROVE  WorkTypeOK'
  <2>1. "run" \in Family
    BY DEF Family
  <2> QED
    BY <1>5, <2>1, SignalsType
<1>6. ASSUME NEW p \in Processes, ObserveConnected(p) \/ ObserveDisconnected(p) \/ Crash(p) \/ Restart(p)
      PROVE  WorkTypeOK'
  BY <1>6, FaultsType
<1>7. ASSUME NEW p \in Processes, NEW f \in Family, ConsumeWork(p, f) \/ ConsumeAgain(p, f)
      PROVE  WorkTypeOK'
  BY <1>7, SignalsType
<1>8. ASSUME NEW p \in Processes, NEW c \in Clock, NEW r \in Runs, RenewLease(p, r, c)
      PROVE  WorkTypeOK'
  BY <1>8, RenewLeaseType
<1>9. CASE UNCHANGED workVars
  BY <1>9 DEF workVars, WorkTypeOK
<1> QED
  BY <1>1, <1>2, <1>3, <1>4, <1>5, <1>6, <1>7, <1>8, <1>9 DEF WorkNext

\* Every reachable state of the store, the queue and the pools is well formed: a lease has
\* an owner and only a running Run has one, a pool never executes more than it may, and
\* only a process that is up executes anything.
THEOREM WorkTypeCorrect == ASSUME WorkSignalsAssumption PROVE WorkSpec => []WorkTypeOK
<1>1. WorkInit => WorkTypeOK
  BY InitType
<1>2. WorkTypeOK /\ [WorkNext]_workVars => WorkTypeOK'
  BY NextType
<1> QED
  BY <1>1, <1>2, PTL DEF WorkSpec

-----------------------------------------------------------------------------
(* Limits.                                                                 *)

\* The units of a limit in use, as InUse counts them.
Units(l, c) == {u \in Runs \X (1 .. l.capacity) : Live(u[1], c) /\ u[2] <= l.need[u[1]]}

LEMMA UnitsFinite ==
  ASSUME WorkSignalsAssumption, NEW l \in Limits, NEW c
  PROVE  IsFiniteSet(Units(l, c)) /\ InUse(l, c) = Cardinality(Units(l, c)) /\ InUse(l, c) \in Nat
<1>1. IsFiniteSet(Runs \X (1 .. l.capacity))
  <2>1. l.capacity \in Nat /\ IsFiniteSet(Runs)
    BY DEF WorkSignalsAssumption
  <2>2. 1 \in Int /\ l.capacity \in Int
    BY <2>1
  <2>3. IsFiniteSet(1 .. l.capacity)
    BY <2>2, FS_Interval
  <2> QED
    BY <2>1, <2>3, FS_Product
<1>2. IsFiniteSet(Units(l, c))
  BY <1>1, FS_Subset DEF Units
<1> QED
  BY <1>2, FS_CardinalityType DEF InUse, Units

\* Fewer live leases use no more.
LEMMA Fewer ==
  ASSUME WorkSignalsAssumption, NEW l \in Limits, WithinLimits,
         \A r \in Runs : Live(r, now)' => Live(r, now)
  PROVE  InUse(l, now)' <= l.capacity
<1>1. Units(l, now)' \subseteq Units(l, now)
  BY DEF Units
<1>2. IsFiniteSet(Units(l, now)) /\ Cardinality(Units(l, now)) <= l.capacity /\ l.capacity \in Nat
      /\ Cardinality(Units(l, now)) \in Nat
  BY UnitsFinite DEF WithinLimits, WorkSignalsAssumption
<1>3. Cardinality(Units(l, now)') <= Cardinality(Units(l, now)) /\ Cardinality(Units(l, now)') \in Nat
  BY <1>1, <1>2, FS_Subset, FS_CardinalityType
<1>4. InUse(l, now)' = Cardinality(Units(l, now)')
  BY DEF InUse, Units
<1> QED
  BY <1>2, <1>3, <1>4

\* One more Run, whose units fit.
LEMMA OneMore ==
  ASSUME WorkSignalsAssumption, NEW l \in Limits, WithinLimits, NEW r \in Runs,
         l.need[r] > 0 => InUse(l, now) + l.need[r] <= l.capacity,
         \A s \in Runs \ {r} : Live(s, now)' => Live(s, now)
  PROVE  InUse(l, now)' <= l.capacity
<1> DEFINE U == Units(l, now)
           V == Units(l, now)'
           mine == {r} \X (1 .. l.need[r])
<1>1. IsFiniteSet(U) /\ Cardinality(U) = InUse(l, now) /\ Cardinality(U) \in Nat
      /\ Cardinality(U) <= l.capacity /\ l.capacity \in Nat /\ l.need[r] \in Nat
  BY UnitsFinite DEF WithinLimits, WorkSignalsAssumption
<1>2. V \subseteq U \union mine
  <2>1. ASSUME NEW u \in V PROVE u \in U \union mine
    <3>1. u \in Runs \X (1 .. l.capacity) /\ Live(u[1], now)' /\ u[2] <= l.need[u[1]]
      BY DEF Units
    <3>2. CASE u[1] = r
      BY <1>1, <3>1, <3>2
    <3>3. CASE u[1] # r
      BY <3>1, <3>3 DEF Units
    <3> QED
      BY <3>2, <3>3
  <2> QED
    BY <2>1
<1>3. IsFiniteSet(mine) /\ Cardinality(mine) = l.need[r]
  <2>1. IsFiniteSet({r}) /\ Cardinality({r}) = 1
    BY FS_Singleton
  <2>2. IsFiniteSet(1 .. l.need[r]) /\ Cardinality(1 .. l.need[r]) = l.need[r]
    <3>1. 1 \in Int /\ l.need[r] \in Int
      BY <1>1
    <3>2. IsFiniteSet(1 .. l.need[r]) /\ Cardinality(1 .. l.need[r]) = IF 1 > l.need[r] THEN 0 ELSE l.need[r] - 1 + 1
      BY <3>1, FS_Interval
    <3> QED
      BY <1>1, <3>2
  <2> QED
    <3>1. Cardinality(mine) = Cardinality({r}) * Cardinality(1 .. l.need[r]) /\ IsFiniteSet(mine)
      BY <2>1, <2>2, FS_Product
    <3> QED
      BY <1>1, <2>1, <2>2, <3>1
<1>4. InUse(l, now)' = Cardinality(V)
  BY DEF InUse, Units
<1> HIDE DEF U, V, mine
<1>5. /\ IsFiniteSet(U \union mine) /\ IsFiniteSet(U \intersect mine)
      /\ Cardinality(U \union mine) = Cardinality(U) + Cardinality(mine) - Cardinality(U \intersect mine)
      /\ Cardinality(U \intersect mine) \in Nat
  BY <1>1, <1>3, FS_Union, FS_Intersection, FS_CardinalityType
<1>6. Cardinality(V) <= Cardinality(U \union mine) /\ Cardinality(V) \in Nat /\ Cardinality(U \union mine) \in Nat
  BY <1>2, <1>5, FS_Subset, FS_CardinalityType
<1> QED
  BY <1>1, <1>3, <1>4, <1>5, <1>6

LEMMA NextWithin ==
  ASSUME WorkSignalsAssumption, Stall = 0, WorkTypeOK, WithinLimits, [WorkNext]_workVars
  PROVE  WithinLimits'
<1>0. Clock = {now} /\ now \in Nat
  BY WorkNumbers DEF Clock, WorkTypeOK
<1>1. CASE \A r \in Runs : Live(r, now)' => Live(r, now)
  BY <1>1, Fewer DEF WithinLimits
<1>2. ASSUME NEW p \in Processes, NEW r \in Runs, Claim(p, r, now) PROVE WithinLimits'
  <2>1. \A l \in Limits : l.need[r] > 0 => InUse(l, now) + l.need[r] <= l.capacity
    BY <1>2 DEF Claim, Admissible
  <2>2. \A s \in Runs \ {r} : Live(s, now)' => Live(s, now)
    BY <1>2 DEF Claim, Commit, Live, WorkTypeOK
  <2> QED
    BY <2>1, <2>2, OneMore DEF WithinLimits
<1>3. ASSUME NEW r \in Runs, NEW R, run' = [run EXCEPT ![r] = R], now' = now,
             R.status # "running" \/ Live(r, now)
      PROVE  \A s \in Runs : Live(s, now)' => Live(s, now)
  BY <1>3 DEF Live, WorkTypeOK
<1>4. CASE UNCHANGED <<now, run>>
  BY <1>4, <1>1 DEF Live
<1>5. CASE Tick
  <2>1. \A r \in Runs : run[r].lease \in Nat /\ now' = now + 1 /\ run' = run
    BY <1>5, RunFacts, WorkNumbers DEF Tick, RunRecords
  <2> QED
    BY <1>0, <1>1, <2>1 DEF Live
<1>6. ASSUME NEW r \in Runs, NEW at \in Time, Enqueue(r, at) PROVE WithinLimits'
  <2> DEFINE R == [run[r] EXCEPT !.status = "queued", !.available = at]
  <2>1. R.status # "running" /\ run' = [run EXCEPT ![r] = R] /\ now' = now
    BY <1>6, RunFacts DEF Enqueue, Commit, RunRecords
  <2> QED
    BY <1>1, <1>3, <2>1
<1>7. ASSUME NEW p \in Processes, NEW r \in Runs, NEW s \in {"queued", "ended"}, FinishRun(p, r, s, now)
      PROVE  WithinLimits'
  <2>1. Live(r, now) /\ now' = now /\ \E R : run' = [run EXCEPT ![r] = R]
    BY <1>7 DEF FinishRun, Commit
  <2> QED
    BY <1>1, <1>3, <2>1
<1>8. ASSUME NEW p \in Processes, NEW r \in Runs, RenewLease(p, r, now) PROVE WithinLimits'
  <2>1. Live(r, now) /\ now' = now /\ run' = [run EXCEPT ![r] = [run[r] EXCEPT !.lease = now + LeaseLength]]
    BY <1>8 DEF RenewLease
  <2> QED
    BY <1>1, <1>3, <2>1
<1>9. ASSUME NEW p \in Processes,
             ClaimNothing(p, now) \/ (\E r \in Runs : LoseLease(p, r, now)) \/ Pass(p) \/ Schedule(p)
               \/ BackstopWork(p) \/ ObserveConnected(p) \/ ObserveDisconnected(p) \/ Crash(p) \/ Restart(p)
               \/ \E f \in Family : ConsumeWork(p, f) \/ ConsumeAgain(p, f)
      PROVE  WithinLimits'
  BY <1>9, <1>4 DEF ClaimNothing, LoseLease, Pass, Schedule, BackstopWork, ObserveConnected,
       ObserveDisconnected, Crash, Restart, ConsumeWork, ConsumeAgain
<1>10. CASE LoseQueue \/ UNCHANGED workVars
  BY <1>10, <1>4 DEF LoseQueue, workVars
<1> QED
  BY <1>0, <1>2, <1>5, <1>6, <1>7, <1>8, <1>9, <1>10 DEF WorkNext, Work

\* In a store whose transactions read the clock as they commit, the Runs with live leases
\* never use more of any limit or resource than there is: not for any number of Runs,
\* processes and limits, needs and capacities, however claims, lapses and crashes mix.
THEOREM LimitsAreKept == ASSUME WorkSignalsAssumption, Stall = 0 PROVE WorkSpec => []WithinLimits
<1>1. WorkInit => WorkTypeOK /\ WithinLimits
  <2>1. ASSUME WorkInit, NEW l \in Limits PROVE InUse(l, now) <= l.capacity
    <3>1. Units(l, now) = {}
      BY <2>1 DEF WorkInit, Units, Live
    <3>2. l.capacity \in Nat /\ InUse(l, now) = Cardinality(Units(l, now))
      BY UnitsFinite DEF WorkSignalsAssumption
    <3> QED
      BY <3>1, <3>2, FS_EmptySet
  <2> QED
    BY <2>1, InitType DEF WithinLimits
<1>2. (WorkTypeOK /\ WithinLimits) /\ [WorkNext]_workVars => (WorkTypeOK /\ WithinLimits)'
  BY NextType, NextWithin
<1> QED
  BY <1>1, <1>2, PTL DEF WorkSpec
=============================================================================
