----------------------------- MODULE WorkSignals -----------------------------
(***************************************************************************)
(* How due Runs of one scope reach the pools of several processes without  *)
(* polling, and how many of them a claim admits.                           *)
(*                                                                         *)
(* Every commit that makes a Run claimable leaves a row in a transactional *)
(* outbox, which any process relays into a queue shared by all.  The queue *)
(* keeps the earliest due time per family and delivers a due item to one   *)
(* process.  A delivery wakes that process's pool: one pass of its loop,   *)
(* which asks the claimer to look at the store, then schedules the next    *)
(* deadline it finds there and sleeps.  A process whose consumer is down   *)
(* polls instead.  Items are hints; claims are decided by the store, in    *)
(* one transaction per scope, from the leases that are live at that time.  *)
(*                                                                         *)
(* A row leaves the outbox once the queue has it, and both keep the        *)
(* earliest time: they are one schedule here, in which an item waits as    *)
(* long as it takes.  A relay whose commit fails delivers it once more.    *)
(*                                                                         *)
(* Time is a clock every process reads, in units small enough for a Run to *)
(* fall due between two steps of a pass.  Which of several admissible Runs *)
(* a claim selects (priority, age, deadline) is left open.                 *)
(***************************************************************************)
EXTENDS Naturals, FiniteSets, FiniteSetsExt

CONSTANTS
  Runs,
  Processes, NoProcess,
  Concurrency,  \* Runs a pool executes at a time
  Limits,       \* active limits and resource capacities: what each Run needs of them, and what there is
  LeaseLength,
  Stall,        \* how long before its commit a transaction may have read the clock
  MaxTime,      \* model bound: the horizon of the clock
  MaxFaults     \* model bound: crashes, lost queues, lost consumers, items delivered twice

WorkSignalsAssumption ==
  /\ IsFiniteSet(Runs) /\ NoProcess \notin Processes
  /\ Concurrency \in Nat /\ LeaseLength \in Nat \ {0}
  /\ MaxTime \in Nat /\ MaxFaults \in Nat
  /\ \A l \in Limits : l.need \in [Runs -> Nat] /\ l.capacity \in Nat

VARIABLES
  now,
  run,     \* the Runs as the store keeps them
  queue,   \* per family, when the next pass of the scope is due
  pool,    \* what each process holds in memory
  faults

workVars == <<now, run, queue, pool, faults>>

Time == 0 .. MaxTime
Never == MaxTime + LeaseLength + 1
Family == {"run", "run-due"}
Dues == 0 .. Never

RunRecords == [status : {"idle", "queued", "running", "ended"}, available : Time,
               lease : Dues, owner : Processes \union {NoProcess}]
PoolRecords == [up : BOOLEAN, healthy : BOOLEAN, wake : BOOLEAN, claim : BOOLEAN,
                phase : {"asleep", "polling", "pass"}, work : SUBSET Runs]

\* Type invariant: also, a lease has an owner and only a running Run has one, and only
\* a process that is up holds work.
WorkTypeOK ==
  /\ now \in Time /\ faults \in 0 .. MaxFaults
  /\ run \in [Runs -> RunRecords] /\ pool \in [Processes -> PoolRecords]
  /\ queue \in [Family -> Dues]
  /\ \A r \in Runs : (run[r].lease > 0) = (run[r].status = "running")
                     /\ (run[r].owner # NoProcess) = (run[r].status = "running")
  /\ \A p \in Processes : Cardinality(pool[p].work) <= Concurrency /\ (pool[p].work # {} => pool[p].up)

Earliest(a, b) == IF a < b THEN a ELSE b
Nothing == [f \in Family |-> Never]
Merge(Q, items) == [f \in Family |-> Earliest(Q[f], items[f])]

\* A pool as its process starts it: it looks for work at once, and polls until the
\* consumer is connected.
Started == [up |-> TRUE, healthy |-> FALSE, wake |-> TRUE, claim |-> TRUE,
            phase |-> "polling", work |-> {}]

WorkInit ==
  /\ now = 0 /\ faults = 0
  /\ run = [r \in Runs |-> [status |-> "idle", available |-> 0, lease |-> 0, owner |-> NoProcess]]
  /\ queue = Nothing
  /\ pool = [p \in Processes |-> [Started EXCEPT !.healthy = TRUE, !.phase = "asleep", !.wake = FALSE, !.claim = FALSE]]

-----------------------------------------------------------------------------
(* The store.  c is the time a transaction read before it began.           *)

Clock == {c \in Time : c <= now /\ now <= c + Stall}

Live(r, c) == run[r].status = "running" /\ run[r].lease > c

Claimable(r, c) ==
  \/ run[r].status = "queued" /\ run[r].available <= c
  \/ run[r].status = "running" /\ ~Live(r, c)

\* The units of a limit that are in use; no Run in use needs more than there are.
InUse(l, c) ==
  Cardinality({u \in Runs \X (1 .. l.capacity) : Live(u[1], c) /\ u[2] <= l.need[u[1]]})

Admissible(r, c) ==
  Claimable(r, c) /\ \A l \in Limits : l.need[r] > 0 => InUse(l, c) + l.need[r] <= l.capacity

\* The outbox rows of a Run that changed: its availability, or the end of its lease.
Rows(R) ==
  IF R.status = "running" THEN [f \in Family |-> IF f = "run" THEN now ELSE R.lease]
  ELSE [f \in Family |-> IF f = "run" THEN IF R.available > now THEN R.available ELSE now ELSE Never]

Commit(r, R) == run' = [run EXCEPT ![r] = R] /\ queue' = Merge(queue, Rows(R))

\* The next time at which the store has more to claim without another write.
NextDeadline ==
  LET queued == {run[r].available : r \in {s \in Runs : run[s].status = "queued"}}
      leased == {run[r].lease : r \in {s \in Runs : run[s].status = "running"}}
      times == {t \in queued \union leased : t > now}
  IN IF times = {} THEN Never ELSE Min(times)

\* As if the sweep, like a pass, looked only at what is to come.
PendingAhead == [f \in Family |-> IF f = "run-due" THEN NextDeadline ELSE Never]

\* The sweep that makes up for lost items looks at work that is due as well.
Pending ==
  LET queued == {run[r].available : r \in {s \in Runs : run[s].status = "queued"}}
      leased == {run[r].lease : r \in {s \in Runs : run[s].status = "running"}}
  IN [f \in Family |-> IF f = "run-due" /\ queued \union leased # {} THEN Min(queued \union leased) ELSE Never]

-----------------------------------------------------------------------------
(* Work is created, executed and given up.                                 *)

SetPool(p, P) == pool' = [pool EXCEPT ![p] = P]

Enqueue(r, at) ==
  /\ run[r].status = "idle" /\ at \in {now, now + 1} \intersect Time
  /\ Commit(r, [run[r] EXCEPT !.status = "queued", !.available = at])
  /\ UNCHANGED <<now, pool, faults>>

Claims(p) == pool[p].up /\ pool[p].claim /\ Cardinality(pool[p].work) < Concurrency

Claim(p, r, c) ==
  /\ Claims(p) /\ Admissible(r, c)
  /\ Commit(r, [run[r] EXCEPT !.status = "running", !.lease = c + LeaseLength, !.owner = p])
  /\ SetPool(p, [pool[p] EXCEPT !.work = @ \union {r}])
  /\ UNCHANGED <<now, faults>>

ClaimNothing(p, c) ==
  /\ Claims(p) /\ \A r \in Runs : ~Admissible(r, c)
  /\ SetPool(p, [pool[p] EXCEPT !.claim = FALSE])
  /\ UNCHANGED <<now, run, queue, faults>>

\* As if a lapsed lease could be renewed.
RenewLate(p, r, c) ==
  /\ r \in pool[p].work /\ run[r].owner = p /\ run[r].lease # c + LeaseLength
  /\ run' = [run EXCEPT ![r].lease = c + LeaseLength]
  /\ UNCHANGED <<now, queue, pool, faults>>

\* A renewal only moves the end of a lease away: it leaves no row.
RenewLease(p, r, c) ==
  /\ r \in pool[p].work /\ run[r].owner = p /\ Live(r, c) /\ run[r].lease # c + LeaseLength
  /\ run' = [run EXCEPT ![r].lease = c + LeaseLength]
  /\ UNCHANGED <<now, queue, pool, faults>>

Done(p, r) == SetPool(p, [pool[p] EXCEPT !.work = @ \ {r}, !.wake = TRUE])

\* The Run ended, or is queued again for a retry in a while.
FinishRun(p, r, s, c) ==
  /\ r \in pool[p].work /\ run[r].owner = p /\ Live(r, c)
  /\ s = "queued" => now < MaxTime
  /\ Commit(r, [run[r] EXCEPT !.status = s, !.lease = 0, !.owner = NoProcess,
                  !.available = IF s = "queued" THEN now + 1 ELSE @])
  /\ Done(p, r)
  /\ UNCHANGED <<now, faults>>

LoseLease(p, r, c) ==
  /\ r \in pool[p].work /\ ~(run[r].owner = p /\ Live(r, c))
  /\ Done(p, r)
  /\ UNCHANGED <<now, run, queue, faults>>

-----------------------------------------------------------------------------
(* Signals.                                                                *)

ConsumeWork(p, f) ==
  /\ pool[p].up /\ pool[p].healthy /\ queue[f] <= now
  /\ queue' = [queue EXCEPT ![f] = Never]
  /\ SetPool(p, [pool[p] EXCEPT !.wake = TRUE, !.claim = TRUE])
  /\ UNCHANGED <<now, run, faults>>

ConsumeAgain(p, f) ==
  /\ pool[p].up /\ pool[p].healthy /\ queue[f] <= now
  /\ faults < MaxFaults /\ faults' = faults + 1
  /\ SetPool(p, [pool[p] EXCEPT !.wake = TRUE, !.claim = TRUE])
  /\ UNCHANGED <<now, run, queue>>

BackstopWork(p) ==
  /\ pool[p].up /\ Merge(queue, Pending) # queue
  /\ queue' = Merge(queue, Pending)
  /\ UNCHANGED <<now, run, pool, faults>>

\* A pass begins: the wakes it answers and the health it relies on are read first.
\* Without the queue it only asks for a claim, and is repeated after a while.
Pass(p) ==
  /\ pool[p].up
  /\ pool[p].phase = "polling" \/ (pool[p].phase = "asleep" /\ pool[p].wake)
  /\ SetPool(p, [pool[p] EXCEPT !.phase = IF pool[p].healthy THEN "pass" ELSE "polling",
                            !.wake = FALSE, !.claim = TRUE])
  /\ UNCHANGED <<now, run, queue, faults>>

\* It ends: with the queue it publishes the next deadline and sleeps until a wake.
Schedule(p) ==
  /\ pool[p].phase = "pass"
  /\ queue' = [queue EXCEPT !["run-due"] = Earliest(@, NextDeadline)]
  /\ SetPool(p, [pool[p] EXCEPT !.phase = "asleep"])
  /\ UNCHANGED <<now, run, faults>>

-----------------------------------------------------------------------------
(* Time and faults.                                                        *)

Tick == now < MaxTime /\ now' = now + 1 /\ UNCHANGED <<run, queue, pool, faults>>

\* A change of health releases the loop.
ObserveConnected(p) ==
  /\ pool[p].up /\ ~pool[p].healthy
  /\ SetPool(p, [pool[p] EXCEPT !.healthy = TRUE, !.wake = TRUE])
  /\ UNCHANGED <<now, run, queue, faults>>

Fault == faults < MaxFaults /\ faults' = faults + 1

ObserveDisconnected(p) ==
  /\ pool[p].healthy /\ Fault
  /\ SetPool(p, [pool[p] EXCEPT !.healthy = FALSE, !.wake = TRUE])
  /\ UNCHANGED <<now, run, queue>>

LoseQueue ==
  /\ Fault /\ queue' = Nothing
  /\ pool' = [p \in Processes |-> IF pool[p].healthy THEN [pool[p] EXCEPT !.healthy = FALSE, !.wake = TRUE]
                                  ELSE pool[p]]
  /\ UNCHANGED <<now, run>>

Crash(p) ==
  /\ pool[p].up /\ Fault
  /\ SetPool(p, [Started EXCEPT !.up = FALSE])
  /\ UNCHANGED <<now, run, queue>>

Restart(p) ==
  /\ ~pool[p].up
  /\ SetPool(p, Started)
  /\ UNCHANGED <<now, run, queue, faults>>

-----------------------------------------------------------------------------

Work(p) ==
  \E c \in Clock :
    \/ ClaimNothing(p, c)
    \/ \E r \in Runs : Claim(p, r, c) \/ LoseLease(p, r, c) \/ \E s \in {"queued", "ended"} : FinishRun(p, r, s, c)

WorkNext ==
  \/ Tick \/ LoseQueue
  \/ \E r \in Runs, at \in Time : Enqueue(r, at)
  \/ \E p \in Processes :
       \/ Work(p) \/ Pass(p) \/ Schedule(p) \/ BackstopWork(p)
       \/ ObserveConnected(p) \/ ObserveDisconnected(p) \/ Crash(p) \/ Restart(p)
       \/ \E f \in Family : ConsumeWork(p, f) \/ ConsumeAgain(p, f)
       \/ \E c \in Clock, r \in Runs : RenewLease(p, r, c)

WorkSpec == WorkInit /\ [][WorkNext]_workVars

\* Time passes; every loop of a process that is up runs; a consumer and a process come
\* back; due items are delivered to somebody.
WorkFairness ==
  /\ WF_workVars(Tick)
  /\ \A f \in Family : WF_workVars(\E p \in Processes : ConsumeWork(p, f))
  /\ WF_workVars(\E p \in Processes : BackstopWork(p))
  /\ \A p \in Processes :
       /\ WF_workVars(Work(p)) /\ WF_workVars(Pass(p)) /\ WF_workVars(Schedule(p))
       /\ WF_workVars(ObserveConnected(p)) /\ WF_workVars(Restart(p))

FairWork == WorkSpec /\ WorkFairness

-----------------------------------------------------------------------------
(* What the design promises.                                               *)

\* WithinLimits: Runs that hold a live lease never use more of a limit or a resource
\* than there is, however claims, renewals, lapses and crashes interleave.
WithinLimits == \A l \in Limits : InUse(l, now) <= l.capacity

\* WorkIsClaimed: due work that fits is always found, although items are coalesced,
\* duplicated, overtaken by what they announce, or lost with a queue or a process.
WorkIsClaimed == []<>(\A r \in Runs : ~Admissible(r, now))
=============================================================================
