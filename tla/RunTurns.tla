------------------------------ MODULE RunTurns ------------------------------
(***************************************************************************)
(* One AgentRun, its durable Turns and the worker pool that advances it.   *)
(*                                                                         *)
(* Every store transaction of the code (the claim, a compare-and-swap      *)
(* TransitionRun, the creation, claim, finish or release of a Turn) is one *)
(* atomic action here.  Between two of them a worker holds only a copy of  *)
(* the Run (wk[w].snap), and any other worker, an operator command, a      *)
(* timer, a crash or the passing of a lease may come first.                *)
(*                                                                         *)
(* Revisions are kept as what they are compared for: wk[w].fresh says      *)
(* whether the Run has been written since w's copy of it was read, that is *)
(* whether a TransitionRun carrying the copy's revision would be accepted. *)
(* A Turn is written by its lease owner only, except that ClaimTurn gives  *)
(* it to another owner, so a Turn copy is current iff its holder still is  *)
(* the owner and no second flag is needed.                                 *)
(*                                                                         *)
(* Leases are kept as owner and `live` (expiresAt > now).  Time passes in  *)
(* the Lapse actions.                                                      *)
(***************************************************************************)
EXTENDS Naturals, FiniteSets

CONSTANTS
  Workers,           \* worker goroutines, of one pool or of several processes
  NoWorker,          \* the empty LeaseOwner
  RunnerOutcomes,    \* what a Turn runner may come back with
  ProposalStatuses,  \* where the Run may go when its action proposal is recorded
  Engagements,       \* where a collaboration request or a group of dependencies takes it
  AttemptLimit,      \* BudgetPolicy.MaxAttempts, 0 when unlimited
  TurnLimit,         \* BudgetPolicy.MaxTurns, 0 when unlimited
  TurnsPerClaim,     \* AgentRunWorkerConfig.MaxTurnsPerClaim
  ApplyTries,        \* attempts of applyFinishedTurn, 8 in the code
  HostRetries,       \* len(turnHostRetryDelays), 3 in the code
  MaxTurns,          \* model bound: Turns ever created
  MaxGuidance,       \* model bound: interventions ever recorded
  MaxStalls,         \* model bound: leases that lapse under a worker at work
  MaxCrashes         \* model bound: worker crashes

Timed     == {"sleeping"}
Held      == {"waiting_for_dependency", "waiting_for_agent",
              "waiting_for_approval", "waiting_for_event"}
Waits     == Timed \union Held
Terminal  == {"completed", "failed", "canceled"}
RunStatus == {"queued", "running", "paused"} \union Waits \union Terminal
Ended     == {"completed", "failed", "canceled"}       \* terminal Turn statuses
Seqs      == 1 .. MaxTurns

\* An outcome with the next Run status and whether it requests an action, an
\* error, no answer from the host, or a Turn lease lost meanwhile.
Outcomes == [kind : {"ok", "error", "hostDown", "lost"},
             next : RunStatus \union {"none"}, wants : BOOLEAN]
NoOutcome == [kind |-> "error", next |-> "none", wants |-> FALSE]

ASSUME RunTurnsAssumption ==
  /\ NoWorker \notin Workers
  /\ RunnerOutcomes \subseteq Outcomes
  /\ \A o \in RunnerOutcomes : IF o.kind = "ok" THEN o.next \in RunStatus
                                 ELSE o.next = "none" /\ ~o.wants
  /\ ProposalStatuses \subseteq ({"queued", "paused"} \union Held)
  /\ Engagements \subseteq {"waiting_for_agent", "waiting_for_dependency", "completed"}
  /\ {AttemptLimit, TurnLimit, HostRetries, MaxGuidance, MaxStalls, MaxCrashes} \subseteq Nat
  /\ {TurnsPerClaim, ApplyTries, MaxTurns} \subseteq Nat \ {0}

VARIABLES
  run,     \* the durable AgentRun
  turns,   \* the durable Turns by sequence number
  wk,      \* the workers' volatile state
  stalls,  \* leases that lapsed under a worker at work
  crashes  \* worker crashes

vars == <<run, turns, wk, stalls, crashes>>

-----------------------------------------------------------------------------
(* The durable records.                                                    *)

\* What the model keeps of a checkpoint: the requeues after an unavailable
\* host, and the failure explanation the model owes or has given.
Checkpoints == [retries : 0 .. HostRetries, explain : {"none", "owed", "given"}]
EmptyCheckpoint == [retries |-> 0, explain |-> "none"]

\* PendingInterventions only grows, so its length stands for the list of ids.  acted:
\* there are action calls or child Runs, which a retry would have to recover.
Runs == [status : RunStatus, owner : Workers \union {NoWorker}, live : BOOLEAN,
         wake : Waits \union {"none"},
         pausedFrom : RunStatus \union {"none"}, pausedWake : Waits \union {"none"},
         due : BOOLEAN, guidance : 0 .. MaxGuidance, applied : 0 .. MaxTurns,
         checkpoint : Checkpoints, acted : BOOLEAN,
         attempts : 0 .. AttemptLimit,
         charged : 0 .. MaxTurns, reserved : SUBSET Seqs]

InitRun == [status |-> "queued", owner |-> NoWorker, live |-> FALSE, wake |-> "none",
            pausedFrom |-> "none", pausedWake |-> "none", due |-> TRUE,
            guidance |-> 0, applied |-> 0, checkpoint |-> EmptyCheckpoint,
            acted |-> FALSE, attempts |-> 0, charged |-> 0, reserved |-> {}]

\* seen is InputInterventionIDs, base the LastAppliedTurn whose checkpoint the
\* runner was given, wants a requested action.
Turns == [status : {"absent", "running"} \union Ended,
          owner : Workers \union {NoWorker}, live : BOOLEAN,
          seen : 0 .. MaxGuidance, base : 0 .. MaxTurns,
          next : RunStatus \union {"none"}, wants : BOOLEAN,
          checkpoint : Checkpoints]

NoTurn == [status |-> "absent", owner |-> NoWorker, live |-> FALSE, seen |-> 0,
           base |-> 0, next |-> "none", wants |-> FALSE,
           checkpoint |-> EmptyCheckpoint]

Advancing == {"advance", "start", "pending", "begin", "create", "claimTurn", "reserve",
              "record", "executing", "refresh", "finish", "apply"}
Phases == {"idle", "resolve", "reject", "propose", "proposing", "yield"} \union Advancing

\* What the code reads of its copy of the Run later on, and when it holds one.
Copies  == [owner : Workers \union {NoWorker}, guidance : 0 .. MaxGuidance,
            applied : 0 .. MaxTurns, checkpoint : Checkpoints, attempts : 0 .. AttemptLimit,
            charged : 0 .. MaxTurns, reserved : SUBSET Seqs]
Copy(r) == [owner |-> r.owner, guidance |-> r.guidance, applied |-> r.applied,
            checkpoint |-> r.checkpoint, attempts |-> r.attempts,
            charged |-> r.charged, reserved |-> r.reserved]
NoCopy  == Copy(InitRun)
Copying == {"pending", "begin", "create", "claimTurn", "reserve", "record", "finish", "apply"}

WorkerStates == [pc : Phases, snap : Copies, fresh : BOOLEAN, turn : 0 .. MaxTurns,
                 seen : 0 .. MaxGuidance, base : 0 .. MaxTurns,
                 slice : 0 .. TurnsPerClaim, tries : 0 .. ApplyTries - 1,
                 out : Outcomes, reconciled : BOOLEAN, canceled : BOOLEAN]

Idle == [pc |-> "idle", snap |-> NoCopy, fresh |-> FALSE, turn |-> 0, seen |-> 0,
         base |-> 0, slice |-> 0, tries |-> 0, out |-> NoOutcome,
         reconciled |-> FALSE, canceled |-> FALSE]

TypeOK ==
  /\ run \in Runs
  /\ turns \in [Seqs -> Turns]
  /\ wk \in [Workers -> WorkerStates]
  /\ stalls \in 0 .. MaxStalls
  /\ crashes \in 0 .. MaxCrashes

Init ==
  /\ run = InitRun
  /\ turns = [i \in Seqs |-> NoTurn]
  /\ wk = [w \in Workers |-> Idle]
  /\ stalls = 0
  /\ crashes = 0

-----------------------------------------------------------------------------
(* Leases and writes.                                                      *)

Leased        == run.owner # NoWorker /\ run.live
HoldsRun(w)   == run.owner = w /\ run.live
HoldsTurn(w)  == LET t == turns[wk[w].turn]
                 IN  t.status = "running" /\ t.owner = w /\ t.live

RunningTurns == {i \in Seqs : turns[i].status = "running"}
Created      == {i \in Seqs : turns[i].status # "absent"}

\* A committed write of the Run makes every copy of it out of date.
Outdated == [w \in Workers |-> [wk[w] EXCEPT !.fresh = FALSE]]

Goto(w, pc) == wk' = [wk EXCEPT ![w].pc = pc]
Abandon(w)  == wk' = [wk EXCEPT ![w] = Idle]

\* The worker in a phase, with a copy of the Run if the phase uses one.
Holding(ws, pc, r) == [ws EXCEPT !.pc = pc, !.fresh = TRUE,
                                 !.snap = IF pc \in Copying THEN Copy(r) ELSE NoCopy]

ReadRun(w, pc) == wk' = [wk EXCEPT ![w] = Holding(@, pc, run)]

\* A worker's write: r becomes the Run and what w's copy shows.
CommitRun(w, r, ws) == run' = r /\ wk' = [Outdated EXCEPT ![w] = ws]

\* A write after which the worker is done with its claim, or by someone else.
CommitAndLeave(w, r) == run' = r /\ wk' = [Outdated EXCEPT ![w] = Idle]
CommitByOther(r)     == run' = r /\ wk' = Outdated

\* A pause remembers what it interrupts; a paused Run that is written again keeps
\* what the first pause remembered.
RememberedAgain(r, to) == IF to = "paused" THEN <<r.status, r.wake>> ELSE <<"none", "none">>
Remembered(r, to) == CASE to # "paused" -> <<"none", "none">>
                       [] to = "paused" /\ r.status = "paused" -> <<r.pausedFrom, r.pausedWake>>
                       [] OTHER -> <<r.status, r.wake>>

KeepsLeaseInPause(to) == to \in {"running", "paused"}
KeepsLease(to)        == to = "running"

\* TransitionRun's changes that depend on the two statuses only.
Transition(r, to, wake) ==
  [r EXCEPT !.status = to,
            !.wake = IF to \in Terminal \union {"paused"} THEN "none" ELSE wake,
            !.pausedFrom = Remembered(r, to)[1],
            !.pausedWake = Remembered(r, to)[2],
            !.owner = IF KeepsLease(to) THEN @ ELSE NoWorker,
            !.live = KeepsLease(to) /\ @,
            !.due = IF to = "queued" THEN TRUE ELSE @]

-----------------------------------------------------------------------------
(* The turn budget: committed usage plus reservations against the limit.   *)

Budgeted         == AttemptLimit > 0 \/ TurnLimit > 0
WouldExceedByTwo(n) == TurnLimit > 0 /\ n > TurnLimit + 1
WouldExceed(n)   == TurnLimit > 0 /\ n > TurnLimit
Exhausts(r, n)   == \/ TurnLimit > 0 /\ n >= TurnLimit
                    \/ AttemptLimit > 0 /\ r.attempts >= AttemptLimit
PastAttemptLimit == AttemptLimit > 0 /\ run.attempts > AttemptLimit
AtAttemptLimit   == AttemptLimit > 0 /\ run.attempts >= AttemptLimit

-----------------------------------------------------------------------------
(* Claiming a Run and resolving its runner.                                *)

ClaimableQueued == run.status = "queued" /\ run.due
Claimable == /\ ~Leased
             /\ \/ run.status = "running"
                \/ run.status = "queued" /\ run.due

\* The claim charges an attempt, also when it takes over a lapsed lease.
Claim(w) ==
  /\ wk[w].pc = "idle"
  /\ Claimable
  /\ ~AtAttemptLimit
  /\ CommitRun(w, [run EXCEPT !.status = "running", !.owner = w, !.live = TRUE,
                              !.attempts = IF AttemptLimit > 0 THEN @ + 1 ELSE @],
               [Idle EXCEPT !.pc = "resolve"])
  /\ UNCHANGED <<turns, stalls, crashes>>

\* At the limit the claim pauses the Run instead; the worker then only logs it.
ClaimAtAttemptLimit(w) ==
  /\ wk[w].pc = "idle"
  /\ Claimable
  /\ AtAttemptLimit
  /\ CommitAndLeave(w, [run EXCEPT !.pausedFrom = run.status, !.status = "paused",
                                   !.owner = NoWorker, !.live = FALSE])
  /\ UNCHANGED <<turns, stalls, crashes>>

\* ResolveTurnRunner returned; the Run is read again before it is advanced.
ResolveRunner(w) ==
  /\ wk[w].pc = "resolve"
  /\ IF run.status = "running" /\ run.owner = w
     THEN wk' = [wk EXCEPT ![w].pc = "advance", ![w].slice = TurnsPerClaim]
     ELSE Abandon(w)
  /\ UNCHANGED <<run, turns, stalls, crashes>>

\* The resolver failed: the Run read after it is to be failed.
ResolverFails(w) ==
  /\ wk[w].pc = "resolve"
  /\ run.status = "running" /\ run.owner = w
  /\ ReadRun(w, "reject")
  /\ UNCHANGED <<run, turns, stalls, crashes>>

FailResolution(w) ==
  /\ wk[w].pc = "reject"
  /\ IF wk[w].fresh /\ HoldsRun(w)
     THEN CommitAndLeave(w, Transition(run, "failed", "none"))
     ELSE Abandon(w) /\ UNCHANGED run
  /\ UNCHANGED <<turns, stalls, crashes>>

-----------------------------------------------------------------------------
(* Advance: from reading the Run to invoking the runner.                   *)

AdvanceRead(w) ==
  /\ wk[w].pc = "advance"
  /\ CASE run.status = "running" -> ReadRun(w, "pending")
       [] run.status = "queued"  -> ReadRun(w, "start")
       [] OTHER                  -> Abandon(w)
  /\ UNCHANGED <<run, turns, stalls, crashes>>

\* A Queued Run is started without a lease: the request names no LeaseOwner.
StartQueued(w) ==
  /\ wk[w].pc = "start"
  /\ IF wk[w].fresh
     THEN LET r == Transition(run, "running", "none")
          IN  CommitRun(w, r, Holding(wk[w], "pending", r))
     ELSE Abandon(w) /\ UNCHANGED run
  /\ UNCHANGED <<turns, stalls, crashes>>

\* The first Turn after the last applied one decides: a finished Turn is applied
\* without running it again, a running one is claimed, otherwise one is begun.
PendingPhaseAnew(i) == IF i \in RunningTurns THEN "claimTurn" ELSE "begin"
PendingPhase(i)     == CASE i \notin Created    -> "begin"
                         [] i \in RunningTurns  -> "claimTurn"
                         [] OTHER               -> "apply"

FindPendingTurn(w) ==
  /\ wk[w].pc = "pending"
  /\ LET i == wk[w].snap.applied + 1
     IN  wk' = [wk EXCEPT ![w].turn = IF i \in Created THEN i ELSE 0,
                          ![w].pc = PendingPhase(i),
                          ![w].reconciled = PendingPhase(i) = "apply"]
  /\ UNCHANGED <<run, turns, stalls, crashes>>

\* Only an enforced budget makes a reservation necessary.
ReservingNever == "record"
Reserving == IF Budgeted THEN "reserve" ELSE "record"

\* BeginTurn reads the Run again but never looks at its lease, and the Turn is
\* created in a transaction that looks at the other Turns only.  (At the model's
\* bound the creation fails like any other store call.)
BeginTurn(w) ==
  /\ wk[w].pc = "begin"
  /\ IF run.status = "running" THEN Goto(w, "create") ELSE Abandon(w)
  /\ UNCHANGED <<run, turns, stalls, crashes>>

ActiveTurnAllowed == TRUE
NoActiveTurn      == RunningTurns = {}

CreateTurn(w) ==
  /\ wk[w].pc = "create"
  /\ LET i == Cardinality(Created) + 1
     IN  IF NoActiveTurn /\ i \in Seqs
         THEN /\ turns' = [turns EXCEPT ![i] = [NoTurn EXCEPT !.status = "running",
                                                              !.owner = w, !.live = TRUE]]
              /\ wk' = [wk EXCEPT ![w].pc = Reserving, ![w].turn = i]
         ELSE Abandon(w) /\ UNCHANGED turns
  /\ UNCHANGED <<run, stalls, crashes>>

\* Neither does ClaimTurn: only the Turn's own lease is in the way.
TurnClaimableLate(w, t) == t.owner = w \/ ~t.live
TurnClaimable(w, t)     == t.status = "running" /\ (t.owner = w \/ ~t.live)

ClaimTurn(w) ==
  /\ wk[w].pc = "claimTurn"
  /\ LET i == wk[w].turn
         t == turns[i]
     IN  IF TurnClaimable(w, t)
         THEN /\ turns' = [turns EXCEPT ![i].owner = w, ![i].live = TRUE]
              /\ wk' = [wk EXCEPT ![w].pc = Reserving, ![w].seen = t.seen]
         ELSE Abandon(w) /\ UNCHANGED turns
  /\ UNCHANGED <<run, stalls, crashes>>

\* FinishTurn, for the worker's own running Turn under its live lease.
FinishedTurn(w, status, next, wants, checkpoint) ==
  [turns EXCEPT ![wk[w].turn] =
     [@ EXCEPT !.status = status, !.owner = NoWorker, !.live = FALSE,
               !.base = wk[w].base, !.next = next, !.wants = wants,
               !.checkpoint = checkpoint]]

OtherReservations(w) == wk[w].snap.reserved \ {wk[w].turn}

\* Capacity for the Turn is reserved under the Run's revision, and under its
\* lease if the copy shows one.  A Turn that does not fit is finished at once,
\* canceled and pausing the Run.
ReserveBudget(w) ==
  /\ wk[w].pc = "reserve"
  /\ LET r == wk[w].snap
         i == wk[w].turn
         n == r.charged + Cardinality(OtherReservations(w)) + 1
     IN  CASE i \in r.reserved ->
                /\ Goto(w, "record")
                /\ UNCHANGED <<run, turns>>
           [] i \notin r.reserved /\ WouldExceed(n) ->
                /\ IF HoldsTurn(w)
                   THEN /\ turns' = FinishedTurn(w, "canceled", "paused", FALSE, EmptyCheckpoint)
                        /\ Goto(w, "apply")
                   ELSE Abandon(w) /\ UNCHANGED turns
                /\ UNCHANGED run
           [] OTHER ->
                /\ IF wk[w].fresh /\ (r.owner = NoWorker \/ HoldsRun(w))
                   THEN LET reserved == [run EXCEPT !.reserved = @ \union {i}]
                        IN  CommitRun(w, reserved, Holding(wk[w], "record", reserved))
                   ELSE Abandon(w) /\ UNCHANGED run
                /\ UNCHANGED turns
  /\ UNCHANGED <<stalls, crashes>>

\* Persist exactly which guidance this invocation sees, unless the Turn shows it
\* already, then invoke the runner.
StartRunner(w) ==
  /\ wk[w].pc = "record"
  /\ LET i == wk[w].turn
         g == wk[w].snap.guidance
         executing == [Idle EXCEPT !.pc = "executing", !.turn = i, !.base = wk[w].snap.applied,
                                   !.slice = wk[w].slice, !.canceled = wk[w].canceled]
     IN  IF wk[w].seen = g \/ turns[i].owner = w
         THEN /\ turns' = IF wk[w].seen = g THEN turns ELSE [turns EXCEPT ![i].seen = g]
              /\ wk' = [wk EXCEPT ![w] = executing]
         ELSE Abandon(w) /\ UNCHANGED turns
  /\ UNCHANGED <<run, stalls, crashes>>

-----------------------------------------------------------------------------
(* The runner in flight.                                                   *)

RunnerReturns(w) ==
  /\ wk[w].pc = "executing"
  /\ \E o \in RunnerOutcomes :
       wk' = [wk EXCEPT ![w].pc = "refresh", ![w].out = o]
  /\ UNCHANGED <<run, turns, stalls, crashes>>

\* RenewTurn failed: the Turn lease lapsed or passed to another worker.
TurnHeartbeatFails(w) ==
  /\ wk[w].pc = "executing"
  /\ ~HoldsTurn(w)
  /\ wk' = [wk EXCEPT ![w].pc = "refresh", ![w].out.kind = "lost"]
  /\ UNCHANGED <<run, turns, stalls, crashes>>

\* RenewAgentRunLease extends the lease and so writes the Run.  (A renewed Turn
\* lease leaves the Turn as it is here: its holder keeps the renewed copy.)
RunHeartbeat(w) ==
  /\ wk[w].pc \in Advancing \union {"resolve"}
  /\ ~wk[w].canceled
  /\ run.status = "running" /\ HoldsRun(w)
  /\ CommitByOther(run)
  /\ UNCHANGED <<turns, stalls, crashes>>

\* The lease is gone: the heartbeat cancels the context of the Advance.
RunHeartbeatFails(w) ==
  /\ wk[w].pc \in Advancing \union {"resolve"}
  /\ ~wk[w].canceled
  /\ ~HoldsRun(w)
  /\ IF wk[w].pc = "resolve"
     THEN Abandon(w)
     ELSE wk' = [wk EXCEPT ![w].canceled = TRUE,
                           ![w].pc = IF @ = "executing" THEN "refresh" ELSE @]
  /\ UNCHANGED <<run, turns, stalls, crashes>>

\* A store call made with the canceled context fails, unless it was under way.
CanceledCall(w) ==
  /\ wk[w].pc \in Advancing \ {"executing", "refresh"}
  /\ wk[w].canceled
  /\ Abandon(w)
  /\ UNCHANGED <<run, turns, stalls, crashes>>

\* Advance returns to executeClaim, which materializes a requested action whatever
\* else was reported, ends a claim whose Run (last seen in the given status) is not
\* Running, and otherwise advances again until the slice is spent.
Return(w, status, fresh, proposal) ==
  LET left == wk[w].slice - 1
      next == CASE proposal                                        -> "propose"
                [] ~proposal /\ status # "running"                 -> "idle"
                [] ~proposal /\ status = "running" /\ left > 0     -> "advance"
                [] OTHER                                           -> "yield"
  IN  [Idle EXCEPT !.pc = next,
                   !.turn = IF next = "propose" THEN wk[w].turn ELSE 0,
                   !.fresh = fresh /\ next \in {"propose", "yield"},
                   !.slice = IF next = "advance" THEN left ELSE 0]

\* The Run is read again once the runner is back.  If it ended, its Turn is
\* discarded; if it was paused or claimed by another worker, the Turn is released
\* and the claim goes on with whatever the Run shows; otherwise the outcome counts.
Refresh(w) ==
  /\ wk[w].pc = "refresh"
  /\ LET i == wk[w].turn
         released == IF HoldsTurn(w)
                     THEN [turns EXCEPT ![i].owner = NoWorker, ![i].live = FALSE]
                     ELSE turns
         goOn == wk' = [wk EXCEPT ![w] = Return(w, run.status, TRUE, FALSE)]
     IN  CASE run.status \in Terminal ->
                /\ turns' = IF HoldsTurn(w)
                            THEN FinishedTurn(w, "canceled", run.status, FALSE, EmptyCheckpoint)
                            ELSE turns
                /\ Abandon(w)
           [] run.status \notin Terminal /\ wk[w].canceled ->
                Abandon(w) /\ UNCHANGED turns
           [] run.status \notin Terminal /\ ~wk[w].canceled
              /\ (run.status # "running" \/ run.owner \notin {NoWorker, w}) ->
                turns' = released /\ IF HoldsTurn(w) THEN goOn ELSE Abandon(w)
           [] OTHER ->
                IF wk[w].out.kind = "lost"
                THEN turns' = released /\ IF turns[i].owner = w THEN goOn ELSE Abandon(w)
                ELSE ReadRun(w, "finish") /\ UNCHANGED turns
  /\ UNCHANGED <<run, stalls, crashes>>

-----------------------------------------------------------------------------
(* Finishing the Turn and applying it to the Run.                          *)

\* A Run that owes an explanation accepts one answer-only reply and nothing else.
Accepted(o, c) == /\ o.kind = "ok"
                  /\ c.explain # "none" => o.next = "completed" /\ ~o.wants

\* Completing the explanation still fails the Run; a Turn that spends the last
\* of the budget pauses it, unless it ends the Run or requests an action.
NextUnexplained(o, r) ==
  IF Exhausts(r, r.charged + 1) /\ o.next \notin Terminal /\ ~o.wants THEN "paused" ELSE o.next
NextAfterSuccess(o, r) ==
  IF r.checkpoint.explain # "none" THEN "failed"
  ELSE IF Exhausts(r, r.charged + 1) /\ o.next \notin Terminal /\ ~o.wants THEN "paused"
  ELSE o.next

\* A failure is kept in the checkpoint; other kernel state of a Turn is dropped.
Explaining(c) == [retries |-> 0, explain |-> IF c.explain = "none" THEN "owed" ELSE c.explain]

\* The outcome becomes the Turn's durable result, computed against the Run read
\* by Refresh.  An unavailable host requeues the Run a few times; any other first
\* failure is given back to the model to explain (it may be one that cannot be).
FinishTurn(w) ==
  /\ wk[w].pc = "finish"
  /\ LET o == wk[w].out
         r == wk[w].snap
         c == r.checkpoint
     IN  IF ~HoldsTurn(w) THEN Abandon(w) /\ UNCHANGED turns
         ELSE /\ wk' = [wk EXCEPT ![w].pc = "apply", ![w].out = NoOutcome, ![w].base = 0]
              /\ \/ /\ Accepted(o, c)
                    /\ turns' = FinishedTurn(w, "completed", NextAfterSuccess(o, r), o.wants,
                                  [retries |-> 0,
                                   explain |-> IF c.explain = "none" THEN "none" ELSE "given"])
                 \/ /\ o.kind = "hostDown" /\ c.retries < HostRetries
                    /\ turns' = FinishedTurn(w, "failed", "queued", FALSE,
                                             [c EXCEPT !.retries = @ + 1])
                 \/ /\ ~Accepted(o, c)
                    /\ o.kind = "hostDown" => c.retries = HostRetries
                    /\ turns' = FinishedTurn(w, "failed", "failed", FALSE, Explaining(c))
                 \/ /\ ~Accepted(o, c) /\ o.kind # "hostDown" /\ c.explain = "none"
                    /\ turns' = FinishedTurn(w, "failed", "queued", FALSE, Explaining(c))
  /\ UNCHANGED <<run, stalls, crashes>>

\* Guidance that the Turn's runner never saw overrides what it produced.
SupersededUnlessEnding(w) ==
  LET t == turns[wk[w].turn]
  IN  t.status = "completed" /\ t.next # "completed" /\ t.checkpoint.explain = "none"
      /\ t.seen # wk[w].snap.guidance
Superseded(w) == LET t == turns[wk[w].turn]
                 IN  /\ t.status = "completed"
                     /\ t.checkpoint.explain = "none"
                     /\ t.seen # wk[w].snap.guidance

\* The Run that applying w's Turn commits.
AppliedRun(w) ==
  LET i == wk[w].turn
      t == turns[i]
      spends == i \in run.reserved /\ t.status # "canceled"
      outstanding == run.charged + Cardinality(run.reserved \ {i}) + 1
      next == IF ~Superseded(w) THEN t.next
              ELSE IF Exhausts(run, outstanding) THEN "paused" ELSE "running"
      moved == Transition(run, next, IF next \in Waits THEN next ELSE "none")
  IN  [moved EXCEPT !.applied = i,
                    !.checkpoint = IF Superseded(w) \/ t.status = "canceled" THEN @ ELSE t.checkpoint,
                    !.due = IF next = "queued" /\ t.status = "failed"
                               /\ t.checkpoint.retries > 0
                            THEN FALSE ELSE @,
                    !.charged = IF spends THEN @ + 1 ELSE @,
                    !.reserved = @ \ {i}]

\* The lease guard of the writes an Advance makes: none if the copy shows no
\* lease, else the lease must still be w's.
GuardIgnored(w) == TRUE
GuardPasses(w) == wk[w].snap.owner = NoWorker \/ HoldsRun(w)

\* One attempt of applyFinishedTurn that meets no conflict.
ApplyTurn(w) ==
  /\ wk[w].pc = "apply"
  /\ wk[w].fresh
  /\ wk[w].turn = wk[w].snap.applied + 1
  /\ IF GuardPasses(w)
     THEN LET r == AppliedRun(w)
          IN  CommitRun(w, r, Return(w, r.status, TRUE,
                                     turns[wk[w].turn].wants /\ ~Superseded(w)))
     ELSE Abandon(w) /\ UNCHANGED run
  /\ UNCHANGED <<turns, stalls, crashes>>

\* The accepted output cannot be saved: the Run pauses with the Turn unapplied.
PublishFails(w) ==
  /\ wk[w].pc = "apply"
  /\ wk[w].fresh
  /\ wk[w].turn = wk[w].snap.applied + 1
  /\ turns[wk[w].turn].status = "completed" /\ ~Superseded(w)
  /\ IF GuardPasses(w)
     THEN CommitRun(w, Transition(run, "paused", "none"),
                    Return(w, "paused", TRUE, turns[wk[w].turn].wants))
     ELSE Abandon(w) /\ UNCHANGED run
  /\ UNCHANGED <<turns, stalls, crashes>>

\* A revision conflict: reload the Run and try the committed Turn again, up to
\* ApplyTries times.  The Turn is returned as it was finished if the reloaded Run
\* has it applied by another worker, has left this one, or the tries are spent; in
\* the last two cases nothing is returned of a Turn that the budget refused.
RetryApply(w) ==
  /\ wk[w].pc = "apply"
  /\ \/ wk[w].turn > wk[w].snap.applied + 1
     \/ wk[w].turn = wk[w].snap.applied + 1 /\ ~wk[w].fresh
  /\ ~wk[w].canceled
  /\ LET i        == wk[w].turn
         t        == turns[i]
         reloaded == [Holding(wk[w], "apply", run) EXCEPT !.tries = @ + 1]
         lost     == i = wk[w].snap.applied + 1 /\ wk[w].snap.owner \notin {NoWorker, w}
         givesUp  == \/ run.status # "running" \/ run.owner \notin {NoWorker, w}
                     \/ reloaded.tries = ApplyTries
         refused  == t.status = "canceled" /\ ~wk[w].reconciled
     IN  IF lost \/ (i > run.applied /\ givesUp /\ refused)
         THEN Abandon(w)
         ELSE wk' = [wk EXCEPT ![w] =
                       IF i <= run.applied \/ givesUp
                       THEN Return(w, run.status, TRUE, t.wants) ELSE reloaded]
  /\ UNCHANGED <<run, turns, stalls, crashes>>

-----------------------------------------------------------------------------
(* executeClaim, after an Advance.                                         *)

\* The slice is spent: requeue the Run, under the revision Advance returned.
YieldOrStay(w) ==
  /\ wk[w].pc = "yield"
  /\ wk[w].fresh /\ HoldsRun(w)
  /\ CommitAndLeave(w, Transition(run, "queued", "none"))
  /\ UNCHANGED <<turns, stalls, crashes>>

Yield(w) ==
  /\ wk[w].pc = "yield"
  /\ IF wk[w].fresh /\ HoldsRun(w)
     THEN CommitAndLeave(w, Transition(run, "queued", "none"))
     ELSE Abandon(w) /\ UNCHANGED run
  /\ UNCHANGED <<turns, stalls, crashes>>

\* Propose reads the Run for itself: it must be Running and not leased to another.
Propose(w) ==
  /\ wk[w].pc = "propose"
  /\ run.status = "running"
  /\ run.owner = NoWorker \/ HoldsRun(w)
  /\ ReadRun(w, "proposing")
  /\ UNCHANGED <<run, turns, stalls, crashes>>

\* The proposal is recorded with the Run's move, under the revision Propose read:
\* to wait for the action or its approval, or, denied, to the queue or to a pause.
RecordProposal(w) ==
  /\ wk[w].pc = "proposing"
  /\ IF wk[w].fresh
     THEN \E to \in ProposalStatuses :
            CommitAndLeave(w, [Transition(run, to, IF to \in Waits THEN to ELSE "none")
                                 EXCEPT !.acted = TRUE, !.pausedFrom = "none",
                                        !.checkpoint.retries = 0])
     ELSE Abandon(w) /\ UNCHANGED run
  /\ UNCHANGED <<turns, stalls, crashes>>

\* The proposal is refused.  Under the Run copy Advance returned, the Run is
\* requeued for the model to correct or to explain, or it fails.
FailProposal(w) ==
  /\ wk[w].pc = "propose"
  /\ IF wk[w].fresh /\ HoldsRun(w)
     THEN \/ CommitAndLeave(w, [Transition(run, "queued", "none")
                                  EXCEPT !.checkpoint.retries = 0])
          \/ \E to \in {"queued", "failed"} :
               CommitAndLeave(w, [Transition(run, to, "none")
                                    EXCEPT !.checkpoint = Explaining(@)])
     ELSE Abandon(w) /\ UNCHANGED run
  /\ UNCHANGED <<turns, stalls, crashes>>

-----------------------------------------------------------------------------
(* Operator commands, each under the revision the operator saw.            *)

Pause ==
  /\ run.status \notin Terminal \union {"paused"}
  /\ CommitByOther(Transition(run, "paused", "none"))
  /\ UNCHANGED <<turns, stalls, crashes>>

ResumedAsItWas(r) == IF r.pausedFrom = "none" THEN "queued" ELSE r.pausedFrom
Resumed(r)        == IF r.pausedFrom \in Waits THEN r.pausedFrom ELSE "queued"

Resume ==
  /\ run.status = "paused"
  /\ LET to == Resumed(run)
     IN  /\ to \in Waits => run.pausedWake # "none"
         /\ CommitByOther(Transition(run, to, IF to \in Waits THEN run.pausedWake ELSE "none"))
  /\ UNCHANGED <<turns, stalls, crashes>>

Cancel ==
  /\ run.status \notin Terminal
  /\ CommitByOther(Transition(run, "canceled", "none"))
  /\ UNCHANGED <<turns, stalls, crashes>>

\* Guidance is recorded whatever the Run is doing and wakes a sleeping one.
Intervene ==
  /\ run.status \notin Terminal
  /\ run.guidance < MaxGuidance
  /\ LET to == IF run.status = "sleeping" THEN "queued" ELSE run.status
         wake == IF run.status = "sleeping" THEN "none" ELSE run.wake
     IN  CommitByOther([Transition(run, to, wake) EXCEPT !.guidance = @ + 1])
  /\ UNCHANGED <<turns, stalls, crashes>>

\* A failed reply is requeued if nothing of it has to be recovered first.
Retry ==
  /\ run.status = "failed"
  /\ run.checkpoint.explain # "given"
  /\ ~run.acted
  /\ Cardinality(Created) <= run.applied
  /\ CommitByOther([run EXCEPT !.status = "queued", !.owner = NoWorker, !.live = FALSE,
                               !.due = TRUE, !.checkpoint.explain = "none"])
  /\ UNCHANGED <<turns, stalls, crashes>>

-----------------------------------------------------------------------------
(* What a Run waits for.                                                   *)

\* A timer or a signal requeues a waiting Run, and so does an event or an answer.
Wake ==
  /\ run.status \in Waits
  /\ CommitByOther(Transition(run, "queued", "none"))
  /\ UNCHANGED <<turns, stalls, crashes>>

\* Where else a wait leads: an approved call is waited for, an accepted request too or
\* it takes the work over, and the result of a call or request may need a person, end a
\* handoff, or be a failure nothing can correct.
Leads(s) == CASE s = "waiting_for_approval"   -> {"queued", "waiting_for_dependency"}
              [] s = "waiting_for_agent"      -> {"waiting_for_dependency", "completed"}
              [] s = "waiting_for_dependency" -> {"queued", "waiting_for_event",
                                                  "completed", "failed"}
              [] OTHER                        -> {}

\* The same for a paused Run, which an approval is not given to and which neither a
\* request nor a failure ends.
LeadsPaused(s) == CASE s = "waiting_for_approval"   -> {"queued"}
                    [] s = "waiting_for_dependency" -> {"queued", "waiting_for_event"}
                    [] OTHER                        -> {}

WakeFor(to) == IF to \in Waits THEN to ELSE "none"

\* A denied, failed or canceled outcome leaves a failure to explain.
Owing(c) == [c EXCEPT !.explain = IF @ = "none" THEN "owed" ELSE @]
Outcome(c, to) == CASE to = "queued" -> {c, Owing(c)}
                    [] to = "failed" -> {Owing(c)}
                    [] OTHER         -> {c}

\* The Run as the services write it, past TransitionRun.
Taken(to, c, child) ==
  [Transition(run, to, WakeFor(to)) EXCEPT !.checkpoint = c, !.acted = @ \/ child]

\* The approval, the call, the request or the group is through, and writes the Run
\* itself.  An accepted request has a child.
Settle ==
  /\ run.status \in Waits
  /\ \E to \in Leads(run.status) : \E c \in Outcome(run.checkpoint, to) :
       CommitByOther(Taken(to, c, to \in {"waiting_for_dependency", "completed"}))
  /\ UNCHANGED <<turns, stalls, crashes>>

\* A pause is not lifted by it: what changes is what the Run will be resumed to.
SettlePaused ==
  /\ run.status = "paused" /\ run.pausedFrom \in Waits
  /\ \E to \in LeadsPaused(run.pausedFrom) : \E c \in Outcome(run.checkpoint, to) :
       CommitByOther([run EXCEPT !.pausedFrom = to, !.pausedWake = WakeFor(to), !.checkpoint = c])
  /\ UNCHANGED <<turns, stalls, crashes>>

\* Somebody asks an agent for the Run, or makes it depend on others, whatever its worker
\* is doing.  Only a decision by a person needs no child.
Engage ==
  /\ run.status \in {"queued", "running"} /\ run.wake = "none"
  /\ \E to \in Engagements, child \in BOOLEAN :
       /\ to # "waiting_for_agent" => child
       /\ CommitByOther(Taken(to, run.checkpoint, child))
  /\ UNCHANGED <<turns, stalls, crashes>>

-----------------------------------------------------------------------------
(* Time and failure.                                                       *)

\* AvailableAt passes: no write, the scheduler merely finds the Run due.
BackoffElapses ==
  /\ run.status = "queued" /\ ~run.due
  /\ run' = [run EXCEPT !.due = TRUE]
  /\ UNCHANGED <<turns, wk, stalls, crashes>>

\* A lease that lapses while its owner is still at work has not been renewed in time
\* (the process was suspended, or the store did not answer): these are bounded.  The
\* lease of a worker that is gone, or done with its claim, simply runs out.
Working(w)   == wk[w].pc # "idle"
OnTurn(w, i) == wk[w].pc \in Advancing /\ wk[w].turn = i

Stall == stalls < MaxStalls /\ stalls' = stalls + 1

RunLeaseLapses ==
  /\ Leased
  /\ IF Working(run.owner) THEN Stall ELSE UNCHANGED stalls
  /\ run' = [run EXCEPT !.live = FALSE]
  /\ UNCHANGED <<turns, wk, crashes>>

TurnLeaseLapses ==
  /\ \E i \in RunningTurns :
       /\ turns[i].live
       /\ IF OnTurn(turns[i].owner, i) THEN Stall ELSE UNCHANGED stalls
       /\ turns' = [turns EXCEPT ![i].live = FALSE]
  /\ UNCHANGED <<run, wk, crashes>>

\* The process dies: what was in memory is gone, what was committed is not.
Crash(w) ==
  /\ wk[w].pc # "idle"
  /\ crashes < MaxCrashes
  /\ crashes' = crashes + 1
  /\ Abandon(w)
  /\ UNCHANGED <<run, turns, stalls>>

-----------------------------------------------------------------------------

Advance(w) ==
  \/ AdvanceRead(w) \/ StartQueued(w) \/ FindPendingTurn(w) \/ BeginTurn(w) \/ CreateTurn(w) \/ ClaimTurn(w)
  \/ ReserveBudget(w) \/ StartRunner(w) \/ RunnerReturns(w) \/ TurnHeartbeatFails(w)
  \/ CanceledCall(w) \/ Refresh(w) \/ FinishTurn(w)
  \/ ApplyTurn(w) \/ PublishFails(w) \/ RetryApply(w)

ExecuteClaim(w) ==
  \/ ResolveRunner(w) \/ ResolverFails(w) \/ FailResolution(w) \/ RunHeartbeatFails(w)
  \/ Advance(w)
  \/ Yield(w) \/ Propose(w) \/ RecordProposal(w) \/ FailProposal(w)

ClaimNext(w) == Claim(w) \/ ClaimAtAttemptLimit(w)

Operator == Pause \/ Resume \/ Cancel \/ Intervene \/ Retry
Service  == Wake \/ Settle \/ SettlePaused \/ Engage
Time     == BackoffElapses \/ RunLeaseLapses \/ TurnLeaseLapses

Next ==
  \/ \E w \in Workers : ClaimNext(w) \/ ExecuteClaim(w) \/ RunHeartbeat(w) \/ Crash(w)
  \/ Operator
  \/ Service
  \/ Time

Spec == Init /\ [][Next]_vars

-----------------------------------------------------------------------------
(* Properties.                                                             *)

\* Turns are created one after another, at most the last one runs, and a Turn is
\* applied only when it and all Turns before it have ended.
TurnSequence ==
  /\ Created = 1 .. Cardinality(Created)
  /\ \A i \in RunningTurns : i = Cardinality(Created)
  /\ \A i \in 1 .. run.applied : turns[i].status \in Ended

\* Once a Turn has ended nothing changes its durable result: not a runner that
\* comes back late, nor a worker whose Turn another one took over and finished.
ResultsAreDurable ==
  [][\A i \in Seqs : turns[i].status \in Ended => turns'[i] = turns[i]]_vars

\* A Turn is applied once, in order, to a Running Run; and if the Run is leased,
\* by the worker holding the lease while it has not lapsed.
AppliedUnderAuthority ==
  [][run'.applied # run.applied =>
       /\ run'.applied = run.applied + 1
       /\ run.status = "running"
       /\ \E w \in Workers : /\ wk[w].pc = "apply" /\ wk[w].turn = run'.applied
                             /\ run.owner = NoWorker \/ HoldsRun(w)]_vars

\* The result of a completed Turn is adopted (its checkpoint, next status or
\* requested action) only if its runner saw all guidance the Run has by then.
GuidanceConsidered ==
  [][/\ run'.applied # run.applied
     /\ turns[run'.applied].status = "completed"
     /\ turns[run'.applied].checkpoint.explain = "none"
     /\ turns[run'.applied].seen # run.guidance
     => /\ run'.checkpoint = run.checkpoint
        /\ run'.status \in {"running", "paused"}
        /\ \A w \in Workers : wk[w].pc = "apply" => wk'[w].pc # "propose"]_vars

\* A Run that is not Running is leased to nobody.
LeaseOnlyWhenRunning == run.status # "running" => run.owner = NoWorker

\* A waiting Run has its own wake condition, and a pause during the wait is lifted
\* only by a cancel or by going back to that wait with that condition, whatever
\* guidance the paused Run gets meanwhile.  If what it waits for is through first, it
\* stays paused and goes back to what comes next.
WaitSurvivesPause ==
  [][/\ run'.status \in Waits => run'.wake = run'.status
     /\ run.pausedFrom \in Waits =>
          \/ run'.status = "paused" /\ run'.pausedFrom = run.pausedFrom
                                   /\ run'.pausedWake = run.pausedWake
          \/ run'.status = "paused" /\ run'.pausedFrom \in LeadsPaused(run.pausedFrom)
                                   /\ run'.pausedWake = WakeFor(run'.pausedFrom)
                                   /\ run'.guidance = run.guidance
          \/ run'.status = run.pausedFrom /\ run'.wake = run.pausedWake
          \/ run'.status = "canceled"]_vars

\* A Run that owes the user an explanation of a failure never ends completed.
FailureNeverCompletes ==
  [][run.checkpoint.explain # "none" => run'.status # "completed"]_vars

\* Neither the Turns charged nor those with reserved capacity exceed the budget,
\* and a Turn is charged once, when it is applied.
TurnBudgetHeld ==
  /\ TurnLimit > 0 => run.charged + Cardinality(run.reserved) <= TurnLimit
  /\ Budgeted => run.charged = Cardinality({i \in 1 .. run.applied : turns[i].status # "canceled"})
  /\ \A i \in run.reserved : i > run.applied /\ i \in Created

\* A runner invoked for the worker that holds the Run has capacity reserved.
InvocationReserved ==
  Budgeted => \A w \in Workers :
                wk[w].pc = "executing" /\ run.status = "running" /\ HoldsRun(w)
                => wk[w].turn \in run.reserved

\* The contract a Run keeps towards its users and the scheduler.
Lifecycle == INSTANCE RunLifecycle
               WITH status <- run.status, saved <- run.pausedFrom,
                    holder <- run.owner, live <- run.live, applied <- run.applied

\* Every write the code makes to a Run is a step of that contract.
ImplementsLifecycle == Lifecycle!Spec

-----------------------------------------------------------------------------
(* What the documentation and the comments say and the code does not keep.  *)

\* "another worker resumes from the durable checkpoint": the checkpoint that a leased
\* Run adopts was computed by a runner that was given the Run's current one.
CheckpointContinues ==
  [][/\ run'.applied # run.applied /\ run.owner # NoWorker
     /\ turns[run'.applied].status = "completed"
     => turns[run'.applied].base = run.applied]_vars

\* "A completed but unapplied turn whose input interventions are stale cannot [...]
\* request old actions": neither is its proposal recorded.
NoStaleAction ==
  [][\A w \in Workers :
       wk[w].pc = "proposing" /\ wk'[w].pc = "idle" /\ run' # run
       => wk[w].turn <= run.applied \/ turns[wk[w].turn].seen = run.guidance]_vars

-----------------------------------------------------------------------------
(* Liveness.                                                               *)

\* Workers take their steps, runners return, the dispatcher offers claimable
\* Runs, lapsed leases are noticed and backoffs end.  A conflict with a heartbeat
\* or an operator does not recur for ever: strong fairness of the writes.
Fairness ==
  /\ \A w \in Workers :
       /\ WF_vars(ExecuteClaim(w))
       /\ WF_vars(ClaimNext(w))
       /\ SF_vars(ApplyTurn(w))
  /\ WF_vars(BackoffElapses)
  /\ WF_vars(RunLeaseLapses /\ UNCHANGED stalls)
  /\ WF_vars(TurnLeaseLapses /\ UNCHANGED stalls)

FairSpec == Spec /\ Fairness

Unapplied == {i \in Seqs : turns[i].status \in Ended /\ i > run.applied}
Active    == run.status \in {"queued", "running"}

\* A finished Turn is applied unless the Run stops: also after a crash between
\* finishing the Turn and applying it.
FinishedTurnSettles == \A i \in Seqs : i \in Unapplied ~> i \notin Unapplied \/ ~Active

\* A Run that is queued or running gets a Turn applied or leaves these states.
RunProgresses == \A n \in 0 .. MaxTurns - 1 :
                   Active /\ run.applied = n ~> ~Active \/ run.applied > n

\* Every claim comes to an end.
WorkersReturn == \A w \in Workers : wk[w].pc # "idle" ~> wk[w].pc = "idle"

=============================================================================
