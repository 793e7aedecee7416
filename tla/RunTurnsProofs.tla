--------------------------- MODULE RunTurnsProofs ---------------------------
(***************************************************************************)
(* Theorems about RunTurns for any number of workers and Turns, any budget *)
(* and any runner.                                                         *)
(*                                                                         *)
(* Everything rests on one inductive invariant, Inv.  It speaks about the  *)
(* Run, about the Turns, and about each worker against the two, so that a  *)
(* step is checked in three parts: what it does to the Run, what it does   *)
(* to the Turns, and where it leaves the worker that takes it.  The other  *)
(* workers are covered once and for all by the lemmas LocalStep,           *)
(* CommitStep and CommitByOtherStep.  The last section is the refinement   *)
(* of RunLifecycle.                                                        *)
(***************************************************************************)
EXTENDS RunTurns, FiniteSetTheorems, TLAPS

\* The phases in which a worker is at work on a Turn.
WithTurn == {"claimTurn", "reserve", "record", "executing", "refresh", "finish",
             "apply", "propose", "proposing"}

\* The Run by itself: it is charged for Turns that were applied only, it is leased
\* only while Running, and it knows what it waits for.
RunInv(r) ==
  /\ r \in Runs
  /\ r.charged <= r.applied
  /\ r.status # "running" => r.owner = NoWorker
  /\ r.live => r.owner # NoWorker
  /\ r.status \in Waits => r.wake = r.status
  /\ r.status \notin Waits => r.wake = "none"
  /\ r.pausedFrom # "none" => r.status = "paused"
  /\ r.pausedFrom \in Waits => r.pausedWake = r.pausedFrom

\* The Turns: an ended one has a result to apply and belongs to nobody.
TurnInv(t) ==
  /\ t \in Turns
  /\ t.status \in Ended => t.next \in RunStatus
  /\ t.status # "running" => t.owner = NoWorker

\* The status of the Run that a phase was entered with.
StatusFits(pc, r) ==
  /\ pc = "start" => r.status = "queued"
  /\ pc \in Copying \union {"proposing"} => r.status = "running"

\* A worker, against the Run r and the Turns ts: the Turn it would apply has ended, a
\* copy that is not out of date shows the Run, and the Run then has the status that
\* brought the worker where it is.
WorkerInv(ws, r, ts) ==
  /\ ws \in WorkerStates
  /\ ws.pc \in WithTurn => ws.turn \in Seqs
  /\ ws.pc \in Advancing => ws.slice # 0
  /\ ws.out.kind = "ok" => ws.out.next \in RunStatus
  /\ ws.pc = "apply" => ts[ws.turn].status \in Ended
  /\ ws.fresh /\ ws.pc \in Copying => ws.snap = Copy(r)
  /\ ws.fresh => StatusFits(ws.pc, r)


\* The Turns together: they are created one after another and only the last runs.
CreatedIn(ts) == {i \in Seqs : ts[i].status # "absent"}

TurnsInv(ts) ==
  /\ ts \in [Seqs -> Turns]
  /\ \A i \in Seqs : TurnInv(ts[i])
  /\ CreatedIn(ts) = 1 .. Cardinality(CreatedIn(ts))
  /\ \A i \in Seqs : ts[i].status = "running" => i = Cardinality(CreatedIn(ts))

Inv ==
  /\ RunInv(run)
  /\ TurnsInv(turns)
  /\ wk \in [Workers -> WorkerStates]
  /\ \A w \in Workers : WorkerInv(wk[w], run, turns)
  /\ stalls \in 0 .. MaxStalls
  /\ crashes \in 0 .. MaxCrashes

\* What every action but ApplyTurn does: it keeps the invariant, leaves the Turns
\* that have ended as they are, and applies none.
Durable  == \A i \in Seqs : turns[i].status \in Ended => turns'[i] = turns[i]
SafeStep == Inv' /\ Durable /\ run'.applied = run.applied

-----------------------------------------------------------------------------
(* The records the actions build.                                          *)

\* What a pause remembers (TransitionRun's PausedFrom and PausedWakeCondition) is a
\* status and a wait, or nothing.
LEMMA RememberedType ==
  ASSUME NEW r \in Runs, NEW to \in RunStatus
  PROVE  /\ Remembered(r, to)[1] \in RunStatus \union {"none"}
         /\ Remembered(r, to)[2] \in Waits \union {"none"}
BY DEF Remembered, Runs

\* TransitionRun yields a well-formed Run and changes the fields it is meant to.
LEMMA TransitionFields ==
  ASSUME NEW r \in Runs, NEW to \in RunStatus, NEW wake \in Waits \union {"none"}
  PROVE  LET n == Transition(r, to, wake)
         IN  /\ n \in Runs
             /\ n.status = to
             /\ n.wake = IF to \in Terminal \union {"paused"} THEN "none" ELSE wake
             /\ n.pausedFrom = Remembered(r, to)[1]
             /\ n.pausedWake = Remembered(r, to)[2]
             /\ n.owner = IF KeepsLease(to) THEN r.owner ELSE NoWorker
             /\ n.live = (KeepsLease(to) /\ r.live)
             /\ n.guidance = r.guidance /\ n.applied = r.applied
             /\ n.checkpoint = r.checkpoint /\ n.acted = r.acted
             /\ n.attempts = r.attempts /\ n.charged = r.charged
             /\ n.reserved = r.reserved
<1> DEFINE from == Remembered(r, to)[1]
           what == Remembered(r, to)[2]
<1>1. from \in RunStatus \union {"none"} /\ what \in Waits \union {"none"}
  BY RememberedType
<1>2. KeepsLease(to) \in BOOLEAN
  BY DEF KeepsLease
<1> HIDE DEF from, what
<1>3. Transition(r, to, wake) =
        [r EXCEPT !.status = to,
                  !.wake = IF to \in Terminal \union {"paused"} THEN "none" ELSE wake,
                  !.pausedFrom = from,
                  !.pausedWake = what,
                  !.owner = IF KeepsLease(to) THEN @ ELSE NoWorker,
                  !.live = KeepsLease(to) /\ @,
                  !.due = IF to = "queued" THEN TRUE ELSE @]
  BY DEF Transition, from, what
<1>4. Transition(r, to, wake) \in Runs
  BY <1>1, <1>2, <1>3, ZenonT(40) DEF Runs
<1> DEFINE n == Transition(r, to, wake)
<1> HIDE DEF n
<1>5. n = [r EXCEPT !.status = to,
                    !.wake = IF to \in Terminal \union {"paused"} THEN "none" ELSE wake,
                    !.pausedFrom = from,
                    !.pausedWake = what,
                    !.owner = IF KeepsLease(to) THEN @ ELSE NoWorker,
                    !.live = KeepsLease(to) /\ @,
                    !.due = IF to = "queued" THEN TRUE ELSE @]
  BY <1>3 DEF n
<1>6. /\ n.status = to
      /\ n.wake = IF to \in Terminal \union {"paused"} THEN "none" ELSE wake
      /\ n.pausedFrom = from
      /\ n.pausedWake = what
      /\ n.owner = IF KeepsLease(to) THEN r.owner ELSE NoWorker
      /\ n.live = (KeepsLease(to) /\ r.live)
      /\ n.guidance = r.guidance /\ n.applied = r.applied
      /\ n.checkpoint = r.checkpoint /\ n.acted = r.acted
      /\ n.attempts = r.attempts /\ n.charged = r.charged
      /\ n.reserved = r.reserved
  BY <1>5 DEF Runs
<1>7. QED
  BY <1>4, <1>6 DEF n, from, what

\* TransitionRun keeps what the Run has to keep by itself, if a wait comes with its
\* wake condition and nothing else does.
LEMMA TransitionKeepsRunInv ==
  ASSUME NEW r, RunInv(r), NEW to \in RunStatus, NEW wake,
         wake = IF to \in Waits THEN to ELSE "none"
  PROVE  RunInv(Transition(r, to, wake)) /\ Transition(r, to, wake).applied = r.applied
<1> DEFINE n == Transition(r, to, wake)
<1>1. wake \in Waits \union {"none"} /\ r \in Runs
  BY DEF RunInv
<1>2. /\ n \in Runs
      /\ n.status = to
      /\ n.wake = IF to \in Terminal \union {"paused"} THEN "none" ELSE wake
      /\ n.pausedFrom = Remembered(r, to)[1]
      /\ n.pausedWake = Remembered(r, to)[2]
      /\ n.owner = IF KeepsLease(to) THEN r.owner ELSE NoWorker
      /\ n.live = (KeepsLease(to) /\ r.live)
      /\ n.charged = r.charged /\ n.applied = r.applied
  BY <1>1, TransitionFields
<1> HIDE DEF n
<1>3. n.pausedFrom # "none" => n.status = "paused"
  BY <1>2 DEF Remembered
<1>4. n.pausedFrom \in Waits => n.pausedWake = n.pausedFrom
  BY <1>2 DEF Remembered, RunInv, Waits, Timed, Held
<1>5. /\ n.status # "running" => n.owner = NoWorker
      /\ n.live => n.owner # NoWorker
  BY <1>2 DEF KeepsLease, RunInv
<1>6. /\ n.status \in Waits => n.wake = n.status
      /\ n.status \notin Waits => n.wake = "none"
  BY <1>2 DEF Waits, Timed, Held, Terminal
<1>7. n.charged <= n.applied
  BY <1>2 DEF RunInv
<1>8. QED
  BY <1>2, <1>3, <1>4, <1>5, <1>6, <1>7 DEF RunInv, n

LEMMA CopyType ==
  ASSUME NEW r \in Runs
  PROVE  Copy(r) \in Copies
BY DEF Copy, Runs, Copies

LEMMA IdleType ==
  /\ NoCopy \in Copies
  /\ NoOutcome \in Outcomes
  /\ Idle \in WorkerStates
<1>1. NoCopy \in Copies
  BY RunTurnsAssumption DEF NoCopy, Copy, Copies, InitRun, EmptyCheckpoint, Checkpoints
<1>2. NoOutcome \in Outcomes
  BY DEF NoOutcome, Outcomes
<1>3. QED
  BY <1>1, <1>2, RunTurnsAssumption DEF Idle, WorkerStates, Phases

LEMMA NoTurnType == EmptyCheckpoint \in Checkpoints /\ NoTurn \in Turns
<1>1. 0 \in 0 .. MaxGuidance /\ 0 \in 0 .. MaxTurns /\ 0 \in 0 .. HostRetries
  BY RunTurnsAssumption
<1>2. EmptyCheckpoint \in Checkpoints
  BY <1>1 DEF EmptyCheckpoint, Checkpoints
<1>3. QED
  BY <1>1, <1>2 DEF NoTurn, Turns

\* A worker that abandons its claim owes nothing to the Run or its Turns.
LEMMA IdleInv == ASSUME NEW r, NEW ts PROVE WorkerInv(Idle, r, ts)
BY IdleType DEF WorkerInv, Idle, WithTurn, Advancing, NoOutcome, Copying

\* A worker that enters a phase with the Run just read or written.
LEMMA HoldingInv ==
  ASSUME NEW ws \in WorkerStates, NEW pc \in Phases, NEW r \in Runs, NEW ts,
         StatusFits(pc, r),
         pc \in WithTurn => ws.turn \in Seqs,
         pc \in Advancing => ws.slice # 0,
         ws.out.kind = "ok" => ws.out.next \in RunStatus,
         pc = "apply" => ts[ws.turn].status \in Ended
  PROVE  WorkerInv(Holding(ws, pc, r), r, ts)
<1> DEFINE snap == IF pc \in Copying THEN Copy(r) ELSE NoCopy
           n == Holding(ws, pc, r)
<1>1. snap \in Copies
  BY CopyType, IdleType
<1>2. pc \in Copying => snap = Copy(r)
  OBVIOUS
<1> HIDE DEF snap
<1>3. n = [ws EXCEPT !.pc = pc, !.fresh = TRUE, !.snap = snap]
  BY DEF Holding, snap
<1> HIDE DEF n
<1>4. n \in WorkerStates /\ n.pc = pc /\ n.turn = ws.turn /\ n.slice = ws.slice
      /\ n.out = ws.out /\ n.snap = snap
  BY <1>1, <1>3 DEF WorkerStates
<1>5. QED
  BY <1>2, <1>4 DEF WorkerInv, n

\* A worker that is back from an Advance: it abandons the claim, advances again,
\* yields, or proposes an action of its Turn.
LEMMA ReturnInv ==
  ASSUME Inv, NEW w \in Workers, wk[w].pc \in Advancing, wk[w].turn \in Seqs,
         NEW status \in RunStatus, NEW fresh \in BOOLEAN, NEW proposal \in BOOLEAN,
         NEW r, NEW ts
  PROVE  WorkerInv(Return(w, status, fresh, proposal), r, ts)
<1> DEFINE left == wk[w].slice - 1
           next == CASE proposal                                        -> "propose"
                     [] ~proposal /\ status # "running"                 -> "idle"
                     [] ~proposal /\ status = "running" /\ left > 0     -> "advance"
                     [] OTHER                                           -> "yield"
           turn  == IF next = "propose" THEN wk[w].turn ELSE 0
           slice == IF next = "advance" THEN left ELSE 0
           isNew == fresh /\ next \in {"propose", "yield"}
           n == Return(w, status, fresh, proposal)
<1>1. wk[w].slice \in 1 .. TurnsPerClaim
  BY RunTurnsAssumption DEF Inv, WorkerInv, WorkerStates
<1>2. left \in 0 .. TurnsPerClaim
  BY <1>1, RunTurnsAssumption
<1>3. next \in {"propose", "idle", "advance", "yield"} /\ (next = "advance" => left # 0)
  BY <1>2
<1>4. n = [Idle EXCEPT !.pc = next, !.turn = turn, !.fresh = isNew, !.slice = slice]
  BY DEF Return
<1>5. turn \in 0 .. MaxTurns /\ slice \in 0 .. TurnsPerClaim /\ isNew \in BOOLEAN
  BY <1>2, RunTurnsAssumption DEF Seqs
<1>6. (next = "propose" => turn \in Seqs) /\ (next = "advance" => slice # 0)
  BY <1>3
<1> HIDE DEF left, next, turn, slice, isNew, n
<1>7. next \in Phases
  BY <1>3 DEF Phases, Advancing
<1>8. n \in WorkerStates /\ n.pc = next /\ n.turn = turn /\ n.slice = slice
      /\ n.out = NoOutcome
  BY <1>4, <1>5, <1>7, IdleType DEF WorkerStates, Idle
<1>9. next \notin Copying \union {"start", "proposing"} /\ next # "apply"
  BY <1>3 DEF Copying
<1>10. next \in WithTurn => next = "propose"
  BY <1>3 DEF WithTurn
<1>11. next \in Advancing => next = "advance"
  BY <1>3 DEF Advancing
<1>12. NoOutcome.kind # "ok"
  BY DEF NoOutcome
<1>13. QED
  BY <1>6, <1>8, <1>9, <1>10, <1>11, <1>12 DEF WorkerInv, StatusFits, n

-----------------------------------------------------------------------------
(* What a step does to the workers that do not take it.                    *)

\* A worker whose copy is out of date is indifferent to what the Run becomes, and
\* every worker to Turns that end.
LEMMA OutdatedInv ==
  ASSUME NEW ws, NEW r, NEW ts, WorkerInv(ws, r, ts), NEW r2
  PROVE  WorkerInv([ws EXCEPT !.fresh = FALSE], r2, ts)
<1> DEFINE n == [ws EXCEPT !.fresh = FALSE]
<1>1. n \in WorkerStates /\ n.fresh = FALSE /\ n.pc = ws.pc /\ n.turn = ws.turn
      /\ n.slice = ws.slice /\ n.out = ws.out
  BY DEF WorkerInv, WorkerStates
<1> HIDE DEF n
<1>2. QED
  BY <1>1 DEF WorkerInv, n

LEMMA TurnsEndInv ==
  ASSUME NEW ws, NEW r, NEW ts, WorkerInv(ws, r, ts), NEW ts2,
         \A i \in Seqs : ts[i].status \in Ended => ts2[i].status \in Ended
  PROVE  WorkerInv(ws, r, ts2)
<1>1. ws.pc = "apply" => ws.turn \in Seqs
  BY DEF WorkerInv, WithTurn
<1>2. QED
  BY <1>1 DEF WorkerInv

\* A step of w that leaves the Run alone and may change Turns.
LEMMA LocalStep ==
  ASSUME Inv, NEW w \in Workers, NEW ws, wk' = [wk EXCEPT ![w] = ws], run' = run,
         UNCHANGED stalls, crashes' \in 0 .. MaxCrashes, TurnsInv(turns'),
         Durable, WorkerInv(ws, run, turns')
  PROVE  SafeStep
<1>1. ws \in WorkerStates
  BY DEF WorkerInv
<1>2. wk' \in [Workers -> WorkerStates]
  BY <1>1 DEF Inv
<1>3. ASSUME NEW v \in Workers PROVE WorkerInv(wk'[v], run', turns')
  <2>1. CASE v = w
    BY <2>1 DEF Inv
  <2>2. CASE v # w
    <3>1. wk'[v] = wk[v] /\ WorkerInv(wk[v], run, turns)
      BY <2>2 DEF Inv
    <3>2. QED
      BY <3>1, TurnsEndInv DEF Durable
  <2>3. QED
    BY <2>1, <2>2
<1>4. QED
  BY <1>2, <1>3 DEF Inv, SafeStep

\* A step of w that writes the Run.
LEMMA CommitStep ==
  ASSUME Inv, NEW w \in Workers, NEW ws, wk' = [Outdated EXCEPT ![w] = ws],
         RunInv(run'), UNCHANGED <<turns, stalls, crashes>>, WorkerInv(ws, run', turns)
  PROVE  Inv'
<1>1. \A v \in Workers : /\ Outdated[v] = [wk[v] EXCEPT !.fresh = FALSE]
                         /\ WorkerInv(Outdated[v], run', turns)
  BY OutdatedInv DEF Outdated, Inv
<1>2. Outdated \in [Workers -> WorkerStates]
  BY <1>1 DEF Outdated, WorkerInv
<1>3. ws \in WorkerStates
  BY DEF WorkerInv
<1>4. wk' \in [Workers -> WorkerStates] /\ \A v \in Workers : WorkerInv(wk'[v], run', turns)
  BY <1>1, <1>2, <1>3
<1>5. QED
  BY <1>4 DEF Inv

\* A step that writes the Run on behalf of nobody, or of a worker that then just
\* goes on.
LEMMA CommitByOtherStep ==
  ASSUME Inv, NEW r, CommitByOther(r), RunInv(r), r.applied = run.applied,
         UNCHANGED <<turns, stalls, crashes>>
  PROVE  SafeStep
<1>1. \A v \in Workers : /\ Outdated[v] = [wk[v] EXCEPT !.fresh = FALSE]
                         /\ WorkerInv(Outdated[v], r, turns)
  BY OutdatedInv DEF Outdated, Inv
<1>2. Outdated \in [Workers -> WorkerStates]
  BY <1>1 DEF Outdated, WorkerInv
<1>3. run' = r /\ wk' = Outdated
  BY DEF CommitByOther
<1>4. QED
  BY <1>1, <1>2, <1>3 DEF Inv, SafeStep, Durable

\* A step of w that changes nothing durable.
LEMMA MoveStep ==
  ASSUME Inv, NEW w \in Workers, NEW ws, wk' = [wk EXCEPT ![w] = ws],
         UNCHANGED <<run, turns, stalls, crashes>>, WorkerInv(ws, run, turns)
  PROVE  SafeStep
BY LocalStep DEF Inv, Durable

LEMMA AbandonStep ==
  ASSUME Inv, NEW w \in Workers, Abandon(w), UNCHANGED <<run, turns, stalls, crashes>>
  PROVE  SafeStep
BY MoveStep, IdleInv DEF Abandon

\* A step of w that writes the Run and ends w's claim.
LEMMA CommitAndLeaveStep ==
  ASSUME Inv, NEW w \in Workers, NEW r, CommitAndLeave(w, r), RunInv(r),
         r.applied = run.applied, UNCHANGED <<turns, stalls, crashes>>
  PROVE  SafeStep
BY CommitStep, IdleInv DEF CommitAndLeave, SafeStep, Durable

\* A step of w that reads the Run on the way to the next phase.
LEMMA ReadStep ==
  ASSUME Inv, NEW w \in Workers, NEW pc \in Phases, ReadRun(w, pc),
         UNCHANGED <<run, turns, stalls, crashes>>,
         StatusFits(pc, run),
         pc \in WithTurn => wk[w].turn \in Seqs,
         pc \in Advancing => wk[w].slice # 0,
         pc # "apply"
  PROVE  SafeStep
<1>1. /\ wk[w] \in WorkerStates /\ run \in Runs
      /\ wk[w].out.kind = "ok" => wk[w].out.next \in RunStatus
  BY DEF Inv, WorkerInv, RunInv
<1>2. WorkerInv(Holding(wk[w], pc, run), run, turns)
  BY <1>1, HoldingInv
<1>3. QED
  BY <1>2, MoveStep DEF ReadRun

\* A step of w to a phase for which it needs no more than it already has.
LEMMA GotoStep ==
  ASSUME Inv, NEW w \in Workers, NEW pc \in Phases, Goto(w, pc),
         UNCHANGED <<run, turns, stalls, crashes>>,
         pc \in WithTurn => wk[w].turn \in Seqs,
         pc \in Advancing => wk[w].slice # 0,
         pc \in Copying => wk[w].pc \in Copying, pc \notin {"start", "proposing"},
         pc = "apply" => turns[wk[w].turn].status \in Ended
  PROVE  SafeStep
<1> DEFINE ws == [wk[w] EXCEPT !.pc = pc]
<1>1. WorkerInv(wk[w], run, turns)
  BY DEF Inv
<1>2. ws \in WorkerStates /\ ws.pc = pc /\ ws.turn = wk[w].turn /\ ws.slice = wk[w].slice
      /\ ws.out = wk[w].out /\ ws.fresh = wk[w].fresh /\ ws.snap = wk[w].snap
  BY <1>1 DEF WorkerInv, WorkerStates
<1>3. wk' = [wk EXCEPT ![w] = ws]
  BY DEF Goto
<1> HIDE DEF ws
<1>4. WorkerInv(ws, run, turns)
  BY <1>1, <1>2 DEF WorkerInv, StatusFits
<1>5. QED
  BY <1>3, <1>4, MoveStep

-----------------------------------------------------------------------------
(* Claiming a Run and resolving its runner.                                *)

LEMMA ClaimInv ==
  ASSUME Inv, NEW w \in Workers, Claim(w)
  PROVE  SafeStep
<1> DEFINE ws == [Idle EXCEPT !.pc = "resolve"]
           n  == IF AttemptLimit > 0 THEN run.attempts + 1 ELSE run.attempts
           r  == [run EXCEPT !.status = "running", !.owner = w, !.live = TRUE,
                             !.attempts = n]
<1>1. run' = r /\ wk' = [Outdated EXCEPT ![w] = ws] /\ UNCHANGED <<turns, stalls, crashes>>
  BY DEF Claim, CommitRun
<1>2. RunInv(run) /\ run \in Runs /\ w # NoWorker
  BY RunTurnsAssumption DEF Inv, RunInv
<1>3. run.status \in {"running", "queued"}
  BY DEF Claim, Claimable
<1>4. n \in 0 .. AttemptLimit
  BY <1>2, RunTurnsAssumption DEF Claim, AtAttemptLimit, Runs
<1>5. "running" \in RunStatus /\ "running" \notin Waits
  BY DEF RunStatus, Waits, Timed, Held
<1>6. run.pausedFrom = "none" /\ run.wake = "none"
  BY <1>2, <1>3 DEF RunInv, Waits, Timed, Held
<1> HIDE DEF n
<1>7. /\ r \in Runs /\ r.status = "running" /\ r.owner = w
      /\ r.charged = run.charged /\ r.applied = run.applied
      /\ r.wake = "none" /\ r.pausedFrom = "none"
  BY <1>2, <1>4, <1>5, <1>6 DEF Runs
<1> HIDE DEF r
<1>8. RunInv(r)
  BY <1>2, <1>5, <1>7 DEF RunInv, Waits, Timed, Held
<1>9. WorkerInv(ws, r, turns)
  <2>1. ws \in WorkerStates /\ ws.pc = "resolve" /\ ws.out = NoOutcome
    BY IdleType DEF WorkerStates, Idle, Phases
  <2> HIDE DEF ws
  <2>2. QED
    BY <2>1 DEF WorkerInv, WithTurn, Advancing, Copying, NoOutcome, StatusFits
<1>10. QED
  BY <1>1, <1>7, <1>8, <1>9, CommitStep DEF SafeStep, Durable

LEMMA ClaimAtAttemptLimitInv ==
  ASSUME Inv, NEW w \in Workers, ClaimAtAttemptLimit(w)
  PROVE  SafeStep
<1> DEFINE r == [run EXCEPT !.pausedFrom = run.status, !.status = "paused",
                            !.owner = NoWorker, !.live = FALSE]
<1>1. CommitAndLeave(w, r) /\ UNCHANGED <<turns, stalls, crashes>>
  BY DEF ClaimAtAttemptLimit
<1>2. RunInv(run) /\ run \in Runs /\ run.status \in {"running", "queued"}
  BY DEF Inv, RunInv, ClaimAtAttemptLimit, Claimable
<1>3. /\ r \in Runs /\ r.status = "paused" /\ r.owner = NoWorker /\ r.live = FALSE
      /\ r.charged = run.charged /\ r.applied = run.applied
      /\ r.wake = run.wake /\ r.pausedFrom = run.status
  BY <1>2 DEF Runs, RunStatus
<1> HIDE DEF r
<1>4. RunInv(r)
  BY <1>2, <1>3 DEF RunInv, Waits, Timed, Held
<1>5. QED
  BY <1>1, <1>3, <1>4, CommitAndLeaveStep

LEMMA ResolveRunnerInv ==
  ASSUME Inv, NEW w \in Workers, ResolveRunner(w)
  PROVE  SafeStep
<1> DEFINE ws == [wk[w] EXCEPT !.pc = "advance", !.slice = TurnsPerClaim]
<1>1. CASE run.status = "running" /\ run.owner = w
  <2>1. wk' = [wk EXCEPT ![w] = ws] /\ UNCHANGED <<run, turns, stalls, crashes>>
    BY <1>1 DEF ResolveRunner
  <2>2. WorkerInv(wk[w], run, turns)
    BY DEF Inv
  <2>3. "advance" \in Phases /\ TurnsPerClaim \in 0 .. TurnsPerClaim /\ TurnsPerClaim # 0
    BY RunTurnsAssumption DEF Phases, Advancing
  <2>4. ws \in WorkerStates /\ ws.pc = "advance" /\ ws.slice = TurnsPerClaim /\ ws.out = wk[w].out
    BY <2>2, <2>3 DEF WorkerInv, WorkerStates
  <2> HIDE DEF ws
  <2>5. WorkerInv(ws, run, turns)
    BY <2>2, <2>3, <2>4 DEF WorkerInv, WithTurn, Copying, StatusFits
  <2>6. QED
    BY <2>1, <2>5, MoveStep
<1>2. CASE ~(run.status = "running" /\ run.owner = w)
  BY <1>2, AbandonStep DEF ResolveRunner
<1>3. QED
  BY <1>1, <1>2

LEMMA ResolverFailsInv ==
  ASSUME Inv, NEW w \in Workers, ResolverFails(w)
  PROVE  SafeStep
BY ReadStep DEF ResolverFails, Phases, Copying, WithTurn, Advancing, StatusFits

LEMMA FailResolutionInv ==
  ASSUME Inv, NEW w \in Workers, FailResolution(w)
  PROVE  SafeStep
<1>1. /\ RunInv(Transition(run, "failed", "none"))
      /\ Transition(run, "failed", "none").applied = run.applied
  BY TransitionKeepsRunInv DEF Inv, RunStatus, Terminal, Waits, Timed, Held
<1>2. QED
  BY <1>1, CommitAndLeaveStep, AbandonStep DEF FailResolution

-----------------------------------------------------------------------------
(* What a step does to the Turns.                                          *)

LEMMA SeqsFinite == MaxTurns \in Nat /\ IsFiniteSet(Seqs) /\ Cardinality(Seqs) = MaxTurns
<1>1. MaxTurns \in Nat
  BY RunTurnsAssumption
<1>2. QED
  BY <1>1, FS_Interval DEF Seqs

\* The only Turn that can be written is a running one; whatever it becomes, the
\* others stay and no Turn comes or goes.
LEMMA TurnUpdate ==
  ASSUME Inv, NEW i \in Seqs, turns[i].status = "running",
         NEW t, TurnInv(t), t.status # "absent", turns' = [turns EXCEPT ![i] = t]
  PROVE  TurnsInv(turns') /\ Durable
<1>1. TurnsInv(turns) /\ t \in Turns
  BY DEF Inv, TurnInv
<1>2. turns' \in [Seqs -> Turns] /\ turns'[i] = t /\ \A j \in Seqs \ {i} : turns'[j] = turns[j]
  BY <1>1 DEF TurnsInv
<1>3. CreatedIn(turns') = CreatedIn(turns)
  BY <1>2 DEF CreatedIn
<1>4. \A j \in Seqs : TurnInv(turns'[j])
  BY <1>1, <1>2 DEF TurnsInv
<1>5. \A j \in Seqs : turns'[j].status = "running" => turns[j].status = "running"
  BY <1>2
<1>6. TurnsInv(turns')
  BY <1>1, <1>2, <1>3, <1>4, <1>5 DEF TurnsInv
<1>7. Durable
  BY <1>2 DEF Durable, Ended
<1>8. QED
  BY <1>6, <1>7

\* A finished Turn has a result.
LEMMA FinishedTurnInv ==
  ASSUME Inv, NEW w \in Workers, wk[w].turn \in Seqs, HoldsTurn(w),
         NEW status \in Ended, NEW next \in RunStatus, NEW wants \in BOOLEAN,
         NEW checkpoint \in Checkpoints,
         turns' = FinishedTurn(w, status, next, wants, checkpoint)
  PROVE  /\ TurnsInv(turns') /\ Durable
         /\ turns'[wk[w].turn].status \in Ended
<1> DEFINE i == wk[w].turn
           t == [turns[i] EXCEPT !.status = status, !.owner = NoWorker, !.live = FALSE,
                                 !.base = wk[w].base, !.next = next, !.wants = wants,
                                 !.checkpoint = checkpoint]
<1>1. turns \in [Seqs -> Turns] /\ wk[w].base \in 0 .. MaxTurns
  BY DEF Inv, TurnsInv, WorkerInv, WorkerStates
<1>2. turns' = [turns EXCEPT ![i] = t] /\ turns[i].status = "running"
  BY DEF FinishedTurn, HoldsTurn
<1>3. t \in Turns /\ t.status = status /\ t.next = next /\ t.owner = NoWorker
  BY <1>1, ZenonT(40) DEF Turns
<1> HIDE DEF t
<1>4. TurnInv(t) /\ t.status # "absent" /\ t.status \in Ended
  BY <1>3 DEF TurnInv, Ended
<1>5. turns'[i] = t
  BY <1>1, <1>2
<1>6. QED
  BY <1>2, <1>4, <1>5, TurnUpdate

-----------------------------------------------------------------------------
(* Advance: from reading the Run to invoking the runner.                   *)

LEMMA AdvanceReadInv ==
  ASSUME Inv, NEW w \in Workers, AdvanceRead(w)
  PROVE  SafeStep
<1>1. wk[w].slice # 0 /\ UNCHANGED <<run, turns, stalls, crashes>>
  BY DEF Inv, WorkerInv, AdvanceRead, Advancing
<1>2. CASE run.status = "running"
  <2>1. ReadRun(w, "pending")
    BY <1>2 DEF AdvanceRead
  <2>2. QED
    BY <1>1, <1>2, <2>1, ReadStep DEF Phases, Advancing, WithTurn, StatusFits
<1>3. CASE run.status = "queued"
  <2>1. ReadRun(w, "start")
    BY <1>3 DEF AdvanceRead
  <2>2. QED
    BY <1>1, <1>3, <2>1, ReadStep DEF Phases, Advancing, WithTurn, Copying, StatusFits
<1>4. CASE run.status \notin {"running", "queued"}
  BY <1>1, <1>4, AbandonStep DEF AdvanceRead
<1>5. QED
  BY <1>2, <1>3, <1>4

LEMMA StartQueuedInv ==
  ASSUME Inv, NEW w \in Workers, StartQueued(w)
  PROVE  SafeStep
<1> DEFINE r == Transition(run, "running", "none")
<1>1. RunInv(r) /\ r.applied = run.applied
  BY TransitionKeepsRunInv DEF Inv, RunStatus, Terminal, Waits, Timed, Held
<1>2. r \in Runs /\ r.status = "running"
  BY <1>1 DEF RunInv, Transition, Inv, Runs
<1> HIDE DEF r
<1>3. /\ wk[w] \in WorkerStates /\ wk[w].slice # 0
      /\ wk[w].out.kind = "ok" => wk[w].out.next \in RunStatus
  BY DEF Inv, WorkerInv, StartQueued, Advancing
<1>4. CASE wk[w].fresh
  <2>1. WorkerInv(Holding(wk[w], "pending", r), r, turns)
    BY <1>2, <1>3, HoldingInv DEF Phases, Advancing, WithTurn, StatusFits
  <2>2. run' = r /\ wk' = [Outdated EXCEPT ![w] = Holding(wk[w], "pending", r)]
        /\ UNCHANGED <<turns, stalls, crashes>>
    BY <1>4 DEF StartQueued, CommitRun, r
  <2>3. QED
    BY <1>1, <2>1, <2>2, CommitStep DEF SafeStep, Durable
<1>5. CASE ~wk[w].fresh
  BY <1>5, AbandonStep DEF StartQueued
<1>6. QED
  BY <1>4, <1>5

LEMMA FindPendingTurnInv ==
  ASSUME Inv, NEW w \in Workers, FindPendingTurn(w)
  PROVE  SafeStep
<1> DEFINE i    == wk[w].snap.applied + 1
           turn == IF i \in Created THEN i ELSE 0
           pc   == PendingPhase(i)
           rec  == pc = "apply"
           ws   == [wk[w] EXCEPT !.turn = turn, !.pc = pc, !.reconciled = rec]
<1>1. WorkerInv(wk[w], run, turns) /\ wk \in [Workers -> WorkerStates]
      /\ turns \in [Seqs -> Turns]
  BY DEF Inv, TurnsInv
<1>2. turn \in 0 .. MaxTurns /\ (i \in Created => turn \in Seqs)
  BY RunTurnsAssumption DEF Created, Seqs
<1>3. \/ pc = "begin"
      \/ i \in Created /\ pc = "claimTurn"
      \/ i \in Created /\ pc = "apply" /\ turns[i].status \notin {"absent", "running"}
  BY DEF PendingPhase, Created, RunningTurns
<1>4. pc = "apply" => turns[turn].status \in Ended
  BY <1>1, <1>3 DEF Turns, Created
<1>5. wk' = [wk EXCEPT ![w] = ws] /\ UNCHANGED <<run, turns, stalls, crashes>>
      /\ wk[w].pc = "pending"
  BY <1>1 DEF FindPendingTurn
<1>6. pc \in Phases /\ rec \in BOOLEAN
  BY <1>3 DEF Phases, Advancing
<1>7. (pc \in WithTurn => turn \in Seqs) /\ pc \in Copying \ {"start", "proposing"}
  BY <1>2, <1>3 DEF WithTurn, Copying
<1> HIDE DEF i, turn, pc, rec
<1>8. ws \in WorkerStates /\ ws.pc = pc /\ ws.turn = turn /\ ws.slice = wk[w].slice
      /\ ws.out = wk[w].out /\ ws.fresh = wk[w].fresh /\ ws.snap = wk[w].snap
  BY <1>1, <1>2, <1>6 DEF WorkerStates
<1> HIDE DEF ws
<1>9. WorkerInv(ws, run, turns)
  BY <1>1, <1>4, <1>5, <1>7, <1>8 DEF WorkerInv, Advancing, Copying, StatusFits
<1>10. QED
  BY <1>5, <1>9, MoveStep

LEMMA BeginTurnInv ==
  ASSUME Inv, NEW w \in Workers, BeginTurn(w)
  PROVE  SafeStep
<1>1. wk[w].pc = "begin" /\ wk[w].slice # 0
  BY DEF Inv, WorkerInv, BeginTurn, Advancing
<1>2. QED
  BY <1>1, GotoStep, AbandonStep DEF BeginTurn, Phases, Advancing, WithTurn, Copying

LEMMA ReservingPhase ==
  /\ Reserving \in Phases \cap WithTurn \cap Copying \cap Advancing
  /\ Reserving # "apply"
BY DEF Reserving, Phases, WithTurn, Copying, Advancing

LEMMA CreateTurnInv ==
  ASSUME Inv, NEW w \in Workers, CreateTurn(w)
  PROVE  SafeStep
<1> DEFINE n == Cardinality(Created)
           i == n + 1
<1>1. CASE NoActiveTurn /\ i \in Seqs
  <2> DEFINE t  == [NoTurn EXCEPT !.status = "running", !.owner = w, !.live = TRUE]
             ws == [wk[w] EXCEPT !.pc = Reserving, !.turn = i]
  <2>1. WorkerInv(wk[w], run, turns) /\ wk[w].pc = "create" /\ wk \in [Workers -> WorkerStates]
    BY DEF Inv, CreateTurn
  <2>2. turns' = [turns EXCEPT ![i] = t] /\ wk' = [wk EXCEPT ![w] = ws]
        /\ UNCHANGED <<run, stalls, crashes>>
    BY <1>1, <2>1 DEF CreateTurn
  <2>3. t \in Turns /\ t.status = "running"
    BY NoTurnType DEF Turns, NoTurn
  <2> HIDE DEF t
  <2>4. Created = 1 .. n /\ n \in Nat /\ Created = CreatedIn(turns) /\ TurnsInv(turns)
    <3>1. IsFiniteSet(Created)
      BY SeqsFinite, FS_Subset DEF Created
    <3>2. QED
      BY <3>1, FS_CardinalityType DEF Inv, TurnsInv, CreatedIn, Created
  <2> HIDE DEF n
  <2>5. \A j \in Seqs : turns'[j] = IF j = i THEN t ELSE turns[j]
    BY <2>2, <2>4 DEF TurnsInv
  <2>6. CreatedIn(turns') = 1 .. i
    <3>1. CreatedIn(turns') = Created \union {i}
      BY <1>1, <2>3, <2>5 DEF CreatedIn, Created
    <3>2. QED
      BY <2>4, <3>1
  <2>7. Cardinality(CreatedIn(turns')) = i
    BY <2>4, <2>6, FS_Interval
  <2>8. \A j \in Seqs : TurnInv(turns'[j])
    BY <2>3, <2>4, <2>5 DEF TurnsInv, TurnInv, Ended
  <2>9. \A j \in Seqs : turns'[j].status = "running" => j = i
    BY <1>1, <2>5 DEF NoActiveTurn, RunningTurns
  <2>10. turns' \in [Seqs -> Turns]
    BY <2>2, <2>3, <2>4 DEF TurnsInv
  <2>11. TurnsInv(turns')
    BY <2>6, <2>7, <2>8, <2>9, <2>10 DEF TurnsInv
  <2>12. Durable
    BY <2>4, <2>5 DEF Durable, Created, Ended
  <2>13. i \in 0 .. MaxTurns
    BY <1>1 DEF Seqs
  <2>14. ws \in WorkerStates /\ ws.pc = Reserving /\ ws.turn = i /\ ws.slice = wk[w].slice
         /\ ws.out = wk[w].out /\ ws.fresh = wk[w].fresh /\ ws.snap = wk[w].snap
    BY <2>1, <2>13, ReservingPhase DEF WorkerStates
  <2> HIDE DEF ws
  <2>15. WorkerInv(ws, run, turns')
    BY <1>1, <2>1, <2>14, ReservingPhase DEF WorkerInv, Advancing, Copying, StatusFits
  <2>16. QED
    BY <2>2, <2>11, <2>12, <2>15, LocalStep DEF Inv
<1>2. CASE ~(NoActiveTurn /\ i \in Seqs)
  BY <1>2, AbandonStep DEF CreateTurn
<1>3. QED
  BY <1>1, <1>2

LEMMA ClaimTurnInv ==
  ASSUME Inv, NEW w \in Workers, ClaimTurn(w)
  PROVE  SafeStep
<1> DEFINE i == wk[w].turn
<1>1. /\ WorkerInv(wk[w], run, turns) /\ wk[w].pc = "claimTurn"
      /\ wk \in [Workers -> WorkerStates]
      /\ i \in Seqs /\ turns \in [Seqs -> Turns]
  BY DEF Inv, ClaimTurn, WorkerInv, WithTurn, TurnsInv
<1>2. CASE TurnClaimable(w, turns[i])
  <2> DEFINE t  == [turns[i] EXCEPT !.owner = w, !.live = TRUE]
             ws == [wk[w] EXCEPT !.pc = Reserving, !.seen = turns[i].seen]
  <2>1. turns' = [turns EXCEPT ![i] = t] /\ wk' = [wk EXCEPT ![w] = ws]
        /\ UNCHANGED <<run, stalls, crashes>> /\ turns[i].status = "running"
    BY <1>1, <1>2 DEF ClaimTurn, TurnClaimable
  <2>2. t \in Turns /\ t.status = "running"
    BY <1>1, <2>1 DEF Turns
  <2>3. turns[i].seen \in 0 .. MaxGuidance
    BY <1>1 DEF Turns
  <2> HIDE DEF t
  <2>4. TurnsInv(turns') /\ Durable
    BY <1>1, <2>1, <2>2, TurnUpdate DEF TurnInv, Ended
  <2>5. ws \in WorkerStates /\ ws.pc = Reserving /\ ws.turn = i /\ ws.slice = wk[w].slice
        /\ ws.out = wk[w].out /\ ws.fresh = wk[w].fresh /\ ws.snap = wk[w].snap
    BY <1>1, <2>3, ReservingPhase DEF WorkerStates
  <2> HIDE DEF ws
  <2>6. WorkerInv(ws, run, turns')
    BY <1>1, <2>5, ReservingPhase DEF WorkerInv, Advancing, Copying, StatusFits
  <2>7. QED
    BY <2>1, <2>4, <2>6, LocalStep DEF Inv
<1>3. CASE ~TurnClaimable(w, turns[i])
  BY <1>3, AbandonStep DEF ClaimTurn
<1>4. QED
  BY <1>2, <1>3

LEMMA ReserveBudgetInv ==
  ASSUME Inv, NEW w \in Workers, ReserveBudget(w)
  PROVE  SafeStep
<1> DEFINE i == wk[w].turn
           n == wk[w].snap.charged + Cardinality(OtherReservations(w)) + 1
<1>1. /\ WorkerInv(wk[w], run, turns) /\ wk[w].pc = "reserve"
      /\ wk \in [Workers -> WorkerStates] /\ RunInv(run)
      /\ i \in Seqs /\ wk[w].slice # 0 /\ UNCHANGED <<stalls, crashes>>
  BY DEF Inv, ReserveBudget, WorkerInv, WithTurn, Advancing
<1>2. CASE i \in wk[w].snap.reserved
  BY <1>1, <1>2, GotoStep DEF ReserveBudget, Phases, Advancing, Copying
<1>3. CASE i \notin wk[w].snap.reserved /\ WouldExceed(n)
  <2>1. CASE HoldsTurn(w)
    <3> DEFINE ws == [wk[w] EXCEPT !.pc = "apply"]
    <3>1. turns' = FinishedTurn(w, "canceled", "paused", FALSE, EmptyCheckpoint)
          /\ wk' = [wk EXCEPT ![w] = ws] /\ UNCHANGED run
      BY <1>1, <1>3, <2>1 DEF ReserveBudget, Goto
    <3>2. EmptyCheckpoint \in Checkpoints /\ "canceled" \in Ended /\ "paused" \in RunStatus
      BY RunTurnsAssumption DEF EmptyCheckpoint, Checkpoints, Ended, RunStatus
    <3>3. TurnsInv(turns') /\ Durable /\ turns'[i].status \in Ended
      BY <1>1, <2>1, <3>1, <3>2, FinishedTurnInv
    <3>4. ws \in WorkerStates /\ ws.pc = "apply" /\ ws.turn = i /\ ws.slice = wk[w].slice
          /\ ws.out = wk[w].out /\ ws.fresh = wk[w].fresh /\ ws.snap = wk[w].snap
      BY <1>1 DEF WorkerStates, Phases, Advancing
    <3> HIDE DEF ws
    <3>5. WorkerInv(ws, run, turns')
      BY <1>1, <3>3, <3>4 DEF WorkerInv, Advancing, Copying, StatusFits
    <3>6. QED
      BY <1>1, <3>1, <3>3, <3>5, LocalStep DEF Inv
  <2>2. CASE ~HoldsTurn(w)
    BY <1>1, <1>3, <2>2, AbandonStep DEF ReserveBudget
  <2>3. QED
    BY <2>1, <2>2
<1>4. CASE i \notin wk[w].snap.reserved /\ ~WouldExceed(n)
  <2>1. CASE wk[w].fresh /\ (wk[w].snap.owner = NoWorker \/ HoldsRun(w))
    <3> DEFINE r  == [run EXCEPT !.reserved = @ \union {i}]
               ws == Holding(wk[w], "record", r)
    <3>1. run' = r /\ wk' = [Outdated EXCEPT ![w] = ws] /\ UNCHANGED turns
      BY <1>4, <2>1 DEF ReserveBudget, CommitRun
    <3>2. run \in Runs /\ run.status = "running"
      BY <1>1, <2>1 DEF WorkerInv, Copying, RunInv, StatusFits
    <3>3. r \in Runs /\ r = [run EXCEPT !.reserved = r.reserved]
      BY <1>1, <3>2 DEF Runs
    <3> HIDE DEF r
    <3>4. RunInv(r) /\ r.status = "running" /\ r.applied = run.applied
      BY <1>1, <3>2, <3>3 DEF RunInv, Runs
    <3>5. WorkerInv(ws, r, turns)
      BY <1>1, <3>3, <3>4, HoldingInv DEF WorkerInv, Phases, Advancing, StatusFits
    <3>6. QED
      BY <1>1, <3>1, <3>4, <3>5, CommitStep DEF SafeStep, Durable
  <2>2. CASE ~(wk[w].fresh /\ (wk[w].snap.owner = NoWorker \/ HoldsRun(w)))
    BY <1>1, <1>4, <2>2, AbandonStep DEF ReserveBudget
  <2>3. QED
    BY <2>1, <2>2
<1>5. QED
  BY <1>2, <1>3, <1>4

LEMMA StartRunnerInv ==
  ASSUME Inv, NEW w \in Workers, StartRunner(w)
  PROVE  SafeStep
<1> DEFINE i  == wk[w].turn
           g  == wk[w].snap.guidance
           ws == [Idle EXCEPT !.pc = "executing", !.turn = i, !.base = wk[w].snap.applied,
                              !.slice = wk[w].slice, !.canceled = wk[w].canceled]
<1>1. /\ WorkerInv(wk[w], run, turns) /\ wk[w].pc = "record"
      /\ wk[w] \in WorkerStates /\ TurnsInv(turns) /\ turns \in [Seqs -> Turns]
      /\ i \in Seqs /\ wk[w].slice # 0 /\ UNCHANGED <<run, stalls, crashes>>
  BY DEF Inv, StartRunner, WorkerInv, WithTurn, Advancing, TurnsInv
<1>2. g \in 0 .. MaxGuidance /\ wk[w].snap.applied \in 0 .. MaxTurns
  BY <1>1 DEF WorkerStates, Copies
<1>3. ws \in WorkerStates /\ ws.pc = "executing" /\ ws.turn = i /\ ws.slice = wk[w].slice
      /\ ws.out = NoOutcome
  BY <1>1, <1>2, IdleType DEF WorkerStates, Phases, Advancing, Idle
<1> HIDE DEF ws
<1>4. WorkerInv(ws, run, turns')
  BY <1>1, <1>3 DEF WorkerInv, Copying, NoOutcome, StatusFits
<1>5. CASE wk[w].seen = g
  <2>1. turns' = turns /\ wk' = [wk EXCEPT ![w] = ws]
    BY <1>5 DEF StartRunner, ws
  <2>2. QED
    BY <1>1, <1>4, <2>1, LocalStep DEF Inv, Durable
<1>6. CASE wk[w].seen # g /\ turns[i].owner = w
  <2> DEFINE t == [turns[i] EXCEPT !.seen = g]
  <2>1. turns' = [turns EXCEPT ![i] = t] /\ wk' = [wk EXCEPT ![w] = ws]
    BY <1>6 DEF StartRunner, ws
  <2>2. turns[i].status = "running"
    BY <1>1, <1>6, RunTurnsAssumption DEF TurnsInv, TurnInv
  <2>3. t \in Turns /\ t.status = "running"
    BY <1>1, <1>2, <2>2 DEF Turns
  <2> HIDE DEF t
  <2>4. TurnsInv(turns') /\ Durable
    BY <1>1, <2>1, <2>2, <2>3, TurnUpdate DEF TurnInv, Ended
  <2>5. QED
    BY <1>1, <1>4, <2>1, <2>4, LocalStep DEF Inv
<1>7. CASE ~(wk[w].seen = g \/ turns[i].owner = w)
  BY <1>1, <1>7, AbandonStep DEF StartRunner
<1>8. QED
  BY <1>5, <1>6, <1>7

-----------------------------------------------------------------------------
(* The runner in flight.                                                   *)

\* What a worker in flight becomes once its outcome is known, whatever that is.
LEMMA OutcomeInv ==
  ASSUME Inv, NEW w \in Workers, wk[w].pc = "executing", NEW o \in Outcomes,
         o.kind = "ok" => o.next \in RunStatus
  PROVE  WorkerInv([wk[w] EXCEPT !.pc = "refresh", !.out = o], run, turns)
<1> DEFINE ws == [wk[w] EXCEPT !.pc = "refresh", !.out = o]
<1>1. WorkerInv(wk[w], run, turns)
  BY DEF Inv
<1>2. ws \in WorkerStates /\ ws.pc = "refresh" /\ ws.turn = wk[w].turn
      /\ ws.slice = wk[w].slice /\ ws.out = o
  BY <1>1 DEF WorkerInv, WorkerStates, Phases, Advancing
<1> HIDE DEF ws
<1>3. WorkerInv(ws, run, turns)
  BY <1>1, <1>2 DEF WorkerInv, WithTurn, Advancing, Copying, StatusFits
<1>4. QED
  BY <1>3 DEF ws

LEMMA RunnerReturnsInv ==
  ASSUME Inv, NEW w \in Workers, RunnerReturns(w)
  PROVE  SafeStep
<1>1. wk \in [Workers -> WorkerStates] /\ wk[w].pc = "executing"
  BY DEF Inv, RunnerReturns
<1>2. PICK o \in RunnerOutcomes : wk' = [wk EXCEPT ![w].pc = "refresh", ![w].out = o]
  BY DEF RunnerReturns
<1>3. o \in Outcomes /\ (o.kind = "ok" => o.next \in RunStatus)
  BY RunTurnsAssumption
<1>4. wk' = [wk EXCEPT ![w] = [wk[w] EXCEPT !.pc = "refresh", !.out = o]]
  BY <1>1, <1>2
<1>5. WorkerInv([wk[w] EXCEPT !.pc = "refresh", !.out = o], run, turns)
  BY <1>1, <1>3, OutcomeInv
<1>6. QED
  BY <1>4, <1>5, MoveStep DEF RunnerReturns

LEMMA TurnHeartbeatFailsInv ==
  ASSUME Inv, NEW w \in Workers, TurnHeartbeatFails(w)
  PROVE  SafeStep
<1> DEFINE o == [wk[w].out EXCEPT !.kind = "lost"]
<1>1. wk \in [Workers -> WorkerStates] /\ wk[w].pc = "executing"
  BY DEF Inv, TurnHeartbeatFails
<1>2. o \in Outcomes /\ o.kind # "ok"
  BY <1>1 DEF WorkerStates, Outcomes
<1>3. wk' = [wk EXCEPT ![w] = [wk[w] EXCEPT !.pc = "refresh", !.out = o]]
  BY <1>1 DEF TurnHeartbeatFails
<1> HIDE DEF o
<1>4. WorkerInv([wk[w] EXCEPT !.pc = "refresh", !.out = o], run, turns)
  BY <1>1, <1>2, OutcomeInv
<1>5. QED
  BY <1>3, <1>4, MoveStep DEF TurnHeartbeatFails

LEMMA RunHeartbeatInv ==
  ASSUME Inv, NEW w \in Workers, RunHeartbeat(w)
  PROVE  SafeStep
BY CommitByOtherStep DEF RunHeartbeat, Inv

LEMMA RunHeartbeatFailsInv ==
  ASSUME Inv, NEW w \in Workers, RunHeartbeatFails(w)
  PROVE  SafeStep
<1>1. CASE wk[w].pc = "resolve"
  BY <1>1, AbandonStep DEF RunHeartbeatFails
<1>2. CASE wk[w].pc # "resolve"
  <2> DEFINE pc == IF wk[w].pc = "executing" THEN "refresh" ELSE wk[w].pc
             ws == [wk[w] EXCEPT !.canceled = TRUE, !.pc = pc]
  <2>1. WorkerInv(wk[w], run, turns) /\ wk \in [Workers -> WorkerStates]
    BY DEF Inv
  <2>2. wk' = [wk EXCEPT ![w] = ws] /\ UNCHANGED <<run, turns, stalls, crashes>>
    BY <1>2, <2>1 DEF RunHeartbeatFails
  <2>3. pc \in Phases /\ (pc = wk[w].pc \/ (wk[w].pc = "executing" /\ pc = "refresh"))
    <3>1. wk[w].pc \in Phases
      BY <2>1 DEF WorkerStates
    <3>2. "refresh" \in Phases
      BY DEF Phases, Advancing
    <3>3. QED
      BY <3>1, <3>2
  <2> HIDE DEF pc
  <2>4. ws \in WorkerStates /\ ws.pc = pc /\ ws.turn = wk[w].turn /\ ws.slice = wk[w].slice
        /\ ws.out = wk[w].out /\ ws.fresh = wk[w].fresh /\ ws.snap = wk[w].snap
    BY <2>1, <2>3 DEF WorkerStates
  <2> HIDE DEF ws
  <2>5. WorkerInv(ws, run, turns)
    BY <2>1, <2>3, <2>4 DEF WorkerInv, WithTurn, Advancing, Copying, StatusFits
  <2>6. QED
    BY <2>2, <2>5, MoveStep
<1>3. QED
  BY <1>1, <1>2

LEMMA CanceledCallInv ==
  ASSUME Inv, NEW w \in Workers, CanceledCall(w)
  PROVE  SafeStep
BY AbandonStep DEF CanceledCall

\* A worker whose Advance returned with what the Run showed.
LEMMA GoOnInv ==
  ASSUME Inv, NEW w \in Workers, wk[w].pc \in Advancing, wk[w].turn \in Seqs,
         wk' = [wk EXCEPT ![w] = Return(w, run.status, TRUE, FALSE)],
         TurnsInv(turns'), Durable, UNCHANGED <<run, stalls, crashes>>
  PROVE  SafeStep
<1>1. run.status \in RunStatus /\ crashes' \in 0 .. MaxCrashes
  BY DEF Inv, RunInv, Runs
<1>2. WorkerInv(Return(w, run.status, TRUE, FALSE), run, turns')
  BY <1>1, ReturnInv
<1>3. QED
  BY <1>1, <1>2, LocalStep

\* A worker that ends its claim and has just written its Turn.
LEMMA AbandonTurnStep ==
  ASSUME Inv, NEW w \in Workers, Abandon(w), TurnsInv(turns'), Durable,
         UNCHANGED <<run, stalls, crashes>>
  PROVE  SafeStep
BY LocalStep, IdleInv DEF Abandon, Inv

LEMMA RefreshInv ==
  ASSUME Inv, NEW w \in Workers, Refresh(w)
  PROVE  SafeStep
<1> DEFINE i == wk[w].turn
           released == IF HoldsTurn(w)
                       THEN [turns EXCEPT ![i].owner = NoWorker, ![i].live = FALSE]
                       ELSE turns
           goOn == wk' = [wk EXCEPT ![w] = Return(w, run.status, TRUE, FALSE)]
           gone == run.status # "running" \/ run.owner \notin {NoWorker, w}
<1>1. /\ WorkerInv(wk[w], run, turns) /\ wk[w].pc = "refresh" /\ i \in Seqs
      /\ wk[w].pc \in Advancing /\ wk[w].slice # 0
      /\ TurnsInv(turns) /\ turns \in [Seqs -> Turns] /\ run \in Runs
      /\ UNCHANGED <<run, stalls, crashes>>
  BY DEF Inv, Refresh, WorkerInv, WithTurn, Advancing, TurnsInv, RunInv
<1>2. ASSUME turns' = released PROVE TurnsInv(turns') /\ Durable
  <2>1. CASE HoldsTurn(w)
    <3> DEFINE t == [turns[i] EXCEPT !.owner = NoWorker, !.live = FALSE]
    <3>1. turns' = [turns EXCEPT ![i] = t] /\ turns[i].status = "running"
      BY <1>1, <1>2, <2>1 DEF HoldsTurn
    <3>2. t \in Turns /\ t.status = "running"
      BY <1>1, <3>1 DEF Turns
    <3> HIDE DEF t
    <3>3. QED
      BY <1>1, <3>1, <3>2, TurnUpdate DEF TurnInv, Ended
  <2>2. CASE ~HoldsTurn(w)
    BY <1>1, <1>2, <2>2 DEF Durable
  <2>3. QED
    BY <2>1, <2>2
<1>3. CASE run.status \in Terminal
  <2>1. CASE HoldsTurn(w)
    <3>1. turns' = FinishedTurn(w, "canceled", run.status, FALSE, EmptyCheckpoint) /\ Abandon(w)
      BY <1>3, <2>1 DEF Refresh
    <3>2. "canceled" \in Ended /\ run.status \in RunStatus
      BY <1>1 DEF Ended, Runs
    <3>3. TurnsInv(turns') /\ Durable
      BY <1>1, <2>1, <3>1, <3>2, NoTurnType, FinishedTurnInv
    <3>4. QED
      BY <1>1, <3>1, <3>3, AbandonTurnStep
  <2>2. CASE ~HoldsTurn(w)
    BY <1>1, <1>3, <2>2, AbandonStep DEF Refresh
  <2>3. QED
    BY <2>1, <2>2
<1>4. CASE run.status \notin Terminal /\ wk[w].canceled
  BY <1>1, <1>4, AbandonStep DEF Refresh
<1>5. CASE run.status \notin Terminal /\ ~wk[w].canceled /\ gone
  <2>1. turns' = released /\ IF HoldsTurn(w) THEN goOn ELSE Abandon(w)
    BY <1>5 DEF Refresh
  <2> HIDE DEF released
  <2>2. QED
    BY <1>1, <1>2, <2>1, GoOnInv, AbandonTurnStep
<1>6. CASE run.status \notin Terminal /\ ~wk[w].canceled /\ ~gone /\ wk[w].out.kind = "lost"
  <2>1. turns' = released /\ IF turns[i].owner = w THEN goOn ELSE Abandon(w)
    BY <1>6 DEF Refresh
  <2> HIDE DEF released
  <2>2. QED
    BY <1>1, <1>2, <2>1, GoOnInv, AbandonTurnStep
<1>7. CASE run.status \notin Terminal /\ ~wk[w].canceled /\ ~gone /\ wk[w].out.kind # "lost"
  <2>1. ReadRun(w, "finish") /\ UNCHANGED turns
    BY <1>7 DEF Refresh
  <2>2. QED
    BY <1>1, <1>7, <2>1, ReadStep DEF Phases, Advancing, StatusFits
<1>8. QED
  BY <1>3, <1>4, <1>5, <1>6, <1>7

-----------------------------------------------------------------------------
(* Finishing the Turn and applying it to the Run.                          *)

\* The checkpoint of a failure that is given back to the model.
LEMMA ExplainingType == ASSUME NEW c \in Checkpoints PROVE Explaining(c) \in Checkpoints
<1>1. 0 \in 0 .. HostRetries
  BY RunTurnsAssumption
<1>2. QED
  BY <1>1 DEF Explaining, Checkpoints

LEMMA FinishTurnInv ==
  ASSUME Inv, NEW w \in Workers, FinishTurn(w)
  PROVE  SafeStep
<1> DEFINE i == wk[w].turn
           o == wk[w].out
           c == wk[w].snap.checkpoint
           done == [retries |-> 0, explain |-> IF c.explain = "none" THEN "none" ELSE "given"]
           again == [c EXCEPT !.retries = @ + 1]
           ws == [wk[w] EXCEPT !.pc = "apply", !.out = NoOutcome, !.base = 0]
<1>1. /\ WorkerInv(wk[w], run, turns) /\ wk[w].pc = "finish" /\ i \in Seqs
      /\ wk[w].slice # 0 /\ wk \in [Workers -> WorkerStates]
      /\ UNCHANGED <<run, stalls, crashes>>
  BY DEF Inv, FinishTurn, WorkerInv, WithTurn, Advancing
<1>2. CASE ~HoldsTurn(w)
  BY <1>1, <1>2, AbandonStep DEF FinishTurn
<1>3. CASE HoldsTurn(w)
  <2>1. /\ c \in Checkpoints /\ wk[w].snap \in Copies
        /\ o \in Outcomes /\ (o.kind = "ok" => o.next \in RunStatus)
    BY <1>1 DEF WorkerInv, WorkerStates, Copies
  <2>2. wk' = [wk EXCEPT ![w] = ws]
    BY <1>1, <1>3 DEF FinishTurn
  <2>3. done \in Checkpoints /\ (c.retries < HostRetries => again \in Checkpoints)
    <3>1. HostRetries \in Nat
      BY RunTurnsAssumption
    <3>2. QED
      BY <2>1, <3>1 DEF Checkpoints
  <2>4. Accepted(o, c) => NextAfterSuccess(o, wk[w].snap) \in RunStatus /\ o.wants \in BOOLEAN
    BY <2>1 DEF Accepted, NextAfterSuccess, RunStatus, Terminal, Outcomes
  <2>5. "queued" \in RunStatus /\ "failed" \in RunStatus /\ "failed" \in Ended /\ "completed" \in Ended
    BY DEF RunStatus, Terminal, Ended
  <2>6. \/ Accepted(o, c)
           /\ turns' = FinishedTurn(w, "completed", NextAfterSuccess(o, wk[w].snap), o.wants, done)
        \/ c.retries < HostRetries /\ turns' = FinishedTurn(w, "failed", "queued", FALSE, again)
        \/ turns' = FinishedTurn(w, "failed", "failed", FALSE, Explaining(c))
        \/ turns' = FinishedTurn(w, "failed", "queued", FALSE, Explaining(c))
    BY <1>3 DEF FinishTurn
  <2> HIDE DEF o, c, done, again
  <2>7. TurnsInv(turns') /\ Durable /\ turns'[i].status \in Ended
    BY <1>1, <1>3, <2>1, <2>3, <2>4, <2>5, <2>6, ExplainingType, FinishedTurnInv
  <2>8. ws \in WorkerStates /\ ws.pc = "apply" /\ ws.turn = i /\ ws.slice = wk[w].slice
        /\ ws.out = NoOutcome /\ ws.fresh = wk[w].fresh /\ ws.snap = wk[w].snap
    <3>1. 0 \in 0 .. MaxTurns /\ "apply" \in Phases
      BY RunTurnsAssumption DEF Phases, Advancing
    <3>2. QED
      BY <1>1, <3>1, IdleType DEF WorkerStates
  <2> HIDE DEF ws
  <2>9. WorkerInv(ws, run, turns')
    BY <1>1, <2>7, <2>8 DEF WorkerInv, Copying, NoOutcome, StatusFits
  <2>10. QED
    BY <1>1, <2>2, <2>7, <2>9, LocalStep DEF Inv
<1>4. QED
  BY <1>2, <1>3

\* The Run that applying a Turn commits: it has the Turn applied, is charged for one
\* Turn more at most, and has its own checkpoint or the Turn's.
LEMMA AppliedRunInv ==
  ASSUME Inv, NEW w \in Workers, wk[w].pc = "apply", wk[w].turn = run.applied + 1
  PROVE  LET r == AppliedRun(w)
         IN  /\ RunInv(r)
             /\ r.applied = wk[w].turn
             /\ Superseded(w) => r.checkpoint = run.checkpoint /\ r.status \in {"running", "paused"}
<1> DEFINE i == wk[w].turn
           t == turns[i]
           next == IF ~Superseded(w) THEN t.next
                   ELSE IF Exhausts(run, run.charged + Cardinality(run.reserved \ {i}) + 1)
                        THEN "paused" ELSE "running"
           moved == Transition(run, next, IF next \in Waits THEN next ELSE "none")
           spends == i \in run.reserved /\ t.status # "canceled"
           checkpoint == IF Superseded(w) \/ t.status = "canceled" THEN moved.checkpoint
                         ELSE t.checkpoint
           due == IF next = "queued" /\ t.status = "failed" /\ t.checkpoint.retries > 0
                  THEN FALSE ELSE moved.due
           charged == IF spends THEN moved.charged + 1 ELSE moved.charged
           reserved == moved.reserved \ {i}
           r == AppliedRun(w)
<1>1. i \in Seqs /\ t \in Turns /\ t.next \in RunStatus /\ RunInv(run) /\ run \in Runs
  BY DEF Inv, WorkerInv, WithTurn, TurnsInv, TurnInv, RunInv
<1>2. next \in RunStatus /\ (Superseded(w) => next \in {"running", "paused"})
  BY <1>1 DEF RunStatus
<1>3. RunInv(moved) /\ moved.applied = run.applied
  BY <1>1, <1>2, TransitionKeepsRunInv
<1>4. /\ moved \in Runs /\ moved.status = next
      /\ moved.checkpoint = run.checkpoint /\ moved.charged = run.charged
  <2>1. (IF next \in Waits THEN next ELSE "none") \in Waits \union {"none"}
    OBVIOUS
  <2>2. QED
    BY <1>1, <1>2, <2>1, TransitionFields
<1>5. r = [moved EXCEPT !.applied = i, !.checkpoint = checkpoint, !.due = due,
                        !.charged = charged, !.reserved = reserved]
  BY DEF AppliedRun
<1>6. checkpoint \in Checkpoints /\ (Superseded(w) => checkpoint = run.checkpoint)
  BY <1>1, <1>4 DEF Turns, Runs
<1> HIDE DEF next, moved, checkpoint, due
<1>7. due \in BOOLEAN /\ reserved \in SUBSET Seqs
  BY <1>4 DEF due, Runs
<1>8. i \in 0 .. MaxTurns /\ charged \in 0 .. MaxTurns /\ charged <= i
  BY <1>1, <1>3, <1>4, SeqsFinite DEF RunInv, Runs, Seqs
<1> HIDE DEF i, charged, reserved, r
<1>9. /\ r \in Runs /\ r.applied = i /\ r.charged = charged
      /\ r.status = moved.status /\ r.checkpoint = checkpoint
      /\ r.owner = moved.owner /\ r.live = moved.live /\ r.wake = moved.wake
      /\ r.pausedFrom = moved.pausedFrom /\ r.pausedWake = moved.pausedWake
  BY <1>4, <1>5, <1>6, <1>7, <1>8 DEF Runs
<1>10. RunInv(r)
  BY <1>3, <1>8, <1>9 DEF RunInv
<1>11. QED
  BY <1>2, <1>4, <1>6, <1>9, <1>10 DEF r, i

\* Applying a Turn keeps the invariant, too; either nothing is applied, or the
\* worker's Turn is, which follows the last one, by a worker that may write the Run.
Applies(w) ==
  /\ wk[w].pc = "apply" /\ wk[w].turn = run.applied + 1
  /\ run.status = "running" /\ (run.owner = NoWorker \/ HoldsRun(w))
  /\ run' = AppliedRun(w) /\ run'.applied = wk[w].turn
  /\ wk[w].snap = Copy(run)
  /\ wk' = [Outdated EXCEPT ![w] = Return(w, AppliedRun(w).status, TRUE,
                                          turns[wk[w].turn].wants /\ ~Superseded(w))]

LEMMA ApplyTurnInv ==
  ASSUME Inv, NEW w \in Workers, ApplyTurn(w)
  PROVE  Inv' /\ Durable /\ (SafeStep \/ Applies(w))
<1> DEFINE r == AppliedRun(w)
           proposal == turns[wk[w].turn].wants /\ ~Superseded(w)
           ws == Return(w, r.status, TRUE, proposal)
<1>1. /\ WorkerInv(wk[w], run, turns) /\ wk[w].pc = "apply" /\ wk[w].pc \in Advancing
      /\ wk[w].turn \in Seqs /\ wk[w].fresh /\ wk[w].turn = wk[w].snap.applied + 1
      /\ wk[w].snap = Copy(run) /\ run.status = "running"
      /\ UNCHANGED <<turns, stalls, crashes>>
  BY DEF Inv, ApplyTurn, WorkerInv, WithTurn, Advancing, Copying, StatusFits
<1>2. wk[w].turn = run.applied + 1 /\ wk[w].snap.owner = run.owner
  BY <1>1 DEF Copy
<1>3. CASE GuardPasses(w)
  <2>1. run' = r /\ wk' = [Outdated EXCEPT ![w] = ws]
    BY <1>3 DEF ApplyTurn, CommitRun
  <2>2. RunInv(r) /\ r.applied = wk[w].turn /\ r.status \in RunStatus
    BY <1>1, <1>2, AppliedRunInv DEF RunInv, Runs
  <2>3. proposal \in BOOLEAN
    BY <1>1 DEF Inv, TurnsInv, Turns
  <2> HIDE DEF r, proposal
  <2>4. WorkerInv(ws, r, turns)
    BY <1>1, <2>2, <2>3, ReturnInv
  <2>5. Inv'
    BY <1>1, <2>1, <2>2, <2>4, CommitStep
  <2>6. Durable
    BY <1>1 DEF Durable
  <2>7. Applies(w)
    BY <1>1, <1>2, <1>3, <2>1, <2>2 DEF Applies, GuardPasses, r, proposal
  <2>8. QED
    BY <2>5, <2>6, <2>7
<1>4. CASE ~GuardPasses(w)
  <2>1. SafeStep
    BY <1>4, AbandonStep DEF ApplyTurn
  <2>2. QED
    BY <2>1 DEF SafeStep
<1>5. QED
  BY <1>3, <1>4

LEMMA PublishFailsInv ==
  ASSUME Inv, NEW w \in Workers, PublishFails(w)
  PROVE  SafeStep
<1> DEFINE r == Transition(run, "paused", "none")
           proposal == turns[wk[w].turn].wants
           ws == Return(w, "paused", TRUE, proposal)
<1>1. /\ wk[w].pc \in Advancing /\ wk[w].turn \in Seqs
      /\ UNCHANGED <<turns, stalls, crashes>>
  BY DEF Inv, PublishFails, WorkerInv, WithTurn, Advancing
<1>2. RunInv(r) /\ r.applied = run.applied
  BY TransitionKeepsRunInv DEF Inv, RunStatus, Terminal, Waits, Timed, Held
<1>3. CASE GuardPasses(w)
  <2>1. run' = r /\ wk' = [Outdated EXCEPT ![w] = ws]
    BY <1>3 DEF PublishFails, CommitRun
  <2>2. proposal \in BOOLEAN /\ "paused" \in RunStatus
    BY <1>1 DEF Inv, TurnsInv, Turns, RunStatus
  <2> HIDE DEF r, proposal
  <2>3. WorkerInv(ws, r, turns)
    BY <1>1, <2>2, ReturnInv
  <2>4. QED
    BY <1>1, <1>2, <2>1, <2>3, CommitStep DEF SafeStep, Durable
<1>4. CASE ~GuardPasses(w)
  BY <1>4, AbandonStep DEF PublishFails
<1>5. QED
  BY <1>3, <1>4

LEMMA RetryApplyInv ==
  ASSUME Inv, NEW w \in Workers, RetryApply(w)
  PROVE  SafeStep
<1> DEFINE i    == wk[w].turn
           held == Holding(wk[w], "apply", run)
           n    == wk[w].tries + 1
           ws   == [held EXCEPT !.tries = @ + 1]
           back == Return(w, run.status, TRUE, turns[i].wants)
<1>1. /\ WorkerInv(wk[w], run, turns) /\ wk[w].pc = "apply" /\ i \in Seqs
      /\ wk[w].pc \in Advancing /\ wk[w].slice # 0 /\ run \in Runs
      /\ wk[w] \in WorkerStates /\ turns[i].status \in Ended
      /\ UNCHANGED <<run, turns, stalls, crashes>>
  BY DEF Inv, RetryApply, WorkerInv, WithTurn, Advancing, RunInv
<1>2. run.status \in RunStatus /\ turns[i].wants \in BOOLEAN
  BY <1>1 DEF Inv, TurnsInv, Turns, Runs
<1>3. WorkerInv(back, run, turns)
  BY <1>1, <1>2, ReturnInv
<1>4. held.tries = wk[w].tries /\ ws.tries = n
  <2>1. held = [wk[w] EXCEPT !.pc = "apply", !.fresh = TRUE, !.snap = held.snap]
    BY <1>1 DEF Holding, WorkerStates
  <2>2. held.tries = wk[w].tries /\ held = [held EXCEPT !.tries = held.tries]
    BY <1>1, <2>1 DEF WorkerStates
  <2>3. QED
    BY <1>1, <2>1, <2>2 DEF WorkerStates
<1>5. \/ wk' = [wk EXCEPT ![w] = Idle]
      \/ wk' = [wk EXCEPT ![w] = back]
      \/ /\ wk' = [wk EXCEPT ![w] = ws]
         /\ run.status = "running" /\ ws.tries # ApplyTries
  BY DEF RetryApply, Abandon
<1>6. CASE wk' = [wk EXCEPT ![w] = Idle]
  BY <1>1, <1>6, MoveStep, IdleInv
<1>7. CASE wk' = [wk EXCEPT ![w] = back]
  <2> HIDE DEF back
  <2>1. QED
    BY <1>1, <1>3, <1>7, MoveStep
<1>8. CASE wk' = [wk EXCEPT ![w] = ws] /\ run.status = "running" /\ ws.tries # ApplyTries
  <2>1. WorkerInv(held, run, turns)
    <3>1. "apply" \in Phases /\ (wk[w].out.kind = "ok" => wk[w].out.next \in RunStatus)
      BY <1>1 DEF WorkerInv, Phases, Advancing
    <3>2. QED
      BY <1>1, <1>8, <3>1, HoldingInv DEF StatusFits
  <2>2. n \in 0 .. ApplyTries - 1
    BY <1>1, <1>4, <1>8, RunTurnsAssumption DEF WorkerStates
  <2> HIDE DEF held, n
  <2>3. /\ ws \in WorkerStates /\ ws.pc = held.pc /\ ws.turn = held.turn
        /\ ws.slice = held.slice /\ ws.out = held.out /\ ws.fresh = held.fresh
        /\ ws.snap = held.snap
    BY <1>4, <2>1, <2>2 DEF WorkerInv, WorkerStates, n
  <2> HIDE DEF ws
  <2>4. WorkerInv(ws, run, turns)
    BY <2>1, <2>3 DEF WorkerInv
  <2>5. QED
    BY <1>1, <1>8, <2>4, MoveStep
<1>9. QED
  BY <1>5, <1>6, <1>7, <1>8

-----------------------------------------------------------------------------
(* After an Advance.                                                       *)

\* The Run that is requeued, paused or canceled.
LEMMA MovedRun ==
  ASSUME Inv, NEW to \in {"queued", "paused", "failed", "canceled"}
  PROVE  LET r == Transition(run, to, "none")
         IN  RunInv(r) /\ r.applied = run.applied
BY TransitionKeepsRunInv DEF Inv, RunStatus, Terminal, Waits, Timed, Held

\* What RunInv leaves open may be written along with a move.
LEMMA OpenFields ==
  ASSUME NEW r, RunInv(r), NEW r2 \in Runs,
         r2.status = r.status /\ r2.owner = r.owner /\ r2.live = r.live /\ r2.wake = r.wake,
         r2.pausedFrom \in {"none", r.pausedFrom} /\ r2.pausedWake = r.pausedWake,
         r2.charged = r.charged /\ r2.applied = r.applied
  PROVE  RunInv(r2) /\ r2.applied = r.applied
BY DEF RunInv, Waits, Timed, Held

LEMMA YieldInv ==
  ASSUME Inv, NEW w \in Workers, Yield(w)
  PROVE  SafeStep
<1>1. RunInv(Transition(run, "queued", "none"))
      /\ Transition(run, "queued", "none").applied = run.applied
  BY MovedRun
<1>2. QED
  BY <1>1, CommitAndLeaveStep, AbandonStep DEF Yield

LEMMA ProposeInv ==
  ASSUME Inv, NEW w \in Workers, Propose(w)
  PROVE  SafeStep
<1>1. wk[w].turn \in Seqs
  BY DEF Inv, WorkerInv, WithTurn, Propose
<1>2. QED
  BY <1>1, ReadStep DEF Propose, Phases, Copying, Advancing, StatusFits

LEMMA RecordProposalInv ==
  ASSUME Inv, NEW w \in Workers, RecordProposal(w)
  PROVE  SafeStep
<1>1. CASE wk[w].fresh
  <2>1. PICK to \in ProposalStatuses :
          CommitAndLeave(w, [Transition(run, to, IF to \in Waits THEN to ELSE "none")
                               EXCEPT !.acted = TRUE, !.pausedFrom = "none",
                                      !.checkpoint.retries = 0])
    BY <1>1 DEF RecordProposal
  <2> DEFINE moved == Transition(run, to, IF to \in Waits THEN to ELSE "none")
             c == [moved.checkpoint EXCEPT !.retries = 0]
             r == [moved EXCEPT !.acted = TRUE, !.pausedFrom = "none", !.checkpoint = c]
  <2>2. to \in RunStatus
    BY RunTurnsAssumption DEF RunStatus, Waits
  <2>3. RunInv(moved) /\ moved.applied = run.applied /\ moved \in Runs
    BY <2>2, TransitionKeepsRunInv DEF Inv, RunInv
  <2> HIDE DEF moved
  <2>4. c \in Checkpoints
    <3>1. 0 \in 0 .. HostRetries
      BY RunTurnsAssumption
    <3>2. QED
      BY <2>3, <3>1 DEF Runs, Checkpoints
  <2>5. CommitAndLeave(w, r)
    BY <2>1, <2>3 DEF moved, Runs
  <2> HIDE DEF c
  <2>6. /\ r \in Runs
        /\ r.status = moved.status /\ r.owner = moved.owner /\ r.live = moved.live
        /\ r.wake = moved.wake /\ r.pausedFrom = "none" /\ r.pausedWake = moved.pausedWake
        /\ r.charged = moved.charged /\ r.applied = moved.applied
    BY <2>3, <2>4 DEF Runs
  <2> HIDE DEF r
  <2>7. RunInv(r) /\ r.applied = run.applied
    BY <2>3, <2>6, OpenFields
  <2>8. QED
    BY <2>5, <2>7, CommitAndLeaveStep DEF RecordProposal
<1>2. CASE ~wk[w].fresh
  BY <1>2, AbandonStep DEF RecordProposal
<1>3. QED
  BY <1>1, <1>2

LEMMA FailProposalInv ==
  ASSUME Inv, NEW w \in Workers, FailProposal(w)
  PROVE  SafeStep
<1>1. CASE wk[w].fresh /\ HoldsRun(w)
  <2> DEFINE moved(to) == Transition(run, to, "none")
             unretried(to) == [moved(to).checkpoint EXCEPT !.retries = 0]
             explained(to) == Explaining(moved(to).checkpoint)
             r(to, c) == [moved(to) EXCEPT !.checkpoint = c]
  <2>1. ASSUME NEW to \in {"queued", "failed"}
        PROVE  /\ RunInv(moved(to)) /\ moved(to).applied = run.applied /\ moved(to) \in Runs
               /\ unretried(to) \in Checkpoints /\ explained(to) \in Checkpoints
    <3>1. RunInv(moved(to)) /\ moved(to).applied = run.applied
      BY MovedRun
    <3>2. moved(to) \in Runs
      BY <3>1 DEF RunInv
    <3> HIDE DEF moved
    <3>3. 0 \in 0 .. HostRetries
      BY RunTurnsAssumption
    <3>4. moved(to).checkpoint \in Checkpoints
      BY <3>2 DEF Runs
    <3>5. unretried(to) \in Checkpoints
      BY <3>3, <3>4 DEF Checkpoints
    <3>6. QED
      BY <3>1, <3>2, <3>4, <3>5, ExplainingType
  <2>2. \E to \in {"queued", "failed"} :
          CommitAndLeave(w, r(to, unretried(to))) \/ CommitAndLeave(w, r(to, explained(to)))
    <3>1. \A to \in {"queued", "failed"} :
            [moved(to) EXCEPT !.checkpoint.retries = 0] = r(to, unretried(to))
      BY <2>1 DEF Runs
    <3>2. \A to \in {"queued", "failed"} :
            [moved(to) EXCEPT !.checkpoint = Explaining(@)] = r(to, explained(to))
      BY <2>1 DEF Runs
    <3>3. \/ CommitAndLeave(w, [moved("queued") EXCEPT !.checkpoint.retries = 0])
          \/ \E to \in {"queued", "failed"} :
               CommitAndLeave(w, [moved(to) EXCEPT !.checkpoint = Explaining(@)])
      BY <1>1 DEF FailProposal
    <3> HIDE DEF moved, unretried, explained, r
    <3>4. QED
      BY <3>1, <3>2, <3>3
  <2>3. PICK to \in {"queued", "failed"}, c \in Checkpoints : CommitAndLeave(w, r(to, c))
    <3> HIDE DEF moved, unretried, explained, r
    <3>1. QED
      BY <2>1, <2>2
  <2>4. RunInv(r(to, c)) /\ r(to, c).applied = run.applied
    <3>1. /\ RunInv(moved(to)) /\ moved(to).applied = run.applied /\ moved(to) \in Runs
      BY <2>1
    <3> DEFINE m == moved(to)
               n == r(to, c)
    <3>2. n = [m EXCEPT !.checkpoint = c]
      OBVIOUS
    <3> HIDE DEF moved, m, n
    <3>3. /\ n \in Runs
          /\ n.status = m.status /\ n.owner = m.owner /\ n.live = m.live
          /\ n.wake = m.wake /\ n.pausedFrom = m.pausedFrom /\ n.pausedWake = m.pausedWake
          /\ n.charged = m.charged /\ n.applied = m.applied
      BY <3>1, <3>2 DEF Runs, m
    <3>4. RunInv(n) /\ n.applied = run.applied
      BY <3>1, <3>3, OpenFields DEF m
    <3>5. QED
      BY <3>4 DEF n
  <2> HIDE DEF r
  <2>5. QED
    BY <2>3, <2>4, CommitAndLeaveStep DEF FailProposal
<1>2. CASE ~(wk[w].fresh /\ HoldsRun(w))
  BY <1>2, AbandonStep DEF FailProposal
<1>3. QED
  BY <1>1, <1>2

-----------------------------------------------------------------------------
(* Operator commands, wakes, time and failure.                             *)

LEMMA PauseInv == ASSUME Inv, Pause PROVE SafeStep
BY MovedRun, CommitByOtherStep DEF Pause

LEMMA CancelInv == ASSUME Inv, Cancel PROVE SafeStep
BY MovedRun, CommitByOtherStep DEF Cancel

LEMMA WakeInv == ASSUME Inv, Wake PROVE SafeStep
BY MovedRun, CommitByOtherStep DEF Wake

\* What an outcome leaves of a checkpoint is a checkpoint.
LEMMA OutcomeType ==
  ASSUME NEW c \in Checkpoints, NEW to PROVE Outcome(c, to) \subseteq Checkpoints
BY DEF Outcome, Owing, Checkpoints

\* The fields of a Run that a service writes.
LEMMA TakenFields ==
  ASSUME Inv, NEW to \in RunStatus, NEW c \in Checkpoints, NEW child
  PROVE  LET r == Taken(to, c, child)
             m == Transition(run, to, WakeFor(to))
         IN  /\ r \in Runs /\ RunInv(m) /\ r.checkpoint = c
             /\ r.status = m.status /\ r.owner = m.owner /\ r.live = m.live
             /\ r.wake = m.wake /\ r.pausedFrom = m.pausedFrom
             /\ r.pausedWake = m.pausedWake
             /\ r.charged = m.charged /\ r.applied = m.applied /\ r.reserved = m.reserved
             /\ m.applied = run.applied
<1> DEFINE m == Transition(run, to, WakeFor(to))
           a == m.acted \/ child
           r == [m EXCEPT !.checkpoint = c, !.acted = a]
<1>1. RunInv(m) /\ m.applied = run.applied /\ m \in Runs
  BY TransitionKeepsRunInv DEF Inv, RunInv, WakeFor
<1>2. Taken(to, c, child) = r
  BY DEF Taken
<1> HIDE DEF m
<1>3. a \in BOOLEAN
  BY <1>1 DEF Runs
<1> HIDE DEF a
<1>4. /\ r \in Runs /\ r.checkpoint = c
      /\ r.status = m.status /\ r.owner = m.owner /\ r.live = m.live
      /\ r.wake = m.wake /\ r.pausedFrom = m.pausedFrom /\ r.pausedWake = m.pausedWake
      /\ r.charged = m.charged /\ r.applied = m.applied /\ r.reserved = m.reserved
  BY <1>1, <1>3 DEF Runs
<1>5. QED
  BY <1>1, <1>2, <1>4 DEF m

LEMMA TakenStep ==
  ASSUME Inv, NEW to \in RunStatus, NEW c \in Checkpoints, NEW child,
         CommitByOther(Taken(to, c, child)), UNCHANGED <<turns, stalls, crashes>>
  PROVE  SafeStep
<1> DEFINE m == Transition(run, to, WakeFor(to))
           r == Taken(to, c, child)
<1>1. /\ r \in Runs /\ RunInv(m)
      /\ r.status = m.status /\ r.owner = m.owner /\ r.live = m.live
      /\ r.wake = m.wake /\ r.pausedFrom = m.pausedFrom /\ r.pausedWake = m.pausedWake
      /\ r.charged = m.charged /\ r.applied = m.applied
      /\ m.applied = run.applied
  BY TakenFields
<1>2. CommitByOther(r)
  OBVIOUS
<1> HIDE DEF r, m
<1>3. RunInv(r) /\ r.applied = run.applied
  BY <1>1, OpenFields
<1>4. QED
  BY <1>2, <1>3, CommitByOtherStep

\* Settle, and what it makes of the Run.
LEMMA SettleTakes ==
  ASSUME Inv, Settle
  PROVE  \E to \in Leads(run.status), c \in Checkpoints : \E child :
           to \in RunStatus \ {"running", "paused"} /\ CommitByOther(Taken(to, c, child))
<1>1. PICK to \in Leads(run.status) : \E c \in Outcome(run.checkpoint, to) :
         CommitByOther(Taken(to, c, to \in {"waiting_for_dependency", "completed"}))
  BY DEF Settle
<1>2. PICK c \in Outcome(run.checkpoint, to) :
         CommitByOther(Taken(to, c, to \in {"waiting_for_dependency", "completed"}))
  BY <1>1
<1>3. to \in RunStatus \ {"running", "paused"}
  BY DEF Leads, RunStatus, Waits, Timed, Held, Terminal
<1>4. c \in Checkpoints
  BY OutcomeType DEF Inv, RunInv, Runs
<1>5. \E child : CommitByOther(Taken(to, c, child))
  BY <1>2
<1>7. QED
  BY <1>3, <1>4, <1>5

LEMMA SettleInv == ASSUME Inv, Settle PROVE SafeStep
BY SettleTakes, TakenStep DEF Settle

LEMMA EngageInv == ASSUME Inv, Engage PROVE SafeStep
<1>1. PICK to \in Engagements, child \in BOOLEAN :
         CommitByOther(Taken(to, run.checkpoint, child))
  BY DEF Engage
<1>2. to \in RunStatus
  BY RunTurnsAssumption DEF RunStatus, Waits, Timed, Held, Terminal
<1>3. run.checkpoint \in Checkpoints
  BY DEF Inv, RunInv, Runs
<1>4. QED
  BY <1>1, <1>2, <1>3, TakenStep DEF Engage

\* During a pause only what it will be lifted to, and the checkpoint, are written.
LEMMA SettlePausedFields ==
  ASSUME Inv, SettlePaused
  PROVE  \E to \in LeadsPaused(run.pausedFrom), c \in Checkpoints :
           LET r == [run EXCEPT !.pausedFrom = to, !.pausedWake = WakeFor(to), !.checkpoint = c]
           IN  /\ CommitByOther(r) /\ r \in Runs
               /\ r.status = "paused" /\ r.pausedFrom = to /\ r.pausedWake = WakeFor(to)
               /\ r.owner = run.owner /\ r.live = run.live /\ r.wake = run.wake
               /\ r.charged = run.charged /\ r.applied = run.applied
               /\ r.reserved = run.reserved /\ r.guidance = run.guidance
<1>0. PICK to \in LeadsPaused(run.pausedFrom) : \E c \in Outcome(run.checkpoint, to) :
         CommitByOther([run EXCEPT !.pausedFrom = to, !.pausedWake = WakeFor(to),
                                   !.checkpoint = c])
  BY DEF SettlePaused
<1>1. PICK c \in Outcome(run.checkpoint, to) :
         CommitByOther([run EXCEPT !.pausedFrom = to, !.pausedWake = WakeFor(to),
                                   !.checkpoint = c])
  BY <1>0
<1>2. run \in Runs /\ run.status = "paused" /\ c \in Checkpoints
  BY OutcomeType DEF Inv, RunInv, Runs, SettlePaused
<1>3. to \in RunStatus /\ WakeFor(to) \in Waits \union {"none"}
  BY DEF LeadsPaused, RunStatus, Waits, Timed, Held, WakeFor
<1> DEFINE what == WakeFor(to)
           r == [run EXCEPT !.pausedFrom = to, !.pausedWake = what, !.checkpoint = c]
<1>4. CommitByOther(r) /\ what = WakeFor(to) /\ what \in Waits \union {"none"}
  BY <1>1, <1>3
<1> HIDE DEF what
<1>5. /\ r \in Runs
      /\ r.status = "paused" /\ r.pausedFrom = to /\ r.pausedWake = what
      /\ r.owner = run.owner /\ r.live = run.live /\ r.wake = run.wake
      /\ r.charged = run.charged /\ r.applied = run.applied
      /\ r.reserved = run.reserved /\ r.guidance = run.guidance
  BY <1>2, <1>3, <1>4 DEF Runs
<1>6. QED
  BY <1>2, <1>4, <1>5

LEMMA SettlePausedInv == ASSUME Inv, SettlePaused PROVE SafeStep
<1>1. PICK to \in LeadsPaused(run.pausedFrom), c \in Checkpoints :
         LET r == [run EXCEPT !.pausedFrom = to, !.pausedWake = WakeFor(to), !.checkpoint = c]
         IN  /\ CommitByOther(r) /\ r \in Runs
             /\ r.status = "paused" /\ r.pausedFrom = to /\ r.pausedWake = WakeFor(to)
             /\ r.owner = run.owner /\ r.live = run.live /\ r.wake = run.wake
             /\ r.charged = run.charged /\ r.applied = run.applied
  BY SettlePausedFields
<1> DEFINE r == [run EXCEPT !.pausedFrom = to, !.pausedWake = WakeFor(to), !.checkpoint = c]
<1> HIDE DEF r
<1>2. /\ CommitByOther(r) /\ r \in Runs
      /\ r.status = "paused" /\ r.pausedFrom = to /\ r.pausedWake = WakeFor(to)
      /\ r.owner = run.owner /\ r.live = run.live /\ r.wake = run.wake
      /\ r.charged = run.charged /\ r.applied = run.applied
  BY <1>1 DEF r
<1>3. RunInv(run) /\ run.status = "paused"
  BY DEF Inv, SettlePaused
<1>4. RunInv(r)
  BY <1>2, <1>3 DEF RunInv, WakeFor
<1>5. QED
  BY <1>2, <1>4, CommitByOtherStep DEF SettlePaused

LEMMA ResumeInv == ASSUME Inv, Resume PROVE SafeStep
<1> DEFINE to   == Resumed(run)
           wake == IF to \in Waits THEN run.pausedWake ELSE "none"
<1>1. RunInv(run) /\ run.status = "paused"
  BY DEF Inv, Resume
<1>2. to \in RunStatus /\ wake = IF to \in Waits THEN to ELSE "none"
  <2>1. to = run.pausedFrom \/ to = "queued"
    BY DEF Resumed
  <2>2. to \in Waits => to = run.pausedFrom
    BY <2>1 DEF Waits, Timed, Held
  <2>3. to \in RunStatus
    BY DEF Resumed, RunStatus
  <2>4. QED
    BY <1>1, <2>2, <2>3 DEF RunInv
<1>3. CommitByOther(Transition(run, to, wake)) /\ UNCHANGED <<turns, stalls, crashes>>
  BY DEF Resume
<1> HIDE DEF to, wake
<1>4. RunInv(Transition(run, to, wake)) /\ Transition(run, to, wake).applied = run.applied
  BY <1>1, <1>2, TransitionKeepsRunInv
<1>5. QED
  BY <1>3, <1>4, CommitByOtherStep

LEMMA InterveneInv == ASSUME Inv, Intervene PROVE SafeStep
<1> DEFINE to    == IF run.status = "sleeping" THEN "queued" ELSE run.status
           wake  == IF run.status = "sleeping" THEN "none" ELSE run.wake
           moved == Transition(run, to, wake)
           n     == moved.guidance + 1
           r     == [moved EXCEPT !.guidance = n]
<1>1. RunInv(run) /\ run \in Runs
  BY DEF Inv, RunInv
<1>2. to \in RunStatus /\ wake = IF to \in Waits THEN to ELSE "none"
  <2>1. run.status \in RunStatus /\ "queued" \in RunStatus /\ "queued" \notin Waits
    BY <1>1 DEF Runs, RunStatus, Waits, Timed, Held
  <2>2. QED
    BY <1>1, <2>1 DEF RunInv
<1>3. CommitByOther(r) /\ UNCHANGED <<turns, stalls, crashes>> /\ run.guidance < MaxGuidance
  BY DEF Intervene
<1> HIDE DEF to, wake
<1>4. RunInv(moved) /\ moved.applied = run.applied /\ moved \in Runs
  BY <1>1, <1>2, TransitionKeepsRunInv DEF RunInv
<1>5. moved.guidance = run.guidance
  <2>1. wake \in Waits \union {"none"}
    BY <1>2
  <2>2. QED
    BY <1>1, <1>2, <2>1, TransitionFields
<1> HIDE DEF moved
<1>6. n \in 0 .. MaxGuidance
  BY <1>1, <1>3, <1>5, RunTurnsAssumption DEF Runs
<1> HIDE DEF n
<1>7. /\ r \in Runs
      /\ r.status = moved.status /\ r.owner = moved.owner /\ r.live = moved.live
      /\ r.wake = moved.wake /\ r.pausedFrom = moved.pausedFrom
      /\ r.pausedWake = moved.pausedWake
      /\ r.charged = moved.charged /\ r.applied = moved.applied
  BY <1>4, <1>6 DEF Runs
<1> HIDE DEF r
<1>8. RunInv(r) /\ r.applied = run.applied
  BY <1>4, <1>7, OpenFields
<1>9. QED
  BY <1>3, <1>8, CommitByOtherStep

LEMMA RetryInv == ASSUME Inv, Retry PROVE SafeStep
<1> DEFINE c == [run.checkpoint EXCEPT !.explain = "none"]
           r == [run EXCEPT !.status = "queued", !.owner = NoWorker, !.live = FALSE,
                            !.due = TRUE, !.checkpoint = c]
<1>1. RunInv(run) /\ run \in Runs /\ run.status = "failed"
  BY DEF Inv, RunInv, Retry
<1>2. CommitByOther(r) /\ UNCHANGED <<turns, stalls, crashes>>
  BY <1>1 DEF Retry, Runs
<1>3. c \in Checkpoints
  BY <1>1 DEF Runs, Checkpoints
<1> HIDE DEF c
<1>4. /\ r \in Runs /\ r.status = "queued" /\ r.owner = NoWorker /\ r.live = FALSE
      /\ r.wake = run.wake /\ r.pausedFrom = run.pausedFrom
      /\ r.charged = run.charged /\ r.applied = run.applied
  BY <1>1, <1>3 DEF Runs, RunStatus
<1> HIDE DEF r
<1>5. RunInv(r)
  BY <1>1, <1>4 DEF RunInv, Waits, Timed, Held
<1>6. QED
  BY <1>2, <1>4, <1>5, CommitByOtherStep

\* The passing of time on the Run: it becomes due, or its lease runs out.  Neither
\* is a write, so the workers' copies stay as they are.
LEMMA RunTimePasses ==
  ASSUME Inv, NEW due \in BOOLEAN, NEW live \in BOOLEAN, live => run.live,
         run' = [run EXCEPT !.due = due, !.live = live],
         UNCHANGED <<turns, wk, crashes>>, stalls' \in 0 .. MaxStalls
  PROVE  SafeStep
<1>1. RunInv(run) /\ run \in Runs
  BY DEF Inv, RunInv
<1>2. /\ run' \in Runs /\ run'.live = live /\ Copy(run') = Copy(run)
      /\ run'.status = run.status /\ run'.owner = run.owner /\ run'.wake = run.wake
      /\ run'.pausedFrom = run.pausedFrom /\ run'.pausedWake = run.pausedWake
      /\ run'.charged = run.charged /\ run'.applied = run.applied
  BY <1>1 DEF Runs, Copy
<1>3. RunInv(run')
  BY <1>1, <1>2 DEF RunInv
<1>4. \A w \in Workers : WorkerInv(wk[w], run', turns)
  BY <1>2 DEF Inv, WorkerInv, StatusFits
<1>5. QED
  BY <1>2, <1>3, <1>4 DEF Inv, SafeStep, Durable

LEMMA BackoffElapsesInv == ASSUME Inv, BackoffElapses PROVE SafeStep
<1>1. run \in Runs /\ stalls' \in 0 .. MaxStalls
  BY DEF Inv, RunInv, BackoffElapses
<1>2. run' = [run EXCEPT !.due = TRUE, !.live = run.live] /\ run.live \in BOOLEAN
  BY <1>1 DEF BackoffElapses, Runs
<1>3. QED
  BY <1>1, <1>2, RunTimePasses DEF BackoffElapses

LEMMA StallType ==
  ASSUME Inv, Stall \/ UNCHANGED stalls PROVE stalls' \in 0 .. MaxStalls
BY RunTurnsAssumption DEF Inv, Stall

LEMMA RunLeaseLapsesInv == ASSUME Inv, RunLeaseLapses PROVE SafeStep
<1>1. run \in Runs /\ stalls' \in 0 .. MaxStalls
  BY StallType DEF Inv, RunInv, RunLeaseLapses
<1>2. run' = [run EXCEPT !.due = run.due, !.live = FALSE] /\ run.due \in BOOLEAN
  BY <1>1 DEF RunLeaseLapses, Runs
<1>3. QED
  BY <1>1, <1>2, RunTimePasses DEF RunLeaseLapses

LEMMA TurnLeaseLapsesInv == ASSUME Inv, TurnLeaseLapses PROVE SafeStep
<1>1. PICK i \in RunningTurns : turns' = [turns EXCEPT ![i].live = FALSE]
  BY DEF TurnLeaseLapses
<1> DEFINE t == [turns[i] EXCEPT !.live = FALSE]
<1>2. i \in Seqs /\ turns[i].status = "running" /\ turns \in [Seqs -> Turns]
  BY DEF RunningTurns, Inv, TurnsInv
<1>3. turns' = [turns EXCEPT ![i] = t] /\ t \in Turns /\ t.status = "running"
  BY <1>1, <1>2 DEF Turns
<1> HIDE DEF t
<1>4. TurnsInv(turns') /\ Durable
  BY <1>2, <1>3, TurnUpdate DEF TurnInv, Ended
<1>5. stalls' \in 0 .. MaxStalls /\ UNCHANGED <<run, wk, crashes>>
  BY StallType DEF TurnLeaseLapses
<1>6. \A w \in Workers : WorkerInv(wk[w], run, turns')
  BY <1>4, TurnsEndInv DEF Inv, Durable
<1>7. QED
  BY <1>4, <1>5, <1>6 DEF Inv, SafeStep

LEMMA CrashInv == ASSUME Inv, NEW w \in Workers, Crash(w) PROVE SafeStep
<1>1. crashes' \in 0 .. MaxCrashes
  BY RunTurnsAssumption DEF Crash, Inv
<1>2. TurnsInv(turns') /\ Durable
  BY DEF Crash, Inv, Durable
<1>3. WorkerInv(Idle, run, turns')
  BY IdleInv
<1>4. QED
  BY <1>1, <1>2, <1>3, LocalStep DEF Crash, Abandon

-----------------------------------------------------------------------------
(* The theorems.                                                           *)

LEMMA InitInv == Init => Inv
<1> SUFFICES ASSUME Init PROVE Inv
  OBVIOUS
<1>1. 0 \in 0 .. MaxGuidance /\ 0 \in 0 .. MaxTurns /\ 0 \in 0 .. AttemptLimit
      /\ 0 \in 0 .. MaxStalls /\ 0 \in 0 .. MaxCrashes
  BY RunTurnsAssumption
<1>2. InitRun \in Runs
  BY <1>1, NoTurnType DEF InitRun, Runs, RunStatus
<1>3. RunInv(run)
  BY <1>2 DEF Init, InitRun, RunInv, Waits, Timed, Held
<1>4. TurnsInv(turns)
  <2>1. CreatedIn(turns) = {} /\ Cardinality({}) = 0
    BY FS_EmptySet DEF Init, CreatedIn, NoTurn
  <2>2. CreatedIn(turns) = 1 .. Cardinality(CreatedIn(turns))
    BY <2>1
  <2>3. QED
    BY <2>2, NoTurnType DEF Init, TurnsInv, TurnInv, NoTurn, Ended
<1>5. wk \in [Workers -> WorkerStates] /\ \A w \in Workers : WorkerInv(wk[w], run, turns)
  BY IdleType, IdleInv DEF Init
<1>6. QED
  BY <1>1, <1>3, <1>4, <1>5 DEF Init, Inv

\* Every step keeps the invariant and the durable results, and applies no Turn
\* unless a worker applies its own as Applies says.
LEMMA StepIsSafe ==
  ASSUME Inv, [Next]_vars
  PROVE  Inv' /\ Durable /\ (run'.applied = run.applied \/ \E w \in Workers : Applies(w))
<1>1. CASE UNCHANGED vars
  BY <1>1 DEF vars, Inv, RunInv, TurnsInv, TurnInv, CreatedIn, WorkerInv, Durable
<1>2. ASSUME NEW w \in Workers, ClaimNext(w) PROVE SafeStep
  BY <1>2, ClaimInv, ClaimAtAttemptLimitInv DEF ClaimNext
<1>3. ASSUME NEW w \in Workers, Advance(w), ~ApplyTurn(w) PROVE SafeStep
  BY <1>3, AdvanceReadInv, StartQueuedInv, FindPendingTurnInv, BeginTurnInv, CreateTurnInv,
     ClaimTurnInv, ReserveBudgetInv, StartRunnerInv, RunnerReturnsInv, TurnHeartbeatFailsInv,
     CanceledCallInv, RefreshInv, FinishTurnInv, PublishFailsInv, RetryApplyInv DEF Advance
<1>4. ASSUME NEW w \in Workers, ExecuteClaim(w), ~Advance(w) PROVE SafeStep
  BY <1>4, ResolveRunnerInv, ResolverFailsInv, FailResolutionInv, RunHeartbeatFailsInv,
     YieldInv, ProposeInv, RecordProposalInv, FailProposalInv DEF ExecuteClaim
<1>5. ASSUME NEW w \in Workers, RunHeartbeat(w) \/ Crash(w) PROVE SafeStep
  BY <1>5, RunHeartbeatInv, CrashInv
<1>6. ASSUME Operator \/ Service \/ Time PROVE SafeStep
  BY <1>6, PauseInv, ResumeInv, CancelInv, InterveneInv, RetryInv, WakeInv, SettleInv,
     SettlePausedInv, EngageInv, BackoffElapsesInv, RunLeaseLapsesInv, TurnLeaseLapsesInv
     DEF Operator, Service, Time
<1>7. ASSUME NEW w \in Workers, ApplyTurn(w) PROVE Inv' /\ Durable /\ (SafeStep \/ Applies(w))
  BY <1>7, ApplyTurnInv
<1>8. QED
  BY <1>1, <1>2, <1>3, <1>4, <1>5, <1>6, <1>7 DEF Next, ExecuteClaim, SafeStep

\* The invariant holds throughout: for whatever workers, operators and timers do to
\* a Run and its Turns between any two transactions.
THEOREM Invariance == Spec => []Inv
<1>1. Inv /\ [Next]_vars => Inv'
  BY StepIsSafe
<1>2. QED
  BY InitInv, <1>1, PTL DEF Spec

\* Every record stays well-formed and every counter within its limit: a Run is not
\* claimed more often than its attempt budget allows (applyAgentRunClaim), nor a
\* finished Turn retried more often than applyFinishedTurn does.
THEOREM TypeCorrect == Spec => []TypeOK
<1>1. Inv => TypeOK
  BY DEF Inv, RunInv, TurnsInv, TypeOK
<1>2. QED
  BY Invariance, <1>1, PTL

\* A Run that was paused, requeued, put to wait or ended by whomever holds no lease.
THEOREM LeaseOnlyWhenRunningHolds == Spec => []LeaseOnlyWhenRunning
<1>1. Inv => LeaseOnlyWhenRunning
  BY DEF Inv, RunInv, LeaseOnlyWhenRunning
<1>2. QED
  BY Invariance, <1>1, PTL

\* The result of an ended Turn (FinishTurn) is never written again.
THEOREM DurableResults == Spec => ResultsAreDurable
<1>1. Inv /\ [Next]_vars =>
        [\A i \in Seqs : turns[i].status \in Ended => turns'[i] = turns[i]]_vars
  BY StepIsSafe DEF Durable
<1>2. QED
  BY Invariance, <1>1, PTL DEF Spec, ResultsAreDurable

\* applyFinishedTurnOnce applies a Turn in its order, to a Running Run, and under the
\* Run's lease if there is one.
THEOREM ApplicationUnderAuthority == Spec => AppliedUnderAuthority
<1> DEFINE A == run'.applied # run.applied =>
                  /\ run'.applied = run.applied + 1
                  /\ run.status = "running"
                  /\ \E w \in Workers : /\ wk[w].pc = "apply" /\ wk[w].turn = run'.applied
                                        /\ run.owner = NoWorker \/ HoldsRun(w)
<1>1. Inv /\ [Next]_vars => [A]_vars
  BY StepIsSafe DEF Applies
<1>2. QED
  BY Invariance, <1>1, PTL DEF Spec, AppliedUnderAuthority

\* Turns are created and applied one after another (CreateAgentTurn refuses a second
\* active Turn, TransitionRun any Turn but the next), for all workers together.
THEOREM TurnsInSequence == Spec => []TurnSequence
<1> DEFINE AppliedEnded == \A i \in 1 .. run.applied : turns[i].status \in Ended
<1>1. Init => AppliedEnded
  BY DEF Init, InitRun
<1>2. ASSUME Inv, [Next]_vars, AppliedEnded PROVE AppliedEnded'
  <2>1. run.applied \in 0 .. MaxTurns /\ run'.applied \in 0 .. MaxTurns
    BY <1>2, StepIsSafe DEF Inv, RunInv, Runs
  <2>2. 1 .. run.applied \subseteq Seqs
    BY <2>1, SeqsFinite DEF Seqs
  <2>3. \A i \in 1 .. run.applied : turns'[i].status \in Ended
    BY <1>2, <2>2, StepIsSafe DEF Durable
  <2>4. CASE run'.applied = run.applied
    BY <2>3, <2>4
  <2>5. ASSUME NEW w \in Workers, Applies(w) PROVE AppliedEnded'
    <3>1. /\ run'.applied = run.applied + 1 /\ run'.applied \in Seqs
          /\ turns[run'.applied].status \in Ended
      BY <1>2, <2>5 DEF Applies, Inv, WorkerInv, WithTurn
    <3>2. turns'[run'.applied].status \in Ended
      BY <1>2, <3>1, StepIsSafe DEF Durable
    <3>3. 1 .. run'.applied = (1 .. run.applied) \union {run'.applied}
      BY <2>1, <3>1
    <3>4. QED
      BY <2>3, <3>2, <3>3
  <2>6. QED
    BY <1>2, <2>4, <2>5, StepIsSafe
<1>3. Inv /\ AppliedEnded => TurnSequence
  BY DEF Inv, TurnsInv, TurnSequence, RunningTurns, Created, CreatedIn
<1>4. QED
  <2>1. Spec => []AppliedEnded
    <3>1. Inv /\ AppliedEnded /\ [Next]_vars => AppliedEnded'
      BY <1>2
    <3> HIDE DEF AppliedEnded
    <3>2. QED
      BY Invariance, <1>1, <3>1, PTL DEF Spec
  <2> HIDE DEF AppliedEnded
  <2>2. QED
    BY Invariance, <1>3, <2>1, PTL

\* Guidance that the runner of a completed Turn never saw overrides its result
\* (applyFinishedTurnOnce): the Run keeps its checkpoint and goes on or pauses, and
\* no action of the Turn is proposed.
THEOREM GuidanceIsConsidered == Spec => GuidanceConsidered
<1> DEFINE A == /\ run'.applied # run.applied
                /\ turns[run'.applied].status = "completed"
                /\ turns[run'.applied].checkpoint.explain = "none"
                /\ turns[run'.applied].seen # run.guidance
                => /\ run'.checkpoint = run.checkpoint
                   /\ run'.status \in {"running", "paused"}
                   /\ \A w \in Workers : wk[w].pc = "apply" => wk'[w].pc # "propose"
<1>1. ASSUME Inv, [Next]_vars PROVE A
  <2> SUFFICES ASSUME run'.applied # run.applied,
                      turns[run'.applied].status = "completed",
                      turns[run'.applied].checkpoint.explain = "none",
                      turns[run'.applied].seen # run.guidance
               PROVE  /\ run'.checkpoint = run.checkpoint
                      /\ run'.status \in {"running", "paused"}
                      /\ \A w \in Workers : wk[w].pc = "apply" => wk'[w].pc # "propose"
    OBVIOUS
  <2>1. PICK w \in Workers : Applies(w)
    BY <1>1, StepIsSafe
  <2>2. Superseded(w)
    BY <2>1 DEF Applies, Superseded, Copy
  <2>3. run'.checkpoint = run.checkpoint /\ run'.status \in {"running", "paused"}
    BY <1>1, <2>1, <2>2, AppliedRunInv DEF Applies
  <2>4. wk'[w].pc # "propose"
    <3> DEFINE status == AppliedRun(w).status
               proposal == turns[wk[w].turn].wants /\ ~Superseded(w)
    <3>1. wk'[w] = Return(w, status, TRUE, proposal) /\ ~proposal
      BY <1>1, <2>1, <2>2 DEF Applies, Inv, Outdated
    <3> HIDE DEF status, proposal
    <3>2. QED
      BY <3>1, IdleType DEF Return, Idle
  <2>5. \A v \in Workers \ {w} : wk'[v].pc = wk[v].pc
    BY <1>1, <2>1 DEF Applies, Inv, Outdated, WorkerStates
  <2>6. QED
    BY <2>3, <2>4, <2>5
<1>2. QED
  <2>1. Inv /\ [Next]_vars => [A]_vars
    BY <1>1
  <2>2. QED
    BY Invariance, <2>1, PTL DEF Spec, GuidanceConsidered

-----------------------------------------------------------------------------
(* RunTurns implements RunLifecycle: every write of the Run is a step of   *)
(* its contract, and a wait survives the pauses it meets.                  *)
(*                                                                         *)
(* The argument goes by what the step does to the Run alone, so there is   *)
(* one lemma for the actions that leave the Run as it is for the contract, *)
(* one for those that move it from running, and one for each of the others.*)

Contract == Lifecycle!Next \/ UNCHANGED <<run.status, run.pausedFrom, run.owner, run.live,
                                          run.applied>>

\* What a pause saved of a wait stays saved until it is restored, the Run canceled, or
\* what it waits for is through.
WaitKept ==
  run.pausedFrom \in Waits =>
    \/ run'.status = "paused" /\ run'.pausedFrom = run.pausedFrom
                             /\ run'.pausedWake = run.pausedWake
    \/ run'.status = "paused" /\ run'.pausedFrom \in LeadsPaused(run.pausedFrom)
                             /\ run'.pausedWake = WakeFor(run'.pausedFrom)
                             /\ run'.guidance = run.guidance
    \/ run'.status = run.pausedFrom /\ run'.wake = run.pausedWake
    \/ run'.status = "canceled"

Kept == Contract /\ WaitKept

-----------------------------------------------------------------------------

\* A step that writes nothing the contract speaks of.
LEMMA RunUnwritten ==
  ASSUME Inv, run'.status = run.status, run'.owner = run.owner, run'.live = run.live,
         run'.applied = run.applied, run'.pausedFrom = run.pausedFrom,
         run'.pausedWake = run.pausedWake
  PROVE  Kept
<1>1. Contract
  BY DEF Contract
<1>2. run.pausedFrom \in Waits => run.status = "paused"
  BY DEF Inv, RunInv, Waits, Timed, Held
<1>3. WaitKept
  BY <1>2 DEF WaitKept
<1>4. QED
  BY <1>1, <1>3 DEF Kept

\* Only a paused Run has a wait to keep.
LEMMA NothingSaved == ASSUME Inv, run.status # "paused" PROVE WaitKept
BY DEF Inv, RunInv, WaitKept, Waits, Timed, Held

\* A Run leaves the status running, with or without a Turn applied.
LEMMA LeavesRunning ==
  ASSUME Inv, run.status = "running", run'.status \in RunStatus \ {"running"},
         run'.owner = NoWorker, run'.live = FALSE,
         run'.pausedFrom = IF run'.status = "paused" THEN run'.pausedFrom ELSE "none",
         run'.pausedFrom \in {"running", "none"},
         run'.applied \in {run.applied, run.applied + 1}
  PROVE  Kept
<1>1. Lifecycle!Leave
  BY DEF Lifecycle!Leave, Lifecycle!Release, Lifecycle!Ends, RunStatus, Terminal
<1>2. QED
  BY <1>1, NothingSaved DEF Kept, Contract, Lifecycle!Next

\* TransitionRun applied to a Running Run.
LEMMA TransitionFromRunning ==
  ASSUME Inv, run.status = "running", NEW to \in RunStatus \ {"running"},
         NEW wake \in Waits \union {"none"}, run' = Transition(run, to, wake)
  PROVE  Kept
<1> DEFINE n == Transition(run, to, wake)
<1>1. run \in Runs
  BY DEF Inv, RunInv
<1>2. /\ n.status = to /\ n.owner = IF KeepsLease(to) THEN run.owner ELSE NoWorker
      /\ n.live = (KeepsLease(to) /\ run.live)
      /\ n.pausedFrom = Remembered(run, to)[1] /\ n.applied = run.applied
  BY <1>1, TransitionFields
<1> HIDE DEF n
<1>3. /\ run'.status = to /\ run'.owner = NoWorker /\ run'.live = FALSE
      /\ run'.pausedFrom = Remembered(run, to)[1] /\ run'.applied = run.applied
  BY <1>2 DEF KeepsLease, n
<1>4. run'.pausedFrom = IF to = "paused" THEN "running" ELSE "none"
  BY <1>3 DEF Remembered
<1>5. QED
  BY <1>3, <1>4, LeavesRunning

\* A worker that holds the Run finds it Running.
LEMMA HolderRuns == ASSUME Inv, NEW w \in Workers, HoldsRun(w) PROVE run.status = "running"
BY RunTurnsAssumption DEF Inv, RunInv, HoldsRun

-----------------------------------------------------------------------------
(* The scheduler and the workers.                                          *)

LEMMA ClaimKept == ASSUME Inv, NEW w \in Workers, Claim(w) PROVE Kept
<1> DEFINE n == IF AttemptLimit > 0 THEN run.attempts + 1 ELSE run.attempts
<1>1. run \in Runs /\ run' = [run EXCEPT !.status = "running", !.owner = w, !.live = TRUE,
                                         !.attempts = n]
  BY DEF Inv, RunInv, Claim, CommitRun
<1>2. run.status \in {"queued", "running"} /\ ~run.live
  BY DEF Inv, RunInv, Claim, Claimable, Leased
<1> HIDE DEF n
<1>3. run'.status = "running" /\ run'.owner = w /\ run'.live = TRUE
      /\ run'.pausedFrom = run.pausedFrom /\ run'.applied = run.applied
  BY <1>1 DEF Runs
<1>4. Lifecycle!Claim(w)
  BY <1>2, <1>3 DEF Lifecycle!Claim
<1>5. QED
  BY <1>2, <1>4, NothingSaved DEF Kept, Contract, Lifecycle!Next

LEMMA ClaimAtAttemptLimitKept ==
  ASSUME Inv, NEW w \in Workers, ClaimAtAttemptLimit(w) PROVE Kept
<1>1. run \in Runs /\ run' = [run EXCEPT !.pausedFrom = run.status, !.status = "paused",
                                         !.owner = NoWorker, !.live = FALSE]
  BY DEF Inv, RunInv, ClaimAtAttemptLimit, CommitAndLeave
<1>2. /\ run'.status = "paused" /\ run'.owner = NoWorker /\ run'.live = FALSE
      /\ run'.pausedFrom = run.status /\ run'.applied = run.applied
  BY <1>1 DEF Runs
<1>3. CASE run.status = "running"
  BY <1>2, <1>3, LeavesRunning DEF RunStatus
<1>4. CASE run.status = "queued"
  <2>1. run.owner = NoWorker /\ run.live = FALSE
    BY <1>1, <1>4 DEF Inv, RunInv, Runs
  <2>2. Lifecycle!Pause
    BY <1>2, <1>4, <2>1 DEF Lifecycle!Pause
  <2>3. QED
    BY <1>4, <2>2, NothingSaved DEF Kept, Contract, Lifecycle!Next
<1>5. QED
  BY <1>3, <1>4 DEF ClaimAtAttemptLimit, Claimable

LEMMA FailResolutionKept == ASSUME Inv, NEW w \in Workers, FailResolution(w) PROVE Kept
<1>1. CASE wk[w].fresh /\ HoldsRun(w)
  <2>1. run' = Transition(run, "failed", "none")
    BY <1>1 DEF FailResolution, CommitAndLeave
  <2>2. QED
    BY <1>1, <2>1, HolderRuns, TransitionFromRunning DEF RunStatus, Terminal
<1>2. CASE ~(wk[w].fresh /\ HoldsRun(w))
  BY <1>2, RunUnwritten DEF FailResolution
<1>3. QED
  BY <1>1, <1>2

LEMMA StartQueuedKept == ASSUME Inv, NEW w \in Workers, StartQueued(w) PROVE Kept
<1>1. CASE wk[w].fresh
  <2> DEFINE n == Transition(run, "running", "none")
  <2>1. run' = n
    BY <1>1 DEF StartQueued, CommitRun
  <2>2. run.status = "queued" /\ run \in Runs
    BY <1>1 DEF Inv, WorkerInv, StatusFits, StartQueued, RunInv
  <2>3. /\ n.status = "running"
        /\ n.owner = IF KeepsLease("running") THEN run.owner ELSE NoWorker
        /\ n.live = (KeepsLease("running") /\ run.live)
        /\ n.pausedFrom = Remembered(run, "running")[1] /\ n.applied = run.applied
    BY <2>2, TransitionFields DEF RunStatus
  <2> HIDE DEF n
  <2>4. run.pausedFrom = "none" /\ run.live \in BOOLEAN
    BY <2>2 DEF Inv, RunInv, Runs
  <2>5. /\ n.owner = run.owner /\ n.live = run.live /\ n.pausedFrom = run.pausedFrom
    BY <2>3, <2>4 DEF KeepsLease, Remembered
  <2>6. Lifecycle!Start
    BY <2>1, <2>2, <2>3, <2>5 DEF Lifecycle!Start
  <2>7. QED
    BY <2>2, <2>6, NothingSaved DEF Kept, Contract, Lifecycle!Next
<1>2. CASE ~wk[w].fresh
  BY <1>2, RunUnwritten DEF StartQueued
<1>3. QED
  BY <1>1, <1>2

LEMMA ReserveBudgetKept == ASSUME Inv, NEW w \in Workers, ReserveBudget(w) PROVE Kept
<1> DEFINE more == [run EXCEPT !.reserved = @ \union {wk[w].turn}]
<1>1. run' = run \/ run' = more
  BY DEF ReserveBudget, CommitRun
<1>2. run \in Runs
  BY DEF Inv, RunInv
<1>3. CASE run' = run
  BY <1>3, RunUnwritten
<1>4. CASE run' = more
  <2>1. /\ run'.status = run.status /\ run'.owner = run.owner /\ run'.live = run.live
        /\ run'.applied = run.applied /\ run'.pausedFrom = run.pausedFrom
        /\ run'.pausedWake = run.pausedWake
    BY <1>2, <1>4 DEF Runs
  <2>2. QED
    BY <2>1, RunUnwritten
<1>5. QED
  BY <1>1, <1>3, <1>4

\* The Run moves as the applied Turn says, and counts it.
LEMMA AppliedRunFields ==
  ASSUME Inv, NEW w \in Workers, wk[w].pc = "apply", wk[w].turn = run.applied + 1
  PROVE  LET r == AppliedRun(w)
         IN  /\ r.status \in RunStatus
             /\ r.owner = IF r.status = "running" THEN run.owner ELSE NoWorker
             /\ r.live = (r.status = "running" /\ run.live)
             /\ r.pausedFrom = Remembered(run, r.status)[1]
             /\ r.applied = run.applied + 1
<1> DEFINE i == wk[w].turn
           t == turns[i]
           next == IF ~Superseded(w) THEN t.next
                   ELSE IF Exhausts(run, run.charged + Cardinality(run.reserved \ {i}) + 1)
                        THEN "paused" ELSE "running"
           moved == Transition(run, next, IF next \in Waits THEN next ELSE "none")
           spends == i \in run.reserved /\ t.status # "canceled"
           checkpoint == IF Superseded(w) \/ t.status = "canceled" THEN moved.checkpoint
                         ELSE t.checkpoint
           due == IF next = "queued" /\ t.status = "failed" /\ t.checkpoint.retries > 0
                  THEN FALSE ELSE moved.due
           charged == IF spends THEN moved.charged + 1 ELSE moved.charged
           reserved == moved.reserved \ {i}
           r == AppliedRun(w)
<1>1. i \in Seqs /\ t.next \in RunStatus /\ run \in Runs
  BY DEF Inv, WorkerInv, WithTurn, TurnsInv, TurnInv, RunInv
<1>2. next \in RunStatus /\ (IF next \in Waits THEN next ELSE "none") \in Waits \union {"none"}
  BY <1>1 DEF RunStatus
<1>3. r = [moved EXCEPT !.applied = i, !.checkpoint = checkpoint, !.due = due,
                        !.charged = charged, !.reserved = reserved]
  BY DEF AppliedRun
<1> HIDE DEF next, checkpoint, due, charged, reserved
<1>4. /\ moved \in Runs
      /\ moved.status = next /\ moved.owner = IF KeepsLease(next) THEN run.owner ELSE NoWorker
      /\ moved.live = (KeepsLease(next) /\ run.live)
      /\ moved.pausedFrom = Remembered(run, next)[1]
  BY <1>1, <1>2, TransitionFields
<1> HIDE DEF moved, r
<1>5. /\ r.status = moved.status /\ r.owner = moved.owner /\ r.live = moved.live
      /\ r.pausedFrom = moved.pausedFrom /\ r.applied = i
  BY <1>3, <1>4 DEF Runs
<1>6. QED
  BY <1>2, <1>4, <1>5 DEF KeepsLease, r

LEMMA ApplyTurnKept == ASSUME Inv, NEW w \in Workers, ApplyTurn(w) PROVE Kept
<1>1. CASE GuardPasses(w)
  <2> DEFINE r == AppliedRun(w)
  <2>1. run' = r
    BY <1>1 DEF ApplyTurn, CommitRun
  <2>2. wk[w].pc = "apply" /\ wk[w].turn = run.applied + 1 /\ run.status = "running"
    BY DEF Inv, ApplyTurn, WorkerInv, StatusFits, Copying, Copy
  <2>3. /\ r.status \in RunStatus
        /\ r.owner = IF r.status = "running" THEN run.owner ELSE NoWorker
        /\ r.live = (r.status = "running" /\ run.live)
        /\ r.pausedFrom = Remembered(run, r.status)[1]
        /\ r.applied = run.applied + 1
    BY <2>2, AppliedRunFields
  <2> HIDE DEF r
  <2>4. r.pausedFrom = IF r.status = "paused" THEN "running" ELSE "none"
    BY <2>2, <2>3 DEF Remembered
  <2>5. CASE r.status = "running"
    <3>1. run.pausedFrom = "none" /\ run.live \in BOOLEAN
      BY <2>2 DEF Inv, RunInv, Runs
    <3>2. Lifecycle!Continue
      BY <2>1, <2>2, <2>3, <2>4, <2>5, <3>1 DEF Lifecycle!Continue
    <3>3. QED
      BY <2>2, <3>2, NothingSaved DEF Kept, Contract, Lifecycle!Next
  <2>6. CASE r.status # "running"
    BY <2>1, <2>2, <2>3, <2>4, <2>6, LeavesRunning
  <2>7. QED
    BY <2>5, <2>6
<1>2. CASE ~GuardPasses(w)
  BY <1>2, RunUnwritten DEF ApplyTurn
<1>3. QED
  BY <1>1, <1>2

LEMMA PublishFailsKept == ASSUME Inv, NEW w \in Workers, PublishFails(w) PROVE Kept
<1>1. run.status = "running"
  BY DEF Inv, PublishFails, WorkerInv, StatusFits, Copying
<1>2. CASE GuardPasses(w)
  <2>1. run' = Transition(run, "paused", "none")
    BY <1>2 DEF PublishFails, CommitRun
  <2>2. QED
    BY <1>1, <2>1, TransitionFromRunning DEF RunStatus
<1>3. CASE ~GuardPasses(w)
  BY <1>3, RunUnwritten DEF PublishFails
<1>4. QED
  BY <1>2, <1>3

LEMMA YieldKept == ASSUME Inv, NEW w \in Workers, Yield(w) PROVE Kept
<1>1. CASE wk[w].fresh /\ HoldsRun(w)
  <2>1. run' = Transition(run, "queued", "none")
    BY <1>1 DEF Yield, CommitAndLeave
  <2>2. QED
    BY <1>1, <2>1, HolderRuns, TransitionFromRunning DEF RunStatus
<1>2. CASE ~(wk[w].fresh /\ HoldsRun(w))
  BY <1>2, RunUnwritten DEF Yield
<1>3. QED
  BY <1>1, <1>2

\* A write that moves a Running Run as TransitionRun does and changes, besides, only
\* what the contract does not speak of, or forgets what the pause interrupted.
LEMMA MovedFromRunning ==
  ASSUME Inv, run.status = "running", NEW to \in RunStatus \ {"running"},
         NEW wake \in Waits \union {"none"},
         run'.status = Transition(run, to, wake).status,
         run'.owner = Transition(run, to, wake).owner,
         run'.live = Transition(run, to, wake).live,
         run'.applied = Transition(run, to, wake).applied,
         run'.pausedFrom \in {"none", Transition(run, to, wake).pausedFrom}
  PROVE  Kept
<1> DEFINE n == Transition(run, to, wake)
<1>1. run \in Runs
  BY DEF Inv, RunInv
<1>2. /\ n.status = to /\ n.owner = IF KeepsLease(to) THEN run.owner ELSE NoWorker
      /\ n.live = (KeepsLease(to) /\ run.live)
      /\ n.pausedFrom = Remembered(run, to)[1] /\ n.applied = run.applied
  BY <1>1, TransitionFields
<1> HIDE DEF n
<1>3. n.owner = NoWorker /\ n.live = FALSE
      /\ n.pausedFrom = IF to = "paused" THEN "running" ELSE "none"
  BY <1>2 DEF KeepsLease, Remembered
<1>4. /\ run'.status = to /\ run'.owner = NoWorker /\ run'.live = FALSE
      /\ run'.applied = run.applied
      /\ run'.pausedFrom \in {"none", IF to = "paused" THEN "running" ELSE "none"}
  BY <1>2, <1>3 DEF n
<1>5. QED
  BY <1>4, LeavesRunning

LEMMA RecordProposalKept == ASSUME Inv, NEW w \in Workers, RecordProposal(w) PROVE Kept
<1>1. CASE wk[w].fresh
  <2>1. PICK to \in ProposalStatuses :
          run' = [Transition(run, to, IF to \in Waits THEN to ELSE "none")
                    EXCEPT !.acted = TRUE, !.pausedFrom = "none", !.checkpoint.retries = 0]
    BY <1>1 DEF RecordProposal, CommitAndLeave
  <2> DEFINE wake  == IF to \in Waits THEN to ELSE "none"
             moved == Transition(run, to, wake)
             c     == [moved.checkpoint EXCEPT !.retries = 0]
  <2>2. run.status = "running" /\ run \in Runs
    BY <1>1 DEF Inv, RecordProposal, WorkerInv, StatusFits, RunInv
  <2>3. to \in RunStatus \ {"running"}
    BY RunTurnsAssumption DEF RunStatus, Waits, Held
  <2>4. wake \in Waits \union {"none"}
    OBVIOUS
  <2> HIDE DEF wake
  <2>5. moved \in Runs
    BY <2>2, <2>3, <2>4, TransitionFields
  <2>6. run' = [moved EXCEPT !.acted = TRUE, !.pausedFrom = "none", !.checkpoint = c]
    BY <2>1, <2>5 DEF wake, Runs
  <2> HIDE DEF moved, c
  <2>7. /\ run'.status = moved.status /\ run'.owner = moved.owner /\ run'.live = moved.live
        /\ run'.applied = moved.applied /\ run'.pausedFrom = "none"
    BY <2>5, <2>6 DEF Runs
  <2>8. QED
    BY <2>2, <2>3, <2>4, <2>7, MovedFromRunning DEF moved
<1>2. CASE ~wk[w].fresh
  BY <1>2, RunUnwritten DEF RecordProposal
<1>3. QED
  BY <1>1, <1>2

LEMMA FailProposalKept == ASSUME Inv, NEW w \in Workers, FailProposal(w) PROVE Kept
<1>1. CASE wk[w].fresh /\ HoldsRun(w)
  <2>1. PICK to \in {"queued", "failed"} :
          \/ run' = [Transition(run, to, "none") EXCEPT !.checkpoint.retries = 0]
          \/ run' = [Transition(run, to, "none") EXCEPT !.checkpoint = Explaining(@)]
    BY <1>1 DEF FailProposal, CommitAndLeave
  <2> DEFINE moved == Transition(run, to, "none")
  <2>2. run.status = "running" /\ run \in Runs
    BY <1>1, HolderRuns DEF Inv, RunInv
  <2>3. to \in RunStatus \ {"running"}
    BY DEF RunStatus, Terminal
  <2>4. moved \in Runs
    BY <2>2, <2>3, TransitionFields
  <2>5. \/ run' = [moved EXCEPT !.checkpoint = [moved.checkpoint EXCEPT !.retries = 0]]
        \/ run' = [moved EXCEPT !.checkpoint = Explaining(moved.checkpoint)]
    BY <2>1, <2>4 DEF Runs
  <2> HIDE DEF moved
  <2>6. /\ run'.status = moved.status /\ run'.owner = moved.owner /\ run'.live = moved.live
        /\ run'.applied = moved.applied /\ run'.pausedFrom = moved.pausedFrom
    BY <2>4, <2>5 DEF Runs
  <2>7. QED
    BY <2>2, <2>3, <2>6, MovedFromRunning DEF moved
<1>2. CASE ~(wk[w].fresh /\ HoldsRun(w))
  BY <1>2, RunUnwritten DEF FailProposal
<1>3. QED
  BY <1>1, <1>2

-----------------------------------------------------------------------------
(* Operator commands, wakes and time.                                      *)

\* TransitionRun applied to a Run that nobody holds.
LEMMA TransitionUnheld ==
  ASSUME Inv, run.status # "running", NEW to \in RunStatus \ {"running"},
         NEW wake \in Waits \union {"none"}, run' = Transition(run, to, wake)
  PROVE  /\ run.owner = NoWorker /\ run.live = FALSE
         /\ run'.status = to /\ run'.owner = NoWorker /\ run'.live = FALSE
         /\ run'.pausedFrom = Remembered(run, to)[1]
         /\ run'.pausedWake = Remembered(run, to)[2]
         /\ run'.wake = IF to \in Terminal \union {"paused"} THEN "none" ELSE wake
         /\ run'.applied = run.applied
<1> DEFINE n == Transition(run, to, wake)
<1>1. run \in Runs /\ run.owner = NoWorker /\ run.live = FALSE
  BY DEF Inv, RunInv, Runs
<1>2. /\ n.status = to /\ n.owner = IF KeepsLease(to) THEN run.owner ELSE NoWorker
      /\ n.live = (KeepsLease(to) /\ run.live)
      /\ n.pausedFrom = Remembered(run, to)[1]
      /\ n.pausedWake = Remembered(run, to)[2]
      /\ n.wake = IF to \in Terminal \union {"paused"} THEN "none" ELSE wake
      /\ n.applied = run.applied
  BY <1>1, TransitionFields
<1> HIDE DEF n
<1>3. QED
  BY <1>1, <1>2 DEF KeepsLease, n

\* A service's write of a Run that nobody holds and that is not paused.
LEMMA TakenUnheld ==
  ASSUME Inv, run.status \notin {"running", "paused"},
         NEW to \in RunStatus \ {"running", "paused"},
         NEW c \in Checkpoints, NEW child, run' = Taken(to, c, child)
  PROVE  /\ run'.status = to /\ run'.owner = run.owner /\ run'.live = run.live
         /\ run'.pausedFrom = run.pausedFrom /\ run'.applied = run.applied
<1> DEFINE r == Taken(to, c, child)
           m == Transition(run, to, WakeFor(to))
<1>1. /\ r.status = m.status /\ r.owner = m.owner /\ r.live = m.live
      /\ r.pausedFrom = m.pausedFrom /\ r.applied = m.applied
  BY TakenFields
<1>2. run \in Runs /\ WakeFor(to) \in Waits \union {"none"}
  BY DEF Inv, RunInv, WakeFor
<1>3. /\ m.status = to /\ m.owner = (IF KeepsLease(to) THEN run.owner ELSE NoWorker)
      /\ m.live = (KeepsLease(to) /\ run.live)
      /\ m.pausedFrom = Remembered(run, to)[1] /\ m.applied = run.applied
  BY <1>2, TransitionFields
<1>4. run' = r
  OBVIOUS
<1> HIDE DEF r, m
<1>5. run.owner = NoWorker /\ run.live = FALSE /\ run.pausedFrom = "none"
  BY <1>2 DEF Inv, RunInv, Runs
<1>6. QED
  BY <1>1, <1>3, <1>4, <1>5 DEF KeepsLease, Remembered

LEMMA PauseKept == ASSUME Inv, Pause PROVE Kept
<1>1. run' = Transition(run, "paused", "none") /\ "paused" \in RunStatus \ {"running"}
  BY DEF Pause, CommitByOther, RunStatus
<1>2. CASE run.status = "running"
  BY <1>1, <1>2, TransitionFromRunning
<1>3. CASE run.status # "running"
  <2>1. run.status \in {"queued"} \union Waits /\ run.status # "paused"
    BY <1>3 DEF Pause, Inv, RunInv, Runs, RunStatus
  <2>2. /\ run.owner = NoWorker /\ run.live = FALSE
        /\ run'.status = "paused" /\ run'.owner = NoWorker /\ run'.live = FALSE
        /\ run'.pausedFrom = Remembered(run, "paused")[1] /\ run'.applied = run.applied
    BY <1>1, <1>3, TransitionUnheld
  <2>3. run'.pausedFrom = run.status
    BY <2>1, <2>2 DEF Remembered
  <2>4. Lifecycle!Pause
    BY <2>1, <2>2, <2>3 DEF Lifecycle!Pause
  <2>5. QED
    BY <2>1, <2>4, NothingSaved DEF Kept, Contract, Lifecycle!Next
<1>4. QED
  BY <1>2, <1>3

LEMMA CancelKept == ASSUME Inv, Cancel PROVE Kept
<1>1. run' = Transition(run, "canceled", "none") /\ "canceled" \in RunStatus \ {"running"}
  BY DEF Cancel, CommitByOther, RunStatus, Terminal
<1>2. CASE run.status = "running"
  BY <1>1, <1>2, TransitionFromRunning
<1>3. CASE run.status # "running"
  <2>1. run.status \in {"queued", "paused"} \union Waits
    BY <1>3 DEF Cancel, Inv, RunInv, Runs, RunStatus
  <2>2. /\ run.owner = NoWorker /\ run.live = FALSE
        /\ run'.status = "canceled" /\ run'.owner = NoWorker /\ run'.live = FALSE
        /\ run'.pausedFrom = Remembered(run, "canceled")[1] /\ run'.applied = run.applied
    BY <1>1, <1>3, TransitionUnheld
  <2>3. run'.pausedFrom = "none"
    BY <2>2 DEF Remembered
  <2>4. Lifecycle!Cancel
    BY <2>1, <2>2, <2>3 DEF Lifecycle!Cancel
  <2>5. QED
    BY <2>2, <2>4 DEF Kept, WaitKept, Contract, Lifecycle!Next
<1>4. QED
  BY <1>2, <1>3

LEMMA ResumeKept == ASSUME Inv, Resume PROVE Kept
<1> DEFINE to   == Resumed(run)
           wake == IF to \in Waits THEN run.pausedWake ELSE "none"
<1>1. run.status = "paused" /\ run' = Transition(run, to, wake)
  BY DEF Resume, CommitByOther
<1>2. to = IF run.pausedFrom \in Waits THEN run.pausedFrom ELSE "queued"
  BY DEF Resumed
<1>3. to \in RunStatus \ {"running"} /\ to \notin Terminal \union {"paused"}
  BY <1>2 DEF RunStatus, Terminal, Waits, Timed, Held
<1>4. wake \in Waits \union {"none"}
  BY DEF Inv, RunInv, Runs
<1>5. to \in Waits => to = run.pausedFrom
  BY <1>2 DEF Waits, Timed, Held
<1> HIDE DEF to
<1>6. /\ run.owner = NoWorker /\ run.live = FALSE
      /\ run'.status = to /\ run'.owner = NoWorker /\ run'.live = FALSE
      /\ run'.pausedFrom = Remembered(run, to)[1] /\ run'.applied = run.applied
      /\ run'.wake = IF to \in Terminal \union {"paused"} THEN "none" ELSE wake
  BY <1>1, <1>3, <1>4, TransitionUnheld
<1>7. run'.pausedFrom = "none"
  BY <1>3, <1>6 DEF Remembered
<1>8. Lifecycle!Resume
  BY <1>1, <1>2, <1>6, <1>7 DEF Lifecycle!Resume
<1>9. WaitKept
  BY <1>2, <1>3, <1>6 DEF WaitKept
<1>10. QED
  BY <1>8, <1>9 DEF Kept, Contract, Lifecycle!Next

LEMMA WakeKept == ASSUME Inv, Wake PROVE Kept
<1>1. /\ run' = Transition(run, "queued", "none") /\ "queued" \in RunStatus \ {"running"}
      /\ run.status \in Waits /\ run.status \notin {"running", "paused"}
  BY DEF Wake, CommitByOther, RunStatus, Waits, Timed, Held
<1>2. /\ run.owner = NoWorker /\ run.live = FALSE
      /\ run'.status = "queued" /\ run'.owner = NoWorker /\ run'.live = FALSE
      /\ run'.pausedFrom = Remembered(run, "queued")[1] /\ run'.applied = run.applied
  BY <1>1, TransitionUnheld
<1>3. run.pausedFrom = "none" /\ run'.pausedFrom = "none"
  BY <1>1, <1>2 DEF Inv, RunInv, Remembered
<1>4. Lifecycle!Awaken
  BY <1>1, <1>2, <1>3 DEF Lifecycle!Awaken
<1>5. QED
  BY <1>1, <1>4, NothingSaved DEF Kept, Contract, Lifecycle!Next

LEMMA SettleKept == ASSUME Inv, Settle PROVE Kept
<1>1. PICK to \in RunStatus \ {"running", "paused"}, c \in Checkpoints :
         to \in Leads(run.status) /\ \E child : run' = Taken(to, c, child)
  BY SettleTakes DEF CommitByOther
<1>2. PICK child : run' = Taken(to, c, child)
  BY <1>1
<1>3. run.status \in Waits /\ run.status \notin {"running", "paused"}
  BY DEF Settle, Waits, Timed, Held
<1>4. to \in {"queued"} \union Lifecycle!Follows(run.status)
  BY <1>1 DEF Leads, Lifecycle!Follows
<1>5. /\ run'.status = to /\ run'.owner = run.owner /\ run'.live = run.live
      /\ run'.pausedFrom = run.pausedFrom /\ run'.applied = run.applied
  BY <1>1, <1>2, <1>3, TakenUnheld
<1>6. Lifecycle!Awaken
  BY <1>3, <1>4, <1>5 DEF Lifecycle!Awaken
<1>7. QED
  BY <1>3, <1>6, NothingSaved DEF Kept, Contract, Lifecycle!Next

LEMMA SettlePausedKept == ASSUME Inv, SettlePaused PROVE Kept
<1>1. PICK to \in LeadsPaused(run.pausedFrom) :
         /\ run'.status = "paused" /\ run'.pausedFrom = to /\ run'.pausedWake = WakeFor(to)
         /\ run'.owner = run.owner /\ run'.live = run.live /\ run'.applied = run.applied
         /\ run'.guidance = run.guidance
  BY SettlePausedFields DEF CommitByOther
<1>2. \/ run.pausedFrom \in {"waiting_for_approval", "waiting_for_dependency"} /\ to = "queued"
      \/ run.pausedFrom = "waiting_for_dependency" /\ to = "waiting_for_event"
  BY DEF LeadsPaused
<1>3. run.status = "paused"
  BY DEF SettlePaused
<1>4. Lifecycle!AwakenPaused
  BY <1>1, <1>2, <1>3 DEF Lifecycle!AwakenPaused
<1>5. WaitKept
  BY <1>1 DEF WaitKept
<1>6. QED
  BY <1>4, <1>5 DEF Kept, Contract, Lifecycle!Next

LEMMA EngageKept == ASSUME Inv, Engage PROVE Kept
<1>1. PICK to \in Engagements, child \in BOOLEAN : run' = Taken(to, run.checkpoint, child)
  BY DEF Engage, CommitByOther
<1>2. run.checkpoint \in Checkpoints /\ run.status \in {"queued", "running"}
  BY DEF Inv, RunInv, Runs, Engage
<1>3. to \in {"completed"} \union Waits /\ to \in RunStatus \ {"running", "paused"}
  BY RunTurnsAssumption DEF RunStatus, Waits, Timed, Held, Terminal
<1>4. CASE run.status = "queued"
  <2>1. /\ run'.status = to /\ run'.owner = run.owner /\ run'.live = run.live
        /\ run'.pausedFrom = run.pausedFrom /\ run'.applied = run.applied
    BY <1>1, <1>2, <1>3, <1>4, TakenUnheld
  <2>2. Lifecycle!Engage
    BY <1>3, <1>4, <2>1 DEF Lifecycle!Engage
  <2>3. QED
    BY <1>4, <2>2, NothingSaved DEF Kept, Contract, Lifecycle!Next
<1>5. CASE run.status = "running"
  <2> DEFINE r == Taken(to, run.checkpoint, child)
             m == Transition(run, to, WakeFor(to))
  <2>1. /\ r.status = m.status /\ r.owner = m.owner /\ r.live = m.live
        /\ r.pausedFrom = m.pausedFrom /\ r.applied = m.applied
    BY <1>2, <1>3, TakenFields
  <2>2. /\ m.status = to /\ m.owner = (IF KeepsLease(to) THEN run.owner ELSE NoWorker)
        /\ m.live = (KeepsLease(to) /\ run.live)
        /\ m.pausedFrom = Remembered(run, to)[1] /\ m.applied = run.applied
    BY <1>3, TransitionFields DEF Inv, RunInv, WakeFor
  <2>3. run' = r
    BY <1>1
  <2> HIDE DEF r, m
  <2>4. /\ run'.status = to /\ run'.owner = NoWorker /\ run'.live = FALSE
        /\ run'.pausedFrom = "none" /\ run'.applied = run.applied
    BY <1>3, <2>1, <2>2, <2>3 DEF KeepsLease, Remembered
  <2>5. QED
    BY <1>3, <1>5, <2>4, LeavesRunning
<1>6. QED
  BY <1>2, <1>4, <1>5

LEMMA RetryKept == ASSUME Inv, Retry PROVE Kept
<1> DEFINE c == [run.checkpoint EXCEPT !.explain = "none"]
<1>1. run.status = "failed" /\ run \in Runs
  BY DEF Retry, Inv, RunInv
<1>2. run' = [run EXCEPT !.status = "queued", !.owner = NoWorker, !.live = FALSE,
                         !.due = TRUE, !.checkpoint = c]
  BY <1>1 DEF Retry, CommitByOther, Runs
<1> HIDE DEF c
<1>3. /\ run'.status = "queued" /\ run'.owner = NoWorker /\ run'.live = FALSE
      /\ run'.pausedFrom = run.pausedFrom /\ run'.applied = run.applied
  BY <1>1, <1>2 DEF Runs
<1>4. run.owner = NoWorker /\ run.live = FALSE
  BY <1>1 DEF Inv, RunInv, Runs
<1>5. Lifecycle!Retry
  BY <1>1, <1>3, <1>4 DEF Lifecycle!Retry
<1>6. QED
  BY <1>1, <1>5, NothingSaved DEF Kept, Contract, Lifecycle!Next

LEMMA InterveneKept == ASSUME Inv, Intervene PROVE Kept
<1> DEFINE to    == IF run.status = "sleeping" THEN "queued" ELSE run.status
           wake  == IF run.status = "sleeping" THEN "none" ELSE run.wake
           moved == Transition(run, to, wake)
           n     == moved.guidance + 1
<1>1. run \in Runs /\ run.status \in RunStatus /\ run.wake \in Waits \union {"none"}
      /\ run.live \in BOOLEAN
  BY DEF Inv, RunInv, Runs
<1>2. to \in RunStatus /\ wake \in Waits \union {"none"}
  BY <1>1 DEF RunStatus
<1>3. run' = [moved EXCEPT !.guidance = n]
  BY DEF Intervene, CommitByOther
<1>4. to = (IF run.status = "sleeping" THEN "queued" ELSE run.status)
  OBVIOUS
<1> HIDE DEF to, wake, n
<1>5. /\ moved \in Runs /\ moved.status = to
      /\ moved.owner = IF KeepsLease(to) THEN run.owner ELSE NoWorker
      /\ moved.live = (KeepsLease(to) /\ run.live)
      /\ moved.pausedFrom = Remembered(run, to)[1]
      /\ moved.pausedWake = Remembered(run, to)[2] /\ moved.applied = run.applied
  BY <1>1, <1>2, TransitionFields
<1> HIDE DEF moved
<1>6. /\ run'.status = to /\ run'.owner = moved.owner /\ run'.live = moved.live
      /\ run'.pausedFrom = moved.pausedFrom /\ run'.pausedWake = moved.pausedWake
      /\ run'.applied = run.applied
  BY <1>3, <1>5 DEF Runs
<1>7. /\ run.status # "running" => run.owner = NoWorker /\ run.live = FALSE
      /\ run.status # "paused" => run.pausedFrom = "none"
  BY <1>1 DEF Inv, RunInv
<1>8. CASE run.status = "sleeping"
  <2>1. run.status \in Waits
    BY <1>8 DEF Waits, Timed
  <2>2. /\ run'.status = "queued" /\ run'.owner = run.owner /\ run'.live = run.live
        /\ run'.pausedFrom = run.pausedFrom
    BY <1>4, <1>5, <1>6, <1>7, <1>8 DEF KeepsLease, Remembered
  <2>3. Lifecycle!Awaken
    BY <1>6, <2>1, <2>2 DEF Lifecycle!Awaken
  <2>4. QED
    BY <1>8, <2>3, NothingSaved DEF Kept, Contract, Lifecycle!Next
<1>9. CASE run.status # "sleeping"
  <2>0. to = run.status /\ run'.status = run.status
    BY <1>4, <1>6, <1>9
  <2>1. /\ run'.status = run.status /\ run'.owner = run.owner /\ run'.live = run.live
        /\ run'.pausedFrom = run.pausedFrom
        /\ run.status = "paused" => run'.pausedWake = run.pausedWake
    <3>1. run'.owner = run.owner /\ run'.live = run.live
      <4>1. CASE run.status = "running"
        BY <1>1, <1>5, <1>6, <2>0, <4>1 DEF KeepsLease
      <4>2. CASE run.status # "running"
        BY <1>5, <1>6, <1>7, <2>0, <4>2 DEF KeepsLease
      <4>3. QED
        BY <4>1, <4>2
    <3>2. run'.pausedFrom = Remembered(run, run.status)[1]
          /\ run'.pausedWake = Remembered(run, run.status)[2]
      BY <1>5, <1>6, <2>0
    <3>3. CASE run.status = "paused"
      BY <2>0, <3>1, <3>2, <3>3 DEF Remembered
    <3>4. CASE run.status # "paused"
      <4>1. run'.pausedFrom = "none"
        BY <3>2, <3>4 DEF Remembered
      <4>2. QED
        BY <1>7, <2>0, <3>1, <3>4, <4>1
    <3>5. QED
      BY <3>3, <3>4
  <2>2. CASE run.status = "paused"
    BY <1>6, <2>1, <2>2, RunUnwritten
  <2>3. CASE run.status # "paused"
    BY <1>6, <2>1, <2>3, NothingSaved DEF Kept, Contract
  <2>4. QED
    BY <2>2, <2>3
<1>10. QED
  BY <1>8, <1>9

LEMMA TimeKept == ASSUME Inv, Time PROVE Kept
<1>1. run \in Runs
  BY DEF Inv, RunInv
<1>2. CASE BackoffElapses
  <2>1. run' = [run EXCEPT !.due = TRUE]
    BY <1>2 DEF BackoffElapses
  <2>2. /\ run'.status = run.status /\ run'.owner = run.owner /\ run'.live = run.live
        /\ run'.applied = run.applied /\ run'.pausedFrom = run.pausedFrom
        /\ run'.pausedWake = run.pausedWake
    BY <1>1, <2>1 DEF Runs
  <2>3. QED
    BY <2>2, RunUnwritten
<1>3. CASE RunLeaseLapses
  <2>1. run' = [run EXCEPT !.live = FALSE] /\ run.live /\ run.owner # NoWorker
    BY <1>3 DEF RunLeaseLapses, Leased
  <2>2. /\ run'.status = run.status /\ run'.owner = run.owner /\ run'.live = FALSE
        /\ run'.applied = run.applied /\ run'.pausedFrom = run.pausedFrom
    BY <1>1, <2>1 DEF Runs
  <2>3. Lifecycle!Lapse /\ run.status # "paused"
    BY <2>1, <2>2 DEF Lifecycle!Lapse, Inv, RunInv
  <2>4. QED
    BY <2>3, NothingSaved DEF Kept, Contract, Lifecycle!Next
<1>4. CASE TurnLeaseLapses
  BY <1>4, RunUnwritten DEF TurnLeaseLapses
<1>5. QED
  BY <1>2, <1>3, <1>4 DEF Time

-----------------------------------------------------------------------------

\* Every step keeps the contract.
LEMMA UntouchedKept ==
  ASSUME Inv, run' = run
  PROVE  Kept
BY RunUnwritten

LEMMA WorkerKept ==
  ASSUME Inv, NEW w \in Workers, ClaimNext(w) \/ ExecuteClaim(w) \/ RunHeartbeat(w) \/ Crash(w)
  PROVE  Kept
<1>1. CASE ClaimNext(w)
  BY <1>1, ClaimKept, ClaimAtAttemptLimitKept DEF ClaimNext
<1>2. CASE StartQueued(w) \/ ReserveBudget(w) \/ ApplyTurn(w) \/ PublishFails(w)
  BY <1>2, StartQueuedKept, ReserveBudgetKept, ApplyTurnKept, PublishFailsKept
<1>3. CASE FailResolution(w) \/ Yield(w) \/ RecordProposal(w) \/ FailProposal(w)
  BY <1>3, FailResolutionKept, YieldKept, RecordProposalKept, FailProposalKept
<1>4. CASE \/ AdvanceRead(w) \/ FindPendingTurn(w) \/ BeginTurn(w) \/ CreateTurn(w)
           \/ ClaimTurn(w) \/ StartRunner(w) \/ RunnerReturns(w) \/ TurnHeartbeatFails(w)
           \/ CanceledCall(w) \/ Refresh(w) \/ FinishTurn(w) \/ RetryApply(w)
  <2>1. run' = run
    BY <1>4 DEF AdvanceRead, FindPendingTurn, BeginTurn, CreateTurn, ClaimTurn, StartRunner,
                RunnerReturns, TurnHeartbeatFails, CanceledCall, Refresh, FinishTurn, RetryApply
  <2>2. QED
    BY <2>1, UntouchedKept
<1>5. CASE \/ ResolveRunner(w) \/ ResolverFails(w) \/ RunHeartbeatFails(w) \/ Propose(w)
           \/ RunHeartbeat(w) \/ Crash(w)
  <2>1. run' = run
    BY <1>5 DEF ResolveRunner, ResolverFails, RunHeartbeatFails, Propose, RunHeartbeat, Crash,
                CommitByOther
  <2>2. QED
    BY <2>1, UntouchedKept
<1>6. QED
  BY <1>1, <1>2, <1>3, <1>4, <1>5 DEF ExecuteClaim, Advance

LEMMA StepKept == ASSUME Inv, [Next]_vars PROVE Kept
<1>1. CASE UNCHANGED vars
  BY <1>1, UntouchedKept DEF vars
<1>2. CASE Operator
  BY <1>2, PauseKept, ResumeKept, CancelKept, InterveneKept, RetryKept DEF Operator
<1>3. CASE Service \/ Time
  BY <1>3, WakeKept, SettleKept, SettlePausedKept, EngageKept, TimeKept DEF Service
<1>4. QED
  BY <1>1, <1>2, <1>3, WorkerKept DEF Next

\* A pause keeps the interrupted wait with its condition (TransitionRun), and Resume
\* goes back to it; a waiting Run always has the condition of its own status.
THEOREM WaitsSurvivePauses == Spec => WaitSurvivesPause
<1> DEFINE OwnWake == run'.status \in Waits => run'.wake = run'.status
<1>1. Inv /\ [Next]_vars => [OwnWake /\ WaitKept]_vars
  <2>1. ASSUME Inv, [Next]_vars PROVE OwnWake /\ WaitKept
    BY <2>1, StepIsSafe, StepKept DEF Inv, RunInv, Kept
  <2>2. QED
    BY <2>1
<1>2. QED
  BY Invariance, <1>1, PTL DEF Spec, WaitSurvivesPause, WaitKept

\* Whatever workers, operators and timers write to a Run, through TransitionRun or
\* past it (the claim, Retry), is a step of the contract RunLifecycle states.
THEOREM LifecycleImplemented == Spec => ImplementsLifecycle
<1>1. Init => Lifecycle!Init
  BY DEF Init, InitRun, Lifecycle!Init
<1>2. Inv /\ [Next]_vars => [Lifecycle!Next]_(Lifecycle!vars)
  BY StepKept DEF Kept, Contract, Lifecycle!vars
<1>3. QED
  BY Invariance, <1>1, <1>2, PTL DEF Spec, ImplementsLifecycle, Lifecycle!Spec

=============================================================================
