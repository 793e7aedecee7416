-------------------------- MODULE TurnBudgetProofs --------------------------
(***************************************************************************)
(* The Turn budget of RunTurns for any number of workers and any limits.   *)
(*                                                                         *)
(* The budget is kept in the Run, the reservations are for Turns, and they *)
(* are made by workers whose copies of the Run may be out of date.  So the *)
(* invariant has two parts on top of RunTurnsProofs!Inv: Ledger says how   *)
(* charges and reservations stand to the Turns, and ClaimFits what of this *)
(* a worker still knows when its copy is old.                              *)
(***************************************************************************)
EXTENDS RunTurnsProofs

\* Every applied Turn has ended, and is charged unless it was canceled; capacity is
\* reserved for created Turns to come only, and for every result among them.
Ledger(r, ts) ==
  /\ \A i \in 1 .. r.applied : ts[i].status \in Ended
  /\ TurnLimit > 0 => r.charged + Cardinality(r.reserved) <= TurnLimit
  /\ Budgeted => r.charged = Cardinality({i \in 1 .. r.applied : ts[i].status # "canceled"})
  /\ \A i \in r.reserved : i > r.applied /\ ts[i].status # "absent"
  /\ Budgeted => \A i \in Seqs : i > r.applied /\ ts[i].status \in {"completed", "failed"} =>
                                   i \in r.reserved

\* A copy of the Run is of an earlier state, in which fewer Turns were applied; while
\* the worker has the lease nobody else applies one.  The Turn it is at work on comes
\* after those of its copy, and capacity was reserved for it.
ClaimFits(w, ws, r, ts) ==
  /\ ws.pc \in Copying =>
       /\ ws.snap.applied <= r.applied
       /\ \A i \in ws.snap.reserved : i \in r.reserved \/ i <= r.applied
       /\ r.owner = w => ws.snap.applied = r.applied
  /\ ws.pc \in {"claimTurn", "reserve", "record"} =>
       ts[ws.turn].status # "absent" /\ ws.turn > ws.snap.applied
  /\ ws.pc = "executing" /\ r.owner = w => ws.turn > r.applied
  /\ Budgeted /\ ws.pc \in {"record", "executing", "refresh", "finish"} =>
       ws.turn \in r.reserved \/ ws.turn <= r.applied

BudgetInv ==
  /\ Ledger(run, turns)
  /\ \A w \in Workers : ClaimFits(w, wk[w], run, turns)

-----------------------------------------------------------------------------
(* Steps that leave the ledger alone.                                      *)

\* The Run is written, but none of its counts, and at most w takes its lease.
Quiet(r, w) ==
  /\ r.applied = run.applied /\ r.charged = run.charged /\ r.reserved = run.reserved
  /\ r.owner \in {run.owner, NoWorker, w}

\* No Turn goes, and none gets a result.
TurnsQuiet ==
  /\ \A i \in Seqs : turns[i].status # "absent" => turns'[i].status # "absent"
  /\ \A i \in Seqs : turns'[i].status \in {"completed", "failed"} =>
                       turns[i].status = turns'[i].status

LEMMA RunFacts ==
  ASSUME Inv
  PROVE  /\ run.applied \in 0 .. MaxTurns /\ 1 .. run.applied \subseteq Seqs
         /\ run.reserved \subseteq Seqs /\ IsFiniteSet(run.reserved)
         /\ run.charged \in Nat /\ MaxTurns \in Nat
         /\ NoWorker \notin Workers
<1>1. run \in Runs /\ MaxTurns \in Nat
  BY SeqsFinite DEF Inv, RunInv
<1>2. run.applied \in 0 .. MaxTurns /\ run.reserved \subseteq Seqs /\ run.charged \in 0 .. MaxTurns
  BY <1>1 DEF Runs
<1>3. 1 .. run.applied \subseteq Seqs
  BY <1>1, <1>2 DEF Seqs
<1>4. IsFiniteSet(run.reserved)
  BY <1>2, SeqsFinite, FS_Subset
<1> QED
  BY <1>1, <1>2, <1>3, <1>4, RunTurnsAssumption

LEMMA QuietLedger ==
  ASSUME Inv, Ledger(run, turns), Durable, TurnsQuiet, NEW w, Quiet(run', w)
  PROVE  Ledger(run', turns')
<1>1. \A i \in 1 .. run.applied : turns'[i] = turns[i]
  BY RunFacts DEF Ledger, Durable
<1>2. {i \in 1 .. run.applied : turns'[i].status # "canceled"}
        = {i \in 1 .. run.applied : turns[i].status # "canceled"}
  BY <1>1
<1>3. \A i \in run'.reserved : i > run'.applied /\ turns'[i].status # "absent"
  BY RunFacts DEF Ledger, Quiet, TurnsQuiet
<1>4. Budgeted => \A i \in Seqs : i > run'.applied /\ turns'[i].status \in {"completed", "failed"} =>
                                    i \in run'.reserved
  BY DEF Ledger, Quiet, TurnsQuiet
<1>5. \A i \in 1 .. run'.applied : turns'[i].status \in Ended
  BY <1>1 DEF Ledger, Quiet
<1> QED
  BY <1>2, <1>3, <1>4, <1>5 DEF Ledger, Quiet

\* What a worker is doing, apart from whether its copy is up to date.
SameClaim(v) ==
  wk'[v].pc = wk[v].pc /\ wk'[v].turn = wk[v].turn /\ wk'[v].snap = wk[v].snap

LEMMA OthersSame ==
  ASSUME Inv, NEW w \in Workers, NEW ws,
         wk' = [wk EXCEPT ![w] = ws] \/ wk' = [Outdated EXCEPT ![w] = ws]
  PROVE  wk'[w] = ws /\ \A v \in Workers \ {w} : SameClaim(v)
<1>1. wk \in [Workers -> WorkerStates]
  BY DEF Inv
<1>2. \A v \in Workers : /\ Outdated[v].pc = wk[v].pc /\ Outdated[v].turn = wk[v].turn
                         /\ Outdated[v].snap = wk[v].snap
  BY <1>1 DEF Outdated, WorkerStates
<1>3. Outdated \in [Workers -> WorkerStates]
  BY <1>1 DEF Outdated, WorkerStates
<1>4. CASE wk' = [wk EXCEPT ![w] = ws]
  BY <1>1, <1>4 DEF SameClaim
<1>5. CASE wk' = [Outdated EXCEPT ![w] = ws]
  BY <1>2, <1>3, <1>5 DEF SameClaim, Outdated
<1> QED
  BY <1>4, <1>5

\* A worker that takes no part in a step still fits, as long as Turns are only applied
\* under its lease if it is the holder.
LEMMA Carried ==
  ASSUME Inv, NEW v \in Workers, SameClaim(v), ClaimFits(v, wk[v], run, turns),
         run.applied <= run'.applied, run'.applied \in Nat,
         \A i \in run.reserved : i \in run'.reserved \/ i <= run'.applied,
         run'.owner = v => run.owner = v /\ run'.applied = run.applied,
         \A i \in Seqs : turns[i].status # "absent" => turns'[i].status # "absent"
  PROVE  ClaimFits(v, wk'[v], run', turns')
<1>1. wk[v].pc \in WithTurn => wk[v].turn \in Seqs
  BY DEF Inv, WorkerInv
<1>2. wk[v] \in WorkerStates
  BY DEF Inv
<1>3. wk[v].snap.applied \in 0 .. MaxTurns /\ wk[v].snap.reserved \subseteq Seqs
  BY <1>2 DEF WorkerStates, Copies
<1>4. wk[v].turn \in 0 .. MaxTurns
  BY <1>2 DEF WorkerStates
<1>5. run.applied \in 0 .. MaxTurns /\ MaxTurns \in Nat
  BY RunFacts
<1>6. wk'[v].pc \in Copying =>
       /\ wk'[v].snap.applied <= run'.applied
       /\ \A i \in wk'[v].snap.reserved : i \in run'.reserved \/ i <= run'.applied
       /\ run'.owner = v => wk'[v].snap.applied = run'.applied
  <2> SUFFICES ASSUME wk[v].pc \in Copying
               PROVE  /\ wk[v].snap.applied <= run'.applied
                      /\ \A i \in wk[v].snap.reserved : i \in run'.reserved \/ i <= run'.applied
                      /\ run'.owner = v => wk[v].snap.applied = run'.applied
    BY DEF SameClaim
  <2>1. /\ wk[v].snap.applied <= run.applied
        /\ \A i \in wk[v].snap.reserved : i \in run.reserved \/ i <= run.applied
        /\ run.owner = v => wk[v].snap.applied = run.applied
    BY DEF ClaimFits
  <2>2. \A i \in Seqs : i <= run.applied => i <= run'.applied
    BY <1>5 DEF Seqs
  <2> QED
    BY <1>3, <1>5, <2>1, <2>2
<1>7. wk'[v].pc \in {"claimTurn", "reserve", "record"} =>
       turns'[wk'[v].turn].status # "absent" /\ wk'[v].turn > wk'[v].snap.applied
  BY <1>1 DEF ClaimFits, SameClaim, WithTurn
<1>8. wk'[v].pc = "executing" /\ run'.owner = v => wk'[v].turn > run'.applied
  BY DEF ClaimFits, SameClaim
<1>9. Budgeted /\ wk'[v].pc \in {"record", "executing", "refresh", "finish"} =>
       wk'[v].turn \in run'.reserved \/ wk'[v].turn <= run'.applied
  BY <1>4, <1>5 DEF ClaimFits, SameClaim
<1> QED
  BY <1>6, <1>7, <1>8, <1>9 DEF ClaimFits

\* The steps of a worker that leave the ledger alone.
LEMMA QuietStep ==
  ASSUME Inv, BudgetInv, Durable, NEW w \in Workers, NEW ws,
         wk' = [wk EXCEPT ![w] = ws] \/ wk' = [Outdated EXCEPT ![w] = ws],
         Quiet(run', w), TurnsQuiet, ClaimFits(w, ws, run', turns')
  PROVE  BudgetInv'
<1>1. Ledger(run', turns')
  BY QuietLedger DEF BudgetInv
<1>2. wk'[w] = ws /\ \A v \in Workers \ {w} : SameClaim(v)
  BY OthersSame
<1>3. ASSUME NEW v \in Workers \ {w}
      PROVE  ClaimFits(v, wk'[v], run', turns')
  <2>1. run'.applied = run.applied /\ run'.reserved = run.reserved
        /\ (run'.owner = v => run.owner = v) /\ run.applied \in Nat
    BY <1>3, RunFacts DEF Quiet
  <2> QED
    BY <1>2, <2>1, Carried DEF BudgetInv, TurnsQuiet
<1> QED
  BY <1>1, <1>2, <1>3 DEF BudgetInv

\* The phases in which a worker has neither a copy of the Run nor a Turn to account for.
Free == {"idle", "resolve", "reject", "advance", "start", "propose", "proposing", "yield"}

LEMMA FreeStep ==
  ASSUME Inv, BudgetInv, Durable, NEW w \in Workers, NEW ws, ws.pc \in Free,
         wk' = [wk EXCEPT ![w] = ws] \/ wk' = [Outdated EXCEPT ![w] = ws],
         Quiet(run', w), TurnsQuiet
  PROVE  BudgetInv'
<1>1. ClaimFits(w, ws, run', turns')
  BY DEF ClaimFits, Free, Copying
<1> QED
  BY <1>1, QuietStep

\* A step of nobody: the Run is written by others, or time passes.
LEMMA OutsideStep ==
  ASSUME Inv, BudgetInv, Durable, wk' = wk \/ wk' = Outdated, Quiet(run', NoWorker), TurnsQuiet
  PROVE  BudgetInv'
<1>1. Ledger(run', turns')
  BY QuietLedger DEF BudgetInv
<1>2. \A v \in Workers : SameClaim(v)
  BY DEF SameClaim, Outdated, Inv, WorkerStates
<1>3. ASSUME NEW v \in Workers
      PROVE  ClaimFits(v, wk'[v], run', turns')
  <2>1. run'.applied = run.applied /\ run'.reserved = run.reserved
        /\ (run'.owner = v => run.owner = v) /\ run.applied \in Nat
    BY <1>3, RunFacts DEF Quiet
  <2> QED
    BY <1>2, <2>1, Carried DEF BudgetInv, TurnsQuiet
<1> QED
  BY <1>1, <1>3 DEF BudgetInv

\* TransitionRun leaves the counts alone.
LEMMA MoveQuiet ==
  ASSUME Inv, NEW to \in RunStatus, NEW wake \in Waits \union {"none"}, NEW w
  PROVE  Quiet(Transition(run, to, wake), w)
<1>1. run \in Runs
  BY DEF Inv, RunInv
<1>2. /\ Transition(run, to, wake).applied = run.applied
      /\ Transition(run, to, wake).charged = run.charged
      /\ Transition(run, to, wake).reserved = run.reserved
      /\ Transition(run, to, wake).owner = IF KeepsLease(to) THEN run.owner ELSE NoWorker
  BY <1>1, TransitionFields
<1> QED
  BY <1>2 DEF Quiet

\* Steps that leave the Run, or the Turns, as they are.
LEMMA SameRun == ASSUME run' = run, NEW w PROVE Quiet(run', w)
BY DEF Quiet

LEMMA SameTurns == ASSUME turns' = turns PROVE TurnsQuiet
BY DEF TurnsQuiet

\* A step of w that ends its claim and leaves the Run alone.
LEMMA AbandonQuiet ==
  ASSUME Inv, BudgetInv, Durable, NEW w \in Workers, Abandon(w), run' = run, TurnsQuiet
  PROVE  BudgetInv'
<1>1. Idle.pc \in Free /\ wk' = [wk EXCEPT ![w] = Idle]
  BY DEF Idle, Free, Abandon
<1> QED
  BY <1>1, FreeStep, SameRun

\* A step of w that ends its claim with a write of the Run.
LEMMA LeaveQuiet ==
  ASSUME Inv, BudgetInv, Durable, NEW w \in Workers, NEW r, CommitAndLeave(w, r), Quiet(r, w),
         turns' = turns
  PROVE  BudgetInv'
<1>1. Idle.pc \in Free /\ wk' = [Outdated EXCEPT ![w] = Idle] /\ Quiet(run', w)
  BY DEF Idle, Free, CommitAndLeave
<1> QED
  BY <1>1, FreeStep, SameTurns

\* What Return leaves the worker with.
LEMMA ReturnFree ==
  ASSUME NEW w, NEW status, NEW fresh, NEW proposal
  PROVE  Return(w, status, fresh, proposal).pc \in Free
BY DEF Return, Idle, Free

-----------------------------------------------------------------------------
(* The steps of a claim in which no Turn is at stake.                      *)

LEMMA ClaimBudget ==
  ASSUME Inv, BudgetInv, Durable, NEW w \in Workers, ClaimNext(w)
  PROVE  BudgetInv'
<1>1. CASE Claim(w)
  <2> DEFINE n == IF AttemptLimit > 0 THEN run.attempts + 1 ELSE run.attempts
             r == [run EXCEPT !.status = "running", !.owner = w, !.live = TRUE, !.attempts = n]
             ws == [Idle EXCEPT !.pc = "resolve"]
  <2>1. run' = r /\ wk' = [Outdated EXCEPT ![w] = ws] /\ turns' = turns
    BY <1>1 DEF Claim, CommitRun
  <2>2. Quiet(r, w)
    BY DEF Quiet, Inv, RunInv, Runs
  <2>3. ws.pc \in Free
    BY DEF Idle, Free
  <2> HIDE DEF r, ws
  <2> QED
    BY <2>1, <2>2, <2>3, FreeStep, SameTurns
<1>2. CASE ClaimAtAttemptLimit(w)
  <2> DEFINE r == [run EXCEPT !.pausedFrom = run.status, !.status = "paused",
                              !.owner = NoWorker, !.live = FALSE]
  <2>1. CommitAndLeave(w, r) /\ turns' = turns
    BY <1>2 DEF ClaimAtAttemptLimit
  <2>2. Quiet(r, w)
    BY DEF Quiet, Inv, RunInv, Runs
  <2> HIDE DEF r
  <2> QED
    BY <2>1, <2>2, LeaveQuiet
<1> QED
  BY <1>1, <1>2 DEF ClaimNext

LEMMA ResolveBudget ==
  ASSUME Inv, BudgetInv, Durable, NEW w \in Workers,
         ResolveRunner(w) \/ ResolverFails(w) \/ FailResolution(w)
  PROVE  BudgetInv'
<1>1. CASE ResolveRunner(w)
  <2> DEFINE ws == [wk[w] EXCEPT !.pc = "advance", !.slice = TurnsPerClaim]
  <2>1. run' = run /\ turns' = turns /\ wk \in [Workers -> WorkerStates]
    BY <1>1 DEF ResolveRunner, Inv
  <2>2. ws.pc \in Free
    BY <2>1 DEF Free, WorkerStates
  <2>3. wk' = [wk EXCEPT ![w] = ws] \/ Abandon(w)
    BY <1>1, <2>1 DEF ResolveRunner
  <2> HIDE DEF ws
  <2> QED
    BY <2>1, <2>2, <2>3, FreeStep, AbandonQuiet, SameRun, SameTurns
<1>2. CASE ResolverFails(w)
  <2>1. run' = run /\ turns' = turns /\ wk' = [wk EXCEPT ![w] = Holding(wk[w], "reject", run)]
    BY <1>2 DEF ResolverFails, ReadRun, Inv
  <2>2. Holding(wk[w], "reject", run).pc \in Free
    BY DEF Holding, Free, Inv, WorkerStates
  <2> QED
    BY <2>1, <2>2, FreeStep, SameRun, SameTurns
<1>3. CASE FailResolution(w)
  <2>1. turns' = turns
    BY <1>3 DEF FailResolution
  <2>2. CommitAndLeave(w, Transition(run, "failed", "none")) \/ (Abandon(w) /\ run' = run)
    BY <1>3 DEF FailResolution
  <2>3. Quiet(Transition(run, "failed", "none"), w)
    BY MoveQuiet DEF RunStatus, Terminal
  <2> QED
    BY <2>1, <2>2, <2>3, LeaveQuiet, AbandonQuiet, SameTurns
<1> QED
  BY <1>1, <1>2, <1>3

LEMMA YieldBudget ==
  ASSUME Inv, BudgetInv, Durable, NEW w \in Workers, Yield(w)
  PROVE  BudgetInv'
<1>1. turns' = turns
  BY DEF Yield
<1>2. CommitAndLeave(w, Transition(run, "queued", "none")) \/ (Abandon(w) /\ run' = run)
  BY DEF Yield
<1>3. Quiet(Transition(run, "queued", "none"), w)
  BY MoveQuiet DEF RunStatus
<1> QED
  BY <1>1, <1>2, <1>3, LeaveQuiet, AbandonQuiet, SameTurns

LEMMA ProposeBudget ==
  ASSUME Inv, BudgetInv, Durable, NEW w \in Workers, Propose(w) \/ RecordProposal(w)
  PROVE  BudgetInv'
<1>1. CASE Propose(w)
  <2>1. run' = run /\ turns' = turns /\ wk' = [wk EXCEPT ![w] = Holding(wk[w], "proposing", run)]
    BY <1>1 DEF Propose, ReadRun, Inv
  <2>2. Holding(wk[w], "proposing", run).pc \in Free
    BY DEF Holding, Free, Inv, WorkerStates
  <2> QED
    BY <2>1, <2>2, FreeStep, SameRun, SameTurns
<1>2. CASE RecordProposal(w)
  <2>1. turns' = turns
    BY <1>2 DEF RecordProposal
  <2>2. CASE wk[w].fresh
    <3>1. PICK to \in ProposalStatuses :
            CommitAndLeave(w, [Transition(run, to, IF to \in Waits THEN to ELSE "none")
                                 EXCEPT !.acted = TRUE, !.pausedFrom = "none",
                                        !.checkpoint.retries = 0])
      BY <1>2, <2>2 DEF RecordProposal
    <3> DEFINE moved == Transition(run, to, IF to \in Waits THEN to ELSE "none")
               c == [moved.checkpoint EXCEPT !.retries = 0]
               r == [moved EXCEPT !.acted = TRUE, !.pausedFrom = "none", !.checkpoint = c]
    <3>2. to \in RunStatus
      BY RunTurnsAssumption DEF RunStatus, Waits
    <3>3. moved \in Runs
      BY <3>2, TransitionKeepsRunInv DEF Inv, RunInv
    <3>4. Quiet(moved, w)
      <4>1. (IF to \in Waits THEN to ELSE "none") \in Waits \union {"none"}
        OBVIOUS
      <4> QED
        BY <3>2, <4>1, MoveQuiet
    <3> HIDE DEF moved
    <3>5. CommitAndLeave(w, r)
      BY <3>1, <3>3 DEF moved, Runs
    <3> HIDE DEF c
    <3>6. r.applied = moved.applied /\ r.charged = moved.charged
          /\ r.reserved = moved.reserved /\ r.owner = moved.owner
      BY <3>3 DEF Runs
    <3> HIDE DEF r
    <3> QED
      BY <2>1, <3>4, <3>5, <3>6, LeaveQuiet DEF Quiet
  <2>3. CASE ~wk[w].fresh
    BY <1>2, <2>1, <2>3, AbandonQuiet, SameTurns DEF RecordProposal
  <2> QED
    BY <2>2, <2>3
<1> QED
  BY <1>1, <1>2

LEMMA FailProposalBudget ==
  ASSUME Inv, BudgetInv, Durable, NEW w \in Workers, FailProposal(w)
  PROVE  BudgetInv'
<1>1. turns' = turns
  BY DEF FailProposal
<1>2. CASE wk[w].fresh /\ HoldsRun(w)
  <2>1. PICK to \in {"queued", "failed"} :
          \E c : CommitAndLeave(w, [Transition(run, to, "none") EXCEPT !.checkpoint = c])
    <3>1. \/ CommitAndLeave(w, [Transition(run, "queued", "none") EXCEPT !.checkpoint.retries = 0])
          \/ \E to \in {"queued", "failed"} :
               CommitAndLeave(w, [Transition(run, to, "none") EXCEPT !.checkpoint = Explaining(@)])
      BY <1>2 DEF FailProposal
    <3>2. \A to \in {"queued", "failed"} : Transition(run, to, "none") \in Runs
      BY MovedRun DEF RunInv
    <3>3. \A to \in {"queued", "failed"} :
            LET n == Transition(run, to, "none")
            IN  /\ [n EXCEPT !.checkpoint.retries = 0]
                     = [n EXCEPT !.checkpoint = [n.checkpoint EXCEPT !.retries = 0]]
                /\ [n EXCEPT !.checkpoint = Explaining(@)]
                     = [n EXCEPT !.checkpoint = Explaining(n.checkpoint)]
      BY <3>2 DEF Runs
    <3> QED
      BY <3>1, <3>3
  <2> PICK c : CommitAndLeave(w, [Transition(run, to, "none") EXCEPT !.checkpoint = c])
    BY <2>1
  <2> DEFINE moved == Transition(run, to, "none")
             r     == [moved EXCEPT !.checkpoint = c]
  <2>2. Quiet(moved, w)
    BY MoveQuiet DEF RunStatus, Terminal
  <2>3. moved \in Runs
    BY MovedRun DEF RunInv
  <2> HIDE DEF moved
  <2>4. r.applied = moved.applied /\ r.charged = moved.charged
        /\ r.reserved = moved.reserved /\ r.owner = moved.owner
    BY <2>3 DEF Runs
  <2>5. CommitAndLeave(w, r)
    BY DEF moved
  <2> HIDE DEF r
  <2> QED
    BY <1>1, <2>2, <2>4, <2>5, LeaveQuiet DEF Quiet
<1>3. CASE ~(wk[w].fresh /\ HoldsRun(w))
  BY <1>1, <1>3, AbandonQuiet, SameTurns DEF FailProposal
<1> QED
  BY <1>2, <1>3

-----------------------------------------------------------------------------
(* Operator commands, wakes, time and failure.                             *)

LEMMA OthersBudget ==
  ASSUME Inv, BudgetInv, Durable, Operator \/ Service
  PROVE  BudgetInv'
<1>1. ASSUME NEW r, CommitByOther(r), Quiet(r, NoWorker), turns' = turns PROVE BudgetInv'
  <2>1. run' = r /\ wk' = Outdated
    BY <1>1 DEF CommitByOther
  <2> QED
    BY <1>1, <2>1, OutsideStep, SameTurns
<1>2. run \in Runs
  BY DEF Inv, RunInv
<1>3. CASE Pause
  BY <1>1, <1>3, MoveQuiet DEF Pause, RunStatus
<1>4. CASE Cancel
  BY <1>1, <1>4, MoveQuiet DEF Cancel, RunStatus, Terminal
<1>5. CASE Wake
  BY <1>1, <1>5, MoveQuiet DEF Wake, RunStatus
<1>9. ASSUME NEW to \in RunStatus, NEW c \in Checkpoints, NEW child,
             CommitByOther(Taken(to, c, child)), turns' = turns
      PROVE  BudgetInv'
  <2> DEFINE m == Transition(run, to, WakeFor(to))
             r == Taken(to, c, child)
  <2>1. r.owner = m.owner /\ r.charged = m.charged /\ r.applied = m.applied
        /\ r.reserved = m.reserved
    BY TakenFields
  <2>2. Quiet(m, NoWorker)
    BY MoveQuiet DEF WakeFor
  <2>3. CommitByOther(r)
    BY <1>9
  <2> HIDE DEF m, r
  <2> QED
    BY <1>1, <1>9, <2>1, <2>2, <2>3 DEF Quiet
<1>10. CASE Settle
  BY <1>9, <1>10, SettleTakes DEF Settle
<1>11. CASE Engage
  <2>1. run.checkpoint \in Checkpoints
    BY <1>2 DEF Runs
  <2>2. Engagements \subseteq RunStatus
    BY RunTurnsAssumption DEF RunStatus, Waits, Timed, Held, Terminal
  <2> QED
    BY <1>9, <1>11, <2>1, <2>2 DEF Engage
<1>12. CASE SettlePaused
  <2>1. PICK r : /\ CommitByOther(r) /\ r.owner = run.owner /\ r.charged = run.charged
                 /\ r.applied = run.applied /\ r.reserved = run.reserved
    BY <1>12, SettlePausedFields
  <2>2. Quiet(r, NoWorker)
    BY <2>1 DEF Quiet
  <2> QED
    BY <1>1, <1>12, <2>1, <2>2 DEF SettlePaused
<1>6. CASE Resume
  <2> DEFINE to   == Resumed(run)
             wake == IF to \in Waits THEN run.pausedWake ELSE "none"
  <2>1. CommitByOther(Transition(run, to, wake)) /\ turns' = turns
    BY <1>6 DEF Resume
  <2>2. to \in RunStatus /\ wake \in Waits \union {"none"}
    BY <1>2 DEF Resumed, RunStatus, Runs
  <2> HIDE DEF to, wake
  <2> QED
    BY <1>1, <2>1, <2>2, MoveQuiet
<1>7. CASE Intervene
  <2> DEFINE to    == IF run.status = "sleeping" THEN "queued" ELSE run.status
             wake  == IF run.status = "sleeping" THEN "none" ELSE run.wake
             moved == Transition(run, to, wake)
             r     == [moved EXCEPT !.guidance = moved.guidance + 1]
  <2>1. CommitByOther(r) /\ turns' = turns
    BY <1>7 DEF Intervene
  <2>2. to \in RunStatus /\ wake \in Waits \union {"none"}
    BY <1>2 DEF RunStatus, Runs
  <2> HIDE DEF to, wake
  <2>3. Quiet(moved, NoWorker) /\ moved \in Runs
    BY <1>2, <2>2, MoveQuiet, TransitionFields
  <2> HIDE DEF moved
  <2>4. r.applied = moved.applied /\ r.charged = moved.charged
        /\ r.reserved = moved.reserved /\ r.owner = moved.owner
    BY <2>3 DEF Runs
  <2> HIDE DEF r
  <2> QED
    BY <1>1, <2>1, <2>3, <2>4 DEF Quiet
<1>8. CASE Retry
  <2> DEFINE c == [run.checkpoint EXCEPT !.explain = "none"]
             r == [run EXCEPT !.status = "queued", !.owner = NoWorker, !.live = FALSE,
                              !.due = TRUE, !.checkpoint = c]
  <2>1. CommitByOther(r) /\ turns' = turns
    BY <1>2, <1>8 DEF Retry, Runs
  <2> HIDE DEF c
  <2>2. Quiet(r, NoWorker)
    BY <1>2 DEF Quiet, Runs
  <2> HIDE DEF r
  <2> QED
    BY <1>1, <2>1, <2>2
<1> QED
  BY <1>3, <1>4, <1>5, <1>6, <1>7, <1>8, <1>10, <1>11, <1>12 DEF Operator, Service

LEMMA TimeBudget ==
  ASSUME Inv, BudgetInv, Durable, Time
  PROVE  BudgetInv'
<1>1. run \in Runs /\ turns \in [Seqs -> Turns]
  BY DEF Inv, RunInv, TurnsInv
<1>2. CASE BackoffElapses \/ RunLeaseLapses
  <2>1. wk' = wk /\ turns' = turns
    BY <1>2 DEF BackoffElapses, RunLeaseLapses
  <2>2. Quiet(run', NoWorker)
    BY <1>1, <1>2 DEF BackoffElapses, RunLeaseLapses, Quiet, Runs
  <2> QED
    BY <2>1, <2>2, OutsideStep, SameTurns
<1>3. CASE TurnLeaseLapses
  <2>1. wk' = wk /\ run' = run
    BY <1>3 DEF TurnLeaseLapses
  <2>2. PICK i \in RunningTurns : turns' = [turns EXCEPT ![i].live = FALSE]
    BY <1>3 DEF TurnLeaseLapses
  <2>3. i \in Seqs /\ turns' = [turns EXCEPT ![i] = [turns[i] EXCEPT !.live = FALSE]]
    BY <1>1, <2>2 DEF RunningTurns
  <2>4. \A j \in Seqs : turns'[j].status = turns[j].status
    BY <1>1, <2>3 DEF Turns
  <2> QED
    BY <2>1, <2>4, OutsideStep, SameRun DEF TurnsQuiet
<1> QED
  BY <1>2, <1>3 DEF Time

LEMMA HeartbeatBudget ==
  ASSUME Inv, BudgetInv, Durable, NEW w \in Workers,
         RunHeartbeat(w) \/ Crash(w) \/ CanceledCall(w)
  PROVE  BudgetInv'
<1>1. CASE RunHeartbeat(w)
  <2>1. wk' = Outdated /\ run' = run /\ turns' = turns
    BY <1>1 DEF RunHeartbeat, CommitByOther
  <2> QED
    BY <2>1, OutsideStep, SameRun, SameTurns
<1>2. CASE Crash(w) \/ CanceledCall(w)
  BY <1>2, AbandonQuiet, SameTurns DEF Crash, CanceledCall
<1> QED
  BY <1>1, <1>2

-----------------------------------------------------------------------------
(* Towards the runner.                                                     *)

\* A copy just read fits, if the Turn at work has its reservation.
LEMMA ReadFits ==
  ASSUME Inv, NEW w, NEW ws, ws.pc \in {"pending", "finish", "apply"}, ws.snap = Copy(run'),
         run'.applied \in Nat,
         Budgeted /\ ws.pc = "finish" => ws.turn \in run'.reserved \/ ws.turn <= run'.applied
  PROVE  ClaimFits(w, ws, run', turns')
<1>1. ws.snap.applied = run'.applied /\ ws.snap.reserved = run'.reserved
  BY DEF Copy
<1> QED
  BY <1>1 DEF ClaimFits

LEMMA AdvanceReadBudget ==
  ASSUME Inv, BudgetInv, Durable, NEW w \in Workers, AdvanceRead(w) \/ StartQueued(w)
  PROVE  BudgetInv'
<1>1. wk[w] \in WorkerStates /\ run.applied \in Nat
  BY RunFacts DEF Inv
<1>2. \A r : /\ Holding(wk[w], "pending", r).pc = "pending"
             /\ Holding(wk[w], "pending", r).snap = Copy(r)
             /\ Holding(wk[w], "start", r).pc = "start"
  BY <1>1 DEF Holding, WorkerStates, Copying
<1>3. CASE AdvanceRead(w)
  <2>1. run' = run /\ turns' = turns
    BY <1>3 DEF AdvanceRead
  <2>2. CASE run.status = "running"
    <3>1. wk' = [wk EXCEPT ![w] = Holding(wk[w], "pending", run)]
      BY <1>3, <2>2 DEF AdvanceRead, ReadRun, Inv
    <3>2. ClaimFits(w, Holding(wk[w], "pending", run), run', turns')
      BY <1>1, <1>2, <2>1, ReadFits
    <3> QED
      BY <2>1, <3>1, <3>2, QuietStep, SameRun, SameTurns
  <2>3. CASE run.status = "queued"
    <3>1. wk' = [wk EXCEPT ![w] = Holding(wk[w], "start", run)]
      BY <1>3, <2>3 DEF AdvanceRead, ReadRun, Inv
    <3>2. Holding(wk[w], "start", run).pc \in Free
      BY <1>2 DEF Free
    <3> QED
      BY <2>1, <3>1, <3>2, FreeStep, SameRun, SameTurns
  <2>4. CASE run.status \notin {"running", "queued"}
    BY <1>3, <2>1, <2>4, AbandonQuiet, SameTurns DEF AdvanceRead
  <2> QED
    BY <2>2, <2>3, <2>4
<1>4. CASE StartQueued(w)
  <2> DEFINE r == Transition(run, "running", "none")
  <2>1. turns' = turns
    BY <1>4 DEF StartQueued
  <2>2. CASE wk[w].fresh
    <3>1. run' = r /\ wk' = [Outdated EXCEPT ![w] = Holding(wk[w], "pending", r)]
      BY <1>4, <2>2 DEF StartQueued, CommitRun
    <3>2. Quiet(r, w)
      BY MoveQuiet DEF RunStatus
    <3> HIDE DEF r
    <3>3. ClaimFits(w, Holding(wk[w], "pending", r), run', turns')
      BY <1>1, <1>2, <3>1, <3>2, ReadFits DEF Quiet
    <3> QED
      BY <2>1, <3>1, <3>2, <3>3, QuietStep, SameTurns
  <2>3. CASE ~wk[w].fresh
    BY <1>4, <2>1, <2>3, AbandonQuiet, SameTurns DEF StartQueued
  <2> QED
    BY <2>2, <2>3
<1> QED
  BY <1>3, <1>4

LEMMA FindPendingTurnBudget ==
  ASSUME Inv, BudgetInv, Durable, NEW w \in Workers, FindPendingTurn(w) \/ BeginTurn(w)
  PROVE  BudgetInv'
<1>1. /\ wk[w] \in WorkerStates /\ wk \in [Workers -> WorkerStates]
      /\ wk[w].snap.applied \in 0 .. MaxTurns /\ MaxTurns \in Nat
  BY RunFacts DEF Inv, WorkerStates, Copies
<1>2. ClaimFits(w, wk[w], run, turns)
  BY DEF BudgetInv
<1>3. CASE FindPendingTurn(w)
  <2> DEFINE i    == wk[w].snap.applied + 1
             turn == IF i \in Created THEN i ELSE 0
             pc   == PendingPhase(i)
             rec  == pc = "apply"
             ws   == [wk[w] EXCEPT !.turn = turn, !.pc = pc, !.reconciled = rec]
  <2>1. run' = run /\ turns' = turns /\ wk' = [wk EXCEPT ![w] = ws] /\ wk[w].pc = "pending"
    BY <1>1, <1>3 DEF FindPendingTurn
  <2>2. \/ pc = "begin" \/ pc = "apply"
        \/ pc = "claimTurn" /\ i \in Created /\ turn = i /\ turns[i].status = "running"
    BY DEF PendingPhase, RunningTurns, Created
  <2>3. i > wk[w].snap.applied
    BY <1>1
  <2> HIDE DEF i, turn, pc, rec
  <2>4. ws.pc = pc /\ ws.turn = turn /\ ws.snap = wk[w].snap
    BY <1>1 DEF WorkerStates
  <2> HIDE DEF ws
  <2>5. ClaimFits(w, ws, run', turns')
    BY <1>2, <2>1, <2>2, <2>3, <2>4 DEF ClaimFits, Copying
  <2> QED
    BY <2>1, <2>5, QuietStep, SameRun, SameTurns
<1>4. CASE BeginTurn(w)
  <2> DEFINE ws == [wk[w] EXCEPT !.pc = "create"]
  <2>1. run' = run /\ turns' = turns /\ wk[w].pc = "begin"
        /\ (wk' = [wk EXCEPT ![w] = ws] \/ Abandon(w))
    BY <1>4 DEF BeginTurn, Goto
  <2>2. ws.pc = "create" /\ ws.snap = wk[w].snap
    BY <1>1 DEF WorkerStates
  <2> HIDE DEF ws
  <2>3. ClaimFits(w, ws, run', turns')
    BY <1>2, <2>1, <2>2 DEF ClaimFits, Copying
  <2> QED
    BY <2>1, <2>3, QuietStep, AbandonQuiet, SameRun, SameTurns
<1> QED
  BY <1>3, <1>4

LEMMA CreateTurnBudget ==
  ASSUME Inv, BudgetInv, Durable, NEW w \in Workers, CreateTurn(w)
  PROVE  BudgetInv'
<1> DEFINE n  == Cardinality(Created)
           i  == n + 1
           t  == [NoTurn EXCEPT !.status = "running", !.owner = w, !.live = TRUE]
           ws == [wk[w] EXCEPT !.pc = Reserving, !.turn = i]
<1>1. /\ wk[w] \in WorkerStates /\ wk \in [Workers -> WorkerStates] /\ run' = run
      /\ wk[w].pc = "create" /\ turns \in [Seqs -> Turns]
  BY DEF Inv, TurnsInv, CreateTurn
<1>2. CASE ~(NoActiveTurn /\ i \in Seqs)
  BY <1>1, <1>2, AbandonQuiet, SameTurns DEF CreateTurn
<1>3. CASE NoActiveTurn /\ i \in Seqs
  <2>1. turns' = [turns EXCEPT ![i] = t] /\ wk' = [wk EXCEPT ![w] = ws]
    BY <1>1, <1>3 DEF CreateTurn
  <2>2. t.status = "running"
    BY DEF NoTurn
  <2> HIDE DEF t
  <2>3. TurnsQuiet /\ turns'[i].status # "absent"
    BY <1>1, <1>3, <2>1, <2>2 DEF TurnsQuiet
  <2>4. Created = 1 .. n /\ n \in Nat
    <3>1. IsFiniteSet(Created)
      BY SeqsFinite, FS_Subset DEF Created
    <3> QED
      BY <3>1, FS_CardinalityType DEF Inv, TurnsInv, CreatedIn, Created
  <2> HIDE DEF n
  <2>5. run.applied < i
    <3>1. \A j \in 1 .. run.applied : j \in Created
      BY RunFacts DEF BudgetInv, Ledger, Created, Ended
    <3>2. run.applied = 0 \/ run.applied \in 1 .. run.applied
      BY RunFacts
    <3> QED
      BY <2>4, <3>1, <3>2, RunFacts
  <2>6. ClaimFits(w, wk[w], run, turns) /\ wk[w].snap.applied \in Nat
    BY <1>1, RunFacts DEF BudgetInv, WorkerStates, Copies
  <2>7. ws.pc = Reserving /\ ws.turn = i /\ ws.snap = wk[w].snap
    BY <1>1 DEF WorkerStates
  <2> HIDE DEF ws
  <2>8. i > wk[w].snap.applied
    BY <1>1, <2>4, <2>5, <2>6, RunFacts DEF ClaimFits, Copying
  <2>9. Reserving \in {"reserve", "record"} /\ (Budgeted => Reserving = "reserve")
    BY DEF Reserving
  <2>10. ClaimFits(w, ws, run', turns')
    BY <1>1, <2>3, <2>6, <2>7, <2>8, <2>9 DEF ClaimFits, Copying
  <2> QED
    BY <1>1, <2>1, <2>3, <2>10, QuietStep, SameRun
<1> QED
  BY <1>2, <1>3

LEMMA ClaimTurnBudget ==
  ASSUME Inv, BudgetInv, Durable, NEW w \in Workers, ClaimTurn(w)
  PROVE  BudgetInv'
<1> DEFINE i  == wk[w].turn
           t  == [turns[i] EXCEPT !.owner = w, !.live = TRUE]
           ws == [wk[w] EXCEPT !.pc = Reserving, !.seen = turns[i].seen]
<1>1. /\ wk[w] \in WorkerStates /\ wk \in [Workers -> WorkerStates] /\ run' = run
      /\ wk[w].pc = "claimTurn" /\ turns \in [Seqs -> Turns] /\ i \in Seqs
  BY DEF Inv, TurnsInv, ClaimTurn, WorkerInv, WithTurn
<1>2. CASE ~TurnClaimable(w, turns[i])
  BY <1>1, <1>2, AbandonQuiet, SameTurns DEF ClaimTurn
<1>3. CASE TurnClaimable(w, turns[i])
  <2>1. turns' = [turns EXCEPT ![i] = t] /\ wk' = [wk EXCEPT ![w] = ws]
    BY <1>1, <1>3 DEF ClaimTurn
  <2>2. t.status = turns[i].status
    BY <1>1 DEF Turns
  <2> HIDE DEF t
  <2>3. \A j \in Seqs : turns'[j].status = turns[j].status
    BY <1>1, <2>1, <2>2
  <2>4. ClaimFits(w, wk[w], run, turns)
    BY DEF BudgetInv
  <2>5. ws.pc = Reserving /\ ws.turn = i /\ ws.snap = wk[w].snap
    BY <1>1 DEF WorkerStates
  <2> HIDE DEF ws
  <2>6. Reserving \in {"reserve", "record"} /\ (Budgeted => Reserving = "reserve")
    BY DEF Reserving
  <2>7. ClaimFits(w, ws, run', turns')
    BY <1>1, <2>3, <2>4, <2>5, <2>6 DEF ClaimFits, Copying
  <2> QED
    BY <1>1, <2>1, <2>3, <2>7, QuietStep, SameRun DEF TurnsQuiet
<1> QED
  BY <1>2, <1>3

\* A reservation is made for a Turn that has none, within what the limit leaves.
LEMMA Reserved ==
  ASSUME Inv, BudgetInv, NEW i \in Seqs, i \notin run.reserved, i > run.applied,
         turns[i].status # "absent",
         ~WouldExceed(run.charged + Cardinality(run.reserved \ {i}) + 1)
  PROVE  Ledger([run EXCEPT !.reserved = @ \union {i}], turns)
<1> DEFINE r == [run EXCEPT !.reserved = run.reserved \union {i}]
<1>1. run \in Runs
  BY DEF Inv, RunInv
<1>2. r.applied = run.applied /\ r.charged = run.charged /\ r.reserved = run.reserved \union {i}
  BY <1>1 DEF Runs
<1> HIDE DEF r
<1>3. Cardinality(run.reserved \union {i}) = Cardinality(run.reserved) + 1
      /\ run.reserved \ {i} = run.reserved /\ Cardinality(run.reserved) \in Nat
  BY RunFacts, FS_AddElement, FS_CardinalityType
<1>4. TurnLimit > 0 => r.charged + Cardinality(r.reserved) <= TurnLimit
  <2>1. TurnLimit \in Nat
    BY RunTurnsAssumption
  <2> QED
    BY <1>2, <1>3, <2>1, RunFacts DEF WouldExceed
<1>5. Ledger(r, turns)
  BY <1>2, <1>4 DEF BudgetInv, Ledger
<1> QED
  BY <1>5 DEF r

LEMMA ReserveBudgetBudget ==
  ASSUME Inv, BudgetInv, Durable, NEW w \in Workers, ReserveBudget(w)
  PROVE  BudgetInv'
<1> DEFINE i == wk[w].turn
           n == wk[w].snap.charged + Cardinality(OtherReservations(w)) + 1
<1>1. /\ wk[w] \in WorkerStates /\ wk \in [Workers -> WorkerStates] /\ run \in Runs
      /\ wk[w].pc = "reserve" /\ turns \in [Seqs -> Turns] /\ i \in Seqs
      /\ wk[w].fresh => wk[w].snap = Copy(run)
  BY DEF Inv, TurnsInv, RunInv, ReserveBudget, WorkerInv, WithTurn, Copying
<1>2. ClaimFits(w, wk[w], run, turns)
  BY DEF BudgetInv
<1>3. CASE i \in wk[w].snap.reserved
  <2> DEFINE ws == [wk[w] EXCEPT !.pc = "record"]
  <2>1. run' = run /\ turns' = turns /\ wk' = [wk EXCEPT ![w] = ws]
    BY <1>1, <1>3 DEF ReserveBudget, Goto
  <2>2. ws.pc = "record" /\ ws.turn = i /\ ws.snap = wk[w].snap
    BY <1>1 DEF WorkerStates
  <2> HIDE DEF ws
  <2>3. ClaimFits(w, ws, run', turns')
    BY <1>1, <1>2, <1>3, <2>1, <2>2 DEF ClaimFits, Copying
  <2> QED
    BY <2>1, <2>3, QuietStep, SameRun, SameTurns
<1>4. CASE i \notin wk[w].snap.reserved /\ WouldExceed(n)
  <2> DEFINE ws == [wk[w] EXCEPT !.pc = "apply"]
             t  == [turns[i] EXCEPT !.status = "canceled", !.owner = NoWorker, !.live = FALSE,
                                    !.base = wk[w].base, !.next = "paused", !.wants = FALSE,
                                    !.checkpoint = EmptyCheckpoint]
  <2>1. run' = run
    BY <1>4 DEF ReserveBudget
  <2>2. CASE HoldsTurn(w)
    <3>1. turns' = [turns EXCEPT ![i] = t] /\ wk' = [wk EXCEPT ![w] = ws]
      BY <1>1, <1>4, <2>2 DEF ReserveBudget, FinishedTurn, Goto
    <3>2. ws.pc = "apply" /\ ws.snap = wk[w].snap /\ t.status = "canceled"
      BY <1>1 DEF WorkerStates, Turns
    <3> HIDE DEF ws, t
    <3>3. TurnsQuiet
      BY <1>1, <3>1, <3>2 DEF TurnsQuiet
    <3>4. ClaimFits(w, ws, run', turns')
      BY <1>1, <1>2, <2>1, <3>2 DEF ClaimFits, Copying
    <3> QED
      BY <2>1, <3>1, <3>3, <3>4, QuietStep, SameRun
  <2>3. CASE ~HoldsTurn(w)
    BY <1>4, <2>1, <2>3, AbandonQuiet, SameTurns DEF ReserveBudget
  <2> QED
    BY <2>2, <2>3
<1>5. CASE i \notin wk[w].snap.reserved /\ ~WouldExceed(n)
  <2>1. turns' = turns
    BY <1>5 DEF ReserveBudget
  <2>2. CASE wk[w].fresh /\ (wk[w].snap.owner = NoWorker \/ HoldsRun(w))
    <3> DEFINE r  == [run EXCEPT !.reserved = @ \union {i}]
               ws == Holding(wk[w], "record", r)
    <3>1. run' = r /\ wk' = [Outdated EXCEPT ![w] = ws]
      BY <1>5, <2>2 DEF ReserveBudget, CommitRun
    <3>2. wk[w].snap.charged = run.charged /\ wk[w].snap.reserved = run.reserved
          /\ wk[w].snap.applied = run.applied
      BY <1>1, <2>2 DEF Copy
    <3>3. i > run.applied /\ turns[i].status # "absent"
      BY <1>1, <1>2, <3>2 DEF ClaimFits
    <3>4. Ledger(r, turns)
      BY <1>1, <1>5, <3>2, <3>3, Reserved DEF OtherReservations
    <3>5. r.applied = run.applied /\ r.reserved = run.reserved \union {i} /\ r.owner = run.owner
      BY <1>1 DEF Runs
    <3>6. ws.pc = "record" /\ ws.turn = i /\ ws.snap = Copy(r)
      BY <1>1 DEF Holding, WorkerStates, Copying
    <3> HIDE DEF r, ws
    <3>7. ClaimFits(w, ws, r, turns)
      <4>1. ws.snap.applied = r.applied /\ ws.snap.reserved = r.reserved
        BY <3>6 DEF Copy
      <4>2. r.applied \in Nat
        BY <3>5, RunFacts
      <4> QED
        BY <3>3, <3>5, <3>6, <4>1, <4>2 DEF ClaimFits
    <3>8. wk'[w] = ws /\ \A v \in Workers \ {w} : SameClaim(v)
      BY <3>1, OthersSame
    <3>9. ASSUME NEW v \in Workers \ {w}
          PROVE  ClaimFits(v, wk'[v], run', turns')
      <4>1. ClaimFits(v, wk[v], run, turns) /\ SameClaim(v)
        BY <3>8 DEF BudgetInv
      <4>2. /\ run'.applied = run.applied /\ run.applied \in Nat /\ run'.owner = run.owner
            /\ \A j \in run.reserved : j \in run'.reserved
        BY <3>1, <3>5, RunFacts
      <4> QED
        BY <2>1, <4>1, <4>2, Carried
    <3> QED
      BY <2>1, <3>1, <3>4, <3>7, <3>8, <3>9 DEF BudgetInv
  <2>3. CASE ~(wk[w].fresh /\ (wk[w].snap.owner = NoWorker \/ HoldsRun(w)))
    BY <1>5, <2>1, <2>3, AbandonQuiet, SameTurns DEF ReserveBudget
  <2> QED
    BY <2>2, <2>3
<1> QED
  BY <1>3, <1>4, <1>5

LEMMA StartRunnerBudget ==
  ASSUME Inv, BudgetInv, Durable, NEW w \in Workers, StartRunner(w)
  PROVE  BudgetInv'
<1> DEFINE i  == wk[w].turn
           t  == [turns[i] EXCEPT !.seen = wk[w].snap.guidance]
           ws == [Idle EXCEPT !.pc = "executing", !.turn = i, !.base = wk[w].snap.applied,
                              !.slice = wk[w].slice, !.canceled = wk[w].canceled]
<1>1. /\ wk[w] \in WorkerStates /\ wk[w].pc = "record" /\ run' = run
      /\ turns \in [Seqs -> Turns] /\ i \in Seqs
  BY DEF Inv, TurnsInv, StartRunner, WorkerInv, WithTurn
<1>2. ClaimFits(w, wk[w], run, turns)
  BY DEF BudgetInv
<1>3. ws.pc = "executing" /\ ws.turn = i
  BY DEF Idle
<1>4. \/ Abandon(w) /\ turns' = turns
      \/ wk' = [wk EXCEPT ![w] = ws] /\ (turns' = turns \/ turns' = [turns EXCEPT ![i] = t])
  BY <1>1 DEF StartRunner
<1>5. t.status = turns[i].status
  BY <1>1 DEF Turns
<1> HIDE DEF t, ws
<1>6. TurnsQuiet
  BY <1>1, <1>4, <1>5 DEF TurnsQuiet
<1>7. ClaimFits(w, ws, run', turns')
  BY <1>1, <1>2, <1>3 DEF ClaimFits, Copying
<1> QED
  BY <1>1, <1>4, <1>6, <1>7, QuietStep, AbandonQuiet, SameRun

-----------------------------------------------------------------------------
(* The runner in flight, and its outcome.                                  *)

\* A worker that stays with its Turn keeps the reservation.
LEMMA StaysFits ==
  ASSUME NEW w \in Workers, BudgetInv, wk[w].pc = "executing", NEW ws, ws.pc = "refresh",
         ws.turn = wk[w].turn
  PROVE  ClaimFits(w, ws, run, turns)
BY DEF BudgetInv, ClaimFits, Copying

LEMMA ReturnsBudget ==
  ASSUME Inv, BudgetInv, Durable, NEW w \in Workers,
         RunnerReturns(w) \/ TurnHeartbeatFails(w) \/ RunHeartbeatFails(w)
  PROVE  BudgetInv'
<1>1. run' = run /\ turns' = turns /\ wk[w] \in WorkerStates /\ wk \in [Workers -> WorkerStates]
  BY DEF Inv, RunnerReturns, TurnHeartbeatFails, RunHeartbeatFails
<1>2. ASSUME NEW o, wk' = [wk EXCEPT ![w] = [wk[w] EXCEPT !.pc = "refresh", !.out = o]],
             wk[w].pc = "executing"
      PROVE  BudgetInv'
  <2> DEFINE ws == [wk[w] EXCEPT !.pc = "refresh", !.out = o]
  <2>1. ws.pc = "refresh" /\ ws.turn = wk[w].turn /\ wk' = [wk EXCEPT ![w] = ws]
    BY <1>1, <1>2 DEF WorkerStates
  <2> HIDE DEF ws
  <2>2. ClaimFits(w, ws, run', turns')
    BY <1>1, <1>2, <2>1, StaysFits
  <2> QED
    BY <1>1, <2>1, <2>2, QuietStep, SameRun, SameTurns
<1>3. CASE RunnerReturns(w)
  <2>1. PICK o \in RunnerOutcomes : wk' = [wk EXCEPT ![w].pc = "refresh", ![w].out = o]
    BY <1>3 DEF RunnerReturns
  <2>2. wk' = [wk EXCEPT ![w] = [wk[w] EXCEPT !.pc = "refresh", !.out = o]]
    BY <1>1, <2>1
  <2> QED
    BY <1>2, <1>3, <2>2 DEF RunnerReturns
<1>4. CASE TurnHeartbeatFails(w)
  <2>1. wk' = [wk EXCEPT ![w] = [wk[w] EXCEPT !.pc = "refresh",
                                              !.out = [wk[w].out EXCEPT !.kind = "lost"]]]
    BY <1>1, <1>4 DEF TurnHeartbeatFails
  <2> QED
    BY <1>2, <1>4, <2>1 DEF TurnHeartbeatFails
<1>5. CASE RunHeartbeatFails(w)
  <2> DEFINE pc == IF wk[w].pc = "executing" THEN "refresh" ELSE wk[w].pc
             ws == [wk[w] EXCEPT !.canceled = TRUE, !.pc = pc]
  <2>1. wk' = [wk EXCEPT ![w] = ws] \/ Abandon(w)
    BY <1>1, <1>5 DEF RunHeartbeatFails
  <2>2. ws.pc = pc /\ ws.turn = wk[w].turn /\ ws.snap = wk[w].snap
    BY <1>1 DEF WorkerStates
  <2>3. pc = wk[w].pc \/ (wk[w].pc = "executing" /\ pc = "refresh")
    OBVIOUS
  <2> HIDE DEF pc, ws
  <2>4. CASE pc = wk[w].pc
    <3>1. ClaimFits(w, ws, run', turns')
      BY <1>1, <2>2, <2>4 DEF BudgetInv, ClaimFits
    <3> QED
      BY <1>1, <2>1, <3>1, QuietStep, AbandonQuiet, SameRun, SameTurns
  <2>5. CASE wk[w].pc = "executing" /\ pc = "refresh"
    <3>1. ClaimFits(w, ws, run', turns')
      BY <1>1, <2>2, <2>5, StaysFits
    <3> QED
      BY <1>1, <2>1, <3>1, QuietStep, AbandonQuiet, SameRun, SameTurns
  <2> QED
    BY <2>3, <2>4, <2>5
<1> QED
  BY <1>3, <1>4, <1>5

LEMMA RefreshBudget ==
  ASSUME Inv, BudgetInv, Durable, NEW w \in Workers, Refresh(w)
  PROVE  BudgetInv'
<1> DEFINE i == wk[w].turn
           t == [turns[i] EXCEPT !.owner = NoWorker, !.live = FALSE]
           c == [turns[i] EXCEPT !.status = "canceled", !.owner = NoWorker, !.live = FALSE,
                                 !.base = wk[w].base, !.next = run.status, !.wants = FALSE,
                                 !.checkpoint = EmptyCheckpoint]
           back == Return(w, run.status, TRUE, FALSE)
<1>1. /\ wk[w] \in WorkerStates /\ wk[w].pc = "refresh" /\ run' = run
      /\ turns \in [Seqs -> Turns] /\ i \in Seqs
  BY DEF Inv, TurnsInv, Refresh, WorkerInv, WithTurn
<1>2. \/ turns' = turns \/ turns' = [turns EXCEPT ![i] = t] \/ turns' = [turns EXCEPT ![i] = c]
  BY <1>1 DEF Refresh, FinishedTurn
<1>3. t.status = turns[i].status /\ c.status = "canceled"
  BY <1>1 DEF Turns
<1>4. Abandon(w) \/ wk' = [wk EXCEPT ![w] = back] \/ ReadRun(w, "finish")
  BY DEF Refresh
<1> HIDE DEF t, c, back
<1>5. TurnsQuiet
  BY <1>1, <1>2, <1>3 DEF TurnsQuiet
<1>6. CASE wk' = [wk EXCEPT ![w] = back]
  <2>1. back.pc \in Free
    BY ReturnFree DEF back
  <2> QED
    BY <1>1, <1>5, <1>6, <2>1, FreeStep, SameRun
<1>7. CASE ReadRun(w, "finish")
  <2> DEFINE ws == Holding(wk[w], "finish", run)
  <2>1. wk' = [wk EXCEPT ![w] = ws]
    BY <1>7 DEF ReadRun, Inv
  <2>2. ws.pc = "finish" /\ ws.snap = Copy(run) /\ ws.turn = i
    BY <1>1 DEF Holding, WorkerStates, Copying
  <2> HIDE DEF ws
  <2>3. ClaimFits(w, wk[w], run, turns)
    BY DEF BudgetInv
  <2>4. Budgeted => ws.turn \in run.reserved \/ ws.turn <= run.applied
    BY <1>1, <2>2, <2>3 DEF ClaimFits
  <2>5. ClaimFits(w, ws, run', turns')
    BY <1>1, <2>2, <2>4, RunFacts, ReadFits
  <2> QED
    BY <1>1, <1>5, <2>1, <2>5, QuietStep, SameRun
<1> QED
  BY <1>1, <1>4, <1>5, <1>6, <1>7, AbandonQuiet

\* A result is written to a running Turn only, which is not applied yet and has its
\* reservation.
LEMMA FinishTurnBudget ==
  ASSUME Inv, BudgetInv, Durable, NEW w \in Workers, FinishTurn(w)
  PROVE  BudgetInv'
<1> DEFINE i  == wk[w].turn
           ws == [wk[w] EXCEPT !.pc = "apply", !.out = NoOutcome, !.base = 0]
<1>1. /\ wk[w] \in WorkerStates /\ wk[w].pc = "finish" /\ run' = run
      /\ turns \in [Seqs -> Turns] /\ i \in Seqs
  BY DEF Inv, TurnsInv, FinishTurn, WorkerInv, WithTurn
<1>2. CASE ~HoldsTurn(w)
  BY <1>1, <1>2, AbandonQuiet, SameTurns DEF FinishTurn
<1>3. CASE HoldsTurn(w)
  <2>1. wk' = [wk EXCEPT ![w] = ws]
    BY <1>1, <1>3 DEF FinishTurn, Inv
  <2>2. PICK status, next, wants, checkpoint :
          turns' = FinishedTurn(w, status, next, wants, checkpoint)
          /\ status \in {"completed", "failed"}
    BY <1>3, ZenonT(40) DEF FinishTurn
  <2> DEFINE t == [turns[i] EXCEPT !.status = status, !.owner = NoWorker, !.live = FALSE,
                                   !.base = wk[w].base, !.next = next, !.wants = wants,
                                   !.checkpoint = checkpoint]
  <2>3. turns' = [turns EXCEPT ![i] = t]
    BY <2>2 DEF FinishedTurn
  <2>4. t.status = status
    BY <1>1 DEF Turns
  <2> HIDE DEF t
  <2>5. \A j \in Seqs : turns'[j] = IF j = i THEN t ELSE turns[j]
    BY <1>1, <2>3
  <2>6. turns[i].status = "running"
    BY <1>3 DEF HoldsTurn
  <2>7. ClaimFits(w, wk[w], run, turns) /\ Ledger(run, turns)
    BY DEF BudgetInv
  <2>8. i > run.applied
    <3>1. i \notin 1 .. run.applied
      BY <2>6, <2>7 DEF Ledger, Ended
    <3> QED
      BY <1>1, <3>1, RunFacts DEF Seqs
  <2>9. Budgeted => i \in run.reserved
    BY <1>1, <2>7, <2>8, RunFacts DEF ClaimFits, Seqs
  <2>10. \A j \in 1 .. run.applied : turns'[j] = turns[j]
    BY <2>5, <2>8, RunFacts
  <2>11. {j \in 1 .. run.applied : turns'[j].status # "canceled"}
           = {j \in 1 .. run.applied : turns[j].status # "canceled"}
    BY <2>10
  <2>12. \A j \in run.reserved : j > run.applied /\ turns'[j].status # "absent"
    BY <2>2, <2>4, <2>5, <2>7, RunFacts DEF Ledger
  <2>13. Budgeted => \A j \in Seqs : j > run.applied /\ turns'[j].status \in {"completed", "failed"} =>
                                       j \in run.reserved
    BY <2>5, <2>7, <2>9 DEF Ledger
  <2>14. \A j \in 1 .. run.applied : turns'[j].status \in Ended
    BY <2>7, <2>10 DEF Ledger
  <2>15. Ledger(run', turns')
    BY <1>1, <2>7, <2>11, <2>12, <2>13, <2>14 DEF Ledger
  <2>16. ws.pc = "apply" /\ ws.snap = wk[w].snap
    BY <1>1 DEF WorkerStates
  <2> HIDE DEF ws
  <2>17. ClaimFits(w, ws, run', turns')
    BY <1>1, <2>7, <2>16 DEF ClaimFits, Copying
  <2>18. wk'[w] = ws /\ \A v \in Workers \ {w} : SameClaim(v)
    BY <2>1, OthersSame
  <2>19. ASSUME NEW v \in Workers \ {w}
         PROVE  ClaimFits(v, wk'[v], run', turns')
    <3>1. ClaimFits(v, wk[v], run, turns) /\ SameClaim(v) /\ run.applied \in Nat
      BY <2>18, RunFacts DEF BudgetInv
    <3>2. \A j \in Seqs : turns[j].status # "absent" => turns'[j].status # "absent"
      BY <2>2, <2>4, <2>5
    <3> QED
      BY <1>1, <3>1, <3>2, Carried
  <2> QED
    BY <2>15, <2>17, <2>18, <2>19 DEF BudgetInv
<1> QED
  BY <1>2, <1>3

-----------------------------------------------------------------------------
(* Applying the Turn.                                                      *)

\* What applying a Turn does to the counts.
LEMMA AppliedCounts ==
  ASSUME Inv, NEW w \in Workers, Applies(w)
  PROVE  /\ wk[w].turn \in Seqs /\ turns[wk[w].turn].status \in Ended
         /\ run'.applied = wk[w].turn
         /\ run'.reserved = run.reserved \ {wk[w].turn}
         /\ run'.owner \in {run.owner, NoWorker}
         /\ run'.charged = IF wk[w].turn \in run.reserved /\ turns[wk[w].turn].status # "canceled"
                           THEN run.charged + 1 ELSE run.charged
<1> DEFINE i == wk[w].turn
           t == turns[i]
           next == IF ~Superseded(w) THEN t.next
                   ELSE IF Exhausts(run, run.charged + Cardinality(run.reserved \ {i}) + 1)
                        THEN "paused" ELSE "running"
           moved == Transition(run, next, IF next \in Waits THEN next ELSE "none")
           spends == i \in run.reserved /\ t.status # "canceled"
           checkpoint == IF Superseded(w) \/ t.status = "canceled" THEN moved.checkpoint
                         ELSE t.checkpoint
           due == IF next = "queued" /\ t.status = "failed" /\ t.checkpoint.retries > 0
                  THEN FALSE ELSE moved.due
           charged == IF spends THEN moved.charged + 1 ELSE moved.charged
           reserved == moved.reserved \ {i}
           r == AppliedRun(w)
<1>1. /\ i \in Seqs /\ t \in Turns /\ t.next \in RunStatus /\ t.status \in Ended
      /\ run \in Runs /\ run' = r
  BY DEF Applies, Inv, WorkerInv, WithTurn, TurnsInv, TurnInv, RunInv
<1>2. next \in RunStatus /\ (IF next \in Waits THEN next ELSE "none") \in Waits \union {"none"}
  BY <1>1 DEF RunStatus
<1>3. /\ moved \in Runs /\ moved.charged = run.charged /\ moved.reserved = run.reserved
      /\ moved.owner \in {run.owner, NoWorker}
  BY <1>1, <1>2, TransitionFields
<1>4. r = [moved EXCEPT !.applied = i, !.checkpoint = checkpoint, !.due = due,
                        !.charged = charged, !.reserved = reserved]
  BY DEF AppliedRun
<1> HIDE DEF next, moved, checkpoint, due, r
<1>5. /\ r.applied = i /\ r.charged = charged /\ r.reserved = reserved /\ r.owner = moved.owner
  BY <1>3, <1>4 DEF Runs
<1> QED
  BY <1>1, <1>3, <1>5

\* The Turn applied is charged unless it was canceled, and gives its reservation back.
LEMMA AppliedLedger ==
  ASSUME Inv, Ledger(run, turns), Durable, NEW w \in Workers, Applies(w), turns' = turns
  PROVE  Ledger(run', turns')
<1> DEFINE i == wk[w].turn
           kept == {j \in 1 .. run.applied : turns[j].status # "canceled"}
           spends == i \in run.reserved /\ turns[i].status # "canceled"
<1>1. /\ i \in Seqs /\ turns[i].status \in Ended /\ i = run.applied + 1
      /\ run'.applied = i /\ run'.reserved = run.reserved \ {i}
      /\ run'.charged = IF spends THEN run.charged + 1 ELSE run.charged
  BY AppliedCounts DEF Applies
<1>2. run.applied \in Nat /\ i \in Nat
  BY <1>1, RunFacts
<1>3. 1 .. i = (1 .. run.applied) \union {i} /\ i \notin 1 .. run.applied
  BY <1>1, <1>2
<1>4. \A j \in 1 .. run'.applied : turns'[j].status \in Ended
  BY <1>1, <1>3 DEF Ledger
<1>5. Cardinality(run.reserved) \in Nat
      /\ Cardinality(run.reserved \ {i}) = IF i \in run.reserved THEN Cardinality(run.reserved) - 1
                                           ELSE Cardinality(run.reserved)
  <2>1. i \notin run.reserved => run.reserved \ {i} = run.reserved
    OBVIOUS
  <2> QED
    BY <2>1, RunFacts, FS_RemoveElement, FS_CardinalityType
<1>6. TurnLimit > 0 => run'.charged + Cardinality(run'.reserved) <= TurnLimit
  <2>1. TurnLimit \in Nat
    BY RunTurnsAssumption
  <2> QED
    BY <1>1, <1>5, <2>1, RunFacts DEF Ledger
<1>7. Budgeted => run'.charged = Cardinality({j \in 1 .. run'.applied : turns'[j].status # "canceled"})
  <2>1. IsFiniteSet(kept)
    <3>1. IsFiniteSet(1 .. run.applied)
      BY <1>2, FS_Interval
    <3> QED
      BY <3>1, FS_Subset
  <2>2. CASE turns[i].status = "canceled"
    <3>1. {j \in 1 .. run'.applied : turns'[j].status # "canceled"} = kept
      BY <1>1, <1>3, <2>2
    <3> QED
      BY <1>1, <2>2, <3>1 DEF Ledger
  <2>3. CASE turns[i].status # "canceled"
    <3>1. {j \in 1 .. run'.applied : turns'[j].status # "canceled"} = kept \union {i}
      BY <1>1, <1>3, <2>3
    <3>2. Cardinality(kept \union {i}) = Cardinality(kept) + 1
      BY <1>3, <2>1, FS_AddElement
    <3>3. Budgeted => i \in run.reserved
      <4>1. turns[i].status \in {"completed", "failed"} /\ i > run.applied
        BY <1>1, <1>2, <2>3 DEF Ended
      <4> QED
        BY <1>1, <4>1 DEF Ledger
    <3> QED
      BY <1>1, <2>3, <3>1, <3>2, <3>3 DEF Ledger
  <2> QED
    BY <2>2, <2>3
<1>8. \A j \in run'.reserved : j > run'.applied /\ turns'[j].status # "absent"
  <2>1. \A j \in run.reserved \ {i} : j > run.applied /\ j \in Nat /\ turns[j].status # "absent"
    BY RunFacts DEF Ledger, Seqs
  <2> QED
    BY <1>1, <1>2, <2>1
<1>9. Budgeted => \A j \in Seqs : j > run'.applied /\ turns'[j].status \in {"completed", "failed"} =>
                                    j \in run'.reserved
  <2>1. \A j \in Seqs : j > i => j > run.applied /\ j # i
    BY <1>1, <1>2 DEF Seqs
  <2> QED
    BY <1>1, <2>1 DEF Ledger
<1> QED
  BY <1>4, <1>6, <1>7, <1>8, <1>9 DEF Ledger

LEMMA ApplyTurnBudget ==
  ASSUME Inv, BudgetInv, Durable, NEW w \in Workers, ApplyTurn(w)
  PROVE  BudgetInv'
<1> DEFINE i == wk[w].turn
<1>1. turns' = turns
  BY DEF ApplyTurn
<1>2. CASE ~GuardPasses(w)
  BY <1>1, <1>2, AbandonQuiet, SameTurns DEF ApplyTurn
<1>3. CASE GuardPasses(w)
  <2>1. Applies(w)
    <3>1. wk[w].turn = run.applied + 1 /\ wk[w].pc = "apply"
      BY DEF Inv, ApplyTurn, WorkerInv, Copying, Copy
    <3>2. run' = AppliedRun(w)
      BY <1>3 DEF ApplyTurn, CommitRun
    <3>3. run'.applied # run.applied
      BY <3>1, <3>2, AppliedRunInv, RunFacts
    <3> QED
      BY <3>3, ApplyTurnInv DEF SafeStep
  <2> DEFINE ws == Return(w, AppliedRun(w).status, TRUE, turns[wk[w].turn].wants /\ ~Superseded(w))
  <2>2. wk' = [Outdated EXCEPT ![w] = ws]
    BY <2>1 DEF Applies
  <2>3. ws.pc \in Free
    BY ReturnFree
  <2> HIDE DEF ws
  <2>4. /\ i = run.applied + 1 /\ run'.applied = i /\ run.applied \in Nat
        /\ run'.reserved = run.reserved \ {i} /\ run'.owner \in {run.owner, NoWorker}
        /\ run.owner \in {NoWorker, w}
    <3>1. i = run.applied + 1 /\ run.owner \in {NoWorker, w}
      BY <2>1 DEF Applies, HoldsRun
    <3> QED
      BY <2>1, <3>1, AppliedCounts, RunFacts
  <2>5. Ledger(run', turns') /\ ClaimFits(w, ws, run', turns')
    <3>1. ClaimFits(w, ws, run', turns')
      BY <2>3 DEF ClaimFits, Free, Copying
    <3> QED
      BY <1>1, <2>1, <3>1, AppliedLedger DEF BudgetInv
  <2>6. wk'[w] = ws /\ \A v \in Workers \ {w} : SameClaim(v)
    BY <2>2, OthersSame
  <2>7. ASSUME NEW v \in Workers \ {w}
        PROVE  ClaimFits(v, wk'[v], run', turns')
    <3>1. ClaimFits(v, wk[v], run, turns) /\ SameClaim(v)
      BY <2>6 DEF BudgetInv
    <3>2. run'.owner # v
      BY <2>4, RunFacts
    <3>3. /\ run.applied <= run'.applied /\ run'.applied \in Nat
          /\ \A j \in run.reserved : j \in run'.reserved \/ j <= run'.applied
      BY <2>4
    <3> QED
      BY <1>1, <3>1, <3>2, <3>3, Carried
  <2> QED
    BY <2>5, <2>6, <2>7 DEF BudgetInv
<1> QED
  BY <1>2, <1>3

LEMMA PublishFailsBudget ==
  ASSUME Inv, BudgetInv, Durable, NEW w \in Workers, PublishFails(w)
  PROVE  BudgetInv'
<1>1. turns' = turns
  BY DEF PublishFails
<1>2. CASE GuardPasses(w)
  <2> DEFINE r  == Transition(run, "paused", "none")
             ws == Return(w, "paused", TRUE, turns[wk[w].turn].wants)
  <2>1. run' = r /\ wk' = [Outdated EXCEPT ![w] = ws]
    BY <1>2 DEF PublishFails, CommitRun
  <2>2. Quiet(r, w) /\ ws.pc \in Free
    BY MoveQuiet, ReturnFree DEF RunStatus
  <2> HIDE DEF r, ws
  <2> QED
    BY <1>1, <2>1, <2>2, FreeStep, SameTurns
<1>3. CASE ~GuardPasses(w)
  BY <1>1, <1>3, AbandonQuiet, SameTurns DEF PublishFails
<1> QED
  BY <1>2, <1>3

LEMMA RetryApplyBudget ==
  ASSUME Inv, BudgetInv, Durable, NEW w \in Workers, RetryApply(w)
  PROVE  BudgetInv'
<1> DEFINE held == Holding(wk[w], "apply", run)
           ws   == [held EXCEPT !.tries = @ + 1]
           back == Return(w, run.status, TRUE, turns[wk[w].turn].wants)
<1>1. run' = run /\ turns' = turns /\ wk[w] \in WorkerStates
  BY DEF RetryApply, Inv
<1>2. Abandon(w) \/ wk' = [wk EXCEPT ![w] = back] \/ wk' = [wk EXCEPT ![w] = ws]
  BY DEF RetryApply, Abandon
<1>3. CASE Abandon(w)
  BY <1>1, <1>3, AbandonQuiet, SameTurns
<1>4. CASE wk' = [wk EXCEPT ![w] = back]
  <2>1. back.pc \in Free
    BY ReturnFree
  <2> HIDE DEF back
  <2> QED
    BY <1>1, <1>4, <2>1, FreeStep, SameRun, SameTurns
<1>5. CASE wk' = [wk EXCEPT ![w] = ws]
  <2>1. held = [wk[w] EXCEPT !.pc = "apply", !.fresh = TRUE, !.snap = Copy(run)]
    BY DEF Holding, Copying
  <2>2. ws.pc = "apply" /\ ws.snap = Copy(run)
    BY <1>1, <2>1 DEF WorkerStates
  <2> HIDE DEF ws
  <2>3. ClaimFits(w, ws, run', turns')
    BY <1>1, <2>2, RunFacts, ReadFits
  <2> QED
    BY <1>1, <1>5, <2>3, QuietStep, SameRun, SameTurns
<1> QED
  BY <1>2, <1>3, <1>4, <1>5

-----------------------------------------------------------------------------

LEMMA BudgetStep ==
  ASSUME Inv, BudgetInv, [Next]_vars
  PROVE  BudgetInv'
<1>1. Durable
  BY StepIsSafe
<1>2. CASE UNCHANGED vars
  <2>1. run' = run /\ turns' = turns /\ wk' = wk
    BY <1>2 DEF vars
  <2> QED
    BY <1>1, <2>1, OutsideStep, SameRun, SameTurns
<1>3. ASSUME NEW w \in Workers, Advance(w) PROVE BudgetInv'
  BY <1>1, <1>3, AdvanceReadBudget, FindPendingTurnBudget, CreateTurnBudget, ClaimTurnBudget,
     ReserveBudgetBudget, StartRunnerBudget, ReturnsBudget, RefreshBudget, FinishTurnBudget,
     ApplyTurnBudget, PublishFailsBudget, RetryApplyBudget, HeartbeatBudget DEF Advance
<1>4. ASSUME NEW w \in Workers, ExecuteClaim(w), ~Advance(w) PROVE BudgetInv'
  BY <1>1, <1>4, ResolveBudget, ReturnsBudget, YieldBudget, ProposeBudget, FailProposalBudget
     DEF ExecuteClaim
<1>5. ASSUME NEW w \in Workers, ClaimNext(w) \/ RunHeartbeat(w) \/ Crash(w) PROVE BudgetInv'
  BY <1>1, <1>5, ClaimBudget, HeartbeatBudget
<1>6. ASSUME Operator \/ Service \/ Time PROVE BudgetInv'
  BY <1>1, <1>6, OthersBudget, TimeBudget
<1> QED
  BY <1>2, <1>3, <1>4, <1>5, <1>6 DEF Next

LEMMA BudgetInit == Init => BudgetInv
<1> SUFFICES ASSUME Init PROVE BudgetInv
  OBVIOUS
<1>1. run = InitRun /\ run.applied = 0 /\ run.charged = 0 /\ run.reserved = {}
  BY DEF Init, InitRun
<1>2. \A i \in Seqs : turns[i].status = "absent"
  BY DEF Init, NoTurn
<1>3. 1 .. run.applied = {} /\ Cardinality({}) = 0
  BY <1>1, FS_EmptySet
<1>4. {i \in 1 .. run.applied : turns[i].status # "canceled"} = {}
  BY <1>3
<1>5. Ledger(run, turns)
  <2>1. TurnLimit \in Nat
    BY RunTurnsAssumption
  <2> QED
    BY <1>1, <1>2, <1>3, <1>4, <2>1 DEF Ledger
<1>6. \A w \in Workers : wk[w].pc = "idle"
  BY DEF Init, Idle
<1>7. \A w \in Workers : ClaimFits(w, wk[w], run, turns)
  BY <1>6 DEF ClaimFits, Copying
<1> QED
  BY <1>5, <1>7 DEF BudgetInv

\* The two parts of the invariant hold together throughout.
LEMMA BudgetInvariance == Spec => [](Inv /\ BudgetInv)
<1>1. Init => Inv /\ BudgetInv
  BY InitInv, BudgetInit
<1>2. Inv /\ BudgetInv /\ [Next]_vars => (Inv /\ BudgetInv)'
  BY StepIsSafe, BudgetStep
<1> QED
  BY <1>1, <1>2, PTL DEF Spec

\* reserveRunBudget and the settlement in applyFinishedTurnOnce: charged Turns and open
\* reservations never exceed MaxTurns, a Turn is charged exactly once, when it is
\* applied, and capacity is held only for Turns that are still to be applied.
THEOREM TurnBudgetIsHeld == Spec => []TurnBudgetHeld
<1>1. Inv /\ BudgetInv => TurnBudgetHeld
  <2> SUFFICES ASSUME Inv, BudgetInv PROVE TurnBudgetHeld
    OBVIOUS
  <2>1. \A i \in run.reserved : i \in Created
    BY RunFacts DEF BudgetInv, Ledger, Created
  <2> QED
    BY <2>1 DEF BudgetInv, Ledger, TurnBudgetHeld
<1> QED
  BY BudgetInvariance, <1>1, PTL

\* AdvanceAgentRun invokes a runner only after reserveRunBudget: for the worker that has
\* the Run's lease, the Turn in flight has capacity reserved, however many workers took
\* the Run over before.
THEOREM InvocationsAreReserved == Spec => []InvocationReserved
<1>1. Inv /\ BudgetInv => InvocationReserved
  <2> SUFFICES ASSUME Inv, BudgetInv, Budgeted, NEW w \in Workers, wk[w].pc = "executing",
                      HoldsRun(w)
               PROVE  wk[w].turn \in run.reserved
    BY DEF InvocationReserved
  <2>1. ClaimFits(w, wk[w], run, turns) /\ run.owner = w
    BY DEF BudgetInv, HoldsRun
  <2>2. wk[w].turn > run.applied /\ (wk[w].turn \in run.reserved \/ wk[w].turn <= run.applied)
    BY <2>1 DEF ClaimFits
  <2>3. wk[w].turn \in Nat /\ run.applied \in Nat
    <3>1. wk[w].turn \in Seqs
      BY DEF Inv, WorkerInv, WithTurn
    <3> QED
      BY <3>1, RunFacts DEF Seqs
  <2> QED
    BY <2>2, <2>3
<1> QED
  BY BudgetInvariance, <1>1, PTL
=============================================================================
