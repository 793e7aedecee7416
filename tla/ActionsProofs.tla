--------------------------- MODULE ActionsProofs ---------------------------
(***************************************************************************)
(* Theorems about Actions for any Runs, calls and workers, any policy and  *)
(* any limits.                                                             *)
(*                                                                         *)
(* The inductive invariant Inv has a part for every pair of records that   *)
(* have to agree: calls and their approvals, workers and the calls they    *)
(* work on, what was sent and the leases of the calls, Runs and what they  *)
(* wait for, budgets and open calls.  Each part is kept by a lemma of its  *)
(* own, with a step for every action that can disturb it.                  *)
(***************************************************************************)
EXTENDS Actions, FiniteSetTheorems, TLAPS

\* The approval of c permits what is sent for it.
Granted(c) == approval[c].status = IF c \in Reviewed THEN "approved" ELSE "none"

\* An approval is pending exactly while its call waits for it, and a call that workers
\* may claim has the approval it needs.
ApprovalAgrees(c) ==
  /\ approval[c].status = "pending" <=> call[c].status = "waiting_approval"
  /\ approval[c].status # "none" => c \in Reviewed
  /\ call[c].status = "absent" => approval[c].status = "none"
  /\ call[c].status \in {"ready", "running"} => Granted(c)
  /\ call[c].duplicate => call[c].status = "succeeded"
ApprovalsAgree == \A c \in Calls : ApprovalAgrees(c)

\* The call was admitted, whatever became of it: this never ends.
Admitted(c) ==
  /\ call[c].status \in {"ready", "running", "succeeded", "failed", "canceled"}
  /\ ~call[c].duplicate /\ Granted(c)

Working(w, c) == wk[w].pc # "idle" /\ wk[w].call = c
Sending(w, c) == wk[w].pc \in {"resolve", "recheck", "send"} /\ wk[w].call = c

\* Workers are at work on calls that were admitted, and only such calls were sent.
WorkAgrees ==
  /\ \A w \in Workers : wk[w].pc # "idle" => wk[w].call \in Calls
  /\ \A w \in Workers : wk[w].pc \notin {"idle", "commit"} => wk[w].tries < PersistTries
  /\ \A w \in Workers : wk[w].pc \in {"check", "resolve", "recheck", "send"} => ~wk[w].dispatched
  /\ \A w \in Workers, c \in Calls : Working(w, c) => Admitted(c)
  /\ \A c \in Calls : sent[c] > 0 => Admitted(c)

\* A change that is ready for the first time was not sent; until its lease is taken
\* over only its owner works on it; and one worker at most may send it, once.
SendsOnceAt(c) ==
  /\ ~call[c].recovered /\ call[c].status = "ready" => sent[c] = 0
  /\ \A w \in Workers :
       Working(w, c) /\ ~call[c].recovered =>
         Mine(w) /\ (~wk[w].dispatched => sent[c] = 0)
  /\ \A w \in Workers : Sending(w, c) => sent[c] = 0
  /\ \A w, v \in Workers : Sending(w, c) /\ Sending(v, c) => w = v
  /\ sent[c] <= 1
SendsOnce == \A c \in Calls \ Reads : SendsOnceAt(c)

\* The Run stands at s, or did when it was paused.
At(R, s) == R.status = s \/ (R.status = "paused" /\ R.pausedFrom = s)

\* A Run remembers a pause only while it is paused, and a call only while it waits for
\* it: for its action, or for its approval.
RunFits(r, R, calls) ==
  /\ R.status # "paused" => R.pausedFrom = "none"
  /\ R.on \in Calls =>
       /\ RunOf[R.on] = r
       /\ \/ At(R, "waiting_for_dependency") /\ calls[R.on].status \in {"ready", "running"}
          \/ At(R, "waiting_for_approval") /\ calls[R.on].status = "waiting_approval"
WaitsAgree == \A r \in Runs : RunFits(r, run[r], call)

\* A budget holds capacity for the open calls of the Run, which are finitely many.
OpenCalls(r, calls) == {c \in Calls : RunOf[c] = r /\ calls[c].status \in Open}
BudgetFits(r, R, calls) ==
  /\ IsFiniteSet(R.reserved)
  /\ HasBudget => /\ R.reserved = OpenCalls(r, calls)
                  /\ R.actions + Cardinality(R.reserved) <= ActionLimit
BudgetAgrees == \A r \in Runs : BudgetFits(r, run[r], call)

Inv == TypeOK /\ ApprovalsAgree /\ WorkAgrees /\ SendsOnce /\ WaitsAgree /\ BudgetAgrees

-----------------------------------------------------------------------------
(* Types.                                                                  *)

\* A write of a Run makes the copies of it stale and changes nothing else of a worker.
LEMMA WrittenFields ==
  ASSUME NEW r \in Runs, NEW W \in [Workers -> WorkerStates]
  PROVE  /\ Written(r, W) \in [Workers -> WorkerStates]
         /\ \A w \in Workers :
              /\ Written(r, W)[w].pc = W[w].pc
              /\ Written(r, W)[w].call = W[w].call
              /\ Written(r, W)[w].out = W[w].out
              /\ Written(r, W)[w].dispatched = W[w].dispatched
              /\ Written(r, W)[w].tries = W[w].tries
BY DEF Written, WorkerStates

\* What is held for a call is added, released or settled within the type of a Run,
\* and changes nothing else of it but what was settled.
LEMMA BudgetFields ==
  ASSUME NEW R \in RunRecords, NEW c \in Calls, NEW S,
         S = Reserve(R, c) \/ S = Release(R, c) \/ S = Settle(R, c)
  PROVE  S \in RunRecords /\ S.status = R.status /\ S.on = R.on /\ S.pausedFrom = R.pausedFrom
<1>1. CASE S = R
  BY <1>1
<1>2. CASE S = [R EXCEPT !.reserved = @ \union {c}]
  BY <1>2 DEF RunRecords
<1>3. CASE S = [R EXCEPT !.reserved = @ \ {c}]
  BY <1>3 DEF RunRecords
<1>4. CASE S = [R EXCEPT !.reserved = @ \ {c}, !.actions = @ + 1]
  <2>1. R.actions + 1 \in Nat /\ R.reserved \ {c} \in SUBSET Calls
    BY DEF RunRecords
  <2> DEFINE a == R.actions + 1
             d == R.reserved \ {c}
  <2>2. S = [R EXCEPT !.reserved = d, !.actions = a]
    BY <1>4
  <2> HIDE DEF a, d
  <2>3. a \in Nat /\ d \in SUBSET Calls
    BY <2>1 DEF a, d
  <2> QED
    BY <2>2, <2>3 DEF RunRecords
<1> QED
  BY <1>1, <1>2, <1>3, <1>4 DEF Reserve, Release, Settle

\* A Run that is written, and the workers' copies of it, keep their types.
LEMMA PutRunType ==
  ASSUME TypeOK, NEW r \in Runs, NEW R \in RunRecords, PutRun(r, R)
  PROVE  run' \in [Runs -> RunRecords] /\ wk' \in [Workers -> WorkerStates]
BY WrittenFields DEF TypeOK, PutRun

\* So does a call whose status changes.
LEMMA PutStatusType ==
  ASSUME TypeOK, NEW c \in Calls, NEW s \in CallStatus, PutStatus(c, s)
  PROVE  call' \in [Calls -> CallRecords]
BY DEF TypeOK, PutStatus, CallRecords

\* And an approval.
LEMMA ApprovalType ==
  ASSUME TypeOK, NEW c \in Calls, NEW s \in {"pending"} \union Decisions,
         approval' = [approval EXCEPT ![c].status = s]
  PROVE  approval' \in [Calls -> Approvals]
BY DEF TypeOK, Approvals

\* The bounds of the model count upwards.
LEMMA SpendType ==
  ASSUME TypeOK, NEW b \in {"command", "lapse", "loss"}, NEW max, Spend(b, max)
  PROVE  spent' \in [{"command", "lapse", "loss"} -> Nat]
BY DEF TypeOK, Spend

\* What a proposal does to its Run keeps the types.
LEMMA ProposeType ==
  ASSUME ActionsAssumption, TypeOK, NEW c \in Calls, Propose(c)
  PROVE  TypeOK'
<1> DEFINE r == RunOf[c]
<1>1. r \in Runs /\ run[r] \in RunRecords
  BY DEF ActionsAssumption, TypeOK
<1>2. CASE SuppressDuplicate(c)
  <2>1. [run[r] EXCEPT !.status = "queued"] \in RunRecords
    BY <1>1 DEF RunRecords, RunStatus
  <2>2. run' \in [Runs -> RunRecords] /\ wk' \in [Workers -> WorkerStates]
    BY <1>1, <1>2, <2>1, PutRunType DEF SuppressDuplicate
  <2>3. [call[c] EXCEPT !.status = "succeeded", !.duplicate = TRUE] \in CallRecords
    <3>1. call[c] \in CallRecords /\ "succeeded" \in CallStatus /\ TRUE \in BOOLEAN
      BY DEF TypeOK, CallStatus, Closed
    <3> QED
      BY <3>1 DEF CallRecords
  <2>4. call' \in [Calls -> CallRecords]
    <3>1. call' = [call EXCEPT ![c] = [call[c] EXCEPT !.status = "succeeded", !.duplicate = TRUE]]
      BY <1>2 DEF SuppressDuplicate
    <3> QED
      BY <2>3, <3>1 DEF TypeOK
  <2> QED
    BY <1>2, <2>2, <2>4 DEF SuppressDuplicate, TypeOK
<1>3. CASE Allow(c)
  <2> DEFINE R == [run[r] EXCEPT !.status = "waiting_for_dependency", !.on = c]
  <2>1. R \in RunRecords
    BY <1>1 DEF RunRecords, RunStatus, Waits
  <2>2. Reserve(R, c) \in RunRecords
    BY <2>1, BudgetFields
  <2>3. run' \in [Runs -> RunRecords] /\ wk' \in [Workers -> WorkerStates]
    BY <1>1, <1>3, <2>2, PutRunType DEF Allow
  <2>4. call' \in [Calls -> CallRecords]
    BY <1>3, PutStatusType DEF Allow, CallStatus
  <2> QED
    BY <1>1, <1>3, <2>2, <2>3, <2>4 DEF Allow, TypeOK
<1>4. CASE RequestApproval(c)
  <2> DEFINE R == [run[r] EXCEPT !.status = "waiting_for_approval", !.on = c]
  <2>1. R \in RunRecords
    BY <1>1 DEF RunRecords, RunStatus, Waits
  <2>2. Reserve(R, c) \in RunRecords
    BY <2>1, BudgetFields
  <2>3. run' \in [Runs -> RunRecords] /\ wk' \in [Workers -> WorkerStates]
    BY <1>1, <1>4, <2>2, PutRunType DEF RequestApproval
  <2>4. call' \in [Calls -> CallRecords]
    BY <1>4, PutStatusType DEF RequestApproval, CallStatus
  <2>5. approval' \in [Calls -> Approvals]
    BY <1>4, ApprovalType DEF RequestApproval
  <2> QED
    BY <1>1, <1>4, <2>2, <2>3, <2>4, <2>5 DEF RequestApproval, TypeOK
<1>5. CASE Deny(c)
  <2>1. PICK s \in {"queued", "paused"} : PutRun(r, [run[r] EXCEPT !.status = s])
    BY <1>5 DEF Deny
  <2>2. [run[r] EXCEPT !.status = s] \in RunRecords
    BY <1>1 DEF RunRecords, RunStatus
  <2>3. call' \in [Calls -> CallRecords]
    BY <1>5, PutStatusType DEF Deny, CallStatus, Closed
  <2> QED
    BY <1>1, <1>5, <2>1, <2>2, <2>3, PutRunType DEF Deny, TypeOK
<1>6. CASE Replay(c)
  <2>1. \E R \in RunRecords : PutRun(r, R)
    <3>1. \A s \in RunStatus : [run[r] EXCEPT !.status = s, !.on = c] \in RunRecords
      BY <1>1 DEF RunRecords
    <3>2. [run[r] EXCEPT !.status = "queued"] \in RunRecords
      BY <1>1 DEF RunRecords, RunStatus
    <3>3. CASE call[c].status \in Closed
      BY <1>6, <3>2, <3>3 DEF Replay, Closed
    <3>4. CASE call[c].status \in {"ready", "running"}
      BY <1>6, <3>1, <3>4 DEF Replay, Closed, RunStatus, Waits
    <3>5. CASE call[c].status = "waiting_approval"
      BY <1>6, <3>1, <3>5 DEF Replay, Closed, RunStatus, Waits
    <3> QED
      BY <1>6, <3>3, <3>4, <3>5 DEF Replay
  <2> QED
    BY <1>1, <1>6, <2>1, PutRunType DEF Replay, TypeOK
<1> QED
  BY <1>2, <1>3, <1>4, <1>5, <1>6 DEF Propose

\* What is decided about an approval keeps the types.
LEMMA ResolutionType ==
  ASSUME ActionsAssumption, TypeOK, NEW c \in Calls, Resolution(c)
  PROVE  TypeOK'
<1> DEFINE r == RunOf[c]
<1>1. r \in Runs /\ run[r] \in RunRecords
  BY DEF ActionsAssumption, TypeOK
<1>2. ASSUME Approved(c), UNCHANGED <<maintenance, sent, spent>>
      PROVE  TypeOK'
  <2>1. [run[r] EXCEPT !.status = "waiting_for_dependency"] \in RunRecords
    BY <1>1 DEF RunRecords, RunStatus, Waits
  <2>2. run' \in [Runs -> RunRecords] /\ wk' \in [Workers -> WorkerStates]
    BY <1>1, <1>2, <2>1, PutRunType DEF Approved
  <2>3. call' \in [Calls -> CallRecords]
    BY <1>2, PutStatusType DEF Approved, CallStatus
  <2>4. approval' \in [Calls -> Approvals]
    BY <1>2, ApprovalType DEF Approved, Decisions
  <2> QED
    BY <1>2, <2>2, <2>3, <2>4 DEF TypeOK
<1>3. ASSUME NEW s \in Decisions, Refused(c, s), UNCHANGED <<maintenance, sent, spent>>
      PROVE  TypeOK'
  <2> DEFINE R == Release(run[r], c)
  <2>1. R \in RunRecords
    BY <1>1, BudgetFields
  <2> HIDE DEF R
  <2>2. /\ [R EXCEPT !.pausedFrom = "queued", !.on = NoCall] \in RunRecords
        /\ [R EXCEPT !.status = "queued", !.on = NoCall] \in RunRecords
    BY <2>1 DEF RunRecords, RunStatus
  <2>3. run' \in [Runs -> RunRecords] /\ wk' \in [Workers -> WorkerStates]
    BY <1>1, <1>3, <2>2, PutRunType DEF Refused, R
  <2>4. call' \in [Calls -> CallRecords]
    BY <1>3, PutStatusType DEF Refused, CallStatus, Closed
  <2>5. approval' \in [Calls -> Approvals]
    BY <1>3, ApprovalType DEF Refused
  <2> QED
    BY <1>3, <2>3, <2>4, <2>5 DEF TypeOK
<1>4. CASE Decide(c)
  BY <1>2, <1>3, <1>4 DEF Decide, Decisions
<1>5. CASE AutoApprove(c)
  BY <1>2, <1>5 DEF AutoApprove
<1>6. CASE Expire(c) /\ (AwaitsApproval(c) \/ PausedApproval(c))
  BY <1>3, <1>6 DEF Expire, Decisions
<1>7. CASE Expire(c) /\ ~(AwaitsApproval(c) \/ PausedApproval(c))
  <2>1. Release(run[r], c) \in RunRecords
    BY <1>1, BudgetFields
  <2>2. run' \in [Runs -> RunRecords] /\ wk' \in [Workers -> WorkerStates]
    BY <1>1, <1>7, <2>1, PutRunType DEF Expire
  <2>3. call' \in [Calls -> CallRecords]
    <3>1. "denied" \in CallStatus /\ call[c].status \in CallStatus
      BY DEF TypeOK, CallRecords, CallStatus, Closed
    <3> QED
      BY <1>7, <3>1, PutStatusType DEF Expire
  <2>4. approval' \in [Calls -> Approvals]
    BY <1>7, ApprovalType DEF Expire, Decisions
  <2> QED
    BY <1>7, <2>2, <2>3, <2>4 DEF Expire, TypeOK
<1> QED
  BY <1>4, <1>5, <1>6, <1>7 DEF Resolution

\* What happens to a Run outside its actions keeps the types.
LEMMA RunStepType ==
  ASSUME ActionsAssumption, TypeOK, NEW r \in Runs, Turn(r) \/ Operator(r) \/ Answer(r)
  PROVE  TypeOK'
<1>1. run[r] \in RunRecords
  BY DEF TypeOK
<1>2. \A s \in RunStatus, f \in RunStatus \union {"none"}, c \in Calls \union {NoCall} :
        /\ [run[r] EXCEPT !.status = s] \in RunRecords
        /\ [run[r] EXCEPT !.status = s, !.pausedFrom = f] \in RunRecords
        /\ [run[r] EXCEPT !.pausedFrom = f, !.status = s] \in RunRecords
        /\ [run[r] EXCEPT !.status = s, !.on = c, !.pausedFrom = f] \in RunRecords
  BY <1>1 DEF RunRecords
<1>3. run[r].status \in RunStatus /\ {"queued", "running", "paused", "completed", "failed", "canceled"} \subseteq RunStatus
      /\ Waits \subseteq RunStatus
  BY <1>1 DEF RunRecords, RunStatus, Ended
<1>4. ASSUME NEW R \in RunRecords, PutRun(r, R), UNCHANGED <<call, approval, maintenance, sent>>,
             spent' \in [{"command", "lapse", "loss"} -> Nat]
      PROVE  TypeOK'
  BY <1>4, PutRunType DEF TypeOK
<1>5. spent \in [{"command", "lapse", "loss"} -> Nat]
  BY DEF TypeOK
<1>6. CASE Turn(r) \/ Answer(r)
  BY <1>2, <1>3, <1>4, <1>5, <1>6 DEF Turn, StartTurn, EndTurn, Answer
<1>7. CASE Pause(r)
  BY <1>2, <1>3, <1>4, <1>7, SpendType DEF Pause
<1>8. CASE Resume(r)
  BY <1>2, <1>3, <1>4, <1>5, <1>8 DEF Resume
<1>9. CASE Intervene(r)
  BY <1>1, <1>4, <1>9, SpendType DEF Intervene
<1>10. CASE Cancel(r)
  <2> DEFINE R == [run[r] EXCEPT !.status = "canceled", !.on = NoCall, !.pausedFrom = "none"]
             c == run[r].on
  <2>1. R \in RunRecords
    BY <1>2, <1>3
  <2> HIDE DEF R
  <2>2. CASE PutRun(r, R) /\ UNCHANGED <<call, approval, maintenance, sent, spent>>
    BY <1>4, <1>5, <2>1, <2>2
  <2>3. CASE /\ c \in Calls /\ PutStatus(c, "canceled") /\ PutRun(r, Release(R, c))
             /\ approval' = [approval EXCEPT ![c].status = "canceled"]
             /\ UNCHANGED <<maintenance, sent, spent>>
    <3>1. Release(R, c) \in RunRecords
      BY <2>1, <2>3, BudgetFields
    <3>2. run' \in [Runs -> RunRecords] /\ wk' \in [Workers -> WorkerStates]
      BY <2>3, <3>1, PutRunType
    <3>3. call' \in [Calls -> CallRecords] /\ approval' \in [Calls -> Approvals]
      BY <2>3, PutStatusType, ApprovalType DEF CallStatus, Closed, Decisions
    <3> QED
      BY <2>3, <3>2, <3>3 DEF TypeOK
  <2>4. c \in Calls \union {NoCall}
    BY <1>1 DEF RunRecords
  <2> QED
    BY <1>10, <2>2, <2>3, <2>4 DEF Cancel, R
<1> QED
  BY <1>6, <1>7, <1>8, <1>9, <1>10 DEF Operator

\* Where a commit leaves the Run.
Committed(w, next) ==
  LET c == wk[w].call  r == RunOf[c]  s == OutcomeStatus(w)
      woken == IF ~Owns(c) \/ s = "ready" THEN run[r]
               ELSE IF PausedOn(c) THEN [run[r] EXCEPT !.pausedFrom = next, !.on = NoCall]
               ELSE [run[r] EXCEPT !.status = next, !.on = NoCall]
  IN  Budgeted(woken, c, s, Owns(c))

\* A commit writes the call and at most the Run that proposed it.
LEMMA CommitFields ==
  ASSUME ActionsAssumption, TypeOK, WorkAgrees, NEW w \in Workers, Commit(w)
  PROVE  /\ wk[w].call \in Calls /\ RunOf[wk[w].call] \in Runs
         /\ OutcomeStatus(w) \in {"ready", "succeeded", "failed", "canceled"}
         /\ call' = [call EXCEPT ![wk[w].call].status = OutcomeStatus(w),
                                 ![wk[w].call].owner = NoWorker, ![wk[w].call].live = FALSE]
         /\ \E next \in Continuations(w) :
              /\ Committed(w, next) \in RunRecords
              /\ run' = [run EXCEPT ![RunOf[wk[w].call]] = Committed(w, next)]
         /\ wk' \in [Workers -> WorkerStates]
         /\ wk'[w].pc = "idle"
         /\ \A v \in Workers \ {w} :
              /\ wk'[v].pc = wk[v].pc /\ wk'[v].call = wk[v].call
              /\ wk'[v].out = wk[v].out /\ wk'[v].dispatched = wk[v].dispatched
              /\ wk'[v].tries = wk[v].tries
<1> DEFINE c == wk[w].call
           r == RunOf[c]
           s == OutcomeStatus(w)
           done == [wk EXCEPT ![w] = Idle]
<1>1. c \in Calls /\ r \in Runs /\ run[r] \in RunRecords
  BY DEF ActionsAssumption, TypeOK, WorkAgrees, Commit
<1>2. s \in {"ready", "succeeded", "failed", "canceled"}
  BY DEF OutcomeStatus
<1>3. Continuations(w) \subseteq RunStatus
  BY DEF Continuations, RunStatus, Waits, Ended
<1>4. \A next \in RunStatus : Committed(w, next) \in RunRecords
  <2> TAKE next \in RunStatus
  <2>1. /\ [run[r] EXCEPT !.pausedFrom = next, !.on = NoCall] \in RunRecords
        /\ [run[r] EXCEPT !.status = next, !.on = NoCall] \in RunRecords
    BY <1>1 DEF RunRecords
  <2> DEFINE woken == IF ~Owns(c) \/ s = "ready" THEN run[r]
                      ELSE IF PausedOn(c) THEN [run[r] EXCEPT !.pausedFrom = next, !.on = NoCall]
                      ELSE [run[r] EXCEPT !.status = next, !.on = NoCall]
  <2>2. woken \in RunRecords
    BY <1>1, <2>1
  <2> HIDE DEF woken
  <2>3. Committed(w, next) = Budgeted(woken, c, s, Owns(c))
    BY DEF Committed, woken
  <2> QED
    BY <1>1, <2>2, <2>3, BudgetFields DEF Budgeted
<1>5. done \in [Workers -> WorkerStates]
  <2>1. Idle \in WorkerStates
    BY DEF Idle, WorkerStates, Phases, Outcomes, ActionsAssumption
  <2> QED
    BY <2>1 DEF TypeOK
<1>6. \E next \in Continuations(w) :
        /\ run' = [run EXCEPT ![r] = Committed(w, next)]
        /\ wk' = done \/ wk' = Written(r, done)
  BY DEF Commit, Committed
<1>7. /\ wk' \in [Workers -> WorkerStates]
      /\ \A v \in Workers : /\ wk'[v].pc = done[v].pc /\ wk'[v].call = done[v].call
                            /\ wk'[v].out = done[v].out /\ wk'[v].dispatched = done[v].dispatched
                            /\ wk'[v].tries = done[v].tries
  <2> HIDE DEF done
  <2> QED
    BY <1>1, <1>5, <1>6, WrittenFields
<1>8. done[w] = Idle /\ \A v \in Workers \ {w} : done[v] = wk[v]
  BY DEF TypeOK
<1>9. call' = [call EXCEPT ![c].status = s, ![c].owner = NoWorker, ![c].live = FALSE]
  BY DEF Commit
<1> HIDE DEF done
<1> QED
  <2>1. \E next \in Continuations(w) :
          Committed(w, next) \in RunRecords /\ run' = [run EXCEPT ![r] = Committed(w, next)]
    BY <1>3, <1>4, <1>6
  <2>2. wk'[w].pc = "idle"
    BY <1>7, <1>8 DEF Idle
  <2>3. \A v \in Workers \ {w} :
          /\ wk'[v].pc = wk[v].pc /\ wk'[v].call = wk[v].call
          /\ wk'[v].out = wk[v].out /\ wk'[v].dispatched = wk[v].dispatched
          /\ wk'[v].tries = wk[v].tries
    BY <1>7, <1>8
  <2> HIDE DEF c, s, r
  <2> QED
    BY <1>1, <1>2, <1>7, <1>9, <2>1, <2>2, <2>3 DEF c, s, r

\* What a worker does keeps the types.
LEMMA WorkType ==
  ASSUME ActionsAssumption, TypeOK, WorkAgrees, NEW w \in Workers,
         Work(w) \/ Leave(w) \/ \E c \in Calls : Claim(w, c)
  PROVE  TypeOK'
<1>1. wk[w] \in WorkerStates /\ wk \in [Workers -> WorkerStates]
  BY DEF TypeOK
<1>2. Idle \in WorkerStates
  BY DEF Idle, WorkerStates, Phases, Outcomes, ActionsAssumption
<1>3. ASSUME NEW W \in WorkerStates, wk' = [wk EXCEPT ![w] = W],
             UNCHANGED <<run, call, approval, maintenance, sent>>,
             spent' \in [{"command", "lapse", "loss"} -> Nat]
      PROVE  TypeOK'
  BY <1>3 DEF TypeOK
<1>4. spent \in [{"command", "lapse", "loss"} -> Nat]
  BY DEF TypeOK
<1>5. \A p \in Phases, o \in Outcomes, d \in BOOLEAN :
        /\ [wk[w] EXCEPT !.pc = p] \in WorkerStates
        /\ [wk[w] EXCEPT !.pc = p, !.out = o, !.dispatched = d] \in WorkerStates
  BY <1>1 DEF WorkerStates
<1>6. {"check", "resolve", "recheck", "send", "prepare", "commit"} \subseteq Phases
      /\ {"none", "ok", "human", "error", "parked", "maintenance", "uncertain"} \subseteq Outcomes
  BY DEF Phases, Outcomes
<1>7. \A p \in Phases : Goto(w, p) => \E W \in WorkerStates : wk' = [wk EXCEPT ![w] = W]
  <2> TAKE p \in Phases
  <2> HAVE Goto(w, p)
  <2>1. wk' = [wk EXCEPT ![w] = [wk[w] EXCEPT !.pc = p]]
    BY <1>1 DEF Goto
  <2> QED
    BY <1>2, <2>1, <1>1 DEF WorkerStates
<1>8. \A o \in Outcomes, d \in BOOLEAN :
        ToRecord(w, o, d) => \E W \in WorkerStates : wk' = [wk EXCEPT ![w] = W]
  <2> TAKE o \in Outcomes, d \in BOOLEAN
  <2> HAVE ToRecord(w, o, d)
  <2>1. wk' = [wk EXCEPT ![w] = [wk[w] EXCEPT !.pc = "prepare", !.out = o, !.dispatched = d]]
    BY <1>1 DEF ToRecord
  <2> QED
    BY <1>5, <1>6, <2>1
<1>9. CASE Check(w)
  BY <1>3, <1>4, <1>6, <1>7, <1>8, <1>9 DEF Check, AtWork
<1>10. CASE Resolve(w)
  BY <1>3, <1>4, <1>6, <1>7, <1>8, <1>10 DEF Resolve, AtWork
<1>11. CASE Recheck(w)
  BY <1>3, <1>4, <1>6, <1>7, <1>8, <1>11 DEF Recheck, AtWork
<1>12. CASE Send(w)
  <2>1. \E W \in WorkerStates : wk' = [wk EXCEPT ![w] = W]
    BY <1>6, <1>8, <1>12 DEF Send
  <2>2. sent' \in [Calls -> Nat]
    BY <1>12 DEF Send, AtWork, WorkAgrees, TypeOK
  <2> QED
    BY <1>12, <2>1, <2>2 DEF Send, AtWork, TypeOK
<1>13. CASE Prepare(w)
  <2>1. CASE wk' = [wk EXCEPT ![w] = Idle]
    BY <1>2, <1>3, <1>4, <1>13, <2>1 DEF Prepare
  <2>2. CASE wk' = [wk EXCEPT ![w].pc = "commit", ![w].fresh = TRUE, ![w].tries = @ + 1]
    <3> DEFINE n == wk[w].tries + 1
               W == [wk[w] EXCEPT !.pc = "commit", !.fresh = TRUE, !.tries = n]
    <3>1. n \in 0 .. PersistTries
      BY <1>1, <1>13 DEF Prepare, WorkAgrees, WorkerStates, ActionsAssumption
    <3>2. wk' = [wk EXCEPT ![w] = W]
      BY <1>1, <2>2
    <3> HIDE DEF n
    <3>3. W \in WorkerStates
      BY <1>1, <1>6, <3>1 DEF WorkerStates
    <3> QED
      BY <1>3, <1>4, <1>13, <3>2, <3>3 DEF Prepare
  <2> QED
    BY <1>13, <2>1, <2>2 DEF Prepare
<1>14. CASE Commit(w)
  <2>1. PICK next : Committed(w, next) \in RunRecords
                    /\ run' = [run EXCEPT ![RunOf[wk[w].call]] = Committed(w, next)]
    BY <1>14, CommitFields
  <2>2. run' \in [Runs -> RunRecords]
    BY <2>1 DEF TypeOK
  <2>3. call' \in [Calls -> CallRecords]
    <3> DEFINE c == wk[w].call
               s == OutcomeStatus(w)
    <3>1. c \in Calls /\ s \in CallStatus /\ call[c] \in CallRecords
          /\ call' = [call EXCEPT ![c].status = s, ![c].owner = NoWorker, ![c].live = FALSE]
      BY <1>14, CommitFields DEF TypeOK, CallStatus, Closed
    <3> HIDE DEF c, s
    <3>2. [call[c] EXCEPT !.status = s, !.owner = NoWorker, !.live = FALSE] \in CallRecords
      BY <3>1 DEF CallRecords
    <3>3. call' = [call EXCEPT ![c] = [call[c] EXCEPT !.status = s, !.owner = NoWorker, !.live = FALSE]]
      BY <3>1
    <3> QED
      BY <3>1, <3>2, <3>3 DEF TypeOK
  <2>4. wk' \in [Workers -> WorkerStates]
    BY <1>14, CommitFields
  <2> QED
    BY <1>14, <2>2, <2>3, <2>4 DEF Commit, TypeOK
<1>15. CASE Retry(w)
  <2>1. \E W \in WorkerStates : wk' = [wk EXCEPT ![w] = W]
    BY <1>2, <1>5, <1>6, <1>15 DEF Retry
  <2> QED
    BY <1>3, <1>4, <1>15, <2>1 DEF Retry
<1>16. CASE Leave(w)
  <2>1. spent' \in [{"command", "lapse", "loss"} -> Nat]
    BY <1>4, <1>16, SpendType DEF Leave
  <2> QED
    BY <1>2, <1>3, <1>16, <2>1 DEF Leave
<1>17. ASSUME NEW c \in Calls, Claim(w, c)
       PROVE  TypeOK'
  <2>1. call' \in [Calls -> CallRecords]
    <3> DEFINE b == call[c].recovered \/ call[c].status = "running"
    <3>1. call[c] \in CallRecords /\ "running" \in CallStatus /\ b \in BOOLEAN
      BY DEF TypeOK, CallStatus, CallRecords
    <3>2. call' = [call EXCEPT ![c] = [call[c] EXCEPT !.status = "running", !.owner = w, !.live = TRUE,
                                                      !.recovered = b]]
      BY <1>17 DEF Claim
    <3> HIDE DEF b
    <3>3. [call[c] EXCEPT !.status = "running", !.owner = w, !.live = TRUE, !.recovered = b] \in CallRecords
      BY <3>1 DEF CallRecords
    <3> QED
      BY <3>2, <3>3 DEF TypeOK
  <2>2. [Idle EXCEPT !.pc = "check", !.call = c] \in WorkerStates
    BY <1>2, <1>6 DEF WorkerStates
  <2> QED
    BY <1>17, <2>1, <2>2 DEF Claim, TypeOK
<1> QED
  BY <1>9, <1>10, <1>11, <1>12, <1>13, <1>14, <1>15, <1>16, <1>17 DEF Work

\* Every step keeps the types.
LEMMA TypeStep ==
  ASSUME ActionsAssumption, TypeOK, WorkAgrees, [Next]_vars
  PROVE  TypeOK'
<1>1. CASE \E c \in Calls : DeadlinePasses(c)
  <2>1. PICK c \in Calls : DeadlinePasses(c)
    BY <1>1
  <2>2. [approval[c] EXCEPT !.due = TRUE] \in Approvals
    <3>1. approval[c] \in Approvals
      BY DEF TypeOK
    <3> QED
      BY <3>1 DEF Approvals
  <2>3. approval' = [approval EXCEPT ![c] = [approval[c] EXCEPT !.due = TRUE]]
    BY <2>1 DEF DeadlinePasses
  <2> QED
    BY <2>1, <2>2, <2>3 DEF DeadlinePasses, TypeOK
<1>2. CASE \E c \in Calls : Lapse(c)
  <2>1. PICK c \in Calls : Lapse(c)
    BY <1>2
  <2>2. spent' \in [{"command", "lapse", "loss"} -> Nat]
    BY <2>1, SpendType DEF Lapse, TypeOK
  <2>3. call' \in [Calls -> CallRecords]
    <3>1. [call[c] EXCEPT !.live = FALSE] \in CallRecords
      <4>1. call[c] \in CallRecords
        BY DEF TypeOK
      <4> QED
        BY <4>1 DEF CallRecords
    <3>2. call' = [call EXCEPT ![c] = [call[c] EXCEPT !.live = FALSE]]
      BY <2>1 DEF Lapse
    <3> QED
      BY <3>1, <3>2 DEF TypeOK
  <2> QED
    BY <2>1, <2>2, <2>3 DEF Lapse, TypeOK
<1>3. CASE BeginMaintenance \/ EndMaintenance
  BY <1>3, SpendType DEF BeginMaintenance, EndMaintenance, TypeOK
<1>4. CASE UNCHANGED vars
  BY <1>4 DEF vars, TypeOK
<1> QED
  BY <1>1, <1>2, <1>3, <1>4, ProposeType, ResolutionType, RunStepType, WorkType DEF Next

-----------------------------------------------------------------------------
(* Calls and their approvals.                                              *)

\* A step that leaves calls, but for their leases, and the status of approvals alone
\* keeps them in agreement.
LEMMA ApprovalsUntouched ==
  ASSUME ApprovalsAgree, NEW c \in Calls,
         call'[c].status = call[c].status, call'[c].duplicate = call[c].duplicate,
         approval'[c].status = approval[c].status
  PROVE  ApprovalAgrees(c)'
BY DEF ApprovalsAgree, ApprovalAgrees, Granted

\* Every step keeps calls and approvals in agreement.
LEMMA ApprovalsStep ==
  ASSUME ActionsAssumption, TypeOK, WorkAgrees, ApprovalsAgree, [Next]_vars
  PROVE  ApprovalsAgree'
<1> SUFFICES ASSUME NEW d \in Calls
             PROVE  ApprovalAgrees(d)'
  BY DEF ApprovalsAgree
<1>1. ApprovalAgrees(d) /\ call \in [Calls -> CallRecords] /\ approval \in [Calls -> Approvals]
  BY DEF ApprovalsAgree, TypeOK
<1>2. ASSUME UNCHANGED <<call, approval>>
      PROVE  ApprovalAgrees(d)'
  BY <1>2, ApprovalsUntouched
<1>3. ASSUME NEW c \in Calls, Propose(c)
      PROVE  ApprovalAgrees(d)'
  <2>1. ApprovalAgrees(c)
    BY DEF ApprovalsAgree
  <2>2. CASE SuppressDuplicate(c)
    BY <1>1, <2>1, <2>2 DEF SuppressDuplicate, Proposable, ApprovalAgrees, Granted, CallRecords, Approvals
  <2>3. CASE Allow(c)
    BY <1>1, <2>1, <2>3
       DEF Allow, PutStatus, Proposable, ApprovalAgrees, Granted, CallRecords, Approvals
  <2>4. CASE RequestApproval(c)
    BY <1>1, <2>1, <2>4
       DEF RequestApproval, PutStatus, Proposable, ApprovalAgrees, Granted, CallRecords, Approvals
  <2>5. CASE Deny(c)
    BY <1>1, <2>1, <2>5 DEF Deny, PutStatus, Proposable, ApprovalAgrees, Granted, CallRecords, Approvals
  <2>6. CASE Replay(c)
    BY <1>2, <2>6 DEF Replay
  <2> QED
    BY <1>3, <2>2, <2>3, <2>4, <2>5, <2>6 DEF Propose
<1>4. ASSUME NEW c \in Calls, Resolution(c)
      PROVE  ApprovalAgrees(d)'
  <2>1. ApprovalAgrees(c)
    BY DEF ApprovalsAgree
  <2>2. ASSUME Approved(c), approval[c].status = "pending"
        PROVE  ApprovalAgrees(d)'
    BY <1>1, <2>1, <2>2 DEF Approved, PutStatus, ApprovalAgrees, Granted, CallRecords, Approvals
  <2>3. ASSUME NEW s \in {"rejected", "expired"}, Refused(c, s), approval[c].status = "pending"
        PROVE  ApprovalAgrees(d)'
    BY <1>1, <2>1, <2>3 DEF Refused, PutStatus, ApprovalAgrees, Granted, CallRecords, Approvals
  <2>4. CASE Decide(c) \/ AutoApprove(c)
    BY <2>2, <2>3, <2>4 DEF Decide, AutoApprove
  <2>5. CASE Expire(c) /\ (AwaitsApproval(c) \/ PausedApproval(c))
    BY <2>3, <2>5 DEF Expire
  <2>6. CASE Expire(c) /\ ~(AwaitsApproval(c) \/ PausedApproval(c))
    BY <1>1, <2>1, <2>6 DEF Expire, PutStatus, ApprovalAgrees, Granted, CallRecords, Approvals
  <2> QED
    BY <1>4, <2>4, <2>5, <2>6 DEF Resolution
<1>5. ASSUME NEW c \in Calls, DeadlinePasses(c)
      PROVE  ApprovalAgrees(d)'
  BY <1>1, <1>5, ApprovalsUntouched DEF DeadlinePasses, Approvals
<1>6. ASSUME NEW c \in Calls, Lapse(c)
      PROVE  ApprovalAgrees(d)'
  BY <1>1, <1>6, ApprovalsUntouched DEF Lapse, CallRecords
<1>7. ASSUME NEW r \in Runs, Turn(r) \/ Operator(r) \/ Answer(r)
      PROVE  ApprovalAgrees(d)'
  <2>1. CASE ~UNCHANGED <<call, approval>>
    <3>1. Cancel(r)
      BY <1>7, <2>1
         DEF Turn, StartTurn, EndTurn, Operator, Pause, Resume, Intervene, Answer
    <3> DEFINE c == run[r].on
    <3>2. /\ c \in Calls
          /\ call[c].status = "waiting_approval"
          /\ PutStatus(c, "canceled")
          /\ approval' = [approval EXCEPT ![c].status = "canceled"]
      BY <2>1, <3>1 DEF Cancel, AwaitsApproval, PausedApproval, TypeOK, RunRecords
    <3>3. ApprovalAgrees(c)
      BY <3>2 DEF ApprovalsAgree
    <3> HIDE DEF c
    <3> QED
      BY <1>1, <3>2, <3>3 DEF PutStatus, ApprovalAgrees, Granted, CallRecords, Approvals
  <2> QED
    BY <1>2, <2>1
<1>8. ASSUME NEW w \in Workers, Work(w) \/ Leave(w)
      PROVE  ApprovalAgrees(d)'
  <2>1. CASE Commit(w)
    <3> DEFINE c == wk[w].call
               s == OutcomeStatus(w)
    <3>1. /\ c \in Calls /\ s \in {"ready", "succeeded", "failed", "canceled"}
          /\ call' = [call EXCEPT ![c].status = s, ![c].owner = NoWorker, ![c].live = FALSE]
          /\ call[c].status = "running" /\ approval' = approval
      BY <2>1, CommitFields DEF Commit, Mine
    <3>2. ApprovalAgrees(c)
      BY <3>1 DEF ApprovalsAgree
    <3> HIDE DEF c, s
    <3> QED
      BY <1>1, <3>1, <3>2 DEF ApprovalAgrees, Granted, CallRecords, Approvals
  <2>2. CASE ~Commit(w)
    BY <1>2, <1>8, <2>2
       DEF Work, Check, Resolve, Recheck, Send, AtWork, Prepare, Retry, Leave
  <2> QED
    BY <2>1, <2>2
<1>9. ASSUME NEW w \in Workers, NEW c \in Calls, Claim(w, c)
      PROVE  ApprovalAgrees(d)'
  <2>1. ApprovalAgrees(c)
    BY DEF ApprovalsAgree
  <2> QED
    BY <1>1, <1>9, <2>1 DEF Claim, Claimable, ApprovalAgrees, Granted, CallRecords, Approvals
<1> QED
  BY <1>2, <1>3, <1>4, <1>5, <1>6, <1>7, <1>8, <1>9 DEF Next, vars, BeginMaintenance, EndMaintenance

-----------------------------------------------------------------------------
(* Workers and what they send.                                             *)

\* A call whose status changes keeps the rest, and the other calls stay as they are.
LEMMA PutStatusFields ==
  ASSUME TypeOK, NEW c \in Calls, NEW s, PutStatus(c, s)
  PROVE  /\ call'[c].status = s /\ call'[c].recovered = call[c].recovered
         /\ call'[c].owner = call[c].owner /\ call'[c].duplicate = call[c].duplicate
         /\ \A d \in Calls \ {c} : call'[d] = call[d]
BY DEF TypeOK, PutStatus, CallRecords

\* The call, its approval and its provider's side of one call.
Untouched(c) ==
  /\ call'[c].status = call[c].status /\ call'[c].recovered = call[c].recovered
  /\ call'[c].owner = call[c].owner /\ call'[c].duplicate = call[c].duplicate
  /\ approval'[c].status = approval[c].status

\* A step outside the workers and their claims leaves every worker where it is, sends
\* nothing, and touches no call that was admitted but to let its lease lapse.
OutsideWork ==
  /\ \A w \in Workers :
       /\ wk'[w].pc = wk[w].pc /\ wk'[w].call = wk[w].call
       /\ wk'[w].dispatched = wk[w].dispatched /\ wk'[w].tries = wk[w].tries
  /\ sent' = sent
  /\ \A c \in Calls : Admitted(c) => Untouched(c)
  /\ \A c \in Calls : call'[c].recovered = call[c].recovered

\* Proposals, resolutions, commands, deadlines, lapses and maintenance are such steps.
LEMMA OutsideWorkSteps ==
  ASSUME ActionsAssumption, TypeOK, ApprovalsAgree,
         \/ \E r \in Runs : Turn(r) \/ Operator(r) \/ Answer(r)
         \/ \E c \in Calls : Propose(c) \/ DeadlinePasses(c) \/ Resolution(c) \/ Lapse(c)
         \/ BeginMaintenance \/ EndMaintenance \/ UNCHANGED vars
  PROVE  OutsideWork
<1> DEFINE Same == \A w \in Workers :
             /\ wk'[w].pc = wk[w].pc /\ wk'[w].call = wk[w].call
             /\ wk'[w].dispatched = wk[w].dispatched /\ wk'[w].tries = wk[w].tries
<1>1. call \in [Calls -> CallRecords] /\ approval \in [Calls -> Approvals]
      /\ wk \in [Workers -> WorkerStates]
  BY DEF TypeOK
<1>2. ASSUME NEW r \in Runs, NEW R, PutRun(r, R)
      PROVE  Same
  BY <1>1, <1>2, WrittenFields DEF PutRun
<1>3. UNCHANGED wk => Same
  OBVIOUS
<1> HIDE DEF Same
<1>4. ASSUME Same, UNCHANGED <<call, approval, sent>>
      PROVE  OutsideWork
  BY <1>4 DEF Same, OutsideWork, Untouched
<1>5. ASSUME Same, UNCHANGED sent, NEW c \in Calls, ~Admitted(c),
             call'[c].recovered = call[c].recovered,
             \A d \in Calls \ {c} : call'[d] = call[d] /\ approval'[d] = approval[d]
      PROVE  OutsideWork
  BY <1>5 DEF Same, OutsideWork, Untouched
<1>6. ASSUME NEW c \in Calls, Propose(c)
      PROVE  OutsideWork
  <2>1. RunOf[c] \in Runs
    BY DEF ActionsAssumption
  <2>2. Same /\ UNCHANGED sent
    BY <1>2, <1>6, <2>1
       DEF Propose, SuppressDuplicate, Allow, RequestApproval, Deny, Replay
  <2>3. \A d \in Calls \ {c} : call'[d] = call[d] /\ approval'[d] = approval[d]
    BY <1>1, <1>6
       DEF Propose, SuppressDuplicate, Allow, RequestApproval, Deny, Replay, PutStatus
  <2>4. call'[c].recovered = call[c].recovered
    <3>1. CASE SuppressDuplicate(c)
      BY <1>1, <3>1 DEF SuppressDuplicate, CallRecords
    <3>2. CASE ~SuppressDuplicate(c)
      BY <1>6, <3>2, PutStatusFields DEF Propose, Allow, RequestApproval, Deny, Replay
    <3> QED
      BY <3>1, <3>2
  <2>5. CASE call[c].status = "absent"
    BY <1>5, <2>2, <2>3, <2>4, <2>5 DEF Admitted
  <2>6. CASE call[c].status # "absent"
    BY <1>4, <1>6, <2>2, <2>6
       DEF Propose, SuppressDuplicate, Allow, RequestApproval, Deny, Replay, Proposable
  <2> QED
    BY <2>5, <2>6
<1>7. ASSUME NEW c \in Calls, Resolution(c)
      PROVE  OutsideWork
  <2>1. RunOf[c] \in Runs /\ ApprovalAgrees(c)
    BY DEF ActionsAssumption, ApprovalsAgree
  <2>2. Same /\ UNCHANGED sent
    BY <1>2, <1>7, <2>1 DEF Resolution, Decide, AutoApprove, Expire, Approved, Refused
  <2>3. \A d \in Calls \ {c} : call'[d] = call[d] /\ approval'[d] = approval[d]
    BY <1>1, <1>7 DEF Resolution, Decide, AutoApprove, Expire, Approved, Refused, PutStatus
  <2>4. call'[c].recovered = call[c].recovered
    BY <1>7, PutStatusFields
       DEF Resolution, Decide, AutoApprove, Expire, Approved, Refused
  <2>5. ~Admitted(c)
    BY <1>7, <2>1 DEF Resolution, Decide, AutoApprove, Expire, ApprovalAgrees, Admitted
  <2> QED
    BY <1>5, <2>2, <2>3, <2>4, <2>5
<1>8. ASSUME NEW c \in Calls, DeadlinePasses(c)
      PROVE  OutsideWork
  BY <1>1, <1>3, <1>8 DEF DeadlinePasses, OutsideWork, Untouched, Same, Approvals
<1>9. ASSUME NEW c \in Calls, Lapse(c)
      PROVE  OutsideWork
  BY <1>1, <1>3, <1>9 DEF Lapse, OutsideWork, Untouched, Same, CallRecords
<1>10. ASSUME NEW r \in Runs, Turn(r) \/ Operator(r) \/ Answer(r)
       PROVE  OutsideWork
  <2>1. Same /\ UNCHANGED sent
    BY <1>2, <1>10
       DEF Turn, StartTurn, EndTurn, Operator, Pause, Resume, Intervene, Answer, Cancel
  <2>2. CASE UNCHANGED <<call, approval>>
    BY <1>4, <2>1, <2>2
  <2>3. CASE ~UNCHANGED <<call, approval>>
    <3>1. Cancel(r)
      BY <1>10, <2>3 DEF Turn, StartTurn, EndTurn, Operator, Pause, Resume, Intervene, Answer
    <3> DEFINE c == run[r].on
    <3>2. /\ c \in Calls /\ call[c].status = "waiting_approval"
          /\ PutStatus(c, "canceled") /\ approval' = [approval EXCEPT ![c].status = "canceled"]
      BY <2>3, <3>1 DEF Cancel, AwaitsApproval, PausedApproval, TypeOK, RunRecords
    <3> HIDE DEF c
    <3>3. /\ ~Admitted(c) /\ call'[c].recovered = call[c].recovered
          /\ \A d \in Calls \ {c} : call'[d] = call[d] /\ approval'[d] = approval[d]
      BY <1>1, <3>2 DEF Admitted, PutStatus, CallRecords
    <3> QED
      BY <1>5, <2>1, <3>2, <3>3
  <2> QED
    BY <2>2, <2>3
<1>11. CASE BeginMaintenance \/ EndMaintenance \/ UNCHANGED vars
  BY <1>3, <1>4, <1>11 DEF BeginMaintenance, EndMaintenance, vars
<1> QED
  BY <1>6, <1>7, <1>8, <1>9, <1>10, <1>11

\* Every step keeps workers on calls that were admitted.
LEMMA WorkStep ==
  ASSUME ActionsAssumption, TypeOK, ApprovalsAgree, WorkAgrees, [Next]_vars
  PROVE  WorkAgrees'
<1>1. call \in [Calls -> CallRecords] /\ wk \in [Workers -> WorkerStates] /\ sent \in [Calls -> Nat]
  BY DEF TypeOK
<1>2. ASSUME OutsideWork
      PROVE  WorkAgrees'
  <2>1. \A c \in Calls : Admitted(c) => Admitted(c)'
    BY <1>2 DEF OutsideWork, Untouched, Admitted, Granted
  <2> QED
    BY <1>2, <2>1 DEF OutsideWork, WorkAgrees, Working
\* A worker's own step that leaves calls and approvals alone.
<1>3. ASSUME NEW w \in Workers, NEW W \in WorkerStates, wk' = [wk EXCEPT ![w] = W],
             UNCHANGED <<call, approval>>, sent' = sent,
             W = Idle \/ (wk[w].pc # "idle" /\ W.call = wk[w].call),
             W.pc \in {"check", "resolve", "recheck", "send"} => ~W.dispatched,
             W.pc \notin {"idle", "commit"} => W.tries < PersistTries
      PROVE  WorkAgrees'
  <2>1. \A c \in Calls : Admitted(c)' = Admitted(c)
    BY <1>3 DEF Admitted, Granted
  <2>2. \A v \in Workers : wk'[v] = IF v = w THEN W ELSE wk[v]
    BY <1>1, <1>3
  <2> QED
    BY <1>3, <2>1, <2>2 DEF WorkAgrees, Working, Idle
<1>4. ASSUME NEW w \in Workers, NEW p \in {"resolve", "recheck", "send"}, Goto(w, p),
             wk[w].pc \in {"check", "resolve", "recheck"}, UNCHANGED <<call, approval, sent>>
      PROVE  WorkAgrees'
  <2> DEFINE W == [wk[w] EXCEPT !.pc = p]
  <2>1. wk' = [wk EXCEPT ![w] = W]
    BY <1>1, <1>4 DEF Goto
  <2>2. /\ W \in WorkerStates /\ W.call = wk[w].call /\ W.pc = p
        /\ W.dispatched = wk[w].dispatched /\ W.tries = wk[w].tries
    BY <1>1 DEF WorkerStates, Phases
  <2> HIDE DEF W
  <2> QED
    BY <1>3, <1>4, <2>1, <2>2 DEF WorkAgrees
<1>5. ASSUME NEW w \in Workers, NEW o \in Outcomes, NEW d \in BOOLEAN, ToRecord(w, o, d),
             wk[w].pc \in {"check", "resolve", "recheck"}, UNCHANGED <<call, approval, sent>>
      PROVE  WorkAgrees'
  <2> DEFINE W == [wk[w] EXCEPT !.pc = "prepare", !.out = o, !.dispatched = d]
  <2>1. wk' = [wk EXCEPT ![w] = W]
    BY <1>1, <1>5 DEF ToRecord
  <2>2. W \in WorkerStates /\ W.call = wk[w].call /\ W.pc = "prepare" /\ W.tries = wk[w].tries
    BY <1>1, <1>5, ZenonT(40) DEF WorkerStates, Phases
  <2> HIDE DEF W
  <2> QED
    BY <1>3, <1>5, <2>1, <2>2 DEF WorkAgrees
<1>6. Idle \in WorkerStates /\ Idle.pc = "idle"
  BY DEF Idle, WorkerStates, Phases, Outcomes, ActionsAssumption
<1>7. {"none", "ok", "human", "error", "parked", "maintenance", "uncertain"} \subseteq Outcomes
  BY DEF Outcomes
<1>8. ASSUME NEW w \in Workers, Check(w)
      PROVE  WorkAgrees'
  BY <1>4, <1>5, <1>7, <1>8 DEF Check, AtWork
<1>9. ASSUME NEW w \in Workers, Resolve(w)
      PROVE  WorkAgrees'
  BY <1>4, <1>5, <1>7, <1>9 DEF Resolve, AtWork
<1>10. ASSUME NEW w \in Workers, Recheck(w)
       PROVE  WorkAgrees'
  BY <1>4, <1>5, <1>7, <1>10 DEF Recheck, AtWork
<1>11. ASSUME NEW w \in Workers, Send(w)
       PROVE  WorkAgrees'
  <2> DEFINE c == wk[w].call
  <2>1. PICK o \in {"ok", "human", "error"} : ToRecord(w, o, TRUE)
    BY <1>11 DEF Send
  <2>2. c \in Calls /\ Admitted(c) /\ wk[w].tries < PersistTries
    BY <1>11 DEF Send, AtWork, WorkAgrees, Working
  <2>3. sent' = [sent EXCEPT ![c] = @ + 1] /\ UNCHANGED <<call, approval>>
    BY <1>11 DEF Send, AtWork
  <2>4. \A d \in Calls : Admitted(d)' = Admitted(d)
    BY <2>3 DEF Admitted, Granted
  <2>5. \A v \in Workers : /\ wk'[v].call = wk[v].call /\ wk'[v].tries = wk[v].tries
                           /\ v # w => wk'[v] = wk[v]
    BY <1>1, <2>1 DEF ToRecord, WorkerStates
  <2>6. wk'[w].pc = "prepare" /\ wk[w].pc = "send"
    BY <1>1, <1>11, <2>1 DEF ToRecord, WorkerStates, Send, AtWork
  <2>7. \A d \in Calls : sent'[d] > 0 => Admitted(d)
    <3>1. \A d \in Calls \ {c} : sent'[d] = sent[d]
      BY <1>1, <2>3
    <3> QED
      BY <2>2, <3>1 DEF WorkAgrees
  <2> QED
    BY <2>2, <2>4, <2>5, <2>6, <2>7 DEF WorkAgrees, Working
<1>12. ASSUME NEW w \in Workers, Prepare(w)
       PROVE  WorkAgrees'
  <2>1. CASE wk' = [wk EXCEPT ![w] = Idle]
    BY <1>3, <1>6, <1>12, <2>1 DEF Prepare
  <2>2. CASE wk' = [wk EXCEPT ![w].pc = "commit", ![w].fresh = TRUE, ![w].tries = @ + 1]
    <3>1. \A v \in Workers : wk'[v].call = wk[v].call /\ (v # w => wk'[v] = wk[v])
      BY <1>1, <2>2 DEF WorkerStates
    <3>2. wk'[w].pc = "commit" /\ wk[w].pc = "prepare"
      BY <1>1, <1>12, <2>2 DEF WorkerStates, Prepare
    <3>3. \A d \in Calls : Admitted(d)' = Admitted(d)
      BY <1>12 DEF Prepare, Admitted, Granted
    <3> QED
      BY <1>12, <3>1, <3>2, <3>3 DEF Prepare, WorkAgrees, Working
  <2> QED
    BY <1>12, <2>1, <2>2 DEF Prepare
<1>13. ASSUME NEW w \in Workers, Commit(w)
       PROVE  WorkAgrees'
  <2> DEFINE c == wk[w].call
             s == OutcomeStatus(w)
  <2>1. /\ c \in Calls /\ s \in {"ready", "succeeded", "failed", "canceled"}
        /\ call' = [call EXCEPT ![c].status = s, ![c].owner = NoWorker, ![c].live = FALSE]
        /\ UNCHANGED <<approval, sent>> /\ Admitted(c)
    BY <1>13, CommitFields DEF Commit, WorkAgrees, Working
  <2>2. \A v \in Workers \ {w} :
          wk'[v].pc = wk[v].pc /\ wk'[v].call = wk[v].call
          /\ wk'[v].dispatched = wk[v].dispatched /\ wk'[v].tries = wk[v].tries
    BY <1>13, CommitFields
  <2>3. wk'[w].pc = "idle"
    BY <1>13, CommitFields
  <2>4. \A d \in Calls : Admitted(d) => Admitted(d)'
    <3> HIDE DEF c, s
    <3> QED
      BY <1>1, <2>1 DEF Admitted, Granted, CallRecords
  <2> QED
    BY <2>1, <2>2, <2>3, <2>4 DEF WorkAgrees, Working
<1>14. ASSUME NEW w \in Workers, Retry(w)
       PROVE  WorkAgrees'
  <2> DEFINE W == [wk[w] EXCEPT !.pc = "prepare"]
  <2>1. CASE wk' = [wk EXCEPT ![w] = Idle]
    BY <1>3, <1>6, <1>14, <2>1 DEF Retry
  <2>2. CASE wk' = [wk EXCEPT ![w].pc = "prepare"] /\ wk[w].tries < PersistTries
    <3>1. wk' = [wk EXCEPT ![w] = W]
      BY <1>1, <2>2
    <3>2. W \in WorkerStates /\ W.call = wk[w].call /\ W.pc = "prepare" /\ W.tries = wk[w].tries
      BY <1>1 DEF WorkerStates, Phases
    <3> HIDE DEF W
    <3> QED
      BY <1>3, <1>14, <2>2, <3>1, <3>2 DEF Retry
  <2> QED
    BY <1>14, <2>1, <2>2 DEF Retry
<1>15. ASSUME NEW w \in Workers, Leave(w)
       PROVE  WorkAgrees'
  BY <1>3, <1>6, <1>15 DEF Leave
<1>16. ASSUME NEW w \in Workers, NEW c \in Calls, Claim(w, c)
       PROVE  WorkAgrees'
  <2>1. ApprovalAgrees(c) /\ call[c].status \in {"ready", "running"}
    BY <1>16 DEF ApprovalsAgree, Claim, Claimable
  <2>2. /\ call'[c].status = "running" /\ call'[c].duplicate = call[c].duplicate
        /\ \A d \in Calls \ {c} : call'[d] = call[d]
    BY <1>1, <1>16 DEF Claim, CallRecords
  <2>3. \A d \in Calls : Admitted(d) => Admitted(d)'
    BY <1>16, <2>2 DEF Claim, Admitted, Granted
  <2>4. Admitted(c)'
    BY <1>16, <2>1, <2>2 DEF Claim, ApprovalAgrees, Admitted, Granted
  <2>5. \A v \in Workers : v # w => wk'[v] = wk[v]
    BY <1>1, <1>16 DEF Claim
  <2>6. wk'[w].pc = "check" /\ wk'[w].call = c /\ ~wk'[w].dispatched /\ wk'[w].tries = 0
    BY <1>1, <1>16 DEF Claim, Idle
  <2>7. sent' = sent /\ 0 < PersistTries
    BY <1>16 DEF Claim, ActionsAssumption
  <2> QED
    BY <2>3, <2>4, <2>5, <2>6, <2>7 DEF WorkAgrees, Working
<1> QED
  BY <1>2, <1>8, <1>9, <1>10, <1>11, <1>12, <1>13, <1>14, <1>15, <1>16, OutsideWorkSteps
     DEF Next, Work

\* Every step keeps what is known of the calls that are sent once.
LEMMA SendsStep ==
  ASSUME ActionsAssumption, TypeOK, ApprovalsAgree, WorkAgrees, SendsOnce, [Next]_vars
  PROVE  SendsOnce'
<1> SUFFICES ASSUME NEW c \in Calls \ Reads
             PROVE  SendsOnceAt(c)'
  BY DEF SendsOnce
<1>1. call \in [Calls -> CallRecords] /\ wk \in [Workers -> WorkerStates] /\ sent \in [Calls -> Nat]
  BY DEF TypeOK
<1>2. SendsOnceAt(c) /\ ~Admitted(c) => sent[c] = 0
  BY <1>1 DEF SendsOnce, WorkAgrees
<1>0. SendsOnceAt(c)
  BY DEF SendsOnce
<1>3. ASSUME OutsideWork
      PROVE  SendsOnceAt(c)'
  <2>1. CASE Admitted(c)
    BY <1>0, <1>3, <2>1 DEF OutsideWork, Untouched, SendsOnceAt, Working, Sending, Mine
  <2>2. CASE ~Admitted(c)
    <3>1. sent'[c] = 0 /\ \A w \in Workers : ~Working(w, c)
      BY <1>0, <1>2, <1>3, <2>2 DEF OutsideWork, WorkAgrees
    <3>2. \A w \in Workers : ~Working(w, c)' /\ ~Sending(w, c)'
      BY <1>3, <3>1 DEF OutsideWork, Working, Sending
    <3> QED
      BY <3>1, <3>2 DEF SendsOnceAt
  <2> QED
    BY <2>1, <2>2
\* A worker's own step that sends nothing and leaves the calls alone.
<1>4. ASSUME NEW w \in Workers, NEW W \in WorkerStates, wk' = [wk EXCEPT ![w] = W],
             UNCHANGED <<call, sent>>,
             W.pc = "idle" \/ (wk[w].pc # "idle" /\ W.call = wk[w].call
                               /\ (~W.dispatched => ~wk[w].dispatched)),
             W.pc \in {"resolve", "recheck", "send"} /\ W.call = c =>
               Sending(w, c) \/ (wk[w].pc = "check" /\ ~call[c].recovered)
      PROVE  SendsOnceAt(c)'
  <2>1. \A v \in Workers : wk'[v] = IF v = w THEN W ELSE wk[v]
    BY <1>1, <1>4
  <2>2. \A v \in Workers : Working(v, c)' => Working(v, c) /\ Mine(v)' = Mine(v)
                                             /\ (~wk'[v].dispatched => ~wk[v].dispatched)
    BY <1>4, <2>1 DEF Working, Mine
  <2>3. \A v \in Workers : Sending(v, c)' =>
          Working(v, c) /\ (Sending(v, c) \/ (wk[v].pc = "check" /\ v = w /\ ~call[c].recovered))
    BY <1>4, <2>1, <2>2 DEF Working, Sending
  <2>4. \A v \in Workers : wk[v].pc = "check" => ~wk[v].dispatched
    BY DEF WorkAgrees
  <2>5. \A v \in Workers : Sending(v, c)' => sent'[c] = 0
    BY <1>0, <1>4, <2>3, <2>4 DEF SendsOnceAt
  <2>6. \A v, u \in Workers : Sending(v, c)' /\ Sending(u, c)' => v = u
    <3> SUFFICES ASSUME NEW v \in Workers, NEW u \in Workers, Sending(v, c)', Sending(u, c)', v # u
                 PROVE  FALSE
      OBVIOUS
    <3>1. CASE Sending(v, c) /\ Sending(u, c)
      BY <1>0, <3>1 DEF SendsOnceAt
    <3>2. CASE ~call[c].recovered
      BY <1>0, <2>3, <3>2 DEF SendsOnceAt, Mine, Working
    <3> QED
      BY <2>3, <3>1, <3>2
  <2> QED
    BY <1>0, <1>4, <2>2, <2>5, <2>6 DEF SendsOnceAt
<1>5. ASSUME NEW w \in Workers, NEW p \in {"resolve", "recheck", "send"}, Goto(w, p),
             wk[w].pc \in {"check", "resolve", "recheck"}, UNCHANGED <<call, sent>>,
             wk[w].call = c => Sending(w, c) \/ ~call[c].recovered
      PROVE  SendsOnceAt(c)'
  <2> DEFINE W == [wk[w] EXCEPT !.pc = p]
  <2>1. wk' = [wk EXCEPT ![w] = W]
    BY <1>1, <1>5 DEF Goto
  <2>2. W \in WorkerStates /\ W.call = wk[w].call /\ W.pc = p /\ W.dispatched = wk[w].dispatched
    BY <1>1 DEF WorkerStates, Phases
  <2>3. W.call = c => Sending(w, c) \/ (wk[w].pc = "check" /\ ~call[c].recovered)
    BY <1>5, <2>2 DEF Sending
  <2> HIDE DEF W
  <2> QED
    BY <1>4, <1>5, <2>1, <2>2, <2>3
<1>6. ASSUME NEW w \in Workers, NEW o \in Outcomes, NEW d \in BOOLEAN, ToRecord(w, o, d),
             wk[w].pc \in {"check", "resolve", "recheck"}, UNCHANGED <<call, sent>>
      PROVE  SendsOnceAt(c)'
  <2> DEFINE W == [wk[w] EXCEPT !.pc = "prepare", !.out = o, !.dispatched = d]
  <2>1. wk' = [wk EXCEPT ![w] = W]
    BY <1>1, <1>6 DEF ToRecord
  <2>2. W \in WorkerStates /\ W.call = wk[w].call /\ W.pc = "prepare"
    BY <1>1, <1>6, ZenonT(40) DEF WorkerStates, Phases
  <2>3. ~wk[w].dispatched
    BY <1>6 DEF WorkAgrees
  <2> HIDE DEF W
  <2> QED
    BY <1>4, <1>6, <2>1, <2>2, <2>3
<1>7. Idle \in WorkerStates /\ Idle.pc = "idle"
  BY DEF Idle, WorkerStates, Phases, Outcomes, ActionsAssumption
<1>8. {"none", "ok", "human", "error", "parked", "maintenance", "uncertain"} \subseteq Outcomes
  BY DEF Outcomes
<1>9. ASSUME NEW w \in Workers, Check(w)
      PROVE  SendsOnceAt(c)'
  BY <1>5, <1>6, <1>8, <1>9 DEF Check, AtWork
<1>10. ASSUME NEW w \in Workers, Resolve(w)
       PROVE  SendsOnceAt(c)'
  <2>1. wk[w].call = c => Sending(w, c)
    BY <1>10 DEF Resolve, AtWork, Sending
  <2> QED
    BY <1>5, <1>6, <1>8, <1>10, <2>1 DEF Resolve, AtWork
<1>11. ASSUME NEW w \in Workers, Recheck(w)
       PROVE  SendsOnceAt(c)'
  <2>1. wk[w].call = c => Sending(w, c)
    BY <1>11 DEF Recheck, AtWork, Sending
  <2> QED
    BY <1>5, <1>6, <1>8, <1>11, <2>1 DEF Recheck, AtWork
<1>12. ASSUME NEW w \in Workers, Send(w)
       PROVE  SendsOnceAt(c)'
  <2>1. PICK o \in {"ok", "human", "error"} : ToRecord(w, o, TRUE)
    BY <1>12 DEF Send
  <2>2. /\ wk[w].pc = "send" /\ call' = call /\ wk'[w].pc = "prepare" /\ wk'[w].dispatched
        /\ \A v \in Workers : wk'[v].call = wk[v].call /\ (v # w => wk'[v] = wk[v])
    BY <1>1, <1>12, <2>1 DEF Send, AtWork, ToRecord, WorkerStates
  <2>3. CASE wk[w].call # c
    <3>1. sent'[c] = sent[c]
      BY <1>12, <2>3 DEF Send
    <3> QED
      BY <1>0, <2>2, <2>3, <3>1 DEF SendsOnceAt, Working, Sending, Mine
  <2>4. CASE wk[w].call = c
    <3>1. Sending(w, c) /\ Working(w, c)
      BY <2>2, <2>4 DEF Sending, Working
    <3>2. sent'[c] = 1
      BY <1>0, <1>1, <1>12, <2>4, <3>1 DEF Send, SendsOnceAt
    <3>3. ~(call'[c].status = "ready" /\ ~call'[c].recovered)
      BY <1>0, <2>2, <2>4, <3>1 DEF SendsOnceAt, Mine
    <3>4. \A v \in Workers : Working(v, c)' /\ ~call'[c].recovered => v = w /\ Mine(v)'
      BY <1>0, <2>2, <2>4, <3>1 DEF SendsOnceAt, Mine, Working
    <3>5. \A v \in Workers : ~Sending(v, c)'
      BY <1>0, <2>2, <3>1 DEF SendsOnceAt, Sending
    <3> QED
      BY <2>2, <3>2, <3>3, <3>4, <3>5 DEF SendsOnceAt
  <2> QED
    BY <2>3, <2>4
<1>13. ASSUME NEW w \in Workers, Prepare(w)
       PROVE  SendsOnceAt(c)'
  <2>1. CASE wk' = [wk EXCEPT ![w] = Idle]
    BY <1>4, <1>7, <1>13, <2>1 DEF Prepare
  <2>2. CASE wk' = [wk EXCEPT ![w].pc = "commit", ![w].fresh = TRUE, ![w].tries = @ + 1]
    <3>1. \A v \in Workers : /\ wk'[v].call = wk[v].call /\ wk'[v].dispatched = wk[v].dispatched
                             /\ v # w => wk'[v] = wk[v]
      BY <1>1, <2>2 DEF WorkerStates
    <3>2. wk'[w].pc = "commit" /\ wk[w].pc = "prepare"
      BY <1>1, <1>13, <2>2 DEF WorkerStates, Prepare
    <3>3. UNCHANGED <<call, sent>>
      BY <1>13 DEF Prepare
    <3> QED
      BY <1>0, <3>1, <3>2, <3>3 DEF SendsOnceAt, Working, Sending, Mine
  <2> QED
    BY <1>13, <2>1, <2>2 DEF Prepare
<1>14. ASSUME NEW w \in Workers, Commit(w)
       PROVE  SendsOnceAt(c)'
  <2> DEFINE d == wk[w].call
             s == OutcomeStatus(w)
  <2>1. /\ d \in Calls /\ Mine(w) /\ sent' = sent /\ wk[w].pc = "commit"
        /\ call' = [call EXCEPT ![d].status = s, ![d].owner = NoWorker, ![d].live = FALSE]
        /\ s = "ready" => ~wk[w].dispatched
    BY <1>14, CommitFields DEF Commit, OutcomeStatus
  <2>2. /\ wk'[w].pc = "idle"
        /\ \A v \in Workers \ {w} :
             /\ wk'[v].pc = wk[v].pc /\ wk'[v].call = wk[v].call
             /\ wk'[v].dispatched = wk[v].dispatched
    BY <1>14, CommitFields
  <2>3. CASE d # c
    <3> HIDE DEF d, s
    <3>1. call'[c] = call[c]
      BY <1>1, <2>1, <2>3
    <3>2. \A v \in Workers : /\ Working(v, c)' => Working(v, c) /\ v # w
                             /\ Sending(v, c)' => Sending(v, c) /\ v # w
      BY <2>2 DEF Working, Sending
    <3>3. \A v \in Workers \ {w} : Working(v, c)' => Mine(v)' = Mine(v)
      BY <2>2, <3>1 DEF Working, Mine
    <3> QED
      BY <1>0, <2>1, <2>2, <3>1, <3>2, <3>3 DEF SendsOnceAt
  <2>4. CASE d = c
    <3>1. call'[c].status = s /\ call'[c].recovered = call[c].recovered
      <4> HIDE DEF s, d
      <4> QED
        BY <1>1, <2>1, <2>4 DEF CallRecords
    <3>2. Working(w, c)
      BY <2>1, <2>4 DEF Working
    <3>3. ~call[c].recovered /\ s = "ready" => sent[c] = 0
      BY <1>0, <2>1, <3>2 DEF SendsOnceAt
    <3>4. \A v \in Workers \ {w} : Working(v, c) => call[c].recovered
      BY <1>0, <2>1, <2>4 DEF SendsOnceAt, Mine, Working
    <3>5. \A v \in Workers : Working(v, c)' => v # w /\ Working(v, c)
      BY <2>2 DEF Working
    <3>6. \A v \in Workers : Sending(v, c)' => Sending(v, c)
      BY <2>2 DEF Sending
    <3> QED
      BY <1>0, <2>1, <3>1, <3>3, <3>4, <3>5, <3>6 DEF SendsOnceAt
  <2> QED
    BY <2>3, <2>4
<1>15. ASSUME NEW w \in Workers, Retry(w)
       PROVE  SendsOnceAt(c)'
  <2> DEFINE W == [wk[w] EXCEPT !.pc = "prepare"]
  <2>1. CASE wk' = [wk EXCEPT ![w] = Idle]
    BY <1>4, <1>7, <1>15, <2>1 DEF Retry
  <2>2. CASE wk' = [wk EXCEPT ![w].pc = "prepare"]
    <3>1. wk' = [wk EXCEPT ![w] = W]
      BY <1>1, <2>2
    <3>2. W \in WorkerStates /\ W.call = wk[w].call /\ W.pc = "prepare" /\ W.dispatched = wk[w].dispatched
      BY <1>1 DEF WorkerStates, Phases
    <3> HIDE DEF W
    <3> QED
      BY <1>4, <1>15, <3>1, <3>2 DEF Retry
  <2> QED
    BY <1>15, <2>1, <2>2 DEF Retry
<1>16. ASSUME NEW w \in Workers, Leave(w)
       PROVE  SendsOnceAt(c)'
  BY <1>4, <1>7, <1>16 DEF Leave
<1>17. ASSUME NEW w \in Workers, NEW d \in Calls, Claim(w, d)
       PROVE  SendsOnceAt(c)'
  <2>1. /\ sent' = sent /\ wk[w].pc = "idle" /\ wk'[w].pc = "check" /\ wk'[w].call = d
        /\ \A v \in Workers : v # w => wk'[v] = wk[v]
        /\ call[d].status \in {"ready", "running"}
    BY <1>1, <1>17 DEF Claim, Claimable, Idle
  <2>2. CASE d # c
    <3>1. call'[c] = call[c]
      BY <1>1, <1>17, <2>2 DEF Claim
    <3> QED
      BY <1>0, <2>1, <2>2, <3>1 DEF SendsOnceAt, Working, Sending, Mine
  <2>3. CASE d = c
    <3>1. /\ call'[c].status = "running" /\ call'[c].owner = w
          /\ call'[c].recovered = (call[c].recovered \/ call[c].status = "running")
      BY <1>1, <1>17, <2>3 DEF Claim, CallRecords
    <3>2. \A v \in Workers : Sending(v, c)' => Sending(v, c)
      BY <2>1 DEF Sending
    <3>3. ASSUME NEW v \in Workers, Working(v, c)', ~call'[c].recovered
          PROVE  v = w /\ Mine(v)' /\ sent'[c] = 0
      <4>1. ~call[c].recovered /\ call[c].status = "ready"
        BY <2>1, <2>3, <3>1, <3>3
      <4>2. v = w
        BY <1>0, <2>1, <3>3, <4>1 DEF SendsOnceAt, Working, Mine
      <4> QED
        BY <1>0, <2>1, <2>3, <3>1, <4>1, <4>2 DEF SendsOnceAt, Mine
    <3> QED
      BY <1>0, <2>1, <3>1, <3>2, <3>3 DEF SendsOnceAt
  <2> QED
    BY <2>2, <2>3
<1> QED
  BY <1>3, <1>9, <1>10, <1>11, <1>12, <1>13, <1>14, <1>15, <1>16, <1>17, OutsideWorkSteps
     DEF Next, Work

-----------------------------------------------------------------------------
(* Runs and what they wait for.                                            *)

\* A Run that stops waiting for a call does so because the call is closed or the Run is
\* canceled.
EndsWait(Q, R, calls) ==
  Q.on \in Calls /\ R.on # Q.on => calls[Q.on].status \in Closed \/ R.status = "canceled"
WaitsStand == \A r \in Runs : EndsWait(run[r], run'[r], call')

\* A step writes one Run and at most calls of it.
LEMMA OneRunWritten ==
  ASSUME TypeOK, WaitsAgree, NEW r \in Runs,
         \A q \in Runs \ {r} : run'[q] = run[q],
         \A c \in Calls : RunOf[c] # r => call'[c].status = call[c].status,
         RunFits(r, run'[r], call'), EndsWait(run[r], run'[r], call')
  PROVE  WaitsAgree' /\ WaitsStand
BY DEF WaitsAgree, WaitsStand, RunFits, EndsWait

\* A step writes no Run, and claims or releases calls at most.
LEMMA NoRunWritten ==
  ASSUME TypeOK, WaitsAgree, run' = run,
         \A c \in Calls : \/ call'[c].status = call[c].status
                          \/ {call[c].status, call'[c].status} \subseteq {"ready", "running"}
  PROVE  WaitsAgree' /\ WaitsStand
BY DEF WaitsAgree, WaitsStand, RunFits, EndsWait

\* The same for a step written as the actions write it.
LEMMA PutRunFits ==
  ASSUME TypeOK, WaitsAgree, NEW r \in Runs, NEW R, PutRun(r, R),
         \A c \in Calls : RunOf[c] # r => call'[c].status = call[c].status,
         RunFits(r, R, call'), EndsWait(run[r], R, call')
  PROVE  WaitsAgree' /\ WaitsStand
<1>1. run'[r] = R /\ \A q \in Runs \ {r} : run'[q] = run[q]
  BY DEF PutRun, TypeOK
<1> QED
  BY <1>1, OneRunWritten

\* Every step keeps Runs waiting for what can answer them.
LEMMA WaitsStep ==
  ASSUME ActionsAssumption, TypeOK, ApprovalsAgree, WorkAgrees, WaitsAgree, [Next]_vars
  PROVE  WaitsAgree' /\ WaitsStand
<1>1. /\ call \in [Calls -> CallRecords] /\ run \in [Runs -> RunRecords]
      /\ \A c \in Calls : RunOf[c] \in Runs
      /\ NoCall \notin Calls
  BY DEF TypeOK, ActionsAssumption
<1>2. \A r \in Runs : RunFits(r, run[r], call)
  BY DEF WaitsAgree
<1>3. ASSUME NEW c \in Calls, Propose(c)
      PROVE  WaitsAgree' /\ WaitsStand
  <2> DEFINE r == RunOf[c]
             Q == run[r]
  <2>1. r \in Runs /\ Q \in RunRecords /\ Q.status = "running" /\ RunFits(r, Q, call)
    BY <1>1, <1>2, <1>3
       DEF Propose, SuppressDuplicate, Allow, RequestApproval, Deny, Replay, Proposable
  <2>2. Q.on \notin Calls /\ Q.pausedFrom = "none"
    BY <2>1 DEF RunFits, At
  <2>3. \A R : EndsWait(Q, R, call')
    BY <2>2 DEF EndsWait
  <2>4. \A d \in Calls : RunOf[d] # r => call'[d].status = call[d].status
    BY <1>1, <1>3
       DEF Propose, SuppressDuplicate, Allow, RequestApproval, Deny, Replay, PutStatus
  <2>5. \A s \in RunStatus : RunFits(r, [Q EXCEPT !.status = s], call')
    BY <2>1, <2>2 DEF RunFits, RunRecords
  <2> DEFINE W(s) == [Q EXCEPT !.status = s, !.on = c]
  <2>6. \A s \in RunStatus : /\ W(s) \in RunRecords /\ W(s).status = s /\ W(s).on = c
                             /\ W(s).pausedFrom = "none"
    BY <2>1, <2>2 DEF RunRecords
  <2>7. {"queued", "paused", "waiting_for_dependency", "waiting_for_approval"} \subseteq RunStatus
    BY DEF RunStatus, Waits
  <2> HIDE DEF W
  <2>8. CASE SuppressDuplicate(c)
    BY <2>1, <2>3, <2>4, <2>5, <2>7, <2>8, PutRunFits DEF SuppressDuplicate
  <2>9. CASE Allow(c)
    <3> DEFINE R == Reserve(W("waiting_for_dependency"), c)
    <3>1. PutRun(r, R)
      BY <2>9 DEF Allow, W
    <3>2. R.status = "waiting_for_dependency" /\ R.on = c /\ R.pausedFrom = "none"
      BY <2>6, <2>7, BudgetFields
    <3>3. call'[c].status = "ready"
      BY <2>9, PutStatusFields DEF Allow
    <3> HIDE DEF R
    <3>4. RunFits(r, R, call')
      BY <3>2, <3>3 DEF RunFits, At
    <3> QED
      BY <2>1, <2>3, <2>4, <3>1, <3>4, PutRunFits
  <2>10. CASE RequestApproval(c)
    <3> DEFINE R == Reserve(W("waiting_for_approval"), c)
    <3>1. PutRun(r, R)
      BY <2>10 DEF RequestApproval, W
    <3>2. R.status = "waiting_for_approval" /\ R.on = c /\ R.pausedFrom = "none"
      BY <2>6, <2>7, BudgetFields
    <3>3. call'[c].status = "waiting_approval"
      BY <2>10, PutStatusFields DEF RequestApproval
    <3> HIDE DEF R
    <3>4. RunFits(r, R, call')
      BY <3>2, <3>3 DEF RunFits, At
    <3> QED
      BY <2>1, <2>3, <2>4, <3>1, <3>4, PutRunFits
  <2>11. CASE Deny(c)
    BY <2>1, <2>3, <2>4, <2>5, <2>7, <2>11, PutRunFits DEF Deny
  <2>12. CASE Replay(c)
    <3>1. call' = call
      BY <2>12 DEF Replay
    <3>2. CASE call[c].status \in Closed
      BY <2>1, <2>3, <2>4, <2>5, <2>7, <2>12, <3>2, PutRunFits DEF Replay, Closed
    <3>3. CASE call[c].status \in {"ready", "running"}
      <4>1. PutRun(r, W("waiting_for_dependency"))
        BY <2>12, <3>3 DEF Replay, Closed, W
      <4>2. RunFits(r, W("waiting_for_dependency"), call')
        BY <2>6, <2>7, <3>1, <3>3 DEF RunFits, At
      <4> QED
        BY <2>1, <2>3, <2>4, <4>1, <4>2, PutRunFits
    <3>4. CASE call[c].status = "waiting_approval"
      <4>1. PutRun(r, W("waiting_for_approval"))
        BY <2>12, <3>4 DEF Replay, Closed, W
      <4>2. RunFits(r, W("waiting_for_approval"), call')
        BY <2>6, <2>7, <3>1, <3>4 DEF RunFits, At
      <4> QED
        BY <2>1, <2>3, <2>4, <4>1, <4>2, PutRunFits
    <3> QED
      BY <2>12, <3>2, <3>3, <3>4 DEF Replay
  <2> QED
    BY <1>3, <2>8, <2>9, <2>10, <2>11, <2>12 DEF Propose
<1>4. ASSUME NEW c \in Calls, Resolution(c)
      PROVE  WaitsAgree' /\ WaitsStand
  <2> DEFINE r == RunOf[c]
             Q == run[r]
  <2>1. r \in Runs /\ Q \in RunRecords /\ RunFits(r, Q, call) /\ ApprovalAgrees(c)
    BY <1>1, <1>2 DEF ApprovalsAgree
  <2>2. \A d \in Calls \ {c} : call'[d] = call[d]
    BY <1>1, <1>4
       DEF Resolution, Decide, AutoApprove, Expire, Approved, Refused, PutStatus
  <2>3. ASSUME Approved(c), AwaitsApproval(c)
        PROVE  WaitsAgree' /\ WaitsStand
    <3> DEFINE R == [Q EXCEPT !.status = "waiting_for_dependency"]
    <3>1. R.on = c /\ R.status = "waiting_for_dependency" /\ R.pausedFrom = "none" /\ Q.on = c
      BY <2>1, <2>3 DEF RunRecords, AwaitsApproval, RunFits
    <3>2. PutRun(r, R) /\ call'[c].status = "ready"
      BY <2>3, PutStatusFields DEF Approved
    <3> HIDE DEF R
    <3>3. RunFits(r, R, call') /\ EndsWait(Q, R, call')
      BY <3>1, <3>2 DEF RunFits, At, EndsWait
    <3> QED
      BY <2>1, <2>2, <3>2, <3>3, PutRunFits
  <2>4. ASSUME NEW s \in Decisions, Refused(c, s), AwaitsApproval(c) \/ PausedApproval(c)
        PROVE  WaitsAgree' /\ WaitsStand
    <3> DEFINE P == Release(Q, c)
               R == IF PausedApproval(c) THEN [P EXCEPT !.pausedFrom = "queued", !.on = NoCall]
                                         ELSE [P EXCEPT !.status = "queued", !.on = NoCall]
    <3>1. P \in RunRecords /\ P.status = Q.status /\ P.pausedFrom = Q.pausedFrom
      BY <2>1, BudgetFields
    <3>2. PutRun(r, R) /\ call'[c].status = "denied"
      BY <2>4, PutStatusFields DEF Refused
    <3> HIDE DEF P
    <3>3. R.on = NoCall /\ (R.status # "paused" => R.pausedFrom = "none") /\ Q.on = c
      BY <2>1, <2>4, <3>1 DEF RunRecords, AwaitsApproval, PausedApproval, RunFits
    <3> HIDE DEF R
    <3>4. RunFits(r, R, call') /\ EndsWait(Q, R, call')
      BY <1>1, <3>2, <3>3 DEF RunFits, EndsWait, Closed
    <3> QED
      BY <2>1, <2>2, <3>2, <3>4, PutRunFits
  <2>5. CASE Decide(c) \/ AutoApprove(c)
    BY <2>3, <2>4, <2>5 DEF Decide, AutoApprove, Decisions
  <2>6. CASE Expire(c) /\ (AwaitsApproval(c) \/ PausedApproval(c))
    BY <2>4, <2>6 DEF Expire, Decisions
  <2>7. CASE Expire(c) /\ ~(AwaitsApproval(c) \/ PausedApproval(c))
    <3>1. Q.on # c
      BY <2>1, <2>7
         DEF Expire, ApprovalAgrees, RunFits, At, AwaitsApproval, PausedApproval
    <3>2. \E R : PutRun(r, R) /\ R.status = Q.status /\ R.on = Q.on /\ R.pausedFrom = Q.pausedFrom
      <4>1. Release(Q, c) \in RunRecords /\ Release(Q, c).status = Q.status
            /\ Release(Q, c).on = Q.on /\ Release(Q, c).pausedFrom = Q.pausedFrom
        BY <2>1, BudgetFields
      <4> QED
        BY <2>7, <4>1 DEF Expire
    <3>3. ASSUME NEW R, R.status = Q.status, R.on = Q.on, R.pausedFrom = Q.pausedFrom
          PROVE  RunFits(r, R, call') /\ EndsWait(Q, R, call')
      BY <2>1, <2>2, <3>1, <3>3 DEF RunFits, At, EndsWait
    <3> QED
      BY <2>1, <2>2, <3>2, <3>3, PutRunFits
  <2> QED
    BY <1>4, <2>5, <2>6, <2>7 DEF Resolution
<1>5. ASSUME NEW r \in Runs, Turn(r) \/ Operator(r) \/ Answer(r)
      PROVE  WaitsAgree' /\ WaitsStand
  <2> DEFINE Q == run[r]
  <2>1. Q \in RunRecords /\ RunFits(r, Q, call)
    BY <1>1, <1>2
  <2>2. ASSUME call' = call, NEW R, PutRun(r, R), R.on = Q.on,
               R.status # "paused" => R.pausedFrom = "none",
               Q.on \in Calls => \A s \in {"waiting_for_dependency", "waiting_for_approval"} :
                                   At(Q, s) => At(R, s)
        PROVE  WaitsAgree' /\ WaitsStand
    <3>1. RunFits(r, R, call') /\ EndsWait(Q, R, call')
      BY <2>1, <2>2 DEF RunFits, EndsWait
    <3> QED
      BY <2>2, <3>1, PutRunFits
  <2>3. \A s \in RunStatus :
          /\ [Q EXCEPT !.status = s].on = Q.on /\ [Q EXCEPT !.status = s].status = s
          /\ [Q EXCEPT !.status = s].pausedFrom = Q.pausedFrom
    BY <2>1 DEF RunRecords
  <2>4. {"queued", "running", "completed", "failed"} \subseteq RunStatus
    BY DEF RunStatus, Ended
  <2>5. CASE Turn(r) \/ Answer(r)
    <3>1. Q.status \notin {"waiting_for_dependency", "waiting_for_approval", "paused"}
      BY <2>5 DEF Turn, StartTurn, EndTurn, Answer
    <3>2. Q.pausedFrom = "none" /\ Q.on \notin Calls
      BY <2>1, <3>1 DEF RunFits, At
    <3>3. /\ call' = call
          /\ \E s \in {"queued", "running", "completed", "failed"} : PutRun(r, [Q EXCEPT !.status = s])
      BY <2>5 DEF Turn, StartTurn, EndTurn, Answer
    <3> QED
      BY <2>2, <2>3, <2>4, <3>2, <3>3
  <2>6. CASE Pause(r)
    <3> DEFINE R == [Q EXCEPT !.status = "paused", !.pausedFrom = Q.status]
    <3>1. PutRun(r, R) /\ call' = call /\ Q.status # "paused"
      BY <2>6 DEF Pause
    <3>2. R.on = Q.on /\ R.status = "paused" /\ R.pausedFrom = Q.status
      BY <2>1 DEF RunRecords
    <3> HIDE DEF R
    <3> QED
      BY <2>2, <3>1, <3>2 DEF At
  <2>7. CASE Resume(r)
    <3> DEFINE s == IF Q.pausedFrom \in Waits THEN Q.pausedFrom ELSE "queued"
               R == [Q EXCEPT !.pausedFrom = "none", !.status = s]
    <3>1. PutRun(r, R) /\ call' = call /\ Q.status = "paused"
      BY <2>7 DEF Resume
    <3>2. s # "paused" /\ (At(Q, "waiting_for_dependency") => s = "waiting_for_dependency")
          /\ (At(Q, "waiting_for_approval") => s = "waiting_for_approval")
      BY <3>1 DEF At, Waits
    <3> HIDE DEF s
    <3>3. R.on = Q.on /\ R.status = s /\ R.pausedFrom = "none"
      BY <2>1 DEF RunRecords
    <3> HIDE DEF R
    <3> QED
      BY <2>2, <3>1, <3>2, <3>3 DEF At
  <2>8. CASE Intervene(r)
    BY <2>1, <2>2, <2>8 DEF Intervene, RunFits
  <2>9. CASE Cancel(r)
    <3> DEFINE R == [Q EXCEPT !.status = "canceled", !.on = NoCall, !.pausedFrom = "none"]
               c == Q.on
    <3>1. R \in RunRecords /\ R.status = "canceled" /\ R.on = NoCall /\ R.pausedFrom = "none"
      BY <2>1 DEF RunRecords, RunStatus, Ended
    <3> HIDE DEF R
    <3>2. \E P : /\ PutRun(r, P) /\ P.status = "canceled" /\ P.on = NoCall /\ P.pausedFrom = "none"
                 /\ \/ call' = call
                    \/ c \in Calls /\ PutStatus(c, "canceled")
      <4>1. c \in Calls \union {NoCall}
        BY <2>1 DEF RunRecords
      <4>2. c \in Calls => /\ Release(R, c).status = "canceled" /\ Release(R, c).on = NoCall
                           /\ Release(R, c).pausedFrom = "none"
        BY <3>1, BudgetFields
      <4> QED
        BY <2>9, <3>1, <4>1, <4>2 DEF Cancel, R
    <3>3. \A d \in Calls : RunOf[d] # r => call'[d].status = call[d].status
      BY <1>1, <2>1, <3>2 DEF PutStatus, RunFits
    <3>4. \A P : P.status = "canceled" /\ P.on = NoCall /\ P.pausedFrom = "none" =>
            RunFits(r, P, call') /\ EndsWait(Q, P, call')
      BY <1>1 DEF RunFits, EndsWait
    <3> QED
      BY <3>2, <3>3, <3>4, PutRunFits
  <2> QED
    BY <1>5, <2>5, <2>6, <2>7, <2>8, <2>9 DEF Operator
<1>6. ASSUME NEW c \in Calls, DeadlinePasses(c) \/ Lapse(c)
      PROVE  WaitsAgree' /\ WaitsStand
  <2>1. run' = run /\ \A d \in Calls : call'[d].status = call[d].status
    BY <1>1, <1>6 DEF DeadlinePasses, Lapse, CallRecords
  <2> QED
    BY <2>1, NoRunWritten
<1>7. ASSUME NEW w \in Workers, NEW c \in Calls, Claim(w, c)
      PROVE  WaitsAgree' /\ WaitsStand
  <2>1. /\ run' = run /\ call[c].status \in {"ready", "running"} /\ call'[c].status = "running"
        /\ \A d \in Calls \ {c} : call'[d] = call[d]
    BY <1>1, <1>7 DEF Claim, Claimable, CallRecords
  <2> QED
    BY <2>1, NoRunWritten
<1>8. ASSUME NEW w \in Workers, Commit(w)
      PROVE  WaitsAgree' /\ WaitsStand
  <2> DEFINE c == wk[w].call
             s == OutcomeStatus(w)
             r == RunOf[c]
             Q == run[r]
             owned == Owns(c)
             held == PausedOn(c)
  <2>1. /\ c \in Calls /\ r \in Runs /\ s \in {"ready", "succeeded", "failed", "canceled"}
        /\ call' = [call EXCEPT ![c].status = s, ![c].owner = NoWorker, ![c].live = FALSE]
        /\ call[c].status = "running"
    BY <1>8, CommitFields DEF Commit, Mine
  <2>2. PICK next \in Continuations(w) : run' = [run EXCEPT ![r] = Committed(w, next)]
    BY <1>8, CommitFields
  <2>3. next \in {"queued", "failed", "waiting_for_event"}
    BY <2>2 DEF Continuations
  <2>4. Q \in RunRecords /\ RunFits(r, Q, call)
    BY <1>1, <1>2, <2>1
  <2>5. /\ owned => Q.on = c /\ At(Q, "waiting_for_dependency")
        /\ Q.on = c => owned
        /\ held <=> owned /\ Q.status = "paused"
    BY <2>1, <2>4 DEF Owns, PausedOn, RunFits, At
  <2> DEFINE B == IF ~owned \/ s = "ready" THEN Q
                  ELSE IF held THEN [Q EXCEPT !.pausedFrom = next, !.on = NoCall]
                  ELSE [Q EXCEPT !.status = next, !.on = NoCall]
             R == Committed(w, next)
  <2>6. R = Budgeted(B, c, s, owned)
    BY DEF Committed
  <2> HIDE DEF c, s, r, R
  <2>7. call'[c].status = s /\ \A d \in Calls \ {c} : call'[d] = call[d]
    BY <1>1, <2>1 DEF CallRecords
  <2>8. run'[r] = R /\ \A q \in Runs \ {r} : run'[q] = run[q]
    BY <1>1, <2>1, <2>2 DEF R
  <2>9. \A d \in Calls : RunOf[d] # r => call'[d].status = call[d].status
    BY <2>7 DEF r
  <2> HIDE DEF Q, owned, held
  <2>10. CASE ~owned \/ s = "ready"
    <3>1. B = Q
      BY <2>10
    <3> HIDE DEF B
    <3>2. R.status = Q.status /\ R.on = Q.on /\ R.pausedFrom = Q.pausedFrom
      BY <2>1, <2>4, <2>6, <3>1, BudgetFields DEF Budgeted
    <3>3. RunFits(r, R, call') /\ EndsWait(Q, R, call')
      BY <2>1, <2>4, <2>5, <2>7, <2>10, <3>2 DEF RunFits, EndsWait, At
    <3> QED
      BY <2>1, <2>8, <2>9, <3>3, OneRunWritten DEF Q
  <2>11. CASE owned /\ s # "ready"
    <3>1. /\ B \in RunRecords /\ B.on = NoCall
          /\ B.status # "paused" => B.pausedFrom = "none"
      <4>1. CASE held
        <5>1. B = [Q EXCEPT !.pausedFrom = next, !.on = NoCall]
          BY <2>11, <4>1
        <5> QED
          BY <2>3, <2>4, <2>5, <4>1, <5>1 DEF RunRecords, RunStatus, Waits, Ended
      <4>2. CASE ~held
        <5>1. B = [Q EXCEPT !.status = next, !.on = NoCall]
          BY <2>11, <4>2
        <5>2. Q.pausedFrom = "none"
          BY <2>4, <2>5, <2>11, <4>2 DEF RunFits
        <5> QED
          BY <2>3, <2>4, <5>1, <5>2 DEF RunRecords, RunStatus, Waits, Ended
      <4> QED
        BY <4>1, <4>2
    <3> HIDE DEF B
    <3>2. R.status = B.status /\ R.on = NoCall /\ R.pausedFrom = B.pausedFrom
      BY <2>1, <2>6, <3>1, BudgetFields DEF Budgeted
    <3>3. RunFits(r, R, call')
      BY <1>1, <3>1, <3>2 DEF RunFits
    <3>4. EndsWait(Q, R, call')
      BY <2>1, <2>5, <2>7, <2>11 DEF EndsWait, Closed
    <3> QED
      BY <2>1, <2>8, <2>9, <3>3, <3>4, OneRunWritten DEF Q
  <2> QED
    BY <2>10, <2>11
<1>9. ASSUME NEW w \in Workers, Work(w) \/ Leave(w), ~Commit(w)
      PROVE  WaitsAgree' /\ WaitsStand
  <2>1. run' = run /\ call' = call
    BY <1>9 DEF Work, Check, Resolve, Recheck, Send, AtWork, Prepare, Retry, Leave
  <2> QED
    BY <2>1, NoRunWritten
<1>10. CASE BeginMaintenance \/ EndMaintenance \/ UNCHANGED vars
  <2>1. run' = run /\ call' = call
    BY <1>10 DEF BeginMaintenance, EndMaintenance, vars
  <2> QED
    BY <2>1, NoRunWritten
<1> QED
  BY <1>3, <1>4, <1>5, <1>6, <1>7, <1>8, <1>9, <1>10 DEF Next

-----------------------------------------------------------------------------
(* Budgets and open calls.                                                 *)

\* A step writes one Run and at most calls of it.
LEMMA OneBudgetWritten ==
  ASSUME BudgetAgrees, NEW r \in Runs,
         \A q \in Runs \ {r} : run'[q] = run[q],
         \A c \in Calls : RunOf[c] # r => call'[c].status = call[c].status,
         BudgetFits(r, run'[r], call')
  PROVE  BudgetAgrees'
<1>1. \A q \in Runs \ {r} : OpenCalls(q, call') = OpenCalls(q, call)
  BY DEF OpenCalls
<1> QED
  BY <1>1 DEF BudgetAgrees, BudgetFits

\* The budget of a Run is left alone while its open calls stay the same.
LEMMA BudgetKept ==
  ASSUME NEW r \in Runs, NEW R, BudgetFits(r, run[r], call),
         R.reserved = run[r].reserved, R.actions = run[r].actions,
         \A c \in Calls : RunOf[c] = r => (call[c].status \in Open <=> call'[c].status \in Open)
  PROVE  BudgetFits(r, R, call')
<1>1. OpenCalls(r, call) = OpenCalls(r, call')
  BY DEF OpenCalls
<1> QED
  BY <1>1 DEF BudgetFits

\* A call opens with what is reserved for it.
LEMMA BudgetReserved ==
  ASSUME ActionsAssumption, NEW r \in Runs, NEW R \in RunRecords,
         NEW c \in Calls, RunOf[c] = r, BudgetFits(r, run[r], call),
         R.reserved = run[r].reserved, R.actions = run[r].actions,
         HasBudget => R.actions + Cardinality(R.reserved) + 1 <= ActionLimit,
         \A d \in Calls \ {c} : call[d].status = call'[d].status,
         call[c].status \notin Open, call'[c].status \in Open
  PROVE  BudgetFits(r, Reserve(R, c), call')
<1>1. CASE ~HasBudget
  BY <1>1 DEF BudgetFits, Reserve
<1>2. CASE HasBudget
  <2>1. R.reserved = OpenCalls(r, call) /\ IsFiniteSet(R.reserved) /\ c \notin R.reserved
    BY <1>2 DEF BudgetFits, OpenCalls
  <2>2. OpenCalls(r, call') = R.reserved \union {c}
    BY <2>1 DEF OpenCalls
  <2>3. /\ IsFiniteSet(R.reserved \union {c})
        /\ Cardinality(R.reserved \union {c}) = Cardinality(R.reserved) + 1
    BY <2>1, FS_AddElement
  <2>4. Reserve(R, c).reserved = R.reserved \union {c} /\ Reserve(R, c).actions = R.actions
    BY <1>2 DEF Reserve, RunRecords
  <2>5. Cardinality(R.reserved) \in Nat /\ R.actions \in Nat /\ ActionLimit \in Nat
    BY <2>1, FS_CardinalityType DEF RunRecords, ActionsAssumption
  <2> QED
    BY <1>2, <2>2, <2>3, <2>4, <2>5 DEF BudgetFits
<1> QED
  BY <1>1, <1>2

\* A call closes, and gives back or settles what is reserved for it.
LEMMA BudgetClosed ==
  ASSUME ActionsAssumption, NEW r \in Runs, NEW R \in RunRecords,
         NEW c \in Calls, RunOf[c] = r, BudgetFits(r, run[r], call),
         R.reserved = run[r].reserved, R.actions = run[r].actions,
         \A d \in Calls \ {c} : call[d].status = call'[d].status,
         call[c].status \in Open, call'[c].status \notin Open
  PROVE  /\ BudgetFits(r, Release(R, c), call')
         /\ BudgetFits(r, Settle(R, c), call')
         /\ c \notin R.reserved => BudgetFits(r, R, call')
<1>1. IsFiniteSet(R.reserved \ {c}) /\ IsFiniteSet(R.reserved)
  BY FS_Subset DEF BudgetFits
<1>2. Release(R, c).reserved = R.reserved \ {c} /\ Release(R, c).actions = R.actions
  BY DEF Release, RunRecords
<1>3. CASE ~HasBudget
  BY <1>1, <1>2, <1>3 DEF BudgetFits, Settle
<1>4. CASE HasBudget
  <2>1. R.reserved = OpenCalls(r, call) /\ c \in R.reserved
    BY <1>4 DEF BudgetFits, OpenCalls
  <2>2. OpenCalls(r, call') = R.reserved \ {c}
    BY <2>1 DEF OpenCalls
  <2>3. Cardinality(R.reserved \ {c}) = Cardinality(R.reserved) - 1
    BY <1>1, <2>1, FS_RemoveElement
  <2>4. Settle(R, c).reserved = R.reserved \ {c} /\ Settle(R, c).actions = R.actions + 1
    <3> DEFINE a == R.actions + 1
               d == R.reserved \ {c}
    <3>1. Settle(R, c) = [R EXCEPT !.reserved = d, !.actions = a]
      BY <1>4 DEF Settle
    <3> HIDE DEF a, d
    <3>2. Settle(R, c).reserved = d /\ Settle(R, c).actions = a
      BY <3>1 DEF RunRecords
    <3> QED
      BY <3>2 DEF a, d
  <2>5. Cardinality(R.reserved) \in Nat /\ R.actions \in Nat /\ ActionLimit \in Nat
    BY <1>1, FS_CardinalityType DEF RunRecords, ActionsAssumption
  <2>6. R.actions + Cardinality(R.reserved) <= ActionLimit
    BY <1>4 DEF BudgetFits
  <2>7. BudgetFits(r, Release(R, c), call')
    BY <1>1, <1>2, <2>2, <2>3, <2>5, <2>6 DEF BudgetFits
  <2>8. BudgetFits(r, Settle(R, c), call')
    BY <1>1, <2>2, <2>3, <2>4, <2>5, <2>6 DEF BudgetFits
  <2> QED
    BY <2>1, <2>7, <2>8
<1> QED
  BY <1>3, <1>4

\* The same for a step written as the actions write it.
LEMMA PutBudgetFits ==
  ASSUME TypeOK, BudgetAgrees, NEW r \in Runs, NEW R, PutRun(r, R),
         \A c \in Calls : RunOf[c] # r => call'[c].status = call[c].status,
         BudgetFits(r, R, call')
  PROVE  BudgetAgrees'
<1>1. run'[r] = R /\ \A q \in Runs \ {r} : run'[q] = run[q]
  BY DEF PutRun, TypeOK
<1> QED
  BY <1>1, OneBudgetWritten

\* A step writes no Run, and opens and closes no call.
LEMMA NoBudgetWritten ==
  ASSUME BudgetAgrees, run' = run,
         \A c \in Calls : call[c].status \in Open <=> call'[c].status \in Open
  PROVE  BudgetAgrees'
BY BudgetKept DEF BudgetAgrees

\* Every step keeps the capacity held for the open calls of every Run.
LEMMA BudgetStep ==
  ASSUME ActionsAssumption, TypeOK, ApprovalsAgree, WorkAgrees, WaitsAgree, BudgetAgrees,
         [Next]_vars
  PROVE  BudgetAgrees'
<1>1. /\ call \in [Calls -> CallRecords] /\ run \in [Runs -> RunRecords]
      /\ \A c \in Calls : RunOf[c] \in Runs
      /\ NoCall \notin Calls
  BY DEF TypeOK, ActionsAssumption
<1>2. \A r \in Runs : BudgetFits(r, run[r], call)
  BY DEF BudgetAgrees
<1>3. ASSUME NEW c \in Calls, Propose(c)
      PROVE  BudgetAgrees'
  <2> DEFINE r == RunOf[c]
             Q == run[r]
  <2>1. r \in Runs /\ Q \in RunRecords /\ BudgetFits(r, Q, call)
    BY <1>1, <1>2
  <2>2. \A d \in Calls \ {c} : call'[d].status = call[d].status
    BY <1>1, <1>3
       DEF Propose, SuppressDuplicate, Allow, RequestApproval, Deny, Replay, PutStatus
  <2>3. ASSUME NEW R, PutRun(r, R), R.reserved = Q.reserved, R.actions = Q.actions,
               call[c].status \in Open <=> call'[c].status \in Open
        PROVE  BudgetAgrees'
    <3>1. BudgetFits(r, R, call')
      BY <2>1, <2>2, <2>3, BudgetKept
    <3> QED
      BY <2>1, <2>2, <2>3, <3>1, PutBudgetFits
  <2>4. \A s \in RunStatus : /\ [Q EXCEPT !.status = s].reserved = Q.reserved
                             /\ [Q EXCEPT !.status = s].actions = Q.actions
    BY <2>1 DEF RunRecords
  <2> DEFINE W(s) == [Q EXCEPT !.status = s, !.on = c]
  <2>5. \A s \in RunStatus : /\ W(s) \in RunRecords /\ W(s).reserved = Q.reserved
                             /\ W(s).actions = Q.actions
    BY <2>1 DEF RunRecords
  <2>6. {"queued", "paused", "waiting_for_dependency", "waiting_for_approval"} \subseteq RunStatus
    BY DEF RunStatus, Waits
  <2> HIDE DEF W
  <2>7. ASSUME NEW s \in RunStatus, PutRun(r, Reserve(W(s), c)), Affordable(r),
               call[c].status = "absent", call'[c].status \in Open
        PROVE  BudgetAgrees'
    <3>1. HasBudget => W(s).actions + Cardinality(W(s).reserved) + 1 <= ActionLimit
      BY <2>5, <2>7 DEF Affordable
    <3>2. call[c].status \notin Open
      BY <2>7 DEF Open
    <3>3. BudgetFits(r, Reserve(W(s), c), call')
      BY <2>1, <2>2, <2>5, <2>7, <3>1, <3>2, BudgetReserved
    <3> QED
      BY <2>1, <2>2, <2>7, <3>3, PutBudgetFits
  <2>8. CASE SuppressDuplicate(c)
    <3>1. call[c].status = "absent" /\ call'[c].status = "succeeded"
      BY <1>1, <2>8 DEF SuppressDuplicate, Proposable, CallRecords
    <3> QED
      BY <2>3, <2>4, <2>6, <2>8, <3>1 DEF SuppressDuplicate, Open
  <2>9. CASE Allow(c)
    <3>1. call[c].status = "absent" /\ call'[c].status = "ready"
      BY <2>9, PutStatusFields DEF Allow, Proposable
    <3>2. PutRun(r, Reserve(W("waiting_for_dependency"), c)) /\ Affordable(r)
      BY <2>9 DEF Allow, W
    <3> QED
      BY <2>6, <2>7, <3>1, <3>2 DEF Open
  <2>10. CASE RequestApproval(c)
    <3>1. call[c].status = "absent" /\ call'[c].status = "waiting_approval"
      BY <2>10, PutStatusFields DEF RequestApproval, Proposable
    <3>2. PutRun(r, Reserve(W("waiting_for_approval"), c)) /\ Affordable(r)
      BY <2>10 DEF RequestApproval, W
    <3> QED
      BY <2>6, <2>7, <3>1, <3>2 DEF Open
  <2>11. CASE Deny(c)
    <3>1. call[c].status = "absent" /\ call'[c].status = "denied"
      BY <2>11, PutStatusFields DEF Deny, Proposable
    <3>2. \E s \in {"queued", "paused"} : PutRun(r, [Q EXCEPT !.status = s])
      BY <2>11 DEF Deny
    <3> QED
      BY <2>3, <2>4, <2>6, <3>1, <3>2 DEF Open
  <2>12. CASE Replay(c)
    <3>1. call' = call
      BY <2>12 DEF Replay
    <3>2. CASE call[c].status \in Closed
      BY <2>3, <2>4, <2>6, <2>12, <3>1, <3>2 DEF Replay, Closed
    <3>3. CASE call[c].status \in {"ready", "running"}
      <4>1. PutRun(r, W("waiting_for_dependency"))
        BY <2>12, <3>3 DEF Replay, Closed, W
      <4> QED
        BY <2>3, <2>5, <2>6, <3>1, <4>1
    <3>4. CASE call[c].status = "waiting_approval"
      <4>1. PutRun(r, W("waiting_for_approval"))
        BY <2>12, <3>4 DEF Replay, Closed, W
      <4> QED
        BY <2>3, <2>5, <2>6, <3>1, <4>1
    <3> QED
      BY <2>12, <3>2, <3>3, <3>4 DEF Replay
  <2> QED
    BY <1>3, <2>8, <2>9, <2>10, <2>11, <2>12 DEF Propose
<1>4. ASSUME NEW c \in Calls, Resolution(c)
      PROVE  BudgetAgrees'
  <2> DEFINE r == RunOf[c]
             Q == run[r]
  <2>1. r \in Runs /\ Q \in RunRecords /\ BudgetFits(r, Q, call) /\ ApprovalAgrees(c)
    BY <1>1, <1>2 DEF ApprovalsAgree
  <2>2. \A d \in Calls \ {c} : call'[d].status = call[d].status
    BY <1>1, <1>4
       DEF Resolution, Decide, AutoApprove, Expire, Approved, Refused, PutStatus
  <2>3. call[c].status = "waiting_approval"
    BY <1>4, <2>1 DEF Resolution, Decide, AutoApprove, Expire, ApprovalAgrees
  <2>4. CASE Approved(c)
    <3> DEFINE R == [Q EXCEPT !.status = "waiting_for_dependency"]
    <3>1. R.reserved = Q.reserved /\ R.actions = Q.actions
      BY <2>1 DEF RunRecords
    <3>2. PutRun(r, R) /\ call'[c].status = "ready"
      BY <2>4, PutStatusFields DEF Approved
    <3> HIDE DEF R
    <3>3. \A d \in Calls : call[d].status \in Open <=> call'[d].status \in Open
      BY <2>2, <2>3, <3>2 DEF Open
    <3>4. BudgetFits(r, R, call')
      BY <2>1, <3>1, <3>3, BudgetKept
    <3> QED
      BY <2>1, <2>2, <3>2, <3>4, PutBudgetFits
  <2> DEFINE P == Release(Q, c)
  <2>5. ASSUME call'[c].status = "denied", NEW R, PutRun(r, R), R.reserved = P.reserved,
               R.actions = P.actions
        PROVE  BudgetAgrees'
    <3>1. call[c].status \in Open /\ call'[c].status \notin Open
      BY <2>3, <2>5 DEF Open
    <3>2. BudgetFits(r, P, call')
      BY <2>1, <2>2, <3>1, BudgetClosed
    <3>3. BudgetFits(r, R, call')
      BY <2>5, <3>2 DEF BudgetFits
    <3> QED
      BY <2>1, <2>2, <2>5, <3>3, PutBudgetFits
  <2>6. CASE \E s \in Decisions : Refused(c, s)
    <3> DEFINE R == IF PausedApproval(c) THEN [P EXCEPT !.pausedFrom = "queued", !.on = NoCall]
                                         ELSE [P EXCEPT !.status = "queued", !.on = NoCall]
    <3>1. PutRun(r, R) /\ call'[c].status = "denied"
      BY <2>6, PutStatusFields DEF Refused
    <3>2. P \in RunRecords
      BY <2>1, BudgetFields
    <3> HIDE DEF P
    <3>3. R.reserved = P.reserved /\ R.actions = P.actions
      BY <3>2 DEF RunRecords
    <3> HIDE DEF R
    <3> QED
      BY <2>5, <3>1, <3>3 DEF P
  <2>7. CASE Expire(c) /\ ~(AwaitsApproval(c) \/ PausedApproval(c))
    <3>1. PutStatus(c, "denied") /\ PutRun(r, P)
      BY <2>3, <2>7 DEF Expire
    <3> QED
      BY <2>5, <3>1, PutStatusFields
  <2> QED
    BY <1>4, <2>4, <2>6, <2>7 DEF Resolution, Decide, AutoApprove, Expire, Decisions
<1>5. ASSUME NEW r \in Runs, Turn(r) \/ Operator(r) \/ Answer(r)
      PROVE  BudgetAgrees'
  <2> DEFINE Q == run[r]
  <2>1. Q \in RunRecords /\ BudgetFits(r, Q, call) /\ RunFits(r, Q, call)
    BY <1>1, <1>2 DEF WaitsAgree
  <2>2. ASSUME call' = call, NEW R, PutRun(r, R), R.reserved = Q.reserved, R.actions = Q.actions
        PROVE  BudgetAgrees'
    <3>1. BudgetFits(r, R, call')
      BY <2>1, <2>2, BudgetKept
    <3> QED
      BY <2>2, <3>1, PutBudgetFits
  <2>3. CASE Turn(r) \/ Answer(r)
    <3>1. \E s \in RunStatus : PutRun(r, [Q EXCEPT !.status = s]) /\ call' = call
      BY <2>3 DEF Turn, StartTurn, EndTurn, Answer, RunStatus, Ended
    <3>2. \A s : [Q EXCEPT !.status = s].reserved = Q.reserved
                 /\ [Q EXCEPT !.status = s].actions = Q.actions
      BY <2>1 DEF RunRecords
    <3> QED
      BY <2>2, <3>1, <3>2
  <2>4. CASE Pause(r)
    <3> DEFINE R == [Q EXCEPT !.status = "paused", !.pausedFrom = Q.status]
    <3>1. R.reserved = Q.reserved /\ R.actions = Q.actions
      BY <2>1 DEF RunRecords
    <3> QED
      BY <2>2, <2>4, <3>1 DEF Pause
  <2>5. CASE Resume(r)
    <3> DEFINE s == IF Q.pausedFrom \in Waits THEN Q.pausedFrom ELSE "queued"
               R == [Q EXCEPT !.pausedFrom = "none", !.status = s]
    <3>1. PutRun(r, R) /\ call' = call
      BY <2>5 DEF Resume
    <3> HIDE DEF s
    <3>2. R.reserved = Q.reserved /\ R.actions = Q.actions
      BY <2>1 DEF RunRecords
    <3> QED
      BY <2>2, <3>1, <3>2
  <2>6. CASE Intervene(r)
    BY <2>2, <2>6 DEF Intervene
  <2>7. CASE Cancel(r)
    <3> DEFINE R == [Q EXCEPT !.status = "canceled", !.on = NoCall, !.pausedFrom = "none"]
               c == Q.on
               held == /\ c # NoCall /\ (AwaitsApproval(c) \/ PausedApproval(c))
                       /\ approval[c].status = "pending"
    <3>1. R \in RunRecords /\ R.reserved = Q.reserved /\ R.actions = Q.actions
      BY <1>1, <2>1 DEF RunRecords, RunStatus, Ended
    <3>2. CASE ~held
      BY <2>2, <2>7, <3>1, <3>2 DEF Cancel
    <3>3. CASE held
      <4>1. PutStatus(c, "canceled") /\ PutRun(r, Release(R, c))
        BY <2>7, <3>3 DEF Cancel
      <4>2. c \in Calls /\ RunOf[c] = r /\ call[c].status = "waiting_approval"
        BY <2>1, <3>3 DEF RunRecords, RunFits, AwaitsApproval, PausedApproval
      <4> HIDE DEF R, c
      <4>3. call'[c].status = "canceled" /\ \A d \in Calls \ {c} : call'[d].status = call[d].status
        BY <4>1, <4>2, PutStatusFields
      <4>4. call[c].status \in Open /\ call'[c].status \notin Open
        BY <4>2, <4>3 DEF Open
      <4>5. BudgetFits(r, Release(R, c), call')
        BY <2>1, <3>1, <4>2, <4>3, <4>4, BudgetClosed
      <4>6. \A d \in Calls : RunOf[d] # r => call'[d].status = call[d].status
        BY <4>2, <4>3
      <4> QED
        BY <4>1, <4>5, <4>6, PutBudgetFits
    <3> QED
      BY <3>2, <3>3
  <2> QED
    BY <1>5, <2>3, <2>4, <2>5, <2>6, <2>7 DEF Operator
<1>6. ASSUME NEW c \in Calls, DeadlinePasses(c) \/ Lapse(c)
      PROVE  BudgetAgrees'
  <2>1. run' = run /\ \A d \in Calls : call'[d].status = call[d].status
    BY <1>1, <1>6 DEF DeadlinePasses, Lapse, CallRecords
  <2> QED
    BY <2>1, NoBudgetWritten
<1>7. ASSUME NEW w \in Workers, NEW c \in Calls, Claim(w, c)
      PROVE  BudgetAgrees'
  <2>1. /\ run' = run /\ call[c].status \in {"ready", "running"} /\ call'[c].status = "running"
        /\ \A d \in Calls \ {c} : call'[d] = call[d]
    BY <1>1, <1>7 DEF Claim, Claimable, CallRecords
  <2> QED
    BY <2>1, NoBudgetWritten DEF Open
<1>8. ASSUME NEW w \in Workers, Commit(w)
      PROVE  BudgetAgrees'
  <2> DEFINE c == wk[w].call
             s == OutcomeStatus(w)
             r == RunOf[c]
             Q == run[r]
             owned == Owns(c)
  <2>1. /\ c \in Calls /\ r \in Runs /\ s \in {"ready", "succeeded", "failed", "canceled"}
        /\ call' = [call EXCEPT ![c].status = s, ![c].owner = NoWorker, ![c].live = FALSE]
        /\ call[c].status = "running"
    BY <1>8, CommitFields DEF Commit, Mine
  <2>2. PICK next \in Continuations(w) : run' = [run EXCEPT ![r] = Committed(w, next)]
    BY <1>8, CommitFields
  <2>3. next \in RunStatus
    BY <2>2 DEF Continuations, RunStatus, Waits, Ended
  <2>4. Q \in RunRecords /\ BudgetFits(r, Q, call)
    BY <1>1, <1>2, <2>1
  <2> DEFINE B == IF ~owned \/ s = "ready" THEN Q
                  ELSE IF PausedOn(c) THEN [Q EXCEPT !.pausedFrom = next, !.on = NoCall]
                  ELSE [Q EXCEPT !.status = next, !.on = NoCall]
             R == Committed(w, next)
  <2>5. R = Budgeted(B, c, s, owned)
    BY DEF Committed
  <2>6. B \in RunRecords /\ B.reserved = Q.reserved /\ B.actions = Q.actions
    BY <2>3, <2>4 DEF RunRecords
  <2> HIDE DEF c, s, r, R, B, owned
  <2>7. call'[c].status = s /\ \A d \in Calls \ {c} : call'[d].status = call[d].status
    BY <1>1, <2>1 DEF CallRecords
  <2>8. run'[r] = R /\ \A q \in Runs \ {r} : run'[q] = run[q]
    BY <1>1, <2>1, <2>2 DEF R
  <2>9. \A d \in Calls : RunOf[d] # r => call'[d].status = call[d].status
    BY <2>7 DEF r
  <2>10. RunOf[c] = r
    BY DEF r
  <2> HIDE DEF Q
  <2>11. BudgetFits(r, R, call')
    <3>1. CASE s = "ready"
      <4>1. R = B
        BY <2>5, <3>1 DEF Budgeted, Closed
      <4>2. \A d \in Calls : call[d].status \in Open <=> call'[d].status \in Open
        BY <2>1, <2>7, <3>1 DEF Open
      <4> QED
        BY <2>1, <2>4, <2>6, <4>1, <4>2, BudgetKept DEF Q
    <3>2. CASE s # "ready"
      <4>1. call[c].status \in Open /\ call'[c].status \notin Open
        BY <2>1, <2>7, <3>2 DEF Open
      <4>2. /\ BudgetFits(r, Release(B, c), call')
            /\ BudgetFits(r, Settle(B, c), call')
            /\ c \notin B.reserved => BudgetFits(r, B, call')
        BY <2>1, <2>4, <2>6, <2>7, <2>10, <4>1, BudgetClosed DEF Q
      <4> QED
        BY <2>1, <2>5, <3>2, <4>2 DEF Budgeted, Closed
    <3> QED
      BY <3>1, <3>2
  <2>12. r \in Runs /\ BudgetFits(r, run'[r], call') /\ \A q \in Runs \ {r} : run'[q] = run[q]
    BY <2>1, <2>8, <2>11
  <2> QED
    BY <2>9, <2>12, OneBudgetWritten
<1>9. ASSUME NEW w \in Workers, Work(w) \/ Leave(w), ~Commit(w)
      PROVE  BudgetAgrees'
  <2>1. run' = run /\ call' = call
    BY <1>9 DEF Work, Check, Resolve, Recheck, Send, AtWork, Prepare, Retry, Leave
  <2> QED
    BY <2>1, NoBudgetWritten
<1>10. CASE BeginMaintenance \/ EndMaintenance \/ UNCHANGED vars
  <2>1. run' = run /\ call' = call
    BY <1>10 DEF BeginMaintenance, EndMaintenance, vars
  <2> QED
    BY <2>1, NoBudgetWritten
<1> QED
  BY <1>3, <1>4, <1>5, <1>6, <1>7, <1>8, <1>9, <1>10 DEF Next

-----------------------------------------------------------------------------
(* What becomes of a call, and the contract.                               *)

Steady(c) ==
  /\ call'[c].status = call[c].status /\ call'[c].duplicate = call[c].duplicate
  /\ approval'[c].status = approval[c].status

\* A call is proposed, decided or handled.
Moves(c) ==
  \/ /\ call[c].status = "absent"
     /\ \/ /\ call'[c].status \in {"waiting_approval", "ready", "denied"}
           /\ call'[c].duplicate = call[c].duplicate
        \/ call'[c].status = "succeeded" /\ call'[c].duplicate
  \/ /\ call[c].status = "waiting_approval" /\ approval[c].status = "pending"
     /\ call'[c].duplicate = call[c].duplicate
     /\ \/ call'[c].status \in {"ready", "denied"}
        \/ call'[c].status = "canceled" /\ approval'[c].status = "canceled"
  \/ /\ call[c].status \in {"ready", "running"}
     /\ call'[c].status \in {"ready", "running", "succeeded", "failed", "canceled"}
     /\ call'[c].duplicate = call[c].duplicate /\ approval'[c].status = approval[c].status

Alone(c) == Moves(c) /\ \A d \in Calls \ {c} : Steady(d)

\* A worker sends the request of an admitted call, and nothing else happens.
Sends(c) ==
  /\ Admitted(c) /\ (c \in Reads \/ sent[c] = 0)
  /\ sent' = [sent EXCEPT ![c] = @ + 1] /\ call' = call /\ approval' = approval

\* Every step moves or sends one call at most.
LEMMA CallStep ==
  ASSUME ActionsAssumption, TypeOK, ApprovalsAgree, WorkAgrees, SendsOnce, WaitsAgree,
         [Next]_vars
  PROVE  \/ \E c \in Calls : Sends(c)
         \/ sent' = sent /\ \A c \in Calls : Steady(c)
         \/ sent' = sent /\ \E c \in Calls : Alone(c)
<1>1. /\ call \in [Calls -> CallRecords] /\ approval \in [Calls -> Approvals]
      /\ run \in [Runs -> RunRecords]
  BY DEF TypeOK
<1>2. ASSUME NEW c \in Calls, Propose(c)
      PROVE  sent' = sent /\ ((\A d \in Calls : Steady(d)) \/ Alone(c))
  <2>1. CASE SuppressDuplicate(c)
    <3>1. sent' = sent /\ approval' = approval /\ call[c].status = "absent"
          /\ call'[c].status = "succeeded" /\ call'[c].duplicate
          /\ \A d \in Calls \ {c} : call'[d] = call[d]
      BY <1>1, <2>1 DEF SuppressDuplicate, Proposable, CallRecords
    <3> QED
      BY <3>1 DEF Alone, Moves, Steady
  <2>2. CASE Allow(c)
    BY <2>2, PutStatusFields DEF Allow, Proposable, Alone, Moves, Steady
  <2>3. CASE RequestApproval(c)
    <3>1. /\ sent' = sent /\ call[c].status = "absent" /\ PutStatus(c, "waiting_approval")
          /\ \A d \in Calls \ {c} : approval'[d] = approval[d]
      BY <1>1, <2>3 DEF RequestApproval, Proposable
    <3> QED
      BY <3>1, PutStatusFields DEF Alone, Moves, Steady
  <2>4. CASE Deny(c)
    BY <2>4, PutStatusFields DEF Deny, Proposable, Alone, Moves, Steady
  <2>5. CASE Replay(c)
    BY <2>5 DEF Replay, Steady
  <2> QED
    BY <1>2, <2>1, <2>2, <2>3, <2>4, <2>5 DEF Propose
<1>3. ASSUME NEW c \in Calls, Resolution(c)
      PROVE  sent' = sent /\ Alone(c)
  <2>1. approval[c].status = "pending" /\ call[c].status = "waiting_approval" /\ sent' = sent
    BY <1>3 DEF Resolution, Decide, AutoApprove, Expire, ApprovalsAgree, ApprovalAgrees
  <2>2. \E s \in {"ready", "denied"} : PutStatus(c, s)
    BY <1>3, <2>1 DEF Resolution, Decide, AutoApprove, Expire, Approved, Refused
  <2>3. \A d \in Calls \ {c} : approval'[d] = approval[d]
    BY <1>1, <1>3 DEF Resolution, Decide, AutoApprove, Expire, Approved, Refused
  <2> QED
    BY <2>1, <2>2, <2>3, PutStatusFields DEF Alone, Moves, Steady
<1>4. ASSUME NEW r \in Runs, Turn(r) \/ Operator(r) \/ Answer(r)
      PROVE  sent' = sent /\ ((\A d \in Calls : Steady(d)) \/ \E c \in Calls : Alone(c))
  <2>1. CASE call' = call /\ approval' = approval /\ sent' = sent
    BY <2>1 DEF Steady
  <2>2. CASE Cancel(r) /\ ~(call' = call /\ approval' = approval /\ sent' = sent)
    <3> DEFINE c == run[r].on
    <3>1. /\ c \in Calls \union {NoCall} /\ c # NoCall /\ sent' = sent
          /\ call[c].status = "waiting_approval" /\ approval[c].status = "pending"
          /\ PutStatus(c, "canceled")
          /\ approval' = [approval EXCEPT ![c].status = "canceled"]
      BY <1>1, <2>2 DEF Cancel, RunRecords, AwaitsApproval, PausedApproval
    <3> HIDE DEF c
    <3>2. c \in Calls
      BY <3>1
    <3>3. approval'[c].status = "canceled" /\ \A d \in Calls \ {c} : approval'[d] = approval[d]
      BY <1>1, <3>1, <3>2 DEF Approvals
    <3>4. Alone(c)
      BY <3>1, <3>2, <3>3, PutStatusFields DEF Alone, Moves, Steady
    <3> QED
      BY <3>1, <3>2, <3>4
  <2> QED
    BY <1>4, <2>1, <2>2
       DEF Turn, StartTurn, EndTurn, Operator, Pause, Resume, Intervene, Answer
<1>5. ASSUME NEW c \in Calls, DeadlinePasses(c) \/ Lapse(c)
      PROVE  sent' = sent /\ \A d \in Calls : Steady(d)
  BY <1>1, <1>5 DEF DeadlinePasses, Lapse, Steady, CallRecords, Approvals
<1>6. ASSUME NEW w \in Workers, NEW c \in Calls, Claim(w, c)
      PROVE  sent' = sent /\ Alone(c)
  <2>1. /\ sent' = sent /\ approval' = approval /\ call[c].status \in {"ready", "running"}
        /\ call'[c].status = "running" /\ call'[c].duplicate = call[c].duplicate
        /\ \A d \in Calls \ {c} : call'[d] = call[d]
    BY <1>1, <1>6 DEF Claim, Claimable, CallRecords
  <2> QED
    BY <2>1 DEF Alone, Moves, Steady
<1>7. ASSUME NEW w \in Workers, Commit(w)
      PROVE  sent' = sent /\ \E c \in Calls : Alone(c)
  <2> DEFINE c == wk[w].call
             s == OutcomeStatus(w)
  <2>1. /\ c \in Calls /\ s \in {"ready", "succeeded", "failed", "canceled"}
        /\ call' = [call EXCEPT ![c].status = s, ![c].owner = NoWorker, ![c].live = FALSE]
    <3> HIDE DEF s
    <3> QED
      BY <1>7, CommitFields DEF s
  <2>2. call[c].status = "running" /\ sent' = sent /\ approval' = approval
    BY <1>7 DEF Commit, Mine
  <2> HIDE DEF c, s
  <2>3. /\ call'[c].status = s /\ call'[c].duplicate = call[c].duplicate
        /\ \A d \in Calls \ {c} : call'[d] = call[d]
    BY <1>1, <2>1 DEF CallRecords
  <2>4. Alone(c)
    BY <2>1, <2>2, <2>3 DEF Alone, Moves, Steady
  <2> QED
    BY <2>1, <2>2, <2>4
<1>8. ASSUME NEW w \in Workers, Send(w)
      PROVE  \E c \in Calls : Sends(c)
  <2> DEFINE c == wk[w].call
  <2>1. wk[w].pc = "send" /\ c \in Calls /\ Admitted(c) /\ Sending(w, c)
    BY <1>8 DEF Send, AtWork, WorkAgrees, Working, Sending
  <2>2. c \in Reads \/ sent[c] = 0
    BY <2>1 DEF SendsOnce, SendsOnceAt
  <2>3. /\ sent' = [sent EXCEPT ![c] = @ + 1]
        /\ call' = call /\ approval' = approval
    BY <1>8 DEF Send, AtWork
  <2> QED
    BY <2>1, <2>2, <2>3 DEF Sends
<1>9. ASSUME NEW w \in Workers, Work(w) \/ Leave(w), ~Commit(w), ~Send(w)
      PROVE  sent' = sent /\ \A d \in Calls : Steady(d)
  BY <1>9 DEF Work, Check, Resolve, Recheck, AtWork, Prepare, Retry, Leave, Steady
<1>10. CASE BeginMaintenance \/ EndMaintenance \/ UNCHANGED vars
  BY <1>10 DEF BeginMaintenance, EndMaintenance, vars, Steady
<1> QED
  BY <1>2, <1>3, <1>4, <1>5, <1>6, <1>7, <1>8, <1>9, <1>10 DEF Next

\* The phase a call has for its contract, from what its records agree on.
LEMMA CallPhases ==
  ASSUME NEW c \in Calls, ApprovalAgrees(c)
  PROVE  /\ call[c].status = "absent" => PhaseOf(c) = "none"
         /\ call[c].status = "waiting_approval" => PhaseOf(c) = "review"
         /\ call[c].status \in {"ready", "running"} => PhaseOf(c) = "admitted"
         /\ Admitted(c) => PhaseOf(c) \in {"admitted", "closed"}
<1>1. CASE call[c].status = "absent"
  BY <1>1 DEF PhaseOf, ApprovalAgrees, Admitted
<1>2. CASE call[c].status = "waiting_approval"
  BY <1>2 DEF PhaseOf, ApprovalAgrees, Admitted
<1>3. CASE call[c].status \in {"ready", "running"}
  BY <1>3 DEF PhaseOf, ApprovalAgrees
<1>4. CASE Admitted(c) /\ call[c].status \notin {"ready", "running"}
  <2>1. /\ call[c].status \in {"succeeded", "failed", "canceled"} /\ ~call[c].duplicate
        /\ approval[c].status \in {"approved", "none"}
    BY <1>4 DEF Admitted, Granted
  <2> QED
    BY <2>1 DEF PhaseOf
<1> QED
  BY <1>1, <1>2, <1>3, <1>4

\* A call that moves does so as its contract allows.
LEMMA PhaseMoves ==
  ASSUME NEW c \in Calls, ApprovalAgrees(c), ApprovalAgrees(c)', Moves(c)
  PROVE  \/ PhaseOf(c) = "none" /\ PhaseOf(c)' \in {"review", "admitted", "refused"}
         \/ PhaseOf(c) = "review" /\ PhaseOf(c)' \in {"admitted", "refused"}
         \/ PhaseOf(c) = "admitted" /\ PhaseOf(c)' \in {"admitted", "closed"}
<1>1. CASE call[c].status = "absent"
  <2>1. PhaseOf(c) = "none"
    BY <1>1, CallPhases
  <2>2. \/ /\ call'[c].status \in {"waiting_approval", "ready", "denied"}
           /\ ~call'[c].duplicate
        \/ call'[c].status = "succeeded" /\ call'[c].duplicate
    BY <1>1 DEF Moves, ApprovalAgrees
  <2>3. PhaseOf(c)' \in {"review", "admitted", "refused"}
    BY <2>2 DEF PhaseOf
  <2> QED
    BY <2>1, <2>3
<1>2. CASE call[c].status = "waiting_approval"
  <2>1. PhaseOf(c) = "review"
    BY <1>2, CallPhases
  <2>2. /\ ~call'[c].duplicate
        /\ \/ call'[c].status \in {"ready", "denied"}
           \/ call'[c].status = "canceled" /\ approval'[c].status = "canceled"
    BY <1>2 DEF Moves, ApprovalAgrees
  <2>3. PhaseOf(c)' \in {"admitted", "refused"}
    BY <2>2 DEF PhaseOf
  <2> QED
    BY <2>1, <2>3
<1>3. CASE call[c].status \in {"ready", "running"}
  <2>1. PhaseOf(c) = "admitted"
    BY <1>3, CallPhases
  <2>2. /\ call'[c].status \in {"ready", "running", "succeeded", "failed", "canceled"}
        /\ ~call'[c].duplicate /\ approval'[c].status \in {"approved", "none"}
    BY <1>3 DEF Moves, ApprovalAgrees, Granted
  <2>3. PhaseOf(c)' \in {"admitted", "closed"}
    BY <2>2 DEF PhaseOf
  <2> QED
    BY <2>1, <2>3
<1> QED
  BY <1>1, <1>2, <1>3 DEF Moves

-----------------------------------------------------------------------------
(* The theorems.                                                           *)

LEMMA InitInv ==
  ASSUME ActionsAssumption, Init
  PROVE  Inv
<1>1. TypeOK
  <2>1. run \in [Runs -> RunRecords]
    BY DEF Init, RunRecords, RunStatus
  <2>2. call \in [Calls -> CallRecords]
    BY DEF Init, CallRecords, CallStatus
  <2>3. approval \in [Calls -> Approvals]
    BY DEF Init, Approvals
  <2>4. Idle \in WorkerStates
    BY DEF Idle, WorkerStates, Phases, Outcomes, ActionsAssumption
  <2> QED
    BY <2>1, <2>2, <2>3, <2>4 DEF Init, TypeOK
<1>2. ApprovalsAgree
  BY DEF Init, ApprovalsAgree, ApprovalAgrees
<1>3. WorkAgrees
  BY DEF Init, Idle, WorkAgrees, Working
<1>4. SendsOnce
  BY DEF Init, Idle, SendsOnce, SendsOnceAt, Working, Sending
<1>5. WaitsAgree
  BY DEF Init, WaitsAgree, RunFits, ActionsAssumption
<1>6. BudgetAgrees
  <2>1. \A r \in Runs : OpenCalls(r, call) = {}
    <3>1. \A c \in Calls : call[c].status \notin Open
      BY DEF Init, Open
    <3> QED
      BY <3>1 DEF OpenCalls
  <2>2. IsFiniteSet({}) /\ Cardinality({}) = 0
    BY FS_EmptySet
  <2>3. \A r \in Runs : run[r].reserved = {} /\ run[r].actions = 0
    BY DEF Init
  <2>4. 0 + 0 <= ActionLimit
    BY DEF ActionsAssumption
  <2> QED
    <3> SUFFICES ASSUME NEW r \in Runs
                 PROVE  BudgetFits(r, run[r], call)
      BY DEF BudgetAgrees
    <3>1. run[r].reserved = {} /\ run[r].actions = 0 /\ OpenCalls(r, call) = {}
      BY <2>1, <2>3
    <3> QED
      BY <2>2, <2>4, <3>1 DEF BudgetFits
<1> QED
  BY <1>1, <1>2, <1>3, <1>4, <1>5, <1>6 DEF Inv

LEMMA InvStep ==
  ASSUME ActionsAssumption, Inv, [Next]_vars
  PROVE  Inv' /\ WaitsStand
BY TypeStep, ApprovalsStep, WorkStep, SendsStep, WaitsStep, BudgetStep DEF Inv

\* The records of calls, approvals, Runs and workers agree in every reachable state.
THEOREM Invariance == Spec => []Inv
<1>1. Init => Inv
  BY ActionsAssumption, InitInv
<1>2. Inv /\ [Next]_vars => Inv'
  BY ActionsAssumption, InvStep
<1> QED
  BY <1>1, <1>2, PTL DEF Spec

\* The records keep the shapes that the stores validate.
THEOREM TypeCorrect == Spec => []TypeOK
<1>1. Inv => TypeOK
  BY DEF Inv
<1> QED
  BY <1>1, Invariance, PTL

\* However often its lease is lost and taken over, a change leaves for its provider at
\* most once (action_worker.go: claim, recovery and the uncertain outcome).
THEOREM SendsAtMostOnce == Spec => []SentOnce
<1>1. Inv => SentOnce
  BY DEF Inv, SendsOnce, SendsOnceAt, SentOnce
<1> QED
  BY <1>1, Invariance, PTL

\* No request of a reviewed call leaves without its approval, whichever of decisions,
\* deadlines, cancellations and pauses came first.
THEOREM ApprovedBeforeSent == Spec => []SentWithApproval
<1>1. Inv => SentWithApproval
  <2>1. Reviewed \subseteq Calls
    BY ActionsAssumption DEF ActionsAssumption
  <2> QED
    BY <2>1 DEF Inv, WorkAgrees, Admitted, Granted, SentWithApproval
<1> QED
  BY <1>1, Invariance, PTL

\* A Run waits only for a call, or an approval, that can still answer it.
THEOREM WaitsAreLive == Spec => []WaitIsLive
<1>1. Inv => WaitIsLive
  <2> SUFFICES ASSUME Inv, NEW c \in Calls, run[RunOf[c]].on = c
               PROVE  /\ At(run[RunOf[c]], "waiting_for_dependency") =>
                           call[c].status \in {"ready", "running"}
                      /\ At(run[RunOf[c]], "waiting_for_approval") =>
                           call[c].status = "waiting_approval" /\ approval[c].status = "pending"
    BY DEF WaitIsLive, At
  <2>1. RunFits(RunOf[c], run[RunOf[c]], call) /\ ApprovalAgrees(c)
    BY ActionsAssumption DEF Inv, WaitsAgree, ApprovalsAgree, ActionsAssumption
  <2> QED
    BY <2>1 DEF RunFits, At, ApprovalAgrees
<1> QED
  BY <1>1, Invariance, PTL

\* What is reserved is what the open calls may still cost, and the budget is not exceeded.
THEOREM BudgetIsHeld == Spec => []ActionBudgetHeld
<1>1. Inv => ActionBudgetHeld
  BY DEF Inv, BudgetAgrees, BudgetFits, OpenCalls, ActionBudgetHeld
<1> QED
  BY <1>1, Invariance, PTL

\* Outcomes and decisions are final, and no late result wakes a newer continuation.
THEOREM OutcomesAreFinal == Spec => OutcomesStand
<1> DEFINE A == \A c \in Calls :
       /\ call[c].status \in Closed => call'[c].status = call[c].status
       /\ approval[c].status \in Decisions => approval'[c].status = approval[c].status
       /\ run[RunOf[c]].on = c /\ run'[RunOf[c]].on # c =>
            call'[c].status \in Closed \/ run'[RunOf[c]].status = "canceled"
<1>1. ASSUME Inv, [Next]_vars
      PROVE  A
  <2> SUFFICES ASSUME NEW c \in Calls
               PROVE  /\ call[c].status \in Closed => call'[c].status = call[c].status
                      /\ approval[c].status \in Decisions => approval'[c].status = approval[c].status
                      /\ run[RunOf[c]].on = c /\ run'[RunOf[c]].on # c =>
                           call'[c].status \in Closed \/ run'[RunOf[c]].status = "canceled"
    OBVIOUS
  <2>1. Steady(c) \/ Moves(c)
    BY <1>1, ActionsAssumption, CallStep DEF Inv, Sends, Alone, Steady
  <2>2. call[c].status \in Closed => call'[c].status = call[c].status
    BY <2>1 DEF Steady, Moves, Closed
  <2>3. approval[c].status \in Decisions => approval'[c].status = approval[c].status
    BY <1>1, <2>1 DEF Inv, ApprovalsAgree, ApprovalAgrees, Steady, Moves, Decisions
  <2>4. run[RunOf[c]].on = c /\ run'[RunOf[c]].on # c =>
          call'[c].status \in Closed \/ run'[RunOf[c]].status = "canceled"
    <3>1. WaitsStand /\ RunOf[c] \in Runs
      BY <1>1, ActionsAssumption, InvStep DEF ActionsAssumption
    <3> QED
      BY <3>1 DEF WaitsStand, EndsWait
  <2> QED
    BY <2>2, <2>3, <2>4
<1>2. Inv /\ [Next]_vars => [A]_vars
  BY <1>1
<1> QED
  BY <1>2, Invariance, PTL DEF Spec, OutcomesStand

\* Every step of the workers, the approvals and the commands is a step of the contract
\* of one call, or changes nothing the contract speaks of.
THEOREM ContractIsImplemented == Spec => ImplementsContract
<1> DEFINE phase == [c \in Calls |-> PhaseOf(c)]
<1>1. Init => Contract!Init
  BY DEF Init, Contract!Init, PhaseOf
<1>2. ASSUME Inv, [Next]_vars
      PROVE  Contract!Next \/ UNCHANGED Contract!vars
  <2>1. ActionsAssumption /\ Inv'
    BY <1>1, <1>2, ActionsAssumption, InvStep
  <2>2. \A c \in Calls : ApprovalAgrees(c) /\ ApprovalAgrees(c)'
    BY <1>2, <2>1 DEF Inv, ApprovalsAgree
  <2>3. \A c \in Calls : Steady(c) => PhaseOf(c)' = PhaseOf(c)
    BY DEF Steady, PhaseOf
  <2>4. CASE \E c \in Calls : Sends(c)
    <3>1. PICK c \in Calls : Sends(c)
      BY <2>4
    <3>2. PhaseOf(c) \in {"admitted", "closed"}
      BY <2>2, <3>1, CallPhases DEF Sends
    <3>3. phase' = phase
      BY <3>1 DEF Sends, PhaseOf
    <3>4. Contract!Send(c)
      BY <3>1, <3>2, <3>3 DEF Contract!Send, Sends
    <3> QED
      BY <3>4 DEF Contract!Next
  <2>5. CASE sent' = sent /\ \A c \in Calls : Steady(c)
    <3>1. phase' = phase
      BY <2>3, <2>5
    <3> QED
      BY <2>5, <3>1 DEF Contract!vars
  <2>6. CASE sent' = sent /\ \E c \in Calls : Alone(c)
    <3>1. PICK c \in Calls : Alone(c)
      BY <2>6
    <3>2. \A d \in Calls \ {c} : PhaseOf(d)' = PhaseOf(d)
      BY <2>3, <3>1 DEF Alone
    <3>3. phase' = [phase EXCEPT ![c] = PhaseOf(c)']
      BY <3>2
    <3>4. \A from, to : PhaseOf(c) \in from /\ PhaseOf(c)' = to => Contract!Move(c, from, to)
      BY <2>6, <3>3 DEF Contract!Move
    <3>5. \/ PhaseOf(c) = "none" /\ PhaseOf(c)' \in {"review", "admitted", "refused"}
          \/ PhaseOf(c) = "review" /\ PhaseOf(c)' \in {"admitted", "refused"}
          \/ PhaseOf(c) = "admitted" /\ PhaseOf(c)' \in {"admitted", "closed"}
      BY <2>2, <3>1, PhaseMoves DEF Alone
    <3>6. CASE PhaseOf(c) = "none" /\ PhaseOf(c)' \in {"review", "admitted", "refused"}
      BY <3>4, <3>6 DEF Contract!Next, Contract!Propose
    <3>7. CASE PhaseOf(c) = "review" /\ PhaseOf(c)' \in {"admitted", "refused"}
      BY <3>4, <3>7 DEF Contract!Next, Contract!Decide
    <3>8. CASE PhaseOf(c) = "admitted" /\ PhaseOf(c)' = "closed"
      BY <3>4, <3>8 DEF Contract!Next, Contract!Close
    <3>9. CASE PhaseOf(c) = "admitted" /\ PhaseOf(c)' = "admitted"
      BY <2>6, <3>3, <3>9 DEF Contract!vars
    <3> QED
      BY <3>5, <3>6, <3>7, <3>8, <3>9
  <2> QED
    BY <1>2, <2>1, <2>4, <2>5, <2>6, CallStep DEF Inv
<1>3. Inv /\ [Next]_vars => [Contract!Next]_(Contract!vars)
  BY <1>2
<1> QED
  BY <1>1, <1>3, Invariance, PTL DEF Spec, ImplementsContract, Contract!Spec
-----------------------------------------------------------------------------
(* A Run here is a Run as RunTurns has them: its lease and its Turns are   *)
(* left out, and what is written of it keeps to the contract of a Run.     *)

Life(r) == INSTANCE RunLifecycle WITH
  Workers <- {}, NoWorker <- NoWorker, Waits <- Waits,
  status <- run[r].status, saved <- run[r].pausedFrom, holder <- NoWorker, live <- FALSE, applied <- 0

Lives == \A r \in Runs : [Life(r)!Next]_(Life(r)!vars)

LEMMA UntouchedLives == ASSUME run' = run PROVE Lives
BY DEF Lives, Life!vars

LEMMA WrittenLives ==
  ASSUME TypeOK, NEW r \in Runs, NEW R, run' = [run EXCEPT ![r] = R] \/ PutRun(r, R),
         run'[r] = R => [Life(r)!Next]_(Life(r)!vars)
  PROVE  Lives
<1>1. run'[r] = R /\ \A q \in Runs \ {r} : run'[q] = run[q]
  BY DEF PutRun, TypeOK
<1> QED
  BY <1>1 DEF Lives, Life!vars

\* What a Run becomes when it leaves a status, with nothing saved.
LEMMA StatusLives ==
  ASSUME TypeOK, WaitsAgree, NEW r \in Runs, NEW R,
         run' = [run EXCEPT ![r] = R] \/ PutRun(r, R), R.pausedFrom = run[r].pausedFrom,
         \/ R.status = run[r].status
         \/ run[r].status = "queued" /\ R.status = "running"
         \/ run[r].status = "running" /\ R.status \in {"queued", "completed", "failed", "paused",
              "waiting_for_approval", "waiting_for_dependency"}
         \/ run[r].status = "waiting_for_approval" /\ R.status \in {"queued", "waiting_for_dependency"}
         \/ run[r].status = "waiting_for_dependency" /\ R.status \in {"queued", "failed",
              "waiting_for_event"}
         \/ run[r].status = "waiting_for_event" /\ R.status = "queued"
  PROVE  Lives
<1> SUFFICES ASSUME run'[r] = R PROVE [Life(r)!Next]_(Life(r)!vars)
  BY WrittenLives
<1>1. run[r].status # "paused" => run[r].pausedFrom = "none"
  BY DEF WaitsAgree, RunFits
<1>2. CASE R.status = run[r].status
  BY <1>2 DEF Life!vars
<1>3. CASE run[r].status = "queued" /\ R.status = "running"
  <2>1. Life(r)!Start
    BY <1>3 DEF Life!Start
  <2> QED
    BY <2>1 DEF Life!Next
<1>4. CASE run[r].status = "running" /\ R.status \in {"queued", "completed", "failed", "paused",
             "waiting_for_approval", "waiting_for_dependency"}
  <2>1. Life(r)!Leave
    BY <1>1, <1>4 DEF Life!Leave, Life!Release, Life!Ends, Waits
  <2> QED
    BY <2>1 DEF Life!Next
<1>5. CASE \/ run[r].status = "waiting_for_approval" /\ R.status \in {"queued", "waiting_for_dependency"}
           \/ run[r].status = "waiting_for_dependency" /\ R.status \in {"queued", "failed",
                "waiting_for_event"}
           \/ run[r].status = "waiting_for_event" /\ R.status = "queued"
  <2>1. Life(r)!Awaken
    BY <1>5 DEF Life!Awaken, Life!Follows, Waits
  <2> QED
    BY <2>1 DEF Life!Next
<1> QED
  BY <1>2, <1>3, <1>4, <1>5
LEMMA ProposeLives ==
  ASSUME ActionsAssumption, TypeOK, WaitsAgree, NEW c \in Calls, Propose(c)
  PROVE  Lives
<1> DEFINE r == RunOf[c]
           Q == run[r]
           W(s) == [Q EXCEPT !.status = s, !.on = c]
<1>1. r \in Runs /\ Q \in RunRecords /\ Q.status = "running"
  BY DEF ActionsAssumption, TypeOK, Propose, SuppressDuplicate, Allow, RequestApproval, Deny,
         Replay, Proposable
<1>2. \A s \in RunStatus : /\ W(s) \in RunRecords /\ W(s).status = s
                           /\ W(s).pausedFrom = Q.pausedFrom
                           /\ [Q EXCEPT !.status = s].status = s
                           /\ [Q EXCEPT !.status = s].pausedFrom = Q.pausedFrom
  BY <1>1 DEF RunRecords
<1>3. {"queued", "paused", "waiting_for_dependency", "waiting_for_approval"} \subseteq RunStatus
  BY DEF RunStatus, Waits
<1> HIDE DEF W
<1>4. ASSUME NEW s \in RunStatus
      PROVE  Reserve(W(s), c).status = s /\ Reserve(W(s), c).pausedFrom = Q.pausedFrom
  BY <1>2, BudgetFields
<1>5. PICK R : /\ PutRun(r, R) /\ R.pausedFrom = Q.pausedFrom
               /\ R.status \in {"queued", "paused", "waiting_for_dependency", "waiting_for_approval"}
  <2>1. CASE SuppressDuplicate(c) \/ Deny(c)
    BY <1>2, <1>3, <2>1 DEF SuppressDuplicate, Deny
  <2>2. CASE Allow(c)
    BY <1>3, <1>4, <2>2 DEF Allow, W
  <2>3. CASE RequestApproval(c)
    BY <1>3, <1>4, <2>3 DEF RequestApproval, W
  <2>4. CASE Replay(c)
    BY <1>2, <1>3, <2>4 DEF Replay, W
  <2> QED
    BY <2>1, <2>2, <2>3, <2>4 DEF Propose
<1> QED
  BY <1>1, <1>5, StatusLives

LEMMA ResolutionLives ==
  ASSUME ActionsAssumption, TypeOK, WaitsAgree, NEW c \in Calls, Resolution(c)
  PROVE  Lives
<1> DEFINE r == RunOf[c]
           Q == run[r]
           P == Release(Q, c)
<1>1. r \in Runs /\ Q \in RunRecords
  BY DEF ActionsAssumption, TypeOK
<1>2. P \in RunRecords /\ P.status = Q.status /\ P.pausedFrom = Q.pausedFrom
  BY <1>1, BudgetFields
<1>3. CASE Approved(c) /\ AwaitsApproval(c)
  <2>1. [Q EXCEPT !.status = "waiting_for_dependency"].status = "waiting_for_dependency"
        /\ [Q EXCEPT !.status = "waiting_for_dependency"].pausedFrom = Q.pausedFrom
    BY <1>1 DEF RunRecords
  <2>2. PutRun(r, [Q EXCEPT !.status = "waiting_for_dependency"]) /\ Q.status = "waiting_for_approval"
    BY <1>3 DEF Approved, AwaitsApproval
  <2> QED
    BY <1>1, <2>1, <2>2, StatusLives
<1>4. ASSUME NEW s, Refused(c, s), AwaitsApproval(c) \/ PausedApproval(c)
      PROVE  Lives
  <2> HIDE DEF P
  <2>1. CASE PausedApproval(c)
    <3> DEFINE R == [P EXCEPT !.pausedFrom = "queued", !.on = NoCall]
    <3>1. PutRun(r, R) /\ Q.status = "paused" /\ Q.pausedFrom = "waiting_for_approval"
      BY <1>4, <2>1 DEF Refused, PausedApproval, P
    <3>2. R.status = "paused" /\ R.pausedFrom = "queued"
      BY <1>2, <3>1 DEF RunRecords
    <3> HIDE DEF R
    <3>3. ASSUME run'[r] = R PROVE Life(r)!AwakenPaused
      BY <3>1, <3>2, <3>3 DEF Life!AwakenPaused
    <3> QED
      BY <1>1, <3>1, <3>3, WrittenLives DEF Life!Next
  <2>2. CASE ~PausedApproval(c)
    <3> DEFINE R == [P EXCEPT !.status = "queued", !.on = NoCall]
    <3>1. PutRun(r, R) /\ Q.status = "waiting_for_approval"
      BY <1>4, <2>2 DEF Refused, AwaitsApproval, P
    <3>2. R.status = "queued" /\ R.pausedFrom = Q.pausedFrom
      BY <1>2 DEF RunRecords
    <3> HIDE DEF R
    <3> QED
      BY <1>1, <3>1, <3>2, StatusLives
  <2> QED
    BY <2>1, <2>2
<1>5. CASE Expire(c) /\ ~(AwaitsApproval(c) \/ PausedApproval(c))
  <2>1. PutRun(r, P) \/ PutRun(r, Q)
    BY <1>5 DEF Expire
  <2> HIDE DEF P
  <2> QED
    BY <1>1, <1>2, <2>1, StatusLives
<1> QED
  BY <1>3, <1>4, <1>5 DEF Resolution, Decide, AutoApprove, Expire

LEMMA CommandLives ==
  ASSUME ActionsAssumption, TypeOK, WaitsAgree, NEW r \in Runs, Turn(r) \/ Operator(r) \/ Answer(r)
  PROVE  Lives
<1> DEFINE Q == run[r]
<1>1. Q \in RunRecords /\ (Q.status # "paused" => Q.pausedFrom = "none")
  BY DEF TypeOK, WaitsAgree, RunFits
<1>2. \A s : [Q EXCEPT !.status = s].status = s /\ [Q EXCEPT !.status = s].pausedFrom = Q.pausedFrom
  BY <1>1 DEF RunRecords
<1>3. CASE Turn(r) \/ Answer(r)
  BY <1>2, <1>3, StatusLives DEF Turn, StartTurn, EndTurn, Answer
<1>4. CASE Intervene(r)
  BY <1>4, StatusLives DEF Intervene
<1>5. CASE Pause(r)
  <2> DEFINE R == [Q EXCEPT !.status = "paused", !.pausedFrom = Q.status]
  <2>1. /\ PutRun(r, R) /\ R.status = "paused" /\ R.pausedFrom = Q.status
        /\ Q.status \in RunStatus \ (Ended \union {"paused"})
    BY <1>1, <1>5 DEF Pause, RunRecords
  <2> HIDE DEF R
  <2>2. ASSUME run'[r] = R PROVE Life(r)!Pause \/ Life(r)!Leave
    BY <2>1, <2>2 DEF Life!Pause, Life!Leave, Life!Release, RunStatus
  <2> QED
    BY <2>1, <2>2, WrittenLives DEF Life!Next
<1>6. CASE Resume(r)
  <2> DEFINE s == IF Q.pausedFrom \in Waits THEN Q.pausedFrom ELSE "queued"
             R == [Q EXCEPT !.pausedFrom = "none", !.status = s]
  <2>1. /\ PutRun(r, R) /\ R.status = s /\ R.pausedFrom = "none" /\ Q.status = "paused"
    BY <1>1, <1>6 DEF Resume, RunRecords
  <2> HIDE DEF R
  <2>2. ASSUME run'[r] = R PROVE Life(r)!Resume
    BY <2>1, <2>2 DEF Life!Resume
  <2> QED
    BY <2>1, <2>2, WrittenLives DEF Life!Next
<1>7. CASE Cancel(r)
  <2> DEFINE R == [Q EXCEPT !.status = "canceled", !.on = NoCall, !.pausedFrom = "none"]
  <2>1. /\ R \in RunRecords /\ R.status = "canceled" /\ R.pausedFrom = "none"
        /\ Q.status \in RunStatus \ Ended
    BY <1>1, <1>7 DEF Cancel, RunRecords, RunStatus, Ended
  <2> HIDE DEF R
  <2>2. PICK P : PutRun(r, P) /\ P.status = "canceled" /\ P.pausedFrom = "none"
    <3>1. Q.on \in Calls => Release(R, Q.on).status = "canceled" /\ Release(R, Q.on).pausedFrom = "none"
      BY <2>1, BudgetFields
    <3> QED
      BY <1>1, <1>7, <2>1, <3>1 DEF Cancel, R, RunRecords
  <2>3. ASSUME run'[r] = P PROVE Life(r)!Cancel \/ Life(r)!Leave
    BY <2>1, <2>2, <2>3 DEF Life!Cancel, Life!Leave, Life!Release, Life!Ends, RunStatus
  <2> QED
    BY <2>2, <2>3, WrittenLives DEF Life!Next
<1> QED
  BY <1>3, <1>4, <1>5, <1>6, <1>7 DEF Operator

LEMMA CommitLives ==
  ASSUME ActionsAssumption, TypeOK, WorkAgrees, WaitsAgree, NEW w \in Workers, Commit(w)
  PROVE  Lives
<1> PICK c \in Calls, r \in Runs : c = wk[w].call /\ r = RunOf[c]
  BY CommitFields
<1> DEFINE s == OutcomeStatus(w)
           Q == run[r]
<1>1. Q \in RunRecords
  BY DEF TypeOK
<1>2. PICK next \in Continuations(w) : run' = [run EXCEPT ![r] = Committed(w, next)]
  BY CommitFields
<1>3. next \in {"queued", "failed", "waiting_for_event"} /\ (PausedOn(c) => next # "failed")
  BY <1>2 DEF Continuations
<1> DEFINE B == IF ~Owns(c) \/ s = "ready" THEN Q
                ELSE IF PausedOn(c) THEN [Q EXCEPT !.pausedFrom = next, !.on = NoCall]
                ELSE [Q EXCEPT !.status = next, !.on = NoCall]
           R == Committed(w, next)
<1>4. B \in RunRecords
  <2>1. next \in RunStatus
    BY <1>3 DEF RunStatus, Waits, Ended
  <2>2. /\ [Q EXCEPT !.pausedFrom = next, !.on = NoCall] \in RunRecords
        /\ [Q EXCEPT !.status = next, !.on = NoCall] \in RunRecords
    BY <1>1, <2>1 DEF RunRecords
  <2> QED
    BY <1>1, <2>2
<1>5. R = Budgeted(B, c, s, Owns(c))
  BY DEF Committed
<1> HIDE DEF s, R
<1>6. \/ B.status = Q.status /\ B.pausedFrom = Q.pausedFrom
      \/ /\ Q.status = "paused" /\ Q.pausedFrom = "waiting_for_dependency"
         /\ B.status = "paused" /\ B.pausedFrom = next /\ next # "failed"
      \/ Q.status = "waiting_for_dependency" /\ B.status = next /\ B.pausedFrom = Q.pausedFrom
  BY <1>1, <1>3 DEF Owns, PausedOn, RunRecords
<1> HIDE DEF B
<1>7. R.status = B.status /\ R.pausedFrom = B.pausedFrom
  BY <1>1, <1>4, <1>5, BudgetFields DEF Budgeted
<1>8. CASE /\ Q.status = "paused" /\ Q.pausedFrom = "waiting_for_dependency"
           /\ B.status = "paused" /\ B.pausedFrom = next /\ next # "failed"
  <2>1. ASSUME run'[r] = R PROVE Life(r)!AwakenPaused
    BY <1>3, <1>7, <1>8, <2>1 DEF Life!AwakenPaused
  <2> QED
    BY <1>1, <1>2, <2>1, WrittenLives DEF Life!Next, R
<1>9. CASE \/ B.status = Q.status /\ B.pausedFrom = Q.pausedFrom
           \/ Q.status = "waiting_for_dependency" /\ B.status = next /\ B.pausedFrom = Q.pausedFrom
  BY <1>1, <1>2, <1>3, <1>7, <1>9, StatusLives DEF R
<1> QED
  BY <1>6, <1>8, <1>9

LEMMA StepLives ==
  ASSUME ActionsAssumption, Inv, [Next]_vars
  PROVE  Lives
<1> USE DEF Inv
<1>1. ASSUME NEW c \in Calls, DeadlinePasses(c) \/ Lapse(c) PROVE Lives
  BY <1>1, UntouchedLives DEF DeadlinePasses, Lapse
<1>2. ASSUME NEW w \in Workers, NEW c \in Calls, Claim(w, c) PROVE Lives
  BY <1>2, UntouchedLives DEF Claim
<1>3. ASSUME NEW w \in Workers, Work(w) \/ Leave(w), ~Commit(w) PROVE Lives
  BY <1>3, UntouchedLives
     DEF Work, Check, Resolve, Recheck, Send, AtWork, Prepare, Retry, Leave
<1>4. CASE BeginMaintenance \/ EndMaintenance \/ UNCHANGED vars
  BY <1>4, UntouchedLives DEF BeginMaintenance, EndMaintenance, vars
<1> QED
  BY <1>1, <1>2, <1>3, <1>4, ProposeLives, ResolutionLives, CommandLives, CommitLives DEF Next

\* What proposals, approvals, outcomes and commands write of each Run keeps to the
\* contract of a Run, which RunTurns implements.
THEOREM RunsKeepContract == Spec => \A r \in Runs : Life(r)!Spec
<1> SUFFICES ASSUME NEW r \in Runs PROVE Spec => Life(r)!Spec
  OBVIOUS
<1>1. Init => Life(r)!Init
  BY DEF Init, Life!Init
<1>2. Inv /\ [Next]_vars => [Life(r)!Next]_(Life(r)!vars)
  BY ActionsAssumption, StepLives DEF Lives
<1> QED
  BY <1>1, <1>2, Invariance, PTL DEF Spec, Life!Spec
=============================================================================
