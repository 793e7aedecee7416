------------------------------ MODULE Actions ------------------------------
(***************************************************************************)
(* Governed actions: the calls a Run proposes, the approvals some of them  *)
(* need, and the action workers that send them to a provider.              *)
(*                                                                         *)
(* A proposal, the resolution of an approval and the cancellation of a Run *)
(* that waits for one compare the revision of every record they read, so   *)
(* each is one atomic step.  A worker is not: it claims a call, reads the  *)
(* Run, resolves the Skill and its credentials, reads the Run again, sends *)
(* the request and only then tries to record the outcome, while commands,  *)
(* other workers, maintenance and the passing of its lease interleave.     *)
(*                                                                         *)
(* The wake condition of a Run is kept as the call it refers to (run.on);  *)
(* a paused Run keeps it, as PausedWakeCondition.  sent counts the         *)
(* requests that left for the provider, which no record of the code does.  *)
(***************************************************************************)
EXTENDS Naturals, FiniteSets

CONSTANTS
  Runs, Calls, NoCall,
  RunOf,        \* the Run that proposes a call
  Reads,        \* calls whose side effect is read or none
  Reviewed,     \* calls for which the policy requires an approval
  AutoApproved, \* reviewed calls whose approval has TimeoutDecision approve
  Claimants,    \* calls that carry one and the same external operation
  Workers, NoWorker,
  ActionLimit,  \* BudgetPolicy.MaxActions, 0 for a Run without a budget
  PersistTries, \* attempts of persistOutcome, 8 in the code
  MaxCommands,  \* model bound: pauses, interventions and maintenance windows
  MaxLapses,    \* model bound: leases that lapse under a worker at work
  MaxLosses     \* model bound: workers that stop while their lease is live

Closed == {"succeeded", "failed", "denied", "canceled"}
CallStatus == {"absent", "waiting_approval", "ready", "running"} \union Closed
Ended == {"completed", "failed", "canceled"}
Waits == {"waiting_for_dependency", "waiting_for_approval", "waiting_for_event"}
RunStatus == {"queued", "running", "paused"} \union Waits \union Ended
Decisions == {"approved", "rejected", "expired", "canceled"}

\* What a worker has to record: nothing happened; the provider answered, asked
\* for a human, or failed; the account is not connected; the Skill is under
\* maintenance; an earlier worker may have sent the request.
Outcomes == {"none", "ok", "human", "error", "parked", "maintenance", "uncertain"}

ASSUME ActionsAssumption ==
  /\ NoCall \notin Calls /\ NoWorker \notin Workers
  /\ RunOf \in [Calls -> Runs]
  /\ {Reads, Reviewed, Claimants} \subseteq SUBSET Calls
  /\ AutoApproved \subseteq Reviewed
  /\ {ActionLimit, MaxCommands, MaxLapses, MaxLosses} \subseteq Nat
  /\ PersistTries \in Nat \ {0}

VARIABLES
  run,         \* the Runs
  call,        \* the ActionCalls
  approval,    \* the ApprovalCheckpoint of each reviewed call
  maintenance, \* SkillRuntimeMaintenance.Active
  wk,          \* the workers' volatile state
  sent,        \* requests sent to the provider for each call
  spent        \* what has been used of the model's bounds

vars == <<run, call, approval, maintenance, wk, sent, spent>>

RunRecords == [status : RunStatus, on : Calls \union {NoCall},
               pausedFrom : RunStatus \union {"none"},
               reserved : SUBSET Calls, actions : Nat]
CallRecords == [status : CallStatus, owner : Workers \union {NoWorker}, live : BOOLEAN,
                recovered : BOOLEAN, duplicate : BOOLEAN]
Approvals == [status : {"none", "pending"} \union Decisions, due : BOOLEAN]

Phases == {"idle", "check", "resolve", "recheck", "send", "prepare", "commit"}
WorkerStates == [pc : Phases, call : Calls \union {NoCall}, out : Outcomes,
                 dispatched : BOOLEAN, fresh : BOOLEAN, tries : 0 .. PersistTries]
Idle == [pc |-> "idle", call |-> NoCall, out |-> "none", dispatched |-> FALSE,
         fresh |-> FALSE, tries |-> 0]

TypeOK ==
  /\ run \in [Runs -> RunRecords]
  /\ call \in [Calls -> CallRecords]
  /\ approval \in [Calls -> Approvals]
  /\ maintenance \in BOOLEAN
  /\ wk \in [Workers -> WorkerStates]
  /\ sent \in [Calls -> Nat]
  /\ spent \in [{"command", "lapse", "loss"} -> Nat]

Init ==
  /\ run = [r \in Runs |-> [status |-> "queued", on |-> NoCall, pausedFrom |-> "none",
                            reserved |-> {}, actions |-> 0]]
  /\ call = [c \in Calls |-> [status |-> "absent", owner |-> NoWorker, live |-> FALSE,
                              recovered |-> FALSE, duplicate |-> FALSE]]
  /\ approval = [c \in Calls |-> [status |-> "none", due |-> FALSE]]
  /\ maintenance = FALSE
  /\ wk = [w \in Workers |-> Idle]
  /\ sent = [c \in Calls |-> 0]
  /\ spent = [b \in {"command", "lapse", "loss"} |-> 0]

-----------------------------------------------------------------------------
(* What the code asks of the records.                                      *)

OwnsActive(c) == run[RunOf[c]].on = c /\ run[RunOf[c]].status = "waiting_for_dependency"

\* The Run waits for the action, or did when it was paused.
Owns(c) == LET r == run[RunOf[c]] IN
  /\ r.on = c
  /\ \/ r.status = "waiting_for_dependency"
     \/ r.status = "paused" /\ r.pausedFrom = "waiting_for_dependency"
PausedOn(c) == Owns(c) /\ run[RunOf[c]].status = "paused"

AwaitsApproval(c) == LET r == run[RunOf[c]] IN
  r.status = "waiting_for_approval" /\ r.on = c /\ call[c].status = "waiting_approval"
PausedApproval(c) == LET r == run[RunOf[c]] IN
  /\ r.status = "paused" /\ r.pausedFrom = "waiting_for_approval" /\ r.on = c
  /\ call[c].status = "waiting_approval"

Protects(c) == call[c].status \in {"waiting_approval", "ready", "running", "succeeded"}

\* The receipts of the external operation that c carries too.
Prior(c) == {d \in Claimants \ {c} : c \in Claimants /\ Protects(d) /\ ~call[d].duplicate}

HasBudget == ActionLimit > 0
Affordable(r) == HasBudget => run[r].actions + Cardinality(run[r].reserved) + 1 <= ActionLimit
Reserve(R, c) == IF HasBudget THEN [R EXCEPT !.reserved = @ \union {c}] ELSE R
Release(R, c) == [R EXCEPT !.reserved = @ \ {c}]
Settle(R, c)  == IF HasBudget THEN [R EXCEPT !.reserved = @ \ {c}, !.actions = @ + 1] ELSE R

\* Every write of a Run raises the revision its readers compare.
Written(r, W) == [w \in Workers |->
  IF W[w].call # NoCall /\ RunOf[W[w].call] = r THEN [W[w] EXCEPT !.fresh = FALSE] ELSE W[w]]

PutRun(r, R) == run' = [run EXCEPT ![r] = R] /\ wk' = Written(r, wk)
PutStatus(c, s) == call' = [call EXCEPT ![c].status = s]
Spend(b, max) == spent[b] < max /\ spent' = [spent EXCEPT ![b] = @ + 1]

-----------------------------------------------------------------------------
(* The Run's own turns, and what it proposes in them.                      *)

StartTurn(r) ==
  /\ run[r].status = "queued"
  /\ PutRun(r, [run[r] EXCEPT !.status = "running"])
  /\ UNCHANGED <<call, approval, maintenance, sent, spent>>

EndTurn(r) ==
  /\ run[r].status = "running"
  /\ \E s \in {"completed", "failed", "queued"} : PutRun(r, [run[r] EXCEPT !.status = s])
  /\ UNCHANGED <<call, approval, maintenance, sent, spent>>

Proposable(c) ==
  run[RunOf[c]].status = "running" /\ call[c].status = "absent" /\ ~maintenance

\* A finished receipt of the same external operation answers the proposal.
SuppressDuplicate(c) ==
  /\ Proposable(c)
  /\ \E d \in Prior(c) : call[d].status = "succeeded"
  /\ call' = [call EXCEPT ![c].status = "succeeded", ![c].duplicate = TRUE]
  /\ PutRun(RunOf[c], [run[RunOf[c]] EXCEPT !.status = "queued"])
  /\ UNCHANGED <<approval, maintenance, sent, spent>>

Allow(c) ==
  /\ Proposable(c) /\ Prior(c) = {} /\ c \notin Reviewed /\ Affordable(RunOf[c])
  /\ PutStatus(c, "ready")
  /\ PutRun(RunOf[c], Reserve([run[RunOf[c]] EXCEPT !.status = "waiting_for_dependency",
                                                    !.on = c], c))
  /\ UNCHANGED <<approval, maintenance, sent, spent>>

RequestApproval(c) ==
  /\ Proposable(c) /\ Prior(c) = {} /\ c \in Reviewed /\ Affordable(RunOf[c])
  /\ PutStatus(c, "waiting_approval")
  /\ approval' = [approval EXCEPT ![c].status = "pending"]
  /\ PutRun(RunOf[c], Reserve([run[RunOf[c]] EXCEPT !.status = "waiting_for_approval",
                                                    !.on = c], c))
  /\ UNCHANGED <<maintenance, sent, spent>>

\* By the policy or a spent correction; without capacity the Run pauses too.
Deny(c) ==
  /\ Proposable(c) /\ Prior(c) = {}
  /\ PutStatus(c, "denied")
  /\ \E s \in (IF Affordable(RunOf[c]) THEN {"queued"} ELSE {"queued", "paused"}) :
       PutRun(RunOf[c], [run[RunOf[c]] EXCEPT !.status = s])
  /\ UNCHANGED <<approval, maintenance, sent, spent>>

\* A later Turn proposes a call its Run has made before.
Replay(c) ==
  /\ run[RunOf[c]].status = "running" /\ ~maintenance
  /\ LET R == run[RunOf[c]]
         wait(s) == [R EXCEPT !.status = s, !.on = c]
     IN CASE call[c].status \in Closed -> PutRun(RunOf[c], [R EXCEPT !.status = "queued"])
          [] call[c].status \in {"ready", "running"} ->
               PutRun(RunOf[c], wait("waiting_for_dependency"))
          [] call[c].status = "waiting_approval" ->
               PutRun(RunOf[c], wait("waiting_for_approval"))
          [] OTHER -> FALSE
  /\ UNCHANGED <<call, approval, maintenance, sent, spent>>

-----------------------------------------------------------------------------
(* Approvals.                                                              *)

DeadlinePasses(c) ==
  /\ approval[c].status = "pending" /\ ~approval[c].due
  /\ approval' = [approval EXCEPT ![c].due = TRUE]
  /\ UNCHANGED <<run, call, maintenance, wk, sent, spent>>

\* The approved call is what the Run waits for next.
Approved(c) ==
  /\ approval' = [approval EXCEPT ![c].status = "approved"]
  /\ PutStatus(c, "ready")
  /\ PutRun(RunOf[c], [run[RunOf[c]] EXCEPT !.status = "waiting_for_dependency"])

RefusedReady(c, s) ==
  /\ approval' = [approval EXCEPT ![c].status = s]
  /\ PutStatus(c, "ready")
  /\ PutRun(RunOf[c], [run[RunOf[c]] EXCEPT !.status = "waiting_for_dependency"])
\* The Run continues without the call, after its pause if it is paused.
Refused(c, s) ==
  /\ approval' = [approval EXCEPT ![c].status = s]
  /\ PutStatus(c, "denied")
  /\ LET R == Release(run[RunOf[c]], c) IN
       PutRun(RunOf[c], IF PausedApproval(c)
                          THEN [R EXCEPT !.pausedFrom = "queued", !.on = NoCall]
                          ELSE [R EXCEPT !.status = "queued", !.on = NoCall])

\* A principal, a changed approval mode or a superseding message decides.
Decide(c) ==
  /\ approval[c].status = "pending" /\ ~approval[c].due /\ AwaitsApproval(c)
  /\ Approved(c) \/ Refused(c, "rejected")
  /\ UNCHANGED <<maintenance, sent, spent>>

\* The timeout rule of the approval, applied by its worker.
AutoApprove(c) ==
  /\ approval[c].status = "pending" /\ approval[c].due /\ c \in AutoApproved
  /\ AwaitsApproval(c)
  /\ Approved(c)
  /\ UNCHANGED <<maintenance, sent, spent>>

\* By the same worker, or by a principal who decides too late.
Expire(c) ==
  /\ approval[c].status = "pending" /\ approval[c].due
  /\ IF AwaitsApproval(c) \/ PausedApproval(c)
       THEN Refused(c, "expired")
       ELSE /\ approval' = [approval EXCEPT ![c].status = "expired"]
            /\ PutStatus(c, IF call[c].status = "waiting_approval" THEN "denied"
                                                                   ELSE call[c].status)
            /\ PutRun(RunOf[c], IF call[c].status = "waiting_approval"
                                  THEN Release(run[RunOf[c]], c) ELSE run[RunOf[c]])
  /\ UNCHANGED <<maintenance, sent, spent>>

-----------------------------------------------------------------------------
(* Commands and signals.                                                   *)

Pause(r) ==
  /\ run[r].status \notin (Ended \union {"paused"})
  /\ Spend("command", MaxCommands)
  /\ PutRun(r, [run[r] EXCEPT !.status = "paused", !.pausedFrom = run[r].status])
  /\ UNCHANGED <<call, approval, maintenance, sent>>

ResumeQueued(r) ==
  /\ run[r].status = "paused"
  /\ PutRun(r, [run[r] EXCEPT !.pausedFrom = "none", !.status = "queued", !.on = NoCall])
  /\ UNCHANGED <<call, approval, maintenance, sent, spent>>
Resume(r) ==
  /\ run[r].status = "paused"
  /\ PutRun(r, [run[r] EXCEPT !.pausedFrom = "none",
                  !.status = IF run[r].pausedFrom \in Waits THEN run[r].pausedFrom ELSE "queued"])
  /\ UNCHANGED <<call, approval, maintenance, sent, spent>>

CancelKeeping(r) ==
  /\ run[r].status \notin Ended
  /\ PutRun(r, [run[r] EXCEPT !.status = "canceled", !.on = NoCall, !.pausedFrom = "none"])
  /\ call' = [c \in Calls |-> IF c = run[r].on THEN [call[c] EXCEPT !.status = "canceled"]
                                              ELSE call[c]]
  /\ UNCHANGED <<approval, maintenance, sent, spent>>
\* An approval the Run waits for is closed together with its call.
Cancel(r) ==
  /\ run[r].status \notin Ended
  /\ LET c == run[r].on
         held == c # NoCall /\ (AwaitsApproval(c) \/ PausedApproval(c))
                            /\ approval[c].status = "pending"
         R == [run[r] EXCEPT !.status = "canceled", !.on = NoCall, !.pausedFrom = "none"]
     IN IF held
          THEN /\ PutStatus(c, "canceled")
               /\ approval' = [approval EXCEPT ![c].status = "canceled"]
               /\ PutRun(r, Release(R, c))
          ELSE PutRun(r, R) /\ UNCHANGED <<call, approval>>
  /\ UNCHANGED <<maintenance, sent, spent>>

\* Guidance, or any other write that leaves the Run's wait alone.
Intervene(r) ==
  /\ run[r].status \notin Ended
  /\ Spend("command", MaxCommands)
  /\ PutRun(r, run[r])
  /\ UNCHANGED <<call, approval, maintenance, sent>>

\* The human, the credential or the account the Run waits for arrives.
Answer(r) ==
  /\ run[r].status = "waiting_for_event"
  /\ PutRun(r, [run[r] EXCEPT !.status = "queued"])
  /\ UNCHANGED <<call, approval, maintenance, sent, spent>>

BeginMaintenance ==
  /\ ~maintenance /\ Spend("command", MaxCommands) /\ maintenance' = TRUE
  /\ UNCHANGED <<run, call, approval, wk, sent>>
EndMaintenance ==
  /\ maintenance /\ maintenance' = FALSE
  /\ UNCHANGED <<run, call, approval, wk, sent, spent>>

-----------------------------------------------------------------------------
(* The action workers.                                                     *)

Mine(w) == call[wk[w].call].status = "running" /\ call[wk[w].call].owner = w
Goto(w, p) == wk' = [wk EXCEPT ![w].pc = p]
ToRecord(w, out, dispatched) ==
  wk' = [wk EXCEPT ![w].pc = "prepare", ![w].out = out, ![w].dispatched = dispatched]
AtWork(w, p) ==
  wk[w].pc = p /\ UNCHANGED <<run, call, approval, maintenance, spent>>

ClaimableReady(c) == ~maintenance /\ ~PausedOn(c) /\ call[c].status = "ready"
Claimable(c) ==
  /\ ~maintenance /\ ~PausedOn(c)
  /\ call[c].status = "ready" \/ (call[c].status = "running" /\ ~call[c].live)

ClaimUnmarked(w, c) ==
  /\ wk[w].pc = "idle" /\ Claimable(c)
  /\ call' = [call EXCEPT ![c].status = "running", ![c].owner = w, ![c].live = TRUE]
  /\ wk' = [wk EXCEPT ![w] = [Idle EXCEPT !.pc = "check", !.call = c]]
  /\ UNCHANGED <<run, approval, maintenance, sent, spent>>
Claim(w, c) ==
  /\ wk[w].pc = "idle" /\ Claimable(c)
  /\ call' = [call EXCEPT ![c].status = "running", ![c].owner = w, ![c].live = TRUE,
                          ![c].recovered = @ \/ call[c].status = "running"]
  /\ wk' = [wk EXCEPT ![w] = [Idle EXCEPT !.pc = "check", !.call = c]]
  /\ UNCHANGED <<run, approval, maintenance, sent, spent>>

CheckOwnerOnly(w) ==
  /\ AtWork(w, "check") /\ UNCHANGED sent
  /\ IF Owns(wk[w].call) THEN Goto(w, "resolve") ELSE ToRecord(w, "none", FALSE)
\* The first reading of the Run, before any authority is touched.
Check(w) ==
  /\ AtWork(w, "check") /\ UNCHANGED sent
  /\ LET c == wk[w].call IN
       IF ~Owns(c) \/ PausedOn(c) THEN ToRecord(w, "none", FALSE)
       ELSE IF call[c].recovered /\ c \notin Reads THEN ToRecord(w, "uncertain", TRUE)
       ELSE IF maintenance THEN ToRecord(w, "maintenance", FALSE)
       ELSE Goto(w, "resolve") \/ ToRecord(w, "error", FALSE)

\* The Skill, its input, the account and the credentials.
Resolve(w) ==
  /\ AtWork(w, "resolve") /\ UNCHANGED sent
  /\ Goto(w, "recheck") \/ ToRecord(w, "error", FALSE) \/ ToRecord(w, "parked", FALSE)

\* The second reading: the resolution may have taken long.
Recheck(w) ==
  /\ AtWork(w, "recheck") /\ UNCHANGED sent
  /\ LET c == wk[w].call IN
       IF maintenance THEN ToRecord(w, "maintenance", FALSE)
       ELSE IF ~Owns(c) \/ PausedOn(c) THEN ToRecord(w, "none", FALSE)
       ELSE Goto(w, "send")

Send(w) ==
  /\ AtWork(w, "send")
  /\ sent' = [sent EXCEPT ![wk[w].call] = @ + 1]
  /\ \E out \in {"ok", "human", "error"} : ToRecord(w, out, TRUE)

\* The outcome is computed from a fresh copy of the Run, under a lease that is
\* live when the clock is read; otherwise it is never recorded.
Prepare(w) ==
  /\ wk[w].pc = "prepare"
  /\ IF Mine(w) /\ call[wk[w].call].live
       THEN wk' = [wk EXCEPT ![w].pc = "commit", ![w].fresh = TRUE, ![w].tries = @ + 1]
       ELSE wk' = [wk EXCEPT ![w] = Idle]
  /\ UNCHANGED <<run, call, approval, maintenance, sent, spent>>

OutcomeStatus(w) == LET c == wk[w].call  out == wk[w].out IN
  IF wk[w].dispatched THEN IF out \in {"ok", "human"} THEN "succeeded" ELSE "failed"
  ELSE IF ~Owns(c) THEN "canceled"
  ELSE IF out # "parked" /\ (PausedOn(c) \/ out \in {"none", "maintenance"}) THEN "ready"
  ELSE "failed"

\* Where the Run that waits for the call goes.
Continuations(w) ==
  CASE wk[w].out = "human" -> {"waiting_for_event"}
    [] wk[w].out = "parked" -> {"waiting_for_event", "queued"}
    [] wk[w].out \in {"error", "uncertain"} /\ ~PausedOn(wk[w].call) -> {"queued", "failed"}
    [] OTHER -> {"queued"}

Budgeted(R, c, s, owned) ==
  IF s = "canceled" THEN Release(R, c)
  ELSE IF s \in Closed /\ (c \in R.reserved \/ owned) THEN Settle(R, c) ELSE R

\* The outcome and the Run it continues, in one transaction; the Run is written
\* only when it changes.
Commit(w) ==
  /\ wk[w].pc = "commit" /\ wk[w].fresh /\ Mine(w)
  /\ LET c == wk[w].call  r == RunOf[c]  s == OutcomeStatus(w)
     IN /\ call' = [call EXCEPT ![c].status = s, ![c].owner = NoWorker, ![c].live = FALSE]
        /\ \E next \in Continuations(w) :
             LET woken == IF ~Owns(c) \/ s = "ready" THEN run[r]
                          ELSE IF PausedOn(c) THEN [run[r] EXCEPT !.pausedFrom = next, !.on = NoCall]
                          ELSE [run[r] EXCEPT !.status = next, !.on = NoCall]
                 R == Budgeted(woken, c, s, Owns(c))
                 done == [wk EXCEPT ![w] = Idle]
             IN /\ run' = [run EXCEPT ![r] = R]
                /\ wk' = IF R = run[r] THEN done ELSE Written(r, done)
  /\ UNCHANGED <<approval, maintenance, sent, spent>>

RetryForever(w) ==
  /\ wk[w].pc = "commit" /\ (~wk[w].fresh \/ ~Mine(w))
  /\ wk' = IF Mine(w) THEN [wk EXCEPT ![w].pc = "prepare"] ELSE [wk EXCEPT ![w] = Idle]
  /\ UNCHANGED <<run, call, approval, maintenance, sent, spent>>
\* A revision conflict: try again while the call is still held.
Retry(w) ==
  /\ wk[w].pc = "commit" /\ (~wk[w].fresh \/ ~Mine(w))
  /\ wk' = IF Mine(w) /\ call[wk[w].call].live /\ wk[w].tries < PersistTries
             THEN [wk EXCEPT ![w].pc = "prepare"] ELSE [wk EXCEPT ![w] = Idle]
  /\ UNCHANGED <<run, call, approval, maintenance, sent, spent>>

\* The worker stops: its process, its store or its heartbeat failed.
Leave(w) ==
  /\ wk[w].pc # "idle"
  /\ IF Mine(w) /\ call[wk[w].call].live THEN Spend("loss", MaxLosses) ELSE UNCHANGED spent
  /\ wk' = [wk EXCEPT ![w] = Idle]
  /\ UNCHANGED <<run, call, approval, maintenance, sent>>

\* A lease runs out; that of a worker at work only if its heartbeat stalls.
Lapse(c) ==
  /\ call[c].status = "running" /\ call[c].live
  /\ IF wk[call[c].owner].call = c THEN Spend("lapse", MaxLapses) ELSE UNCHANGED spent
  /\ call' = [call EXCEPT ![c].live = FALSE]
  /\ UNCHANGED <<run, approval, maintenance, wk, sent>>

-----------------------------------------------------------------------------
Turn(r) == StartTurn(r) \/ EndTurn(r)
Propose(c) ==
  SuppressDuplicate(c) \/ Allow(c) \/ RequestApproval(c) \/ Deny(c) \/ Replay(c)
Resolution(c) == Decide(c) \/ AutoApprove(c) \/ Expire(c)
Operator(r) == Pause(r) \/ Resume(r) \/ Cancel(r) \/ Intervene(r)
Work(w) ==
  Check(w) \/ Resolve(w) \/ Recheck(w) \/ Send(w) \/ Prepare(w) \/ Commit(w) \/ Retry(w)

Next ==
  \/ \E r \in Runs : Turn(r) \/ Operator(r) \/ Answer(r)
  \/ \E c \in Calls : Propose(c) \/ DeadlinePasses(c) \/ Resolution(c) \/ Lapse(c)
  \/ \E w \in Workers : Work(w) \/ Leave(w)
  \/ \E w \in Workers, c \in Calls : Claim(w, c)
  \/ BeginMaintenance \/ EndMaintenance

Spec == Init /\ [][Next]_vars

\* Workers keep claiming and finish what they do, abandoned leases run out,
\* deadlines pass and their worker applies them, and a window closes.
Fairness ==
  /\ WF_vars(EndMaintenance)
  /\ \A c \in Calls : /\ WF_vars(\E w \in Workers : Claim(w, c))
                      /\ WF_vars(Lapse(c)) /\ WF_vars(DeadlinePasses(c))
                      /\ WF_vars(AutoApprove(c) \/ Expire(c))
  /\ \A w \in Workers : WF_vars(Work(w))

FairSpec == Spec /\ Fairness

-----------------------------------------------------------------------------
(* What the design promises.                                               *)

\* Where a call stands for its contract.
PhaseOf(c) == LET s == call[c].status IN
  CASE s = "absent" -> "none"
    [] s = "waiting_approval" -> "review"
    [] s \in {"ready", "running"} -> "admitted"
    [] s = "denied" \/ call[c].duplicate -> "refused"
    [] s = "canceled" /\ approval[c].status = "canceled" -> "refused"
    [] OTHER -> "closed"
Contract == INSTANCE ActionContract WITH phase <- [c \in Calls |-> PhaseOf(c)], sends <- sent

\* Approvals, leases, deferrals, recoveries, pauses and cancellations keep to
\* what ActionContract promises of every call.
ImplementsContract == Contract!Spec

Open == {"waiting_approval", "ready", "running"}

\* A change that may have reached its provider is never sent again: neither by
\* a worker that takes over the lease (action_worker.go:213) nor by one that
\* lost it.
SentOnce == \A c \in Calls \ Reads : sent[c] <= 1

\* A reviewed call leaves for the provider only under an approval, whatever
\* expired, was canceled or was decided meanwhile.
SentWithApproval ==
  \A c \in Reviewed : sent[c] > 0 => approval[c].status = "approved"

\* A Run, also a paused one, waits only for what can still answer it: an open
\* call, or a pending approval of a call that waits for it.
WaitIsLive ==
  \A c \in Calls :
    LET r == run[RunOf[c]]
        waits(s) == r.on = c /\ (r.status = s \/ (r.status = "paused" /\ r.pausedFrom = s))
    IN /\ waits("waiting_for_dependency") => call[c].status \in {"ready", "running"}
       /\ waits("waiting_for_approval") =>
            call[c].status = "waiting_approval" /\ approval[c].status = "pending"

\* Capacity is held for exactly the open calls of a Run, and what was settled
\* and what is held never exceed its budget.
ActionBudgetHeld ==
  HasBudget => \A r \in Runs :
    /\ run[r].reserved = {c \in Calls : RunOf[c] = r /\ call[c].status \in Open}
    /\ run[r].actions + Cardinality(run[r].reserved) <= ActionLimit

\* A recorded outcome and a decision stand, and a Run leaves its wait for a call
\* only when the call is closed or the Run is canceled: a late result never
\* wakes a newer continuation.
OutcomesStand ==
  [][\A c \in Calls :
       /\ call[c].status \in Closed => call'[c].status = call[c].status
       /\ approval[c].status \in Decisions => approval'[c].status = approval[c].status
       /\ run[RunOf[c]].on = c /\ run'[RunOf[c]].on # c =>
            call'[c].status \in Closed \/ run'[RunOf[c]].status = "canceled"]_vars

\* Under the workers' fairness a Run that waits for an action or its approval
\* gets an answer, unless an operator holds it.
RunContinues ==
  \A c \in Calls :
    (run[RunOf[c]].on = c) ~> (run[RunOf[c]].on # c \/ run[RunOf[c]].status = "paused")

\* An external operation goes out a second time only after the first call was
\* recorded as failed, which tells the model to verify it.
OperationNotRepeated ==
  \A c, d \in Claimants :
    c # d /\ sent[c] > 0 /\ sent[d] > 0 =>
      call[c].status = "failed" \/ call[d].status = "failed"
=============================================================================
