------------------------------ MODULE Requests ------------------------------
(***************************************************************************)
(* Delegation: a source Run asks an Agent or a Team for work and waits,    *)
(* the recipient accepts, rejects or asks back, accepted work is a child   *)
(* Run, and what the child ends with - after an independent review, where  *)
(* the Team's policy wants one - ends the request and wakes the source.    *)
(* A handoff transfers the work instead: the source ends when the handoff  *)
(* is accepted, and its child lives on.                                    *)
(*                                                                         *)
(* Every operation below is one compare-and-swap of the request, its       *)
(* source and its child, and is refused when the source is not where the   *)
(* operation expects it.  What comes before and after is not atomic: the   *)
(* recipient's decision Runs, the child and the reviewers' Runs end at any *)
(* time, and their ends are resolved by the worker that ended them or by a *)
(* later pass over the inbox and the terminal Runs.  A decision Run of an  *)
(* earlier revision of a request changes nothing and is not represented;   *)
(* the answer of one and its recording are one step.                       *)
(***************************************************************************)
EXTENDS Naturals, FiniteSets, Sequences

CONSTANTS
  MaxRequests,       \* model bound: requests of the source
  MaxClarifications, \* model bound: questions a recipient asks back
  MaximumConcurrent, \* Team policy: active delegations at a time
  Reviewers,         \* agents that may review a completion, asked in the order of their names
  Quorum,            \* Team policy: equal verdicts that decide a review
  Escalates,         \* Team policy: EscalateOnDisagreement
  MaxOperations      \* model bound: pauses and cancellations by operators

VARIABLES
  source,  \* the Run that delegates
  request, \* its requests, in the order they were made, each with its child and reviews
  spent    \* what has been used of the model's bounds

vars == <<source, request, spent>>

Ended == {"completed", "failed", "canceled"}
SourceStatus == {"queued", "running", "paused", "waiting_for_agent", "waiting_for_dependency"} \union Ended
Active == {"pending", "clarification_requested", "accepted", "completion_review"}
RequestStatus == Active \union {"rejected"} \union Ended
ChildStatus == {"none", "active"} \union Ended
Verdicts == {"none", "asked", "approve", "reject"}

Sources == [status : SourceStatus, pausedFrom : SourceStatus \union {"none"}, on : 0 .. MaxRequests]
RequestRecords == [kind : {"request", "handoff"}, reviewed : BOOLEAN, status : RequestStatus,
                   child : ChildStatus, verdict : [Reviewers -> Verdicts], disagreement : BOOLEAN]

\* RequestsTypeOK: the records are well-formed, and what exists of a request fits
\* its status: a child from its acceptance on, verdicts from its completion on.
RequestsTypeOK ==
  /\ source \in Sources
  /\ request \in Seq(RequestRecords) /\ Len(request) <= MaxRequests
  /\ spent \in [{"clarification", "operation"} -> Nat]
  /\ \A r \in DOMAIN request :
       /\ request[r].status \in {"accepted", "completion_review", "completed"} => request[r].child # "none"
       /\ (\E v \in Reviewers : request[r].verdict[v] # "none") => request[r].child = "completed"

Init ==
  /\ source = [status |-> "running", pausedFrom |-> "none", on |-> 0]
  /\ request = << >> /\ spent = [b \in {"clarification", "operation"} |-> 0]

Requests == DOMAIN request
Is(r, S) == request[r].status \in S
Transfers(r) == request[r].kind = "handoff" /\ ~request[r].reviewed

-----------------------------------------------------------------------------
(* What the operations require of the source, and make of it.              *)

CanStart == source.status \in {"queued", "running"} /\ source.on = 0
AwaitsDecision(r) == source.status = "waiting_for_agent" /\ source.on = r
AwaitsResult(r) == source.status = "waiting_for_dependency" /\ source.on = r

Moved(s, r) == source' = [source EXCEPT !.status = s, !.on = r]
Resumed(r) == AwaitsDecision(r) /\ Moved("queued", 0)

\* As if only a source that waits were returned to.
ReturnedIfWaiting(r, s) == AwaitsResult(r) /\ Moved(s, 0)

\* The source of a request that is over: it waited for the result, or had handed it off.
\* s is where a wait ends.
Returned(r, s) ==
  \/ AwaitsResult(r) /\ Moved(s, 0)
  \/ source.status = "completed" /\ UNCHANGED source
AfterResult(r) == IF request[r].kind = "handoff" THEN "completed" ELSE "queued"

Set(r, R) == request' = [request EXCEPT ![r] = R]
To(r, s) == Set(r, [request[r] EXCEPT !.status = s])
Use(b, max) == spent[b] < max /\ spent' = [spent EXCEPT ![b] = @ + 1]

-----------------------------------------------------------------------------
(* Asking and answering.                                                   *)

CreateAgentRequest(kind, reviewed) ==
  /\ CanStart /\ Len(request) < MaxRequests
  /\ Cardinality({r \in Requests : Is(r, Active)}) < MaximumConcurrent
  /\ request' = Append(request,
       [kind |-> kind, reviewed |-> reviewed, status |-> "pending", child |-> "none",
        verdict |-> [v \in Reviewers |-> "none"], disagreement |-> FALSE])
  /\ Moved("waiting_for_agent", Len(request) + 1)
  /\ UNCHANGED spent

ProvideClarification(r) ==
  /\ Is(r, {"clarification_requested"}) /\ CanStart
  /\ To(r, "pending") /\ Moved("waiting_for_agent", r)
  /\ UNCHANGED spent

RequestClarification(r) ==
  /\ Is(r, {"pending"}) /\ Use("clarification", MaxClarifications)
  /\ Resumed(r) /\ To(r, "clarification_requested")

\* As if the source's state did not matter.
RejectUnheard(r) ==
  /\ Is(r, {"pending", "clarification_requested"})
  /\ source' = IF AwaitsDecision(r) THEN [source EXCEPT !.status = "queued", !.on = 0] ELSE source
  /\ To(r, "rejected")
  /\ UNCHANGED spent

Reject(r) ==
  /\ Is(r, {"pending", "clarification_requested"})
  /\ Resumed(r) /\ To(r, "rejected")
  /\ UNCHANGED spent

\* The recipient, or the policy that authorized the request beforehand, takes the work.
Accept(r) ==
  /\ Is(r, {"pending", "clarification_requested"})
  /\ AwaitsDecision(r) \/ CanStart
  /\ Set(r, [request[r] EXCEPT !.status = "accepted", !.child = "active"])
  /\ IF Transfers(r) THEN Moved("completed", 0) ELSE Moved("waiting_for_dependency", r)
  /\ UNCHANGED spent

\* The decision Run failed, or was canceled, without an answer.  A source that does
\* not wait at that moment, be it paused or ended, is left as it is.
FailDecisionReview(r, s) ==
  /\ Is(r, {"pending"})
  /\ To(r, s)
  /\ IF AwaitsDecision(r) THEN Moved("queued", 0) ELSE UNCHANGED source
  /\ UNCHANGED spent

-----------------------------------------------------------------------------
(* Working and reviewing.                                                  *)

ChildEnds(r, s) ==
  /\ request[r].child = "active"
  /\ Set(r, [request[r] EXCEPT !.child = s])
  /\ UNCHANGED <<source, spent>>

\* The recipient reports completion, or the child's end does; it completes the child.
CompleteAgentRequest(r) ==
  /\ Is(r, {"accepted"}) /\ request[r].child \in {"active", "completed"}
  /\ Set(r, [request[r] EXCEPT !.child = "completed",
               !.status = IF request[r].reviewed THEN "completion_review" ELSE "completed"])
  /\ IF request[r].reviewed THEN UNCHANGED source ELSE Returned(r, AfterResult(r))
  /\ UNCHANGED spent

ResolveTerminalChild(r) ==
  /\ Is(r, {"accepted"}) /\ request[r].child \in {"failed", "canceled"}
  /\ To(r, request[r].child) /\ Returned(r, "queued")
  /\ UNCHANGED spent

\* As if a disagreement changed nothing.
WantedAlways(r) == Quorum

\* The policy asks the first of the eligible reviewers, one more after a disagreement.
Wanted(r) == Quorum + (IF request[r].disagreement THEN 1 ELSE 0)
Unasked(r) == {v \in Reviewers : v <= Wanted(r) /\ request[r].verdict[v] = "none"}
Reviewing(r) == {v \in Reviewers : request[r].verdict[v] = "asked"}

AskReviewers(r) ==
  /\ Is(r, {"completion_review"}) /\ Unasked(r) # {}
  /\ Set(r, [request[r] EXCEPT !.verdict =
               [v \in Reviewers |-> IF v \in Unasked(r) THEN "asked" ELSE @[v]]])
  /\ UNCHANGED <<source, spent>>

Count(V, x) == Cardinality({v \in Reviewers : V[v] = x})

\* A review Run that did not complete counts as a rejection.  A verdict that comes
\* back after a disagreement resolves it, if it makes a quorum.
ReviewCompletion(r, v, x) ==
  LET V == [request[r].verdict EXCEPT ![v] = x]
      split == /\ Escalates /\ ~request[r].disagreement
               /\ Count(V, "approve") > 0 /\ Count(V, "reject") > 0
      voted == [request[r] EXCEPT !.verdict = V]
  IN /\ Is(r, {"completion_review"}) /\ v \in Reviewing(r)
     /\ CASE split \/ (Count(V, "approve") < Quorum /\ Count(V, "reject") < Quorum) ->
               Set(r, [voted EXCEPT !.disagreement = split]) /\ UNCHANGED source
          [] ~split /\ Count(V, "approve") >= Quorum ->
               /\ Set(r, [voted EXCEPT !.status = "completed", !.disagreement = FALSE])
               /\ Returned(r, AfterResult(r))
          [] OTHER ->
               /\ Set(r, [voted EXCEPT !.status = "failed", !.disagreement = FALSE])
               /\ Returned(r, "queued")
     /\ UNCHANGED spent

-----------------------------------------------------------------------------
(* The source's own Turns, operators, and the cascade below an ended Run.  *)

Start ==
  /\ source.status = "queued" /\ Moved("running", 0)
  /\ UNCHANGED <<request, spent>>

Finish(s) ==
  /\ source.status = "running" /\ Moved(s, 0)
  /\ UNCHANGED <<request, spent>>

Pause ==
  /\ source.status \notin Ended \union {"paused"} /\ Use("operation", MaxOperations)
  /\ source' = [source EXCEPT !.status = "paused", !.pausedFrom = source.status]
  /\ UNCHANGED request

Resume ==
  /\ source.status = "paused"
  /\ source' = [source EXCEPT !.pausedFrom = "none",
                  !.status = IF source.on # 0 THEN source.pausedFrom ELSE "queued"]
  /\ UNCHANGED <<request, spent>>

Cancel ==
  /\ source.status \notin Ended /\ Use("operation", MaxOperations)
  /\ source' = [source EXCEPT !.status = "canceled", !.pausedFrom = "none", !.on = 0]
  /\ UNCHANGED request

CancelChild(r) ==
  /\ request[r].child = "active" /\ Use("operation", MaxOperations)
  /\ Set(r, [request[r] EXCEPT !.child = "canceled"])
  /\ UNCHANGED source

\* As if only a finished handoff owned its child.
OwnsChildWhenFinished(r) == source.status = "completed" /\ Transfers(r) /\ Is(r, {"completed"})
\* An accepted handoff owns its child: the end of the source does not reach it.
OwnsChild(r) == source.status = "completed" /\ Transfers(r) /\ Is(r, {"accepted", "completed"})

Cascade(r) ==
  /\ source.status \in Ended /\ request[r].child = "active" /\ ~OwnsChild(r)
  /\ Set(r, [request[r] EXCEPT !.child = "canceled"])
  /\ UNCHANGED <<source, spent>>

-----------------------------------------------------------------------------

Answer(r) ==
  \/ RequestClarification(r) \/ Reject(r) \/ Accept(r)
  \/ \E s \in {"failed", "canceled"} : FailDecisionReview(r, s)
Resolve(r) == CompleteAgentRequest(r) \/ ResolveTerminalChild(r)
Review(r) == AskReviewers(r) \/ \E v \in Reviewers, x \in {"approve", "reject"} : ReviewCompletion(r, v, x)

Next ==
  \/ \E kind \in {"request", "handoff"}, reviewed \in BOOLEAN : CreateAgentRequest(kind, reviewed)
  \/ \E r \in Requests :
       \/ ProvideClarification(r) \/ Answer(r) \/ Resolve(r) \/ Review(r)
       \/ CancelChild(r) \/ Cascade(r) \/ \E s \in {"completed", "failed"} : ChildEnds(r, s)
  \/ Start \/ Pause \/ Resume \/ Cancel \/ \E s \in {"completed", "failed"} : Finish(s)

Spec == Init /\ [][Next]_vars

\* Decision Runs, children and review Runs end (a claimed Run progresses), and every
\* pass over the inbox and the terminal Runs looks at them again; operators interfere
\* a bounded number of times.
Fairness ==
  \A r \in 1 .. MaxRequests :
    /\ WF_vars(r \in Requests /\ AwaitsDecision(r) /\ Answer(r))
    /\ WF_vars(r \in Requests /\ \E s \in {"completed", "failed"} : ChildEnds(r, s))
    /\ WF_vars(r \in Requests /\ Resolve(r))
    /\ WF_vars(r \in Requests /\ Review(r))

FairSpec == Spec /\ Fairness

-----------------------------------------------------------------------------
(* What the design promises.                                               *)

\* WaitMatchesRequest: a source that lives waits, through pauses, exactly for its one
\* request that is not answered, or not finished, and for none that is: whatever
\* arrives late finds the source where it expects it or is refused.  The one gap of
\* the code is part of the statement: a review that ended without an answer while the
\* source was paused (agent_request_inbox.go:877) leaves it waiting.
WaitMatchesRequest ==
  LET waits(s) == source.status = s \/ (source.status = "paused" /\ source.pausedFrom = s)
      unanswered(r) == Is(r, {"failed", "canceled"}) /\ request[r].child = "none"
  IN \A r \in Requests :
       /\ Is(r, {"pending"}) /\ source.status \notin Ended => source.on = r /\ waits("waiting_for_agent")
       /\ Is(r, {"accepted", "completion_review"}) /\ source.status \notin Ended =>
            source.on = r /\ waits("waiting_for_dependency")
       /\ source.on = r => Is(r, {"pending", "accepted", "completion_review"}) \/ unanswered(r)

\* HandoffSurvives: work that was handed off does not die with the Run that handed it
\* off, which ends first: only a command to the child itself cancels it.
HandoffSurvives ==
  [][\A r \in Requests :
       Transfers(r) /\ request[r].child = "active" /\ request'[r].child = "canceled"
       => spent'["operation"] > spent["operation"]]_vars

\* WaitsEnd: a source that waits for an answer, for a result or for its review gets it,
\* and handed-off work is recorded when it ends, although a pause may refuse all of it.
WaitsEnd ==
  []<>(\A r \in Requests :
         /\ ~(Is(r, {"pending"}) /\ AwaitsDecision(r))
         /\ ~AwaitsResult(r)
         /\ ~(Is(r, {"accepted"}) /\ Transfers(r)))

\* ReviewConcludes: "Conflicting decisions create an explicit disagreement checkpoint; an
\* additional independent reviewer resolves it" (team-coordination.md:48-49): as long as
\* a completion is under review, somebody has been or will be asked whose verdict is out.
ReviewConcludes ==
  \A r \in Requests : Is(r, {"completion_review"}) => Unasked(r) \union Reviewing(r) # {}
=============================================================================
