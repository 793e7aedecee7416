--------------------------- MODULE RequestsProofs ---------------------------
(***************************************************************************)
(* Theorems about Requests for any number of requests, reviewers and       *)
(* operations and any policy.                                              *)
(*                                                                         *)
(* Inv strengthens WaitMatchesRequest by what the guards of the operations *)
(* stand on: a Run that is about to work, or has ended, waits for nothing; *)
(* a child lives under an accepted request only; and the source of an      *)
(* accepted handoff has completed.  Reviews adds what ReviewConcludes      *)
(* needs of the verdicts collected so far.                                 *)
(***************************************************************************)
EXTENDS Requests, FiniteSetTheorems, TLAPS

\* S stands at s, or did when it was paused.
Stands(S, s) == S.status = s \/ (S.status = "paused" /\ S.pausedFrom = s)

\* A source that waits, also through a pause, waits for an answer or for a result.
SourceFits(S) == S.on # 0 => Stands(S, "waiting_for_agent") \/ Stands(S, "waiting_for_dependency")

\* Only pending, accepted and reviewed requests hold their source, and one that
\* failed without an answer while the source was paused.
KeepsSource(R) ==
  \/ R.status \in {"pending", "accepted", "completion_review"}
  \/ R.status \in {"failed", "canceled"} /\ R.child = "none"

\* What request r, which is R, says of its source S.
WaitFits(r, R, S) ==
  /\ R.status = "pending" /\ S.status \notin Ended => S.on = r /\ Stands(S, "waiting_for_agent")
  /\ R.status \in {"accepted", "completion_review"} /\ S.status \notin Ended =>
       S.on = r /\ Stands(S, "waiting_for_dependency")
  /\ S.on = r => KeepsSource(R)
  /\ R.kind = "handoff" /\ ~R.reviewed /\ R.status = "accepted" => S.status = "completed"

\* What it says of its child and its verdicts.
ChildFits(R) ==
  /\ R.child = "active" => R.status = "accepted"
  /\ R.status = "accepted" => R.child # "none"
  /\ R.status \in {"pending", "clarification_requested", "rejected"} => R.child = "none"
  /\ R.status \in {"completion_review", "completed"} => R.child = "completed"
  /\ (\E v \in Reviewers : R.verdict[v] # "none") => R.child = "completed"

RequestFits(r, R, S) == WaitFits(r, R, S) /\ ChildFits(R)

RequestShapes ==
  /\ source \in Sources /\ request \in Seq(RequestRecords) /\ Len(request) <= MaxRequests
  /\ spent \in [{"clarification", "operation"} -> Nat]

Inv == RequestShapes /\ SourceFits(source) /\ \A r \in Requests : RequestFits(r, request[r], source)

-----------------------------------------------------------------------------
(* Steps in general.                                                       *)

\* One request and its source are written, the others agree with the source.
LEMMA Update ==
  ASSUME Inv, NEW r \in Requests, NEW R \in RequestRecords,
         request' = [request EXCEPT ![r] = R],
         source' \in Sources, SourceFits(source'), RequestFits(r, R, source'),
         \A q \in Requests \ {r} : WaitFits(q, request[q], source'),
         spent' \in [{"clarification", "operation"} -> Nat]
  PROVE  Inv'
<1>1. request \in Seq(RequestRecords) /\ r \in 1 .. Len(request)
  BY DEF Inv, RequestShapes, Requests
<1>2. /\ request' \in Seq(RequestRecords) /\ Len(request') = Len(request)
      /\ \A q \in 1 .. Len(request) : request'[q] = IF q = r THEN R ELSE request[q]
  BY <1>1
<1>3. RequestShapes'
  BY <1>2 DEF Inv, RequestShapes
<1>4. \A q \in Requests : ChildFits(request[q])
  BY DEF Inv, RequestFits
<1>5. DOMAIN request = 1 .. Len(request) /\ DOMAIN request' = 1 .. Len(request)
  BY <1>1, <1>2
<1>6. ASSUME NEW q \in DOMAIN request' PROVE RequestFits(q, request'[q], source')
  <2>1. CASE q = r
    BY <2>1, <1>2, <1>5
  <2>2. CASE q # r
    <3>1. request'[q] = request[q] /\ q \in Requests \ {r}
      BY <2>2, <1>2, <1>5 DEF Requests
    <3> QED
      BY <3>1, <1>4 DEF RequestFits
  <2> QED
    BY <2>1, <2>2
<1>7. SourceFits(source)'
  BY DEF SourceFits, Stands
<1>8. \A q \in Requests' : RequestFits(q, request[q], source)'
  BY <1>6 DEF Requests, RequestFits, WaitFits, ChildFits, KeepsSource, Stands
<1> QED
  BY <1>3, <1>7, <1>8 DEF Inv

\* Requests the source does not wait for ask nothing of one that moves.
LEMMA OthersFit ==
  ASSUME Inv, NEW r, NEW S \in Sources, source.on \in {0, r}, S.on \in {0, r},
         S.status \notin Ended => source.status \notin Ended,
         source.status = "completed" => S.status = "completed"
  PROVE  \A q \in Requests \ {r} : WaitFits(q, request[q], S)
<1> SUFFICES ASSUME NEW q \in Requests \ {r} PROVE WaitFits(q, request[q], S)
  OBVIOUS
<1>1. WaitFits(q, request[q], source)
  BY DEF Inv, RequestFits
<1>2. q # 0
  BY DEF Inv, RequestShapes, Requests
<1> QED
  BY <1>1, <1>2 DEF WaitFits

\* A request is written, and the source stays.
LEMMA UpdateRequest ==
  ASSUME Inv, NEW r \in Requests, NEW R \in RequestRecords, Set(r, R), UNCHANGED source,
         RequestFits(r, R, source), spent' \in [{"clarification", "operation"} -> Nat]
  PROVE  Inv'
<1>1. source \in Sources /\ SourceFits(source) /\ \A q \in Requests : WaitFits(q, request[q], source)
  BY DEF Inv, RequestShapes, RequestFits
<1> QED
  BY <1>1, Update DEF Set

\* The source moves from or to the request that is written.
LEMMA UpdateBoth ==
  ASSUME Inv, NEW r \in Requests, NEW R \in RequestRecords, NEW S \in Sources,
         Set(r, R), source' = S, source.on \in {0, r}, S.on \in {0, r}, SourceFits(S),
         S.status \notin Ended => source.status \notin Ended,
         source.status = "completed" => S.status = "completed",
         RequestFits(r, R, S), spent' \in [{"clarification", "operation"} -> Nat]
  PROVE  Inv'
<1>1. \A q \in Requests \ {r} : WaitFits(q, request[q], S)
  BY OthersFit
<1> QED
  BY <1>1, Update DEF Set

\* The source moves, and every request agrees with where it goes.
LEMMA UpdateSource ==
  ASSUME Inv, NEW S \in Sources, source' = S, UNCHANGED request, SourceFits(S),
         \A q \in Requests : WaitFits(q, request[q], S),
         spent' \in [{"clarification", "operation"} -> Nat]
  PROVE  Inv'
<1>1. RequestShapes' /\ SourceFits(source)'
  BY DEF Inv, RequestShapes, SourceFits, Stands
<1>2. \A q \in Requests : RequestFits(q, request[q], S)
  BY DEF Inv, RequestFits
<1>3. \A q \in Requests' : RequestFits(q, request[q], source)'
  BY <1>2 DEF Requests, RequestFits, WaitFits, ChildFits, KeepsSource, Stands
<1> QED
  BY <1>1, <1>3 DEF Inv

\* What a step may rely on of the request it is about.
LEMMA RequestFacts ==
  ASSUME Inv, MaxRequests \in Nat, NEW r \in Requests
  PROVE  /\ request[r] \in RequestRecords /\ r # 0 /\ r \in 0 .. MaxRequests
         /\ source \in Sources /\ SourceFits(source)
         /\ WaitFits(r, request[r], source) /\ ChildFits(request[r])
         /\ spent \in [{"clarification", "operation"} -> Nat]
<1>1. request \in Seq(RequestRecords) /\ Len(request) <= MaxRequests /\ r \in 1 .. Len(request)
  BY DEF Inv, RequestShapes, Requests
<1>2. request[r] \in RequestRecords /\ r # 0 /\ r \in 0 .. MaxRequests
  BY <1>1
<1> QED
  BY <1>2 DEF Inv, RequestShapes, RequestFits

LEMMA UseFacts ==
  ASSUME Inv, NEW b \in {"clarification", "operation"}, NEW max, Use(b, max)
  PROVE  /\ spent' \in [{"clarification", "operation"} -> Nat]
         /\ b = "operation" => spent'["operation"] > spent["operation"]
BY DEF Inv, RequestShapes, Use

\* Where an operation may send the source.
LEMMA MovedSource ==
  ASSUME Inv, NEW s \in SourceStatus, NEW n \in 0 .. MaxRequests, Moved(s, n)
  PROVE  /\ source' \in Sources /\ source'.status = s /\ source'.on = n
         /\ source'.pausedFrom = source.pausedFrom
BY DEF Inv, RequestShapes, Moved, Sources

-----------------------------------------------------------------------------
(* Asking and answering.                                                   *)

LEMMA CreateSafe ==
  ASSUME Inv, MaxRequests \in Nat, NEW kind \in {"request", "handoff"}, NEW reviewed \in BOOLEAN,
         CreateAgentRequest(kind, reviewed)
  PROVE  Inv'
<1> DEFINE n == Len(request) + 1
           R == [kind |-> kind, reviewed |-> reviewed, status |-> "pending", child |-> "none",
                 verdict |-> [v \in Reviewers |-> "none"], disagreement |-> FALSE]
<1>1. /\ request \in Seq(RequestRecords) /\ Len(request) \in Nat /\ Len(request) < MaxRequests
      /\ request' = Append(request, R) /\ UNCHANGED spent
      /\ CanStart /\ Moved("waiting_for_agent", n)
  BY DEF CreateAgentRequest, Inv, RequestShapes
<1>2. R \in RequestRecords
  BY DEF RequestRecords, RequestStatus, Active, ChildStatus, Verdicts
<1>3. ChildFits(R) /\ R.status = "pending" /\ KeepsSource(R)
  BY DEF ChildFits, KeepsSource
<1> HIDE DEF R
<1>4. /\ request' \in Seq(RequestRecords) /\ Len(request') = n /\ request'[n] = R
      /\ \A q \in 1 .. Len(request) : request'[q] = request[q]
  BY <1>1, <1>2
<1>5. n \in 0 .. MaxRequests /\ "waiting_for_agent" \in SourceStatus
  BY <1>1 DEF SourceStatus
<1>6. /\ source' \in Sources /\ source'.status = "waiting_for_agent" /\ source'.on = n
  BY <1>1, <1>5, MovedSource
<1>7. source.on = 0 /\ source.status \in {"queued", "running"}
  BY <1>1 DEF CanStart
<1>8. \A q \in Requests \ {n} : WaitFits(q, request[q], source')
  <2>1. source'.on \in {0, n} /\ source.on \in {0, n} /\ source.status \notin Ended
    BY <1>6, <1>7 DEF Ended
  <2>2. source.status = "completed" => source'.status = "completed"
    BY <1>7
  <2> QED
    BY <1>6, <2>1, <2>2, OthersFit
<1>9. RequestFits(n, R, source')
  BY <1>3, <1>6 DEF RequestFits, WaitFits, Stands, Ended
<1>10. RequestShapes' /\ SourceFits(source)'
  BY <1>1, <1>4, <1>6 DEF Inv, RequestShapes, SourceFits, Stands
<1>11. ASSUME NEW q \in 1 .. n PROVE RequestFits(q, request'[q], source')
  <2>1. CASE q = n
    BY <2>1, <1>4, <1>9
  <2>2. CASE q # n
    <3>1. q \in Requests \ {n} /\ request'[q] = request[q]
      BY <1>1, <1>4, <2>2 DEF Requests
    <3>2. ChildFits(request[q])
      BY <3>1 DEF Inv, RequestFits
    <3> QED
      BY <1>8, <3>1, <3>2 DEF RequestFits
  <2> QED
    BY <2>1, <2>2
<1>12. Requests' = 1 .. n
  BY <1>4 DEF Requests
<1>13. \A q \in Requests' : RequestFits(q, request[q], source)'
  BY <1>11, <1>12 DEF RequestFits, WaitFits, ChildFits, KeepsSource, Stands
<1> QED
  BY <1>10, <1>13 DEF Inv

\* The source is released from, or moved to, the wait for r, whose status changes.
LEMMA StatusRecord ==
  ASSUME NEW R \in RequestRecords, NEW s \in RequestStatus
  PROVE  /\ [R EXCEPT !.status = s] \in RequestRecords
         /\ [R EXCEPT !.status = s].status = s
         /\ [R EXCEPT !.status = s].child = R.child /\ [R EXCEPT !.status = s].kind = R.kind
         /\ [R EXCEPT !.status = s].reviewed = R.reviewed
         /\ [R EXCEPT !.status = s].verdict = R.verdict
BY DEF RequestRecords

LEMMA ProvideSafe ==
  ASSUME Inv, MaxRequests \in Nat, NEW r \in Requests, ProvideClarification(r)
  PROVE  Inv'
<1> DEFINE R == [request[r] EXCEPT !.status = "pending"]
<1>1. /\ request[r].status = "clarification_requested" /\ CanStart /\ Set(r, R)
      /\ Moved("waiting_for_agent", r) /\ UNCHANGED spent
  BY DEF ProvideClarification, Is, To
<1>2. /\ R \in RequestRecords /\ R.status = "pending" /\ R.child = request[r].child
      /\ R.verdict = request[r].verdict
  BY RequestFacts, StatusRecord, ZenonT(40) DEF RequestStatus, Active
<1>3. source' \in Sources /\ source'.status = "waiting_for_agent" /\ source'.on = r
  BY <1>1, RequestFacts, MovedSource DEF SourceStatus
<1> HIDE DEF R
<1>4. RequestFits(r, R, source')
  BY <1>1, <1>2, <1>3, RequestFacts DEF RequestFits, WaitFits, ChildFits, KeepsSource, Stands, Ended
<1>5. source.on \in {0, r} /\ source.status \notin Ended /\ source.status # "completed"
  BY <1>1 DEF CanStart, Ended
<1> QED
  BY <1>1, <1>2, <1>3, <1>4, <1>5, RequestFacts, UpdateBoth DEF SourceFits, Stands

LEMMA ClarifySafe ==
  ASSUME Inv, MaxRequests \in Nat, NEW r \in Requests, RequestClarification(r)
  PROVE  Inv'
<1> DEFINE R == [request[r] EXCEPT !.status = "clarification_requested"]
<1>1. /\ request[r].status = "pending" /\ AwaitsDecision(r) /\ Set(r, R)
      /\ Moved("queued", 0) /\ Use("clarification", MaxClarifications)
  BY DEF RequestClarification, Is, To, Resumed
<1>2. /\ R \in RequestRecords /\ R.status = "clarification_requested" /\ R.child = request[r].child
      /\ R.verdict = request[r].verdict
  BY RequestFacts, StatusRecord DEF RequestStatus, Active
<1>3. source' \in Sources /\ source'.status = "queued" /\ source'.on = 0
  BY <1>1, MovedSource DEF SourceStatus
<1> HIDE DEF R
<1>4. RequestFits(r, R, source')
  BY <1>1, <1>2, <1>3, RequestFacts DEF RequestFits, WaitFits, ChildFits, KeepsSource, Stands, Ended
<1>5. source.on \in {0, r} /\ source.status \notin Ended /\ source.status # "completed"
  BY <1>1 DEF AwaitsDecision, Ended
<1> QED
  BY <1>1, <1>2, <1>3, <1>4, <1>5, UseFacts, UpdateBoth DEF SourceFits, Stands

LEMMA RejectSafe ==
  ASSUME Inv, MaxRequests \in Nat, NEW r \in Requests, Reject(r)
  PROVE  Inv'
<1> DEFINE R == [request[r] EXCEPT !.status = "rejected"]
<1>1. /\ request[r].status \in {"pending", "clarification_requested"} /\ AwaitsDecision(r)
      /\ Set(r, R) /\ Moved("queued", 0) /\ UNCHANGED spent
  BY DEF Reject, Is, To, Resumed
<1>2. /\ R \in RequestRecords /\ R.status = "rejected" /\ R.child = request[r].child
      /\ R.verdict = request[r].verdict
  BY RequestFacts, StatusRecord DEF RequestStatus, Active
<1>3. source' \in Sources /\ source'.status = "queued" /\ source'.on = 0
  BY <1>1, MovedSource DEF SourceStatus
<1> HIDE DEF R
<1>4. RequestFits(r, R, source')
  BY <1>1, <1>2, <1>3, RequestFacts DEF RequestFits, WaitFits, ChildFits, KeepsSource, Stands, Ended
<1>5. source.on \in {0, r} /\ source.status \notin Ended /\ source.status # "completed"
  BY <1>1 DEF AwaitsDecision, Ended
<1> QED
  BY <1>1, <1>2, <1>3, <1>4, <1>5, RequestFacts, UpdateBoth DEF SourceFits, Stands

LEMMA AcceptSafe ==
  ASSUME Inv, MaxRequests \in Nat, NEW r \in Requests, Accept(r)
  PROVE  Inv'
<1> DEFINE R == [request[r] EXCEPT !.status = "accepted", !.child = "active"]
<1>1. /\ request[r].status \in {"pending", "clarification_requested"}
      /\ AwaitsDecision(r) \/ CanStart
      /\ Set(r, R) /\ UNCHANGED spent
      /\ IF Transfers(r) THEN Moved("completed", 0) ELSE Moved("waiting_for_dependency", r)
  BY DEF Accept, Is
<1>2. /\ R \in RequestRecords /\ R.status = "accepted" /\ R.child = "active"
      /\ R.kind = request[r].kind /\ R.reviewed = request[r].reviewed
      /\ R.verdict = request[r].verdict
  BY RequestFacts DEF RequestRecords, RequestStatus, Active, ChildStatus
<1>3. /\ source' \in Sources
      /\ IF Transfers(r) THEN source'.status = "completed" /\ source'.on = 0
                         ELSE source'.status = "waiting_for_dependency" /\ source'.on = r
  BY <1>1, RequestFacts, MovedSource DEF SourceStatus, Ended
<1> HIDE DEF R
<1>4. RequestFits(r, R, source')
  BY <1>1, <1>2, <1>3, RequestFacts
     DEF RequestFits, WaitFits, ChildFits, KeepsSource, Stands, Ended, Transfers
<1>5. source.on \in {0, r} /\ source.status \notin Ended /\ source.status # "completed"
  BY <1>1 DEF AwaitsDecision, CanStart, Ended
<1>6. source'.on \in {0, r} /\ SourceFits(source')
  BY <1>3 DEF SourceFits, Stands
<1> QED
  BY <1>1, <1>2, <1>3, <1>4, <1>5, <1>6, RequestFacts, UpdateBoth

LEMMA FailSafe ==
  ASSUME Inv, MaxRequests \in Nat, NEW r \in Requests, NEW s \in {"failed", "canceled"},
         FailDecisionReview(r, s)
  PROVE  Inv'
<1> DEFINE R == [request[r] EXCEPT !.status = s]
<1>1. /\ request[r].status = "pending" /\ Set(r, R) /\ UNCHANGED spent
      /\ IF AwaitsDecision(r) THEN Moved("queued", 0) ELSE UNCHANGED source
  BY DEF FailDecisionReview, Is, To
<1>2. /\ R \in RequestRecords /\ R.status = s /\ R.child = request[r].child
      /\ R.verdict = request[r].verdict
  BY RequestFacts, StatusRecord DEF RequestStatus, Ended
<1> HIDE DEF R
<1>3. CASE AwaitsDecision(r)
  <2>1. source' \in Sources /\ source'.status = "queued" /\ source'.on = 0
    BY <1>1, <1>3, MovedSource DEF SourceStatus
  <2>2. RequestFits(r, R, source')
    BY <1>1, <1>2, <2>1, RequestFacts DEF RequestFits, WaitFits, ChildFits, KeepsSource, Stands, Ended
  <2>3. source.on \in {0, r} /\ source.status \notin Ended /\ source.status # "completed"
    BY <1>3 DEF AwaitsDecision, Ended
  <2> QED
    BY <1>1, <1>2, <2>1, <2>2, <2>3, RequestFacts, UpdateBoth DEF SourceFits, Stands
<1>4. CASE ~AwaitsDecision(r)
  <2>1. RequestFits(r, R, source)
    BY <1>1, <1>2, RequestFacts DEF RequestFits, WaitFits, ChildFits, KeepsSource, Stands, Ended
  <2> QED
    BY <1>1, <1>2, <1>4, <2>1, RequestFacts, UpdateRequest
<1> QED
  BY <1>3, <1>4

-----------------------------------------------------------------------------
(* Working and reviewing.                                                  *)

\* The child and the verdicts change, and the request stays where it is.
LEMMA ChildRecord ==
  ASSUME NEW R \in RequestRecords, NEW s \in ChildStatus
  PROVE  /\ [R EXCEPT !.child = s] \in RequestRecords
         /\ [R EXCEPT !.child = s].status = R.status
         /\ [R EXCEPT !.child = s].child = s /\ [R EXCEPT !.child = s].kind = R.kind
         /\ [R EXCEPT !.child = s].reviewed = R.reviewed
         /\ [R EXCEPT !.child = s].verdict = R.verdict
BY DEF RequestRecords

\* The source of a request that is over: it is released, or had completed before.
LEMMA ReturnedSource ==
  ASSUME Inv, MaxRequests \in Nat, NEW r \in Requests, NEW s \in {"queued", "completed"},
         Returned(r, s)
  PROVE  /\ source' \in Sources /\ source.on \in {0, r} /\ source'.on = 0
         /\ SourceFits(source')
         /\ source'.status \notin Ended => source.status \notin Ended
         /\ source.status = "completed" => source'.status = "completed"
<1>1. CASE AwaitsResult(r) /\ Moved(s, 0)
  <2>1. source' \in Sources /\ source'.on = 0
    BY <1>1, MovedSource DEF SourceStatus, Ended
  <2> QED
    BY <1>1, <2>1 DEF AwaitsResult, SourceFits, Ended
<1>2. CASE source.status = "completed" /\ UNCHANGED source
  <2>1. source.on = 0
    BY <1>2, RequestFacts DEF SourceFits, Stands
  <2> QED
    BY <1>2, <2>1, RequestFacts DEF SourceFits
<1> QED
  BY <1>1, <1>2 DEF Returned

\* A request that is over, with its source returned.
LEMMA OverSafe ==
  ASSUME Inv, MaxRequests \in Nat, NEW r \in Requests, NEW R \in RequestRecords,
         Set(r, R), R.status \in Ended, R.child # "none", ChildFits(R),
         \E s \in {"queued", "completed"} : Returned(r, s), UNCHANGED spent
  PROVE  Inv'
<1>1. /\ source' \in Sources /\ source.on \in {0, r} /\ source'.on = 0
      /\ SourceFits(source')
      /\ source'.status \notin Ended => source.status \notin Ended
      /\ source.status = "completed" => source'.status = "completed"
  BY ReturnedSource
<1>2. RequestFits(r, R, source')
  BY <1>1, RequestFacts DEF RequestFits, WaitFits, Ended
<1> QED
  BY <1>1, <1>2, RequestFacts, UpdateBoth

LEMMA ChildMoves ==
  ASSUME Inv, MaxRequests \in Nat, NEW r \in Requests, NEW s \in Ended,
         request[r].child = "active", Set(r, [request[r] EXCEPT !.child = s]),
         UNCHANGED source, spent' \in [{"clarification", "operation"} -> Nat]
  PROVE  Inv'
<1> DEFINE R == [request[r] EXCEPT !.child = s]
<1>1. /\ R \in RequestRecords /\ R.status = request[r].status /\ R.child = s
      /\ R.kind = request[r].kind /\ R.reviewed = request[r].reviewed
      /\ R.verdict = request[r].verdict
  BY RequestFacts, ChildRecord DEF ChildStatus
<1>2. Set(r, R)
  OBVIOUS
<1> HIDE DEF R
<1>3. RequestFits(r, R, source)
  BY <1>1, RequestFacts DEF RequestFits, WaitFits, ChildFits, KeepsSource, Stands, Ended
<1> QED
  BY <1>1, <1>2, <1>3, UpdateRequest

LEMMA CompleteSafe ==
  ASSUME Inv, MaxRequests \in Nat, NEW r \in Requests, CompleteAgentRequest(r)
  PROVE  Inv'
<1> DEFINE t == IF request[r].reviewed THEN "completion_review" ELSE "completed"
           R == [request[r] EXCEPT !.child = "completed", !.status = t]
<1>1. /\ request[r].status = "accepted" /\ Set(r, R) /\ UNCHANGED spent
      /\ IF request[r].reviewed THEN UNCHANGED source ELSE Returned(r, AfterResult(r))
  BY DEF CompleteAgentRequest, Is
<1>2. t \in RequestStatus /\ "completed" \in ChildStatus
  BY DEF RequestStatus, Active, Ended, ChildStatus
<1>3. t = IF request[r].reviewed THEN "completion_review" ELSE "completed"
  OBVIOUS
<1> HIDE DEF t
<1>4. /\ R \in RequestRecords /\ R.status = t /\ R.child = "completed"
      /\ R.kind = request[r].kind /\ R.reviewed = request[r].reviewed
      /\ R.verdict = request[r].verdict
  BY <1>2, RequestFacts DEF RequestRecords
<1> HIDE DEF R
<1>5. CASE request[r].reviewed
  <2>1. RequestFits(r, R, source)
    BY <1>1, <1>3, <1>4, <1>5, RequestFacts DEF RequestFits, WaitFits, ChildFits, KeepsSource, Stands, Ended
  <2> QED
    BY <1>1, <1>4, <1>5, <2>1, RequestFacts, UpdateRequest
<1>6. CASE ~request[r].reviewed
  <2>1. AfterResult(r) \in {"queued", "completed"}
    BY DEF AfterResult
  <2>2. ChildFits(R) /\ R.status \in Ended
    BY <1>3, <1>4, <1>6 DEF ChildFits, Ended
  <2> QED
    BY <1>1, <1>4, <1>6, <2>1, <2>2, OverSafe
<1> QED
  BY <1>5, <1>6

LEMMA TerminalSafe ==
  ASSUME Inv, MaxRequests \in Nat, NEW r \in Requests, ResolveTerminalChild(r)
  PROVE  Inv'
<1> DEFINE R == [request[r] EXCEPT !.status = request[r].child]
<1>1. /\ request[r].status = "accepted" /\ request[r].child \in {"failed", "canceled"}
      /\ Set(r, R) /\ Returned(r, "queued") /\ UNCHANGED spent
  BY DEF ResolveTerminalChild, Is, To
<1>2. /\ R \in RequestRecords /\ R.status = request[r].child /\ R.child = request[r].child
      /\ R.verdict = request[r].verdict
  BY <1>1, RequestFacts, StatusRecord DEF RequestStatus, Ended
<1> HIDE DEF R
<1>3. ChildFits(R) /\ R.status \in Ended
  BY <1>1, <1>2, RequestFacts DEF ChildFits, Ended
<1> QED
  BY <1>1, <1>2, <1>3, OverSafe

LEMMA AskSafe ==
  ASSUME Inv, MaxRequests \in Nat, NEW r \in Requests, AskReviewers(r)
  PROVE  Inv'
<1> DEFINE V == [v \in Reviewers |-> IF v \in Unasked(r) THEN "asked" ELSE request[r].verdict[v]]
           R == [request[r] EXCEPT !.verdict = V]
<1>1. request[r].status = "completion_review" /\ Set(r, R) /\ UNCHANGED <<source, spent>>
  BY DEF AskReviewers, Is
<1>2. V \in [Reviewers -> Verdicts]
  BY RequestFacts DEF RequestRecords, Verdicts
<1> HIDE DEF V
<1>3. /\ R \in RequestRecords /\ R.status = request[r].status /\ R.child = request[r].child
      /\ R.kind = request[r].kind /\ R.reviewed = request[r].reviewed
  BY <1>2, RequestFacts DEF RequestRecords
<1> HIDE DEF R
<1>4. RequestFits(r, R, source)
  BY <1>1, <1>3, RequestFacts DEF RequestFits, WaitFits, ChildFits, KeepsSource
<1> QED
  BY <1>1, <1>3, <1>4, RequestFacts, UpdateRequest

LEMMA ReviewSafe ==
  ASSUME Inv, MaxRequests \in Nat, NEW r \in Requests, NEW v \in Reviewers,
         NEW x \in {"approve", "reject"}, ReviewCompletion(r, v, x)
  PROVE  Inv'
<1> DEFINE V == [request[r].verdict EXCEPT ![v] = x]
           split == /\ Escalates /\ ~request[r].disagreement
                    /\ Count(V, "approve") > 0 /\ Count(V, "reject") > 0
           voted == [request[r] EXCEPT !.verdict = V]
           again == [voted EXCEPT !.disagreement = split]
           ended(s) == [voted EXCEPT !.status = s, !.disagreement = FALSE]
<1>1. /\ request[r].status = "completion_review" /\ UNCHANGED spent
      /\ \/ Set(r, again) /\ UNCHANGED source
         \/ Set(r, ended("completed")) /\ Returned(r, AfterResult(r))
         \/ Set(r, ended("failed")) /\ Returned(r, "queued")
  <2> HIDE DEF V
  <2> QED
    BY DEF ReviewCompletion, Is, V
<1>2. V \in [Reviewers -> Verdicts]
  BY RequestFacts DEF RequestRecords, Verdicts
<1>3. split \in BOOLEAN
  OBVIOUS
<1> HIDE DEF V, split
<1>4. voted \in RequestRecords /\ voted.status = request[r].status /\ voted.child = request[r].child
      /\ voted.kind = request[r].kind /\ voted.reviewed = request[r].reviewed
  BY <1>2, RequestFacts DEF RequestRecords
<1> HIDE DEF voted
<1>5. request[r].child = "completed"
  BY <1>1, RequestFacts DEF ChildFits
<1>6. CASE Set(r, again) /\ UNCHANGED source
  <2>1. /\ again \in RequestRecords /\ again.status = "completion_review" /\ again.child = "completed"
        /\ again.kind = request[r].kind /\ again.reviewed = request[r].reviewed
    BY <1>1, <1>3, <1>4, <1>5 DEF RequestRecords
  <2> HIDE DEF again
  <2>2. RequestFits(r, again, source)
    BY <1>1, <2>1, RequestFacts DEF RequestFits, WaitFits, ChildFits, KeepsSource
  <2> QED
    BY <1>1, <1>6, <2>1, <2>2, RequestFacts, UpdateRequest
<1>7. ASSUME NEW s \in {"completed", "failed"}, NEW n \in {"queued", "completed"},
             Set(r, ended(s)), Returned(r, n)
      PROVE  Inv'
  <2>1. ended(s) \in RequestRecords /\ ended(s).status = s /\ ended(s).child = "completed"
    BY <1>4, <1>5 DEF RequestRecords, RequestStatus, Ended
  <2>2. ChildFits(ended(s)) /\ ended(s).status \in Ended
    <3> HIDE DEF ended
    <3> QED
      BY <2>1 DEF ChildFits, Ended
  <2> HIDE DEF ended
  <2> QED
    BY <1>1, <1>7, <2>1, <2>2, OverSafe
<1>8. AfterResult(r) \in {"queued", "completed"}
  BY DEF AfterResult
<1> HIDE DEF ended, again
<1> QED
  BY <1>1, <1>6, <1>7, <1>8

-----------------------------------------------------------------------------
(* The source.                                                             *)

\* A source that waits for nothing moves: its requests ask nothing of it.
LEMMA FreeSourceMoves ==
  ASSUME Inv, MaxRequests \in Nat, source.on = 0, source.status \notin Ended,
         NEW S \in Sources, source' = S, S.on = 0, UNCHANGED <<request, spent>>
  PROVE  Inv'
<1>1. \A q \in Requests : WaitFits(q, request[q], S)
  BY RequestFacts DEF WaitFits, Ended
<1>2. spent \in [{"clarification", "operation"} -> Nat]
  BY DEF Inv, RequestShapes
<1> QED
  BY <1>1, <1>2, UpdateSource DEF SourceFits

LEMMA SourceFacts ==
  ASSUME Inv
  PROVE  /\ source \in Sources /\ SourceFits(source)
         /\ source.status \in {"queued", "running"} \union Ended => source.on = 0
BY DEF Inv, RequestShapes, SourceFits, Stands, Ended

LEMMA StartSafe ==
  ASSUME Inv, MaxRequests \in Nat, Start \/ \E s \in {"completed", "failed"} : Finish(s)
  PROVE  Inv'
<1>1. /\ source.status \in {"queued", "running"} /\ UNCHANGED <<request, spent>>
      /\ \E s \in {"running", "completed", "failed"} : Moved(s, 0)
  BY DEF Start, Finish
<1>2. source' \in Sources /\ source'.on = 0
  BY <1>1, MovedSource DEF SourceStatus, Ended
<1>3. source.on = 0 /\ source.status \notin Ended
  BY <1>1, SourceFacts DEF Ended
<1> QED
  BY <1>1, <1>2, <1>3, FreeSourceMoves

LEMMA PauseSafe ==
  ASSUME Inv, MaxRequests \in Nat, Pause
  PROVE  Inv'
<1> DEFINE S == [source EXCEPT !.status = "paused", !.pausedFrom = source.status]
<1>1. /\ source.status \notin Ended /\ source.status # "paused" /\ source' = S
      /\ UNCHANGED request /\ Use("operation", MaxOperations)
  BY DEF Pause
<1>2. S \in Sources /\ S.status = "paused" /\ S.pausedFrom = source.status /\ S.on = source.on
  BY SourceFacts DEF Sources, SourceStatus
<1> HIDE DEF S
<1>3. \A q \in Requests : WaitFits(q, request[q], S)
  BY <1>1, <1>2, RequestFacts DEF WaitFits, Stands, Ended
<1>4. SourceFits(S)
  BY <1>1, <1>2, SourceFacts DEF SourceFits, Stands
<1> QED
  BY <1>1, <1>2, <1>3, <1>4, UseFacts, UpdateSource

LEMMA ResumeSafe ==
  ASSUME Inv, MaxRequests \in Nat, Resume
  PROVE  Inv'
<1> DEFINE t == IF source.on # 0 THEN source.pausedFrom ELSE "queued"
           S == [source EXCEPT !.pausedFrom = "none", !.status = t]
<1>1. source.status = "paused" /\ source' = S /\ UNCHANGED <<request, spent>>
  BY DEF Resume
<1>2. /\ t \in {"queued", "waiting_for_agent", "waiting_for_dependency"}
      /\ source.on = 0 => t = "queued"
      /\ source.on # 0 => t = source.pausedFrom /\ t # "queued"
  BY <1>1, SourceFacts DEF SourceFits, Stands
<1> HIDE DEF t
<1>3. S \in Sources /\ S.status = t /\ S.on = source.on
  BY <1>2, SourceFacts DEF Sources, SourceStatus
<1> HIDE DEF S
<1>4. \A q \in Requests : WaitFits(q, request[q], S)
  BY <1>1, <1>2, <1>3, RequestFacts DEF WaitFits, Stands, Ended
<1>5. SourceFits(S)
  BY <1>2, <1>3 DEF SourceFits, Stands
<1>6. spent \in [{"clarification", "operation"} -> Nat]
  BY DEF Inv, RequestShapes
<1> QED
  BY <1>1, <1>3, <1>4, <1>5, <1>6, UpdateSource

LEMMA CancelSafe ==
  ASSUME Inv, MaxRequests \in Nat, Cancel
  PROVE  Inv'
<1> DEFINE S == [source EXCEPT !.status = "canceled", !.pausedFrom = "none", !.on = 0]
<1>1. /\ source.status \notin Ended /\ source' = S
      /\ UNCHANGED request /\ Use("operation", MaxOperations)
  BY DEF Cancel
<1>2. S \in Sources /\ S.status = "canceled" /\ S.on = 0
  <2>1. 0 \in 0 .. MaxRequests /\ "canceled" \in SourceStatus
    BY DEF SourceStatus, Ended
  <2> QED
    BY <2>1, SourceFacts DEF Sources
<1> HIDE DEF S
<1>3. \A q \in Requests : WaitFits(q, request[q], S)
  BY <1>1, <1>2, RequestFacts DEF WaitFits, Stands, Ended
<1> QED
  BY <1>1, <1>2, <1>3, UseFacts, UpdateSource DEF SourceFits

-----------------------------------------------------------------------------
(* Every step.                                                             *)

LEMMA InitSafe ==
  ASSUME MaxRequests \in Nat, Init
  PROVE  Inv
<1>1. source \in Sources /\ source.on = 0
  BY DEF Init, Sources, SourceStatus
<1>2. Len(request) = 0 /\ request \in Seq(RequestRecords) /\ Requests = {}
  BY DEF Init, Requests
<1>3. spent \in [{"clarification", "operation"} -> Nat]
  BY DEF Init
<1> QED
  BY <1>1, <1>2, <1>3 DEF Inv, RequestShapes, SourceFits

LEMMA StepSafe ==
  ASSUME Inv, MaxRequests \in Nat, [Next]_vars
  PROVE  Inv'
<1>1. ASSUME NEW r \in Requests, Answer(r) PROVE Inv'
  BY <1>1, ClarifySafe, RejectSafe, AcceptSafe, FailSafe DEF Answer
<1>2. ASSUME NEW r \in Requests, Resolve(r) PROVE Inv'
  BY <1>2, CompleteSafe, TerminalSafe DEF Resolve
<1>3. ASSUME NEW r \in Requests, Review(r) PROVE Inv'
  BY <1>3, AskSafe, ReviewSafe DEF Review
<1>4. ASSUME NEW r \in Requests, NEW s \in {"completed", "failed"}, ChildEnds(r, s) PROVE Inv'
  BY <1>4, RequestFacts, ChildMoves DEF ChildEnds, Ended
<1>5. ASSUME NEW r \in Requests, CancelChild(r) PROVE Inv'
  BY <1>5, UseFacts, ChildMoves DEF CancelChild, Ended
<1>6. ASSUME NEW r \in Requests, Cascade(r) PROVE Inv'
  BY <1>6, RequestFacts, ChildMoves DEF Cascade, Ended
<1>7. ASSUME UNCHANGED vars PROVE Inv'
  BY <1>7 DEF vars, Inv, RequestShapes, SourceFits, Requests, RequestFits, WaitFits, ChildFits, KeepsSource, Stands
<1> QED
  BY <1>1, <1>2, <1>3, <1>4, <1>5, <1>6, <1>7, CreateSafe, ProvideSafe, StartSafe, PauseSafe,
     ResumeSafe, CancelSafe DEF Next

\* Inv holds of every behaviour, for any number of requests and any policy.
THEOREM RequestsInvariance ==
  ASSUME MaxRequests \in Nat
  PROVE  Spec => []Inv
<1>1. Init => Inv
  BY InitSafe
<1>2. Inv /\ [Next]_vars => Inv'
  BY StepSafe
<1> QED
  BY <1>1, <1>2, PTL DEF Spec

-----------------------------------------------------------------------------
(* Reviews.  A review ends by the verdict that makes a quorum of one or    *)
(* two: until then each verdict was given once at most, and the two of a   *)
(* quorum of two are opposed exactly while the disagreement is recorded.   *)

PolicyConcludes ==
  /\ IsFiniteSet(Reviewers) /\ Reviewers \subseteq Nat \ {0}
  /\ \/ Quorum = 1 /\ 1 \in Reviewers
     \/ Quorum = 2 /\ Escalates /\ {1, 2, 3} \subseteq Reviewers

Given(V, x) == \E v \in Reviewers : V[v] = x
GivenOnce(V, x) == \A v, w \in Reviewers : V[v] = x /\ V[w] = x => v = w

Balanced(V, disagreement) ==
  /\ Quorum = 1 => ~Given(V, "approve") /\ ~Given(V, "reject")
  /\ Quorum = 2 => /\ GivenOnce(V, "approve") /\ GivenOnce(V, "reject")
                   /\ (disagreement <=> Given(V, "approve") /\ Given(V, "reject"))

ReviewFits(R) ==
  /\ R.status \in {"pending", "clarification_requested", "accepted"} =>
       ~R.disagreement /\ \A v \in Reviewers : R.verdict[v] = "none"
  /\ R.status = "completion_review" => Balanced(R.verdict, R.disagreement)

Reviews == \A r \in Requests : ReviewFits(request[r])

LEMMA Counts ==
  ASSUME PolicyConcludes, NEW V, NEW x
  PROVE  /\ Count(V, x) \in Nat
         /\ Count(V, x) > 0 <=> Given(V, x)
         /\ Count(V, x) < 2 <=> GivenOnce(V, x)
<1> DEFINE S == {v \in Reviewers : V[v] = x}
<1>1. IsFiniteSet(S) /\ Cardinality(S) \in Nat
  BY FS_Subset, FS_CardinalityType DEF PolicyConcludes
<1>2. Cardinality(S) > 0 <=> Given(V, x)
  BY <1>1, FS_EmptySet DEF Given
<1>3. ASSUME Cardinality(S) < 2 PROVE GivenOnce(V, x)
  <2>1. CASE Cardinality(S) = 0
    BY <1>1, <2>1, FS_EmptySet DEF GivenOnce
  <2>2. CASE Cardinality(S) = 1
    BY <1>1, <2>2, FS_Singleton DEF GivenOnce
  <2> QED
    BY <1>1, <1>3, <2>1, <2>2
<1>4. ASSUME GivenOnce(V, x) PROVE Cardinality(S) < 2
  <2>1. CASE S = {}
    BY <2>1, FS_EmptySet
  <2>2. CASE S # {}
    <3>1. PICK v : v \in S
      BY <2>2
    <3>2. S = {v}
      BY <1>4, <3>1 DEF GivenOnce
    <3> QED
      BY <3>2, FS_Singleton
  <2> QED
    BY <2>1, <2>2
<1>5. Count(V, x) = Cardinality(S)
  BY DEF Count
<1> HIDE DEF S
<1> QED
  BY <1>1, <1>2, <1>3, <1>4, <1>5

\* One request is written, and its review fits.
LEMMA WriteReview ==
  ASSUME Inv, Reviews, NEW r \in Requests, NEW R, Set(r, R), ReviewFits(R)
  PROVE  Reviews'
<1>1. /\ request \in Seq(RequestRecords) /\ r \in 1 .. Len(request)
      /\ Requests = DOMAIN request /\ Requests' = DOMAIN request'
  BY DEF Inv, RequestShapes, Requests
<1>2. Requests' = Requests /\ \A q \in Requests : request'[q] = IF q = r THEN R ELSE request[q]
  BY <1>1 DEF Set
<1>3. \A q \in Requests : ReviewFits(request'[q])
  BY <1>2 DEF Reviews
<1> QED
  BY <1>2, <1>3 DEF Reviews, ReviewFits, Balanced, Given, GivenOnce

\* A verdict that does not end the review; y is the other one.
LEMMA VerdictBalanced ==
  ASSUME PolicyConcludes, NEW V \in [Reviewers -> Verdicts], NEW d \in BOOLEAN, Balanced(V, d),
         NEW v \in Reviewers, V[v] = "asked", NEW x, NEW y,
         (x = "approve" /\ y = "reject") \/ (x = "reject" /\ y = "approve"),
         NEW W, W = [V EXCEPT ![v] = x], NEW split \in BOOLEAN,
         split <=> Escalates /\ ~d /\ Count(W, "approve") > 0 /\ Count(W, "reject") > 0,
         split \/ (Count(W, "approve") < Quorum /\ Count(W, "reject") < Quorum)
  PROVE  Balanced(W, split)
<1>1. \A w \in Reviewers : W[w] = IF w = v THEN x ELSE V[w]
  OBVIOUS
<1>2. x # y /\ V[v] # x /\ V[v] # y
  OBVIOUS
<1>3. Given(W, x) /\ (Given(W, y) <=> Given(V, y)) /\ (GivenOnce(W, y) <=> GivenOnce(V, y))
  BY <1>1, <1>2 DEF Given, GivenOnce
<1>4. GivenOnce(W, x) <=> ~Given(V, x)
  BY <1>1, <1>2 DEF Given, GivenOnce
<1>5. split <=> Escalates /\ ~d /\ Given(V, y)
  <2>1. split <=> Escalates /\ ~d /\ Given(W, "approve") /\ Given(W, "reject")
    BY Counts
  <2> QED
    BY <1>3, <2>1
<1>6. CASE Quorum = 1
  <2>1. ~Given(V, y) /\ ~split
    BY <1>5, <1>6 DEF Balanced
  <2>2. Count(W, x) < 1
    BY <1>6, <2>1
  <2>3. Count(W, x) \in Nat /\ Count(W, x) > 0
    BY <1>3, Counts
  <2> QED
    BY <2>2, <2>3
<1>7. CASE Quorum = 2 /\ Escalates
  <2>1. GivenOnce(V, y) /\ (d <=> Given(V, x) /\ Given(V, y))
    BY <1>7 DEF Balanced
  <2>2. split \/ Count(W, x) < 2
    BY <1>7
  <2>3. ~Given(V, x)
    <3>1. CASE split
      BY <1>5, <2>1, <3>1
    <3>2. CASE ~split
      <4>1. GivenOnce(W, x)
        BY <2>2, <3>2, Counts
      <4> QED
        BY <1>4, <4>1
    <3> QED
      BY <3>1, <3>2
  <2>4. split <=> Given(V, y)
    BY <1>5, <1>7, <2>1, <2>3
  <2>5. GivenOnce(W, x) /\ GivenOnce(W, y) /\ (split <=> Given(W, x) /\ Given(W, y))
    BY <1>3, <1>4, <2>1, <2>3, <2>4
  <2> QED
    BY <1>7, <2>5 DEF Balanced
<1> QED
  BY <1>6, <1>7 DEF PolicyConcludes

\* What a step may rely on of a review.
LEMMA ReviewFacts ==
  ASSUME Inv, MaxRequests \in Nat, Reviews, NEW r \in Requests
  PROVE  /\ request[r] \in RequestRecords /\ request[r].verdict \in [Reviewers -> Verdicts]
         /\ request[r].disagreement \in BOOLEAN /\ ReviewFits(request[r])
BY RequestFacts DEF Reviews, RequestRecords

LEMMA CreateReviews ==
  ASSUME Inv, Reviews, NEW kind, NEW reviewed, CreateAgentRequest(kind, reviewed)
  PROVE  Reviews'
<1> DEFINE R == [kind |-> kind, reviewed |-> reviewed, status |-> "pending", child |-> "none",
                 verdict |-> [v \in Reviewers |-> "none"], disagreement |-> FALSE]
<1>1. /\ request \in Seq(RequestRecords) /\ request' = Append(request, R)
      /\ Requests = DOMAIN request /\ Requests' = DOMAIN request'
  BY DEF Inv, RequestShapes, Requests, CreateAgentRequest
<1>2. ReviewFits(R)
  BY DEF ReviewFits
<1> HIDE DEF R
<1>3. \A q \in Requests' : request'[q] = R \/ (q \in Requests /\ request'[q] = request[q])
  BY <1>1
<1>4. \A q \in Requests' : ReviewFits(request'[q])
  BY <1>2, <1>3 DEF Reviews
<1> QED
  BY <1>4 DEF Reviews, ReviewFits, Balanced, Given, GivenOnce

\* A request whose verdicts stay as they are: it ends, or none of them is given yet.
LEMMA RestReviews ==
  ASSUME Inv, MaxRequests \in Nat, Reviews, NEW r \in Requests, NEW s \in RequestStatus, NEW c \in ChildStatus,
         Set(r, [request[r] EXCEPT !.status = s, !.child = c]),
         request[r].status \in {"pending", "clarification_requested", "accepted"} \/ s \in Ended \/ s = request[r].status
  PROVE  Reviews'
<1> DEFINE R == [request[r] EXCEPT !.status = s, !.child = c]
<1>1. /\ R.status = s /\ R.verdict = request[r].verdict /\ R.disagreement = request[r].disagreement
  BY ReviewFacts DEF RequestRecords
<1>2. Set(r, R)
  OBVIOUS
<1> HIDE DEF R
<1>3. ASSUME ~request[r].disagreement, \A v \in Reviewers : request[r].verdict[v] = "none"
      PROVE  ReviewFits(R)
  BY <1>1, <1>3 DEF ReviewFits, Balanced, Given, GivenOnce
<1>4. s \in Ended => ReviewFits(R)
  BY <1>1 DEF ReviewFits, Ended
<1>5. s = request[r].status => ReviewFits(R)
  BY <1>1, ReviewFacts DEF ReviewFits
<1> QED
  BY <1>2, <1>3, <1>4, <1>5, ReviewFacts, WriteReview DEF ReviewFits

LEMMA AskReviews ==
  ASSUME Inv, MaxRequests \in Nat, Reviews, NEW r \in Requests, AskReviewers(r)
  PROVE  Reviews'
<1> DEFINE V == [v \in Reviewers |-> IF v \in Unasked(r) THEN "asked" ELSE request[r].verdict[v]]
           R == [request[r] EXCEPT !.verdict = V]
<1>1. request[r].status = "completion_review" /\ Set(r, R)
  BY DEF AskReviewers, Is
<1>2. \A v \in Reviewers, x \in {"approve", "reject"} : V[v] = x <=> request[r].verdict[v] = x
  BY DEF Unasked
<1> HIDE DEF V
<1>3. R.status = "completion_review" /\ R.verdict = V /\ R.disagreement = request[r].disagreement
  BY <1>1, ReviewFacts DEF RequestRecords
<1>4. Balanced(request[r].verdict, request[r].disagreement)
  BY <1>1, ReviewFacts DEF ReviewFits
<1>5. Balanced(V, request[r].disagreement)
  BY <1>2, <1>4 DEF Balanced, Given, GivenOnce
<1>6. ReviewFits(R)
  BY <1>3, <1>5 DEF ReviewFits
<1> QED
  BY <1>1, <1>6, WriteReview

LEMMA VerdictReviews ==
  ASSUME Inv, MaxRequests \in Nat, PolicyConcludes, Reviews, NEW r \in Requests, NEW v \in Reviewers,
         NEW x \in {"approve", "reject"}, ReviewCompletion(r, v, x)
  PROVE  Reviews'
<1> DEFINE V == [request[r].verdict EXCEPT ![v] = x]
           split == /\ Escalates /\ ~request[r].disagreement
                    /\ Count(V, "approve") > 0 /\ Count(V, "reject") > 0
           voted == [request[r] EXCEPT !.verdict = V]
           again == [voted EXCEPT !.disagreement = split]
           ended(s) == [voted EXCEPT !.status = s, !.disagreement = FALSE]
<1>1. /\ request[r].status = "completion_review" /\ request[r].verdict[v] = "asked"
      /\ \/ /\ Set(r, again)
            /\ split \/ (Count(V, "approve") < Quorum /\ Count(V, "reject") < Quorum)
         \/ Set(r, ended("completed"))
         \/ Set(r, ended("failed"))
  <2> HIDE DEF V
  <2> QED
    BY DEF ReviewCompletion, Reviewing, Is, V
<1>2. V \in [Reviewers -> Verdicts] /\ split \in BOOLEAN
  BY ReviewFacts DEF Verdicts
<1>3. /\ split <=> /\ Escalates /\ ~request[r].disagreement
                   /\ Count(V, "approve") > 0 /\ Count(V, "reject") > 0
      /\ V = [request[r].verdict EXCEPT ![v] = x]
  OBVIOUS
<1> HIDE DEF V, split
<1>4. voted \in RequestRecords /\ voted.status = request[r].status /\ voted.verdict = V
  BY <1>2, ReviewFacts DEF RequestRecords
<1> HIDE DEF voted
<1>5. CASE /\ Set(r, again)
           /\ split \/ (Count(V, "approve") < Quorum /\ Count(V, "reject") < Quorum)
  <2>1. Balanced(request[r].verdict, request[r].disagreement)
    BY <1>1, ReviewFacts DEF ReviewFits
  <2> DEFINE y == IF x = "approve" THEN "reject" ELSE "approve"
  <2>2. (x = "approve" /\ y = "reject") \/ (x = "reject" /\ y = "approve")
    OBVIOUS
  <2> HIDE DEF y
  <2>3. Balanced(V, split)
    BY <1>1, <1>2, <1>3, <1>5, <2>1, <2>2, ReviewFacts, VerdictBalanced
  <2>4. again.status = "completion_review" /\ again.verdict = V /\ again.disagreement = split
    BY <1>1, <1>2, <1>4 DEF RequestRecords
  <2>5. ReviewFits(again)
    BY <2>3, <2>4 DEF ReviewFits
  <2> QED
    BY <1>5, <2>5, WriteReview
<1>6. ASSUME NEW s \in {"completed", "failed"}, Set(r, ended(s)) PROVE Reviews'
  <2>1. ended(s).status = s
    BY <1>4 DEF RequestRecords
  <2>2. ReviewFits(ended(s))
    BY <2>1 DEF ReviewFits
  <2> QED
    BY <1>6, <2>2, WriteReview
<1> HIDE DEF again, ended
<1> QED
  BY <1>1, <1>5, <1>6

\* The source moves, the requests stay.
LEMMA SameReviews ==
  ASSUME Reviews, UNCHANGED request
  PROVE  Reviews'
BY DEF Reviews, Requests, ReviewFits, Balanced, Given, GivenOnce

LEMMA StepReviews ==
  ASSUME Inv, MaxRequests \in Nat, PolicyConcludes, Reviews, [Next]_vars
  PROVE  Reviews'
<1>1. ASSUME NEW r \in Requests, ProvideClarification(r) \/ Answer(r) PROVE Reviews'
  <2>1. request[r] \in RequestRecords
    BY RequestFacts
  <2>2. /\ request[r].status \in {"pending", "clarification_requested"}
        /\ \E s \in RequestStatus, c \in ChildStatus :
             Set(r, [request[r] EXCEPT !.status = s, !.child = c])
    <3>1. CASE Accept(r)
      <4>1. /\ Set(r, [request[r] EXCEPT !.status = "accepted", !.child = "active"])
            /\ "accepted" \in RequestStatus /\ "active" \in ChildStatus
        BY <3>1 DEF Accept, RequestStatus, Active, ChildStatus
      <4> QED
        BY <3>1, <4>1 DEF Accept, Is
    <3>2. ASSUME NEW s \in RequestStatus, To(r, s)
          PROVE  \E t \in RequestStatus, c \in ChildStatus :
                   Set(r, [request[r] EXCEPT !.status = t, !.child = c])
      <4>1. /\ [request[r] EXCEPT !.status = s] = [request[r] EXCEPT !.status = s, !.child = request[r].child]
            /\ request[r].child \in ChildStatus
        BY <2>1 DEF RequestRecords
      <4> QED
        BY <3>2, <4>1 DEF To
    <3>3. {"pending", "clarification_requested", "rejected", "failed", "canceled"} \subseteq RequestStatus
      BY DEF RequestStatus, Active, Ended
    <3> QED
      BY <1>1, <3>1, <3>2, <3>3 DEF ProvideClarification, Answer, RequestClarification, Reject,
         FailDecisionReview, Is
  <2> QED
    BY <2>2, RestReviews
<1>2. ASSUME NEW r \in Requests, CompleteAgentRequest(r) PROVE Reviews'
  <2> DEFINE s == IF request[r].reviewed THEN "completion_review" ELSE "completed"
  <2>1. /\ request[r].status = "accepted" /\ s \in RequestStatus /\ "completed" \in ChildStatus
        /\ [request[r] EXCEPT !.child = "completed", !.status = s]
             = [request[r] EXCEPT !.status = s, !.child = "completed"]
    BY <1>2, RequestFacts DEF CompleteAgentRequest, Is, RequestStatus, Active, Ended, ChildStatus,
       RequestRecords
  <2>2. Set(r, [request[r] EXCEPT !.status = s, !.child = "completed"])
    BY <1>2, <2>1 DEF CompleteAgentRequest
  <2> HIDE DEF s
  <2> QED
    BY <2>1, <2>2, RestReviews
<1>3. ASSUME NEW r \in Requests, ResolveTerminalChild(r) PROVE Reviews'
  <2>1. /\ request[r] \in RequestRecords /\ request[r].child \in Ended /\ Ended \subseteq RequestStatus
        /\ To(r, request[r].child)
    BY <1>3, RequestFacts DEF ResolveTerminalChild, Ended, RequestStatus
  <2>2. /\ [request[r] EXCEPT !.status = request[r].child]
             = [request[r] EXCEPT !.status = request[r].child, !.child = request[r].child]
        /\ request[r].child \in ChildStatus
    BY <2>1 DEF RequestRecords
  <2> QED
    BY <2>1, <2>2, RestReviews DEF To
<1>4. ASSUME NEW r \in Requests, Review(r) PROVE Reviews'
  BY <1>4, AskReviews, VerdictReviews DEF Review
<1>5. ASSUME NEW r \in Requests,
             CancelChild(r) \/ Cascade(r) \/ \E s \in {"completed", "failed"} : ChildEnds(r, s)
      PROVE  Reviews'
  <2>1. PICK s \in Ended : Set(r, [request[r] EXCEPT !.child = s])
    BY <1>5 DEF CancelChild, Cascade, ChildEnds, Ended
  <2>2. /\ [request[r] EXCEPT !.child = s] = [request[r] EXCEPT !.status = request[r].status, !.child = s]
        /\ s \in ChildStatus /\ request[r].status \in RequestStatus
    BY RequestFacts DEF RequestRecords, ChildStatus
  <2> QED
    BY <2>1, <2>2, RestReviews
<1>6. Start \/ Pause \/ Resume \/ Cancel \/ (\E s \in {"completed", "failed"} : Finish(s))
      \/ UNCHANGED vars => UNCHANGED request
  BY DEF Start, Pause, Resume, Cancel, Finish, vars
<1> QED
  BY <1>1, <1>2, <1>3, <1>4, <1>5, <1>6, CreateReviews, SameReviews DEF Next, Resolve

\* As long as the verdicts balance, a reviewer of a review that goes on has not spoken.
LEMMA ReviewsGoOn == ASSUME MaxRequests \in Nat, Inv, Reviews, PolicyConcludes PROVE ReviewConcludes
<1> SUFFICES ASSUME NEW r \in Requests, request[r].status = "completion_review"
             PROVE  Unasked(r) \union Reviewing(r) # {}
  BY DEF ReviewConcludes, Is
<1> DEFINE V == request[r].verdict
           d == request[r].disagreement
<1>1. V \in [Reviewers -> Verdicts] /\ d \in BOOLEAN /\ Balanced(V, d)
  BY ReviewFacts DEF ReviewFits
<1>2. ASSUME NEW v \in Reviewers, v <= Wanted(r), V[v] # "approve", V[v] # "reject"
      PROVE  Unasked(r) \union Reviewing(r) # {}
  <2>1. V[v] \in {"none", "asked"}
    BY <1>1, <1>2 DEF Verdicts
  <2>2. v \in Unasked(r) \union Reviewing(r)
    BY <1>2, <2>1 DEF Unasked, Reviewing
  <2> QED
    BY <2>2
<1>3. CASE Quorum = 1 /\ 1 \in Reviewers
  <2>1. V[1] # "approve" /\ V[1] # "reject" /\ 1 <= Wanted(r)
    BY <1>1, <1>3 DEF Balanced, Given, Wanted
  <2> QED
    BY <1>2, <1>3, <2>1
<1>4. CASE Quorum = 2 /\ {1, 2, 3} \subseteq Reviewers
  <2>1. /\ GivenOnce(V, "approve") /\ GivenOnce(V, "reject")
        /\ d <=> Given(V, "approve") /\ Given(V, "reject")
    BY <1>1, <1>4 DEF Balanced
  <2>2. PICK v \in {1, 2, 3} : V[v] # "approve" /\ V[v] # "reject" /\ (~d => v # 3)
    BY <1>4, <2>1 DEF Given, GivenOnce
  <2>3. v <= Wanted(r)
    BY <1>4, <2>2 DEF Wanted
  <2> QED
    BY <1>2, <1>4, <2>2, <2>3
<1> QED
  BY <1>3, <1>4 DEF PolicyConcludes

-----------------------------------------------------------------------------
(* The source is a Run as RunTurns has them: its lease and its Turns are   *)
(* not here, and what is written of it keeps to the contract of a Run.     *)

Life == INSTANCE RunLifecycle WITH
  Workers <- {}, NoWorker <- 0, Waits <- {"waiting_for_agent", "waiting_for_dependency"},
  status <- source.status, saved <- source.pausedFrom, holder <- 0, live <- FALSE, applied <- 0

\* What a pause interrupted is known during the pause only, and a wait is for something.
Saved ==
  /\ source.status # "paused" => source.pausedFrom = "none"
  /\ Stands(source, "waiting_for_agent") \/ Stands(source, "waiting_for_dependency") => source.on # 0

Moves == Saved' /\ [Life!Next]_(Life!vars)

LEMMA UnmovedMoves == ASSUME Saved, UNCHANGED source PROVE Moves
BY DEF Saved, Stands, Moves, Life!vars

LEMMA MovedMoves ==
  ASSUME Inv, Saved, NEW s, NEW x, Moved(s, x),
         s \in {"waiting_for_agent", "waiting_for_dependency"} => x # 0,
         \/ source.status = "queued" /\ s \in {"running", "completed", "waiting_for_agent",
                                               "waiting_for_dependency"}
         \/ source.status = "running" /\ s \in {"completed", "failed", "waiting_for_agent",
                                                "waiting_for_dependency"}
         \/ source.status = "waiting_for_agent" /\ s \in {"queued", "completed",
                                                          "waiting_for_dependency"}
         \/ source.status = "waiting_for_dependency" /\ s \in {"queued", "completed"}
  PROVE  Moves
<1>1. source'.status = s /\ source'.pausedFrom = source.pausedFrom /\ source'.on = x
  BY SourceFacts DEF Moved, Sources
<1>2. source.pausedFrom = "none" /\ s # "paused"
  BY DEF Saved
<1> USE DEF Stands
<1>3. CASE source.status = "queued"
  <2>1. s = "running" => Life!Start
    BY <1>1, <1>3 DEF Life!Start
  <2>2. s # "running" => Life!Engage
    BY <1>1, <1>3 DEF Life!Engage
  <2> QED
    BY <1>1, <1>2, <2>1, <2>2 DEF Moves, Saved, Life!Next
<1>4. CASE source.status = "running"
  <2>1. Life!Leave
    BY <1>1, <1>2, <1>4 DEF Life!Leave, Life!Release, Life!Ends
  <2> QED
    BY <1>1, <1>2, <2>1 DEF Moves, Saved, Life!Next
<1>5. CASE source.status \in {"waiting_for_agent", "waiting_for_dependency"}
  <2>1. Life!Awaken
    BY <1>1, <1>5 DEF Life!Awaken, Life!Follows
  <2> QED
    BY <1>1, <1>2, <2>1 DEF Moves, Saved, Life!Next
<1> QED
  BY <1>3, <1>4, <1>5

LEMMA CommandMoves == ASSUME Inv, Saved, Pause \/ Resume \/ Cancel PROVE Moves
<1>1. CASE Pause
  <2>1. /\ source.status \in SourceStatus \ (Ended \union {"paused"}) /\ source'.on = source.on
        /\ source'.status = "paused" /\ source'.pausedFrom = source.status
    BY <1>1, SourceFacts DEF Pause, Sources
  <2>2. source.status = "running" => Life!Leave
    BY <2>1 DEF Life!Leave, Life!Release
  <2>3. source.status # "running" => Life!Pause
    BY <2>1 DEF Life!Pause, SourceStatus
  <2> QED
    BY <2>1, <2>2, <2>3 DEF Moves, Saved, Stands, Life!Next
<1>2. CASE Resume
  <2>1. /\ source.status = "paused" /\ source'.pausedFrom = "none" /\ source'.on = source.on
        /\ source'.status = IF source.on # 0 THEN source.pausedFrom ELSE "queued"
    BY <1>2, SourceFacts DEF Resume, Sources
  <2>2. source.on # 0 <=> source.pausedFrom \in {"waiting_for_agent", "waiting_for_dependency"}
    BY <2>1, SourceFacts DEF Saved, SourceFits, Stands
  <2>3. Life!Resume
    BY <2>1, <2>2 DEF Life!Resume
  <2> QED
    BY <2>1, <2>2, <2>3 DEF Moves, Saved, Stands, Life!Next
<1>3. CASE Cancel
  <2>1. /\ source.status \in SourceStatus \ Ended
        /\ source'.status = "canceled" /\ source'.pausedFrom = "none"
    BY <1>3, SourceFacts DEF Cancel, Sources
  <2>2. source.status = "running" => Life!Leave
    BY <2>1 DEF Life!Leave, Life!Release, Life!Ends
  <2>3. source.status # "running" => Life!Cancel
    BY <2>1 DEF Life!Cancel, SourceStatus
  <2> QED
    BY <2>1, <2>2, <2>3 DEF Moves, Saved, Stands, Life!Next
<1> QED
  BY <1>1, <1>2, <1>3

LEMMA ReturnedMoves ==
  ASSUME Inv, Saved, NEW r, NEW s \in {"queued", "completed"}, Returned(r, s)
  PROVE  Moves
BY MovedMoves, UnmovedMoves DEF Returned, AwaitsResult

LEMMA AnswerMoves ==
  ASSUME Inv, Saved, NEW r \in Requests, Answer(r) \/ ProvideClarification(r)
  PROVE  Moves
<1>1. r # 0
  BY DEF Inv, RequestShapes, Requests
<1>2. CASE ProvideClarification(r)
  BY <1>1, <1>2, MovedMoves DEF ProvideClarification, CanStart
<1>3. CASE RequestClarification(r) \/ Reject(r)
  BY <1>3, MovedMoves DEF RequestClarification, Reject, Resumed, AwaitsDecision
<1>4. CASE Accept(r)
  <2>1. source.status \in {"queued", "running", "waiting_for_agent"}
    BY <1>4 DEF Accept, CanStart, AwaitsDecision
  <2>2. Moved("completed", 0) \/ Moved("waiting_for_dependency", r)
    BY <1>4 DEF Accept
  <2> QED
    BY <1>1, <2>1, <2>2, MovedMoves
<1>5. ASSUME NEW s \in {"failed", "canceled"}, FailDecisionReview(r, s) PROVE Moves
  BY <1>5, MovedMoves, UnmovedMoves DEF FailDecisionReview, AwaitsDecision
<1> QED
  BY <1>2, <1>3, <1>4, <1>5 DEF Answer

LEMMA ResultMoves ==
  ASSUME Inv, Saved, NEW r, Resolve(r) \/ Review(r)
  PROVE  Moves
<1>1. AfterResult(r) \in {"queued", "completed"}
  BY DEF AfterResult
<1>2. CASE CompleteAgentRequest(r)
  BY <1>1, <1>2, ReturnedMoves, UnmovedMoves DEF CompleteAgentRequest
<1>3. CASE ResolveTerminalChild(r)
  BY <1>3, ReturnedMoves DEF ResolveTerminalChild
<1>4. CASE AskReviewers(r)
  BY <1>4, UnmovedMoves DEF AskReviewers
<1>5. ASSUME NEW v \in Reviewers, NEW x \in {"approve", "reject"}, ReviewCompletion(r, v, x)
      PROVE  UNCHANGED source \/ \E s \in {"queued", "completed"} : Returned(r, s)
  BY <1>1, <1>5 DEF ReviewCompletion
<1>6. ASSUME NEW v \in Reviewers, NEW x \in {"approve", "reject"}, ReviewCompletion(r, v, x)
      PROVE  Moves
  BY <1>5, <1>6, ReturnedMoves, UnmovedMoves
<1> QED
  BY <1>2, <1>3, <1>4, <1>6 DEF Resolve, Review

LEMMA StepMoves == ASSUME Inv, Saved, [Next]_vars PROVE Moves
<1>1. ASSUME NEW kind, NEW reviewed, CreateAgentRequest(kind, reviewed) PROVE Moves
  <2>1. Len(request) + 1 # 0
    BY DEF Inv, RequestShapes
  <2> QED
    BY <1>1, <2>1, MovedMoves DEF CreateAgentRequest, CanStart
<1>2. ASSUME NEW r \in Requests, NEW s, CancelChild(r) \/ Cascade(r) \/ ChildEnds(r, s) PROVE Moves
  BY <1>2, UnmovedMoves DEF CancelChild, Cascade, ChildEnds
<1>3. CASE Start \/ \E s \in {"completed", "failed"} : Finish(s)
  BY <1>3, MovedMoves DEF Start, Finish
<1>4. CASE UNCHANGED vars
  BY <1>4, UnmovedMoves DEF vars
<1> QED
  BY <1>1, <1>2, <1>3, <1>4, AnswerMoves, ResultMoves, CommandMoves DEF Next

\* The child of an accepted handoff leaves "active" by its own end or by a command.
HandoffStep == \A r \in Requests :
  Transfers(r) /\ request[r].child = "active" /\ request'[r].child = "canceled"
  => spent'["operation"] > spent["operation"]

LEMMA HandoffSteps == ASSUME MaxRequests \in Nat, Inv, [Next]_vars PROVE HandoffStep
<1> SUFFICES ASSUME NEW r \in Requests, Transfers(r), request[r].child = "active",
                    request'[r].child = "canceled"
             PROVE  spent'["operation"] > spent["operation"]
  BY DEF HandoffStep
<1>1. /\ request \in Seq(RequestRecords) /\ DOMAIN request = 1 .. Len(request)
      /\ Requests = DOMAIN request /\ r \in 1 .. Len(request)
  BY DEF Inv, RequestShapes, Requests
<1>2. /\ request[r] \in RequestRecords /\ request[r].status = "accepted"
      /\ source.status = "completed"
  BY RequestFacts DEF Transfers, ChildFits, WaitFits
<1>3. request' # request
  BY <1>1
<1>4. ASSUME NEW q \in Requests, NEW R, Set(q, R)
      PROVE  q = r /\ R.child = "canceled"
  BY <1>1, <1>4 DEF Set
<1>5. ASSUME NEW q \in Requests, CancelChild(q) PROVE spent'["operation"] > spent["operation"]
  BY <1>5, UseFacts DEF CancelChild
<1>6. ASSUME NEW kind, NEW reviewed, CreateAgentRequest(kind, reviewed) PROVE FALSE
  <2>1. PICK R : request' = Append(request, R)
    BY <1>6 DEF CreateAgentRequest
  <2>2. request'[r] = request[r]
    BY <1>1, <2>1
  <2> QED
    BY <2>2
<1>7. ASSUME NEW q \in Requests, ProvideClarification(q) \/ Answer(q) PROVE FALSE
  <2>1. /\ q = r => request[q].status \in {"pending", "clarification_requested"}
        /\ \E R : Set(q, R)
    BY <1>7 DEF ProvideClarification, Answer, RequestClarification, Reject, Accept,
                FailDecisionReview, Is, To
  <2> QED
    BY <1>2, <1>4, <2>1
<1>8. ASSUME NEW q \in Requests, CompleteAgentRequest(q) PROVE FALSE
  <2> DEFINE t == IF request[q].reviewed THEN "completion_review" ELSE "completed"
             R == [request[q] EXCEPT !.child = "completed", !.status = t]
  <2>1. Set(q, R)
    BY <1>8 DEF CompleteAgentRequest
  <2>2. q = r
    <3> HIDE DEF R
    <3> QED
      BY <1>4, <2>1
  <2>3. R.child = "completed"
    BY <1>2, <2>2 DEF RequestRecords
  <2> HIDE DEF R
  <2> QED
    BY <1>4, <2>1, <2>3
<1>9. ASSUME NEW q \in Requests, ResolveTerminalChild(q) PROVE FALSE
  <2>1. request[q].child \in {"failed", "canceled"} /\ \E R : Set(q, R)
    BY <1>9 DEF ResolveTerminalChild, To
  <2> QED
    BY <1>4, <2>1
<1>10. ASSUME NEW q \in Requests, Review(q) PROVE FALSE
  <2>1. request[q].status = "completion_review" /\ \E R : Set(q, R)
    BY <1>10 DEF Review, AskReviewers, ReviewCompletion, Is
  <2> QED
    BY <1>2, <1>4, <2>1
<1>11. ASSUME NEW q \in Requests, Cascade(q) PROVE FALSE
  <2>1. ~OwnsChild(q) /\ \E R : Set(q, R)
    BY <1>11 DEF Cascade
  <2>2. ~OwnsChild(r)
    BY <1>4, <2>1
  <2> QED
    BY <1>2, <2>2 DEF OwnsChild, Is
<1>12. ASSUME NEW q \in Requests, NEW s \in {"completed", "failed"}, ChildEnds(q, s) PROVE FALSE
  <2> DEFINE R == [request[q] EXCEPT !.child = s]
  <2>1. Set(q, R)
    BY <1>12 DEF ChildEnds
  <2>2. q = r
    <3> HIDE DEF R
    <3> QED
      BY <1>4, <2>1
  <2>3. R.child = s
    BY <1>2, <2>2 DEF RequestRecords
  <2> HIDE DEF R
  <2> QED
    BY <1>4, <2>1, <2>3
<1>13. ASSUME UNCHANGED request PROVE FALSE
  BY <1>3, <1>13
<1>14. Start \/ Pause \/ Resume \/ Cancel \/ (\E s \in {"completed", "failed"} : Finish(s))
       \/ UNCHANGED vars => UNCHANGED request
  BY DEF Start, Pause, Resume, Cancel, Finish, vars
<1> QED
  BY <1>5, <1>6, <1>7, <1>8, <1>9, <1>10, <1>11, <1>12, <1>13, <1>14 DEF Next, Resolve

-----------------------------------------------------------------------------
(* The theorems.                                                           *)

\* The records keep the shapes the stores validate, and what exists of a request fits
\* its status: a child from its acceptance on, verdicts from its completion on.
THEOREM RequestsTypeCorrect ==
  ASSUME MaxRequests \in Nat
  PROVE  Spec => []RequestsTypeOK
<1>1. Inv => RequestsTypeOK
  BY DEF Inv, RequestShapes, RequestsTypeOK, RequestFits, ChildFits, Requests
<1> QED
  BY <1>1, RequestsInvariance, PTL

\* A live source waits exactly for its unanswered or unfinished request, whatever
\* answers, results, reviews, pauses and commands arrive in whatever order.
THEOREM WaitsMatchRequests ==
  ASSUME MaxRequests \in Nat
  PROVE  Spec => []WaitMatchesRequest
<1>1. Inv => WaitMatchesRequest
  BY DEF Inv, RequestFits, WaitFits, KeepsSource, Stands, WaitMatchesRequest, Is
<1> QED
  BY <1>1, RequestsInvariance, PTL

\* Only a command to the child cancels work that was handed off: the cascade below the
\* ended source never reaches it.
THEOREM HandoffsSurvive ==
  ASSUME MaxRequests \in Nat
  PROVE  Spec => HandoffSurvives
<1>1. Inv /\ [Next]_vars => HandoffStep
  BY HandoffSteps
<1> QED
  BY <1>1, RequestsInvariance, PTL DEF Spec, HandoffSurvives, HandoffStep

\* Where a policy's quorum of equal verdicts can be told apart by its reviewers - one
\* verdict, or two with a third reviewer for a disagreement - a completion under review
\* always has a reviewer whose verdict is out, so its review can end.  The quorums beyond
\* that are the ones MC_split_review.cfg shows an example of.
THEOREM ReviewsConclude ==
  ASSUME MaxRequests \in Nat, PolicyConcludes
  PROVE  Spec => []ReviewConcludes
<1>1. Init => Reviews
  BY DEF Init, Reviews, Requests
<1>2. Inv /\ Reviews /\ [Next]_vars => Reviews'
  BY StepReviews
<1>3. Inv /\ Reviews => ReviewConcludes
  BY ReviewsGoOn
<1> QED
  BY <1>1, <1>2, <1>3, RequestsInvariance, PTL DEF Spec

\* What requests, answers, results, reviews and commands write of the source keeps to
\* the contract of a Run, which RunTurns implements.
THEOREM SourceKeepsContract ==
  ASSUME MaxRequests \in Nat
  PROVE  Spec => [][Life!Next]_(Life!vars)
<1>1. Init => Saved
  BY DEF Init, Saved, Stands
<1>2. Inv /\ Saved /\ [Next]_vars => Saved' /\ [Life!Next]_(Life!vars)
  BY StepMoves DEF Moves
<1> QED
  BY <1>1, <1>2, RequestsInvariance, PTL DEF Spec
=============================================================================
