--------------------------- MODULE ServicesProofs ---------------------------
(***************************************************************************)
(* What Requests, WorkSignals and EventWaits guarantee each by itself, of  *)
(* the specification that runs one of them beside the others at rest.  A   *)
(* service at rest satisfies the invariant of its module, which no step of *)
(* another service touches.                                                *)
(***************************************************************************)
EXTENDS MCServices, RequestsProofs, EventWaitsProofs

\* The invariants of the three modules.
ServicesInv == Inv /\ WorkTypeOK /\ InvE

LEMMA ServicesNumbers ==
  MaxRequests \in Nat /\ WorkSignalsAssumption /\ EventWaitsAssumption
BY ServicesAssumption

LEMMA OneServiceSteps ==
  ASSUME [ServicesNext]_<<vars, workVars, eventVars>>
  PROVE  [Next]_vars /\ [WorkNext]_workVars /\ [EventNext]_eventVars
BY DEF ServicesNext

-----------------------------------------------------------------------------
(* Services at rest.                                                       *)

LEMMA RequestsRest == ASSUME RequestsAtRest PROVE Inv /\ Reviews
<1>1. source \in Sources /\ source.on = 0
  BY ServicesNumbers DEF RequestsAtRest, Sources, SourceStatus, Ended
<1>2. Len(request) = 0 /\ request \in Seq(RequestRecords) /\ Requests = {}
  BY DEF RequestsAtRest, Requests
<1>3. spent \in [{"clarification", "operation"} -> Nat]
  BY DEF RequestsAtRest
<1> QED
  BY <1>1, <1>2, <1>3, ServicesNumbers DEF Inv, RequestShapes, SourceFits, Reviews

LEMMA WorkRests == ASSUME WorkAtRest PROVE WorkTypeOK /\ \A r \in Runs : ~Live(r, now)
<1>1. now \in Time /\ faults \in 0 .. MaxFaults
  BY ServicesNumbers DEF WorkAtRest, WorkSignalsAssumption, Time
<1>2. queue \in [Family -> Dues]
  BY ServicesNumbers, WorkNumbers DEF WorkAtRest, Nothing
<1>3. /\ run \in [Runs -> RunRecords] /\ \A r \in Runs : RunFits(run[r])
      /\ \A r \in Runs : ~Live(r, now)
  BY ServicesNumbers, WorkNumbers DEF WorkAtRest, RunFits, RunRecords, Live
<1>4. PoolFits([Started EXCEPT !.healthy = TRUE, !.phase = "asleep", !.wake = FALSE, !.claim = FALSE])
  <2>1. Cardinality({}) <= Concurrency
    BY FS_EmptySet, ServicesNumbers, WorkNumbers
  <2> QED
    BY <2>1 DEF PoolFits, Started, PoolRecords
<1>5. pool \in [Processes -> PoolRecords] /\ \A p \in Processes : PoolFits(pool[p])
  BY <1>4 DEF WorkAtRest, PoolFits
<1> QED
  BY <1>1, <1>2, <1>3, <1>5, ServicesNumbers, TypeFacts

LEMMA EventsRest == ASSUME EventsAtRest PROVE InvE /\ Contract!Init
<1>1. /\ 0 \in ClockTimes /\ 0 \in DueTimes /\ NeverDue \in DueTimes /\ 0 \in 0 .. MaxWaits
      /\ 0 \in 0 .. NumRuns /\ Horizon \in ClockTimes /\ 0 <= Horizon /\ Horizon \in Nat
      /\ MaxInterruptions \in 0 .. MaxInterruptions
  BY ServicesNumbers, EventNumbers DEF ClockTimes
<1>2. [key |-> 0, run |-> "canceled", deadline |-> 0, available |-> NeverDue, lease |-> 0,
       process |-> Idle] \in Waits
  BY <1>1 DEF Waits, Idle
<1>3. ~(0 > 0) /\ 0 <= 0 /\ << >> \in Seq(Events \union {NoEvent}) /\ Len(<< >>) = 0
  OBVIOUS
<1>4. /\ wait \in [Waiters -> Waits] /\ answers \in [Waiters -> Seq(Events \union {NoEvent})]
      /\ clock \in ClockTimes /\ interruptions \in 0 .. MaxInterruptions
  BY <1>1, <1>2, <1>3 DEF EventsAtRest
<1>5. ASSUME NEW r \in Waiters PROVE AwaitFits(wait[r], Len(answers[r]))
  BY <1>2, <1>3 DEF EventsAtRest, AwaitFits, Idle
<1>6. InboxFits
  <2>1. [pending |-> FALSE, due |-> NeverDue, cursor |-> 0] \in Notes
    BY <1>1 DEF Notes
  <2>2. \A r \in Waiters : wait[r].process.found = NoEvent
    BY DEF EventsAtRest, Idle
  <2>3. /\ received \in [Events -> ClockTimes \union {NeverDue}]
        /\ consumed \in [Waiters -> SUBSET Events] /\ note \in [Events -> Notes]
        /\ \A e \in Events : received[e] <= clock /\ ~note[e].pending
        /\ \A r \in Waiters : consumed[r] = {}
    BY <1>1, <2>1 DEF EventsAtRest
  <2> QED
    BY <2>2, <2>3, ServicesNumbers, EventNumbers DEF InboxFits
<1>7. ASSUME NEW r \in Waiters PROVE Follows(r)
  BY DEF EventsAtRest, Follows, Answered, Probed, Awaited, PendingWait, Idle
<1>8. Contract!Init
  <2>1. 0 \in Nat
    OBVIOUS
  <2> QED
    BY <1>1, <2>1 DEF EventsAtRest, Contract!Init
<1> QED
  BY <1>4, <1>5, <1>6, <1>7, <1>8 DEF EventShapes, InvE

-----------------------------------------------------------------------------
(* Every step.                                                             *)

LEMMA ServicesStart == ASSUME ServicesInit PROVE ServicesInv /\ Reviews /\ Contract!Init
<1>1. Inv /\ Reviews
  BY RequestsRest, InitSafe, ServicesNumbers DEF ServicesInit, Init, Reviews, Requests
<1>2. WorkTypeOK
  BY WorkRests, InitType, ServicesNumbers DEF ServicesInit
<1>3. InvE /\ Contract!Init
  BY EventsRest, EventsInvariance, WaitContractInits, ServicesNumbers DEF ServicesInit
<1> QED
  BY <1>1, <1>2, <1>3 DEF ServicesInv

LEMMA ServicesStep ==
  ASSUME ServicesInv, [ServicesNext]_<<vars, workVars, eventVars>>
  PROVE  ServicesInv'
<1>1. [Next]_vars /\ [WorkNext]_workVars /\ [EventNext]_eventVars
  BY OneServiceSteps
<1> QED
  BY <1>1, StepSafe, NextType, EventsInvariance, ServicesNumbers DEF ServicesInv

LEMMA ServicesInvariance == FairServices => []ServicesInv
<1>1. ServicesInit => ServicesInv
  BY ServicesStart
<1>2. ServicesInv /\ [ServicesNext]_<<vars, workVars, eventVars>> => ServicesInv'
  BY ServicesStep
<1> QED
  BY <1>1, <1>2, PTL DEF FairServices

-----------------------------------------------------------------------------
(* The theorems.                                                           *)

\* The requests and their source, the store with its queue and pools, and the waits with
\* their inbox stay well formed, whichever of the services runs.
THEOREM ServicesTypeCorrect == FairServices => []ServicesTypeOK
<1>1. ServicesInv => ServicesTypeOK
  <2>1. Inv => RequestsTypeOK
    BY DEF Inv, RequestShapes, RequestsTypeOK, RequestFits, ChildFits, Requests
  <2>2. InvE => EventsTypeOK
    BY ShapesGiveTypes, ServicesNumbers DEF InvE
  <2> QED
    BY <2>1, <2>2 DEF ServicesInv, ServicesTypeOK
<1> QED
  BY <1>1, ServicesInvariance, PTL

\* A live source waits exactly for its open request, a parked wait has its event still
\* announced to it, and an event answers one wait of a Run.
THEOREM ServicesKeepWaits ==
  FairServices => [](WaitMatchesRequest /\ NotForgotten /\ EventAnswersOnce)
<1>1. Inv => WaitMatchesRequest
  BY DEF Inv, RequestFits, WaitFits, KeepsSource, Stands, WaitMatchesRequest, Is
<1>2. InvE => NotForgotten /\ EventAnswersOnce
  BY DEF InvE, Follows, Awaited, Unattended, Answered, NotForgotten, EventAnswersOnce
<1>3. ServicesInv => WaitMatchesRequest /\ NotForgotten /\ EventAnswersOnce
  BY <1>1, <1>2 DEF ServicesInv
<1> QED
  BY <1>3, ServicesInvariance, PTL

\* Work that was handed off is canceled by a command to it only, and waits end as
\* WaitContract has it.
THEOREM ServicesKeepPromises == FairServices => HandoffSurvives /\ ImplementsWaitContract
<1>1. ServicesInit => Contract!Init
  BY ServicesStart
<1>2. ServicesInv /\ [ServicesNext]_<<vars, workVars, eventVars>>
      => HandoffStep /\ [Contract!Next]_(Contract!vars)
  BY OneServiceSteps, HandoffSteps, EventsStep, ServicesNumbers DEF ServicesInv
<1> QED
  BY <1>1, <1>2, ServicesInvariance, PTL
     DEF FairServices, HandoffSurvives, HandoffStep, ImplementsWaitContract, Contract!Spec

\* Where the policy's quorum can be told apart by its reviewers, a review under way always
\* has a verdict out.
THEOREM ServicesConclude ==
  ASSUME PolicyConcludes
  PROVE  FairServices => []ReviewConcludes
<1>1. ServicesInit => Reviews
  BY ServicesStart
<1>2. ServicesInv /\ Reviews /\ [ServicesNext]_<<vars, workVars, eventVars>> => Reviews'
  BY OneServiceSteps, StepReviews, ServicesNumbers DEF ServicesInv
<1>3. ServicesInv /\ Reviews => ReviewConcludes
  BY ReviewsGoOn, ServicesNumbers DEF ServicesInv
<1> QED
  BY <1>1, <1>2, <1>3, ServicesInvariance, PTL DEF FairServices

\* Where transactions read the clock as they commit, live leases never exceed a limit.
THEOREM ServicesKeepLimits ==
  ASSUME Stall = 0
  PROVE  FairServices => []WithinLimits
<1>1. ServicesInit => WithinLimits
  <2>1. ASSUME ServicesInit, NEW l \in Limits PROVE InUse(l, now) <= l.capacity
    <3>1. \A r \in Runs : ~Live(r, now)
      BY <2>1, WorkRests DEF ServicesInit, WorkInit, Live
    <3>2. Units(l, now) = {}
      BY <3>1 DEF Units
    <3>3. l.capacity \in Nat /\ InUse(l, now) = Cardinality(Units(l, now))
      BY UnitsFinite, ServicesNumbers DEF WorkSignalsAssumption
    <3> QED
      BY <3>2, <3>3, FS_EmptySet
  <2> QED
    BY <2>1 DEF WithinLimits
<1>2. ServicesInv /\ WithinLimits /\ [ServicesNext]_<<vars, workVars, eventVars>> => WithinLimits'
  BY OneServiceSteps, NextWithin, ServicesNumbers DEF ServicesInv
<1> QED
  BY <1>1, <1>2, ServicesInvariance, PTL DEF FairServices
=============================================================================
