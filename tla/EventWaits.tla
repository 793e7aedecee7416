------------------------------ MODULE EventWaits ------------------------------
(***************************************************************************)
(* Runs that wait for an external event.                                   *)
(*                                                                         *)
(* A verified observation is stored in an inbox with a notification.  It   *)
(* does not touch the waits: a worker's claim advances notifications page  *)
(* by page over the pending waits they concern, makes those due, and       *)
(* leases the due waits; the holder of a lease then processes each wait,   *)
(* which matches an event of the inbox, times out, or is parked until its  *)
(* deadline.  A wait probes the inbox when it is armed or resumed too, so  *)
(* an event may come before the wait it answers.                           *)
(*                                                                         *)
(* The steps are the transactions of the SQL store, with the processing    *)
(* of a wait cut where it has read the inbox: it locks the Run and then    *)
(* the wait until it commits, and an event may be stored in between.  A    *)
(* lease is fenced by its holder's identity, which is fresh for every      *)
(* claim, so that only the latest holder can act and holders need no name. *)
(*                                                                         *)
(* All waits are for the same type, source, subject and attributes, from   *)
(* the creation of their Run on; waits for something else do not interact. *)
(* Which of several matching events a wait takes is left open: the stores  *)
(* disagree on it.  Payloads outlive every wait that can still match them, *)
(* so their retention is left out.                                         *)
(***************************************************************************)
EXTENDS Integers, Sequences, FiniteSets, FiniteSetsExt

CONSTANTS
  NumRuns, NumEvents,
  PageLimit,    \* candidates a claim visits
  Duration,     \* longest timeout of a wait
  WaitLease,
  Horizon,      \* model bound: the horizon of the clock
  MaxWaits,     \* model bound: waits of a Run, one after another
  MaxInterruptions \* model bound: pauses and cancellations, and transactions rolled back

EventWaitsAssumption ==
  /\ NumRuns \in Nat /\ NumEvents \in Nat /\ PageLimit \in Nat /\ Duration \in Nat
  /\ WaitLease \in Nat \ {0}
  /\ Horizon \in Nat /\ MaxWaits \in Nat /\ MaxInterruptions \in Nat

VARIABLES
  clock,
  wait,     \* the latest wait of each Run
  answers,  \* how the earlier waits of each Run ended: the event that answered, or NoEvent
  received, \* when the inbox received each event
  consumed, \* the events each Run has consumed
  note,     \* the notifications of the events
  interruptions

eventVars == <<clock, wait, answers, received, consumed, note, interruptions>>

Waiters == 1 .. NumRuns
Events == 1 .. NumEvents
NoEvent == 0
ClockTimes == 0 .. Horizon
NeverDue == Horizon + Duration + WaitLease + 1
DueTimes == 0 .. NeverDue

Idle == [held |-> FALSE, found |-> NoEvent, at |-> 0]

Waits == [key : 0 .. MaxWaits, run : {"running", "waiting_for_event", "paused", "canceled"},
          deadline : DueTimes, available : DueTimes, lease : DueTimes,
          process : [held : BOOLEAN, found : Events \union {NoEvent}, at : ClockTimes]]
Notes == [pending : BOOLEAN, due : DueTimes, cursor : 0 .. NumRuns]

PendingWait(r) == wait[r].run = "waiting_for_event"

\* Type invariant: also, only a pending wait is leased or processed, and only a
\* stored event is announced or consumed.
EventsTypeOK ==
  /\ clock \in ClockTimes /\ interruptions \in 0 .. MaxInterruptions
  /\ wait \in [Waiters -> Waits] /\ received \in [Events -> ClockTimes \union {NeverDue}]
  /\ consumed \in [Waiters -> SUBSET Events] /\ note \in [Events -> Notes]
  /\ answers \in [Waiters -> Seq(Events \union {NoEvent})]
  /\ \A r \in Waiters : Len(answers[r]) <= wait[r].key
  /\ \A r \in Waiters : wait[r].lease > 0 \/ wait[r].process.held => PendingWait(r)
  /\ \A e \in Events : received[e] = NeverDue => ~note[e].pending /\ \A r \in Waiters : e \notin consumed[r]

EventInit ==
  /\ clock = 0 /\ interruptions = 0
  /\ wait = [r \in Waiters |-> [key |-> 0, run |-> "running", deadline |-> 0, available |-> NeverDue,
                             lease |-> 0, process |-> Idle]]
  /\ answers = [r \in Waiters |-> << >>]
  /\ received = [e \in Events |-> NeverDue]
  /\ consumed = [r \in Waiters |-> {}]
  /\ note = [e \in Events |-> [pending |-> FALSE, due |-> NeverDue, cursor |-> 0]]

-----------------------------------------------------------------------------
(* Waits are armed, paused, resumed and canceled with their Runs, whose    *)
(* rows a processor locks first.                                           *)

Free(r) == ~wait[r].process.held
SetWait(r, W) == wait' = [wait EXCEPT ![r] = W]

Arm(r) ==
  /\ wait[r].run = "running" /\ wait[r].key < MaxWaits
  /\ \E d \in 1 .. Duration :
       SetWait(r, [wait[r] EXCEPT !.key = @ + 1, !.run = "waiting_for_event", !.deadline = clock + d,
                              !.available = clock])
  /\ UNCHANGED <<clock, answers, received, consumed, note, interruptions>>

Interrupt == interruptions < MaxInterruptions /\ interruptions' = interruptions + 1

PauseWait(r) ==
  /\ PendingWait(r) /\ Free(r) /\ Interrupt
  /\ SetWait(r, [wait[r] EXCEPT !.run = "paused", !.available = NeverDue, !.lease = 0])
  /\ UNCHANGED <<clock, answers, received, consumed, note>>

\* As if the wait were still parked.
ResumeParked(r) ==
  /\ wait[r].run = "paused"
  /\ SetWait(r, [wait[r] EXCEPT !.run = "waiting_for_event", !.available = wait[r].deadline])
  /\ UNCHANGED <<clock, answers, received, consumed, note, interruptions>>

\* The expectation is kept, and looks into the inbox again; its deadline has gone on.
ResumeWait(r) ==
  /\ wait[r].run = "paused"
  /\ SetWait(r, [wait[r] EXCEPT !.run = "waiting_for_event", !.available = clock])
  /\ UNCHANGED <<clock, answers, received, consumed, note, interruptions>>

CancelWait(r) ==
  /\ (PendingWait(r) \/ wait[r].run = "paused") /\ Free(r) /\ Interrupt
  /\ SetWait(r, [wait[r] EXCEPT !.run = "canceled", !.available = NeverDue, !.lease = 0])
  /\ UNCHANGED <<clock, answers, received, consumed, note>>

\* An event identity is stored once: a repeated delivery changes nothing.
PublishRunEvent(e) ==
  /\ received[e] = NeverDue
  /\ received' = [received EXCEPT ![e] = clock]
  /\ note' = [note EXCEPT ![e] = [pending |-> TRUE, due |-> clock, cursor |-> 0]]
  /\ UNCHANGED <<clock, wait, answers, consumed, interruptions>>

-----------------------------------------------------------------------------
(* The worker.                                                             *)

\* As if the time of processing counted, and not the time of the receipt.
MatchesWhenProcessed(r, e) == received[e] <= clock /\ clock < wait[r].deadline

Matches(r, e) == received[e] <= clock /\ received[e] <= wait[r].deadline
Matching(r) == {e \in Events : Matches(r, e)} \ consumed[r]

Due(e) == note[e].pending /\ note[e].due <= clock
Candidates(e) == {r \in Waiters : r > note[e].cursor /\ PendingWait(r)}

\* A claim visits due notifications in the order of their time and identity, and the
\* pending waits after the cursor of each, until it has seen PageLimit waits.
Before(d, e) == Due(d) /\ (note[d].due < note[e].due \/ (note[d].due = note[e].due /\ d < e))
Left(e) ==
  PageLimit - Cardinality({v \in Events \X Waiters : Before(v[1], e) /\ v[2] \in Candidates(v[1])})

Visited(e) == Due(e) /\ Left(e) > 0
Page(e) == {r \in Candidates(e) : Cardinality({q \in Candidates(e) : q <= r}) <= Left(e)}

\* Where a notification stands after a claim: it is gone unless its page spent the budget.
Advanced(e) ==
  IF ~Visited(e) THEN note[e]
  ELSE IF Cardinality(Page(e)) = Left(e) THEN [pending |-> TRUE, due |-> clock, cursor |-> Max(Page(e))]
  ELSE [pending |-> FALSE, due |-> NeverDue, cursor |-> 0]

\* The waits of the page that the event matches are made due.
Available(r) ==
  Min({wait[r].available} \union {received[e] : e \in {d \in Events : Visited(d) /\ r \in Page(d) /\ Matches(r, d)}})

ClaimableWaits(r) ==
  PendingWait(r) /\ Free(r) /\ IF wait[r].lease = 0 THEN Available(r) <= clock ELSE wait[r].lease <= clock

NoneLocked == \A e \in Events : Visited(e) => \A r \in Page(e) : Free(r)

\* One transaction: it waits for the waits of its pages that are being processed, or
\* their cursors would pass them while they still look at an inbox without the event.
ClaimSkippingLocked ==
  /\ note' = [e \in Events |-> Advanced(e)]
  /\ wait' = [r \in Waiters |->
       IF ClaimableWaits(r) THEN [wait[r] EXCEPT !.lease = clock + WaitLease, !.available = clock + WaitLease]
       ELSE IF Free(r) THEN [wait[r] EXCEPT !.available = Available(r)] ELSE wait[r]]
  /\ UNCHANGED <<clock, answers, received, consumed, interruptions>>

ClaimRunEventWaits ==
  /\ NoneLocked
  /\ note' = [e \in Events |-> Advanced(e)]
  /\ wait' = [r \in Waiters |->
       IF ClaimableWaits(r) THEN [wait[r] EXCEPT !.lease = clock + WaitLease, !.available = clock + WaitLease]
       ELSE [wait[r] EXCEPT !.available = Available(r)]]
  /\ UNCHANGED <<clock, answers, received, consumed, interruptions>>

\* The transaction that processes a leased wait has the time it was asked at, its
\* locks, and what it found in the inbox.
Probe(r) ==
  /\ PendingWait(r) /\ Free(r) /\ wait[r].lease > clock
  /\ \E e \in IF Matching(r) = {} THEN {NoEvent} ELSE Matching(r) :
       SetWait(r, [wait[r] EXCEPT !.process = [held |-> TRUE, found |-> e, at |-> clock]])
  /\ UNCHANGED <<clock, answers, received, consumed, note, interruptions>>

Park(r) ==
  LET P == wait[r].process
  IN /\ P.held /\ P.found = NoEvent /\ P.at < wait[r].deadline
     /\ SetWait(r, [wait[r] EXCEPT !.process = Idle, !.lease = 0, !.available = wait[r].deadline])
     /\ UNCHANGED <<clock, answers, received, consumed, note, interruptions>>

\* As if the consumption of the event were not recorded.
ResolveForgetful(r) ==
  LET P == wait[r].process
  IN /\ P.held /\ (P.found # NoEvent \/ P.at >= wait[r].deadline)
     /\ SetWait(r, [wait[r] EXCEPT !.process = Idle, !.lease = 0, !.available = NeverDue, !.run = "running"])
     /\ answers' = [answers EXCEPT ![r] = Append(@, P.found)]
     /\ UNCHANGED <<clock, received, consumed, note, interruptions>>

\* As if the lease were left on the wait.
ResolveLeased(r) ==
  LET P == wait[r].process
  IN /\ P.held /\ (P.found # NoEvent \/ P.at >= wait[r].deadline)
     /\ SetWait(r, [wait[r] EXCEPT !.process = Idle, !.available = NeverDue, !.run = "running"])
     /\ answers' = [answers EXCEPT ![r] = Append(@, P.found)]
     /\ consumed' = [consumed EXCEPT ![r] = @ \union ({P.found} \ {NoEvent})]
     /\ UNCHANGED <<clock, received, note, interruptions>>

\* The Run is queued again with the answer: the event, which it will not see again,
\* or that there was none.
ResolveWait(r) ==
  LET P == wait[r].process
  IN /\ P.held /\ (P.found # NoEvent \/ P.at >= wait[r].deadline)
     /\ SetWait(r, [wait[r] EXCEPT !.process = Idle, !.lease = 0, !.available = NeverDue, !.run = "running"])
     /\ answers' = [answers EXCEPT ![r] = Append(@, P.found)]
     /\ consumed' = [consumed EXCEPT ![r] = @ \union ({P.found} \ {NoEvent})]
     /\ UNCHANGED <<clock, received, note, interruptions>>

\* The transaction fails, or its worker dies: the lease is left to lapse.
Rollback(r) ==
  /\ wait[r].process.held /\ Interrupt
  /\ SetWait(r, [wait[r] EXCEPT !.process = Idle])
  /\ UNCHANGED <<clock, answers, received, consumed, note>>

ClockTick ==
  /\ clock < Horizon /\ clock' = clock + 1
  /\ UNCHANGED <<wait, answers, received, consumed, note, interruptions>>

-----------------------------------------------------------------------------

EventNext ==
  \/ ClockTick \/ ClaimRunEventWaits
  \/ \E e \in Events : PublishRunEvent(e)
  \/ \E r \in Waiters :
       \/ Arm(r) \/ PauseWait(r) \/ ResumeWait(r) \/ CancelWait(r)
       \/ Probe(r) \/ Park(r) \/ ResolveWait(r) \/ Rollback(r)

EventSpec == EventInit /\ [][EventNext]_eventVars

\* Time passes, the worker polls the scopes that have work, holders of leases process
\* their waits, and transactions end.
EventFairness ==
  /\ WF_eventVars(ClockTick) /\ WF_eventVars(ClaimRunEventWaits)
  /\ \A r \in Waiters : WF_eventVars(Probe(r)) /\ WF_eventVars(Park(r) \/ ResolveWait(r))

FairEvents == EventSpec /\ EventFairness

-----------------------------------------------------------------------------
(* What the design promises.                                               *)

\* NotForgotten: a wait that is parked misses no event: one that answers it is
\* still to be announced to it.  The cursor of a notification may have passed only
\* waits that look into the inbox themselves, or were not parked when it passed.
NotForgotten ==
  \A r \in Waiters :
    PendingWait(r) /\ wait[r].lease = 0 /\ wait[r].available > clock =>
      \A e \in Matching(r) : note[e].pending /\ note[e].cursor < r

\* EventAnswersOnce: an event answers one wait of a Run, although later waits for the
\* same still find it in the inbox.
EventAnswersOnce ==
  \A r \in Waiters : \A i, j \in DOMAIN answers[r] :
    answers[r][i] = answers[r][j] /\ answers[r][i] # NoEvent => i = j

Contract == INSTANCE WaitContract WITH
  Never <- NeverDue,
  state <- [r \in Waiters |-> wait[r].run], deadline <- [r \in Waiters |-> wait[r].deadline]

\* ImplementsWaitContract: through leases that lapse, pages, late announcements, rollbacks
\* and pauses, a wait is answered by an event of its time that is new to its Run, or times
\* out when none was received before its deadline, as WaitContract has it.
ImplementsWaitContract == Contract!Spec

\* EventWaitsResolve: a pending wait that is overdue or has its event is resolved.
EventWaitsResolve ==
  []<>(\A r \in Waiters : PendingWait(r) => clock < wait[r].deadline /\ Matching(r) = {})
=============================================================================
