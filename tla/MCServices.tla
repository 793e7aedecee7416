----------------------------- MODULE MCServices -----------------------------
(***************************************************************************)
(* Requests, WorkSignals and EventWaits side by side: a behaviour runs one *)
(* of them, while the other two are at rest.  They are separate services    *)
(* that share no state a step of one of them depends on.                   *)
(***************************************************************************)
EXTENDS Requests, WorkSignals, EventWaits

CONSTANT Capacity

\* One limit, of which every Run needs a unit.
OneLimit == {[need |-> [r \in Runs |-> 1], capacity |-> Capacity]}

ASSUME ServicesAssumption ==
  MaxRequests \in Nat /\ WorkSignalsAssumption /\ EventWaitsAssumption

\* At rest: the source was canceled before it asked for anything, every Run has ended,
\* every waiting Run was canceled and every event was announced.
RequestsAtRest ==
  /\ source = [status |-> "canceled", pausedFrom |-> "none", on |-> 0] /\ request = << >>
  /\ spent = [b \in {"clarification", "operation"} |-> 0]

WorkAtRest ==
  /\ now = MaxTime /\ faults = MaxFaults /\ queue = Nothing
  /\ run = [r \in Runs |-> [status |-> "ended", available |-> 0, lease |-> 0, owner |-> NoProcess]]
  /\ pool = [p \in Processes |-> [Started EXCEPT !.healthy = TRUE, !.phase = "asleep",
                                                 !.wake = FALSE, !.claim = FALSE]]

EventsAtRest ==
  /\ clock = Horizon /\ interruptions = MaxInterruptions
  /\ wait = [r \in Waiters |-> [key |-> 0, run |-> "canceled", deadline |-> 0, available |-> NeverDue,
                                lease |-> 0, process |-> Idle]]
  /\ answers = [r \in Waiters |-> << >>] /\ consumed = [r \in Waiters |-> {}]
  /\ received = [e \in Events |-> 0]
  /\ note = [e \in Events |-> [pending |-> FALSE, due |-> NeverDue, cursor |-> 0]]

ServicesInit ==
  \/ Init /\ WorkAtRest /\ EventsAtRest
  \/ RequestsAtRest /\ WorkInit /\ EventsAtRest
  \/ RequestsAtRest /\ WorkAtRest /\ EventInit

ServicesNext ==
  \/ Next /\ UNCHANGED <<workVars, eventVars>>
  \/ WorkNext /\ UNCHANGED <<vars, eventVars>>
  \/ EventNext /\ UNCHANGED <<vars, workVars>>

FairServices ==
  /\ ServicesInit /\ [][ServicesNext]_<<vars, workVars, eventVars>>
  /\ Fairness /\ WorkFairness /\ EventFairness

\* The type invariants of the three modules.
ServicesTypeOK == RequestsTypeOK /\ WorkTypeOK /\ EventsTypeOK
=============================================================================
