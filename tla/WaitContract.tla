---------------------------- MODULE WaitContract ----------------------------
(* What a wait for an external event promises to its Run: it is answered,  *)
(* once, by an event that was received by its deadline and that answered   *)
(* no earlier wait of the Run, or it times out, when its deadline has come *)
(* and nothing for it was received before.  A pause neither ends a wait    *)
(* nor moves its deadline.  How events and waits find each other is left   *)
(* open.                                                                   *)
EXTENDS Naturals, Sequences

CONSTANTS Waiters, Events, NoEvent, Never
VARIABLES clock, state, deadline, answers, received, consumed

vars == <<clock, state, deadline, answers, received, consumed>>

Init ==
  /\ clock \in Nat /\ received \in [Events -> Nat]
  /\ state \in [Waiters -> {"running", "canceled"}] /\ deadline \in [Waiters -> Nat]
  /\ answers = [r \in Waiters |-> << >>] /\ consumed = [r \in Waiters |-> {}]

Tick == clock' = clock + 1 /\ UNCHANGED <<state, deadline, answers, received, consumed>>

Receive(e) ==
  /\ received[e] = Never /\ received' = [received EXCEPT ![e] = clock]
  /\ UNCHANGED <<clock, state, deadline, answers, consumed>>

Move(r, from, to) == state[r] \in from /\ state' = [state EXCEPT ![r] = to]

Expect(r) ==
  /\ Move(r, {"running"}, "waiting_for_event")
  /\ deadline' = [deadline EXCEPT ![r] = deadline'[r]] /\ deadline'[r] > clock
  /\ UNCHANGED <<clock, answers, received, consumed>>

Interrupt(r) ==
  /\ \/ Move(r, {"waiting_for_event"}, "paused")
     \/ Move(r, {"paused"}, "waiting_for_event")
     \/ Move(r, {"waiting_for_event", "paused"}, "canceled")
  /\ UNCHANGED <<clock, deadline, answers, received, consumed>>

End(r, answer) ==
  /\ Move(r, {"waiting_for_event"}, "running")
  /\ answers' = [answers EXCEPT ![r] = Append(@, answer)]
  /\ UNCHANGED <<clock, deadline, received>>

Answer(r, e) ==
  /\ e \notin consumed[r] /\ received[e] <= clock /\ received[e] <= deadline[r]
  /\ consumed' = [consumed EXCEPT ![r] = @ \union {e}]
  /\ End(r, e)

TimeOut(r) ==
  /\ deadline[r] <= clock
  /\ \A e \in Events \ consumed[r] : received[e] >= deadline[r]
  /\ End(r, NoEvent) /\ UNCHANGED consumed

Next ==
  \/ Tick
  \/ \E e \in Events : Receive(e)
  \/ \E r \in Waiters : Expect(r) \/ Interrupt(r) \/ TimeOut(r) \/ \E e \in Events : Answer(r, e)

Spec == Init /\ [][Next]_vars
=============================================================================
