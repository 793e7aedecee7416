--------------------------- MODULE EventWaitsProofs ---------------------------
(***************************************************************************)
(* Theorems about EventWaits for any number of Runs, events and waits, any *)
(* page size, timeouts and leases.                                         *)
(*                                                                         *)
(* The invariant has three layers, each proved on the one before: the      *)
(* shape of a wait (only a pending wait is leased, only a leased one is    *)
(* processed, and it has one answer less than the Run has had waits); what *)
(* a processor knows (the event it found is new to the Run, or whatever    *)
(* has come to the inbox since it looked came after it looked); and what   *)
(* is still to be announced to a wait nobody looks after.                  *)
(***************************************************************************)
EXTENDS EventWaits, WorkSignalsProofs

-----------------------------------------------------------------------------
(* Numbers.  LeastNumber and MinIsLeast are lemmas of WorkSignalsProofs.   *)

\* A bounded set of numbers has a greatest one.
LEMMA MaxIsGreatest ==
  ASSUME NEW B \in Nat, NEW T, T \subseteq 0 .. B, T # {}
  PROVE  Max(T) \in T /\ \A n \in T : n <= Max(T)
<1> DEFINE below == {B - n : n \in T}
<1>1. \A n \in T : n \in 0 .. B /\ B - n \in Nat
  OBVIOUS
<1>2. below \subseteq Nat /\ below # {}
  BY <1>1
<1>3. PICK m \in below : \A k \in below : m <= k
  <2> HIDE DEF below
  <2> QED
    BY <1>2, LeastNumber
<1>4. PICK g \in T : m = B - g
  BY <1>3
<1>5. \A n \in T : B - g <= B - n
  BY <1>3, <1>4
<1>6. \A n \in T : g >= n
  BY <1>1, <1>5
<1>7. Max(T) \in T /\ \A n \in T : Max(T) >= n
  BY <1>6 DEF Max
<1> QED
  BY <1>1, <1>7

LEMMA Ranks ==
  ASSUME NEW B \in Nat, NEW C, C \subseteq 0 .. B, NEW p \in C, NEW q \in C, p <= q
  PROVE  /\ IsFiniteSet({x \in C : x <= q})
         /\ Cardinality({x \in C : x <= p}) \in Nat /\ Cardinality({x \in C : x <= q}) \in Nat
         /\ Cardinality({x \in C : x <= p}) <= Cardinality({x \in C : x <= q})
<1>1. 0 \in Int /\ B \in Int /\ p \in Nat /\ q \in Nat
  OBVIOUS
<1>2. IsFiniteSet(0 .. B)
  BY <1>1, FS_Interval
<1>3. {x \in C : x <= p} \subseteq {x \in C : x <= q} /\ {x \in C : x <= q} \subseteq 0 .. B
  <2>1. \A x \in C : x \in Nat
    OBVIOUS
  <2>2. \A x \in C : x <= p => x <= q
    BY <1>1, <2>1
  <2> QED
    BY <2>2
<1>4. IsFiniteSet({x \in C : x <= q})
  BY <1>2, <1>3, FS_Subset
<1> QED
  BY <1>3, <1>4, FS_Subset, FS_CardinalityType

\* The part of a set of numbers with at most limit elements up to each of them: when it is
\* not the whole set it has exactly limit elements, and all are below the others.
LEMMA PageIsFull ==
  ASSUME NEW B \in Nat, NEW C, C \subseteq 0 .. B, NEW limit \in Nat \ {0}, NEW r \in C,
         ~(Cardinality({x \in C : x <= r}) <= limit)
  PROVE  LET P == {q \in C : Cardinality({x \in C : x <= q}) <= limit}
         IN Cardinality(P) = limit /\ \A q \in P : q < r
<1> DEFINE upto(q) == {x \in C : x <= q}
           rank(q) == Cardinality(upto(q))
           P == {q \in C : rank(q) <= limit}
<1>1. \A q \in C : q \in Nat
  OBVIOUS
<1>2. \A q \in C : IsFiniteSet(upto(q)) /\ rank(q) \in Nat
  <2>1. \A q \in C : q <= q
    BY <1>1
  <2> QED
    BY <2>1, Ranks
<1>3. \A p \in C, q \in C : p <= q => rank(p) <= rank(q)
  BY Ranks
<1>4. P \subseteq C /\ (\A q \in C : q \in P <=> rank(q) <= limit) /\ r \notin P
  OBVIOUS
<1>5. (\A q \in C : upto(q) \subseteq C) /\ \A q, x \in C : x \in upto(q) <=> x <= q
  OBVIOUS
<1>6. C \subseteq 0 .. B /\ r \in C /\ limit \in Nat \ {0}
  OBVIOUS
<1>r. \A q \in C : rank(q) = Cardinality(upto(q))
  OBVIOUS
<1> HIDE DEF upto, rank, P
<1>7. ASSUME NEW q \in P, NEW s \in C \ P PROVE q < s
  <2>1. rank(q) <= limit /\ ~(rank(s) <= limit) /\ q \in C /\ rank(q) \in Nat /\ rank(s) \in Nat
    BY <1>2, <1>4
  <2>2. s <= q => rank(s) <= rank(q)
    BY <1>3, <2>1
  <2>3. ~(s <= q)
    BY <2>1, <2>2
  <2> QED
    BY <1>1, <2>1, <2>3
<1>8. PICK m \in C \ P : \A n \in C \ P : m <= n
  <2>1. C \ P \subseteq Nat /\ C \ P # {}
    BY <1>1, <1>4
  <2> QED
    BY <2>1, LeastNumber
<1>9. upto(m) = P \union {m}
  <2>1. ASSUME NEW x \in upto(m), x \notin P PROVE x = m
    <3>1. x \in C /\ x <= m /\ m <= x
      BY <1>5, <1>8, <2>1
    <3> QED
      BY <1>1, <1>8, <3>1
  <2>2. ASSUME NEW x \in P PROVE x \in upto(m)
    <3>1. x \in C /\ x < m
      BY <1>4, <1>7, <1>8
    <3>2. x <= m
      BY <1>1, <1>8, <3>1
    <3> QED
      BY <1>5, <1>8, <3>1, <3>2
  <2>3. m \in upto(m)
    <3>1. m <= m
      BY <1>1, <1>8
    <3> QED
      BY <1>5, <1>8, <3>1
  <2> QED
    BY <2>1, <2>2, <2>3
<1>10. IsFiniteSet(P) /\ Cardinality(P) \in Nat
  <2>1. IsFiniteSet(upto(m)) /\ P \subseteq upto(m)
    BY <1>2, <1>8, <1>9
  <2> QED
    BY <2>1, FS_Subset, FS_CardinalityType
<1>11. Cardinality(P) >= limit
  <2>1. rank(m) = Cardinality(P) + 1
    BY <1>8, <1>9, <1>10, <1>r, FS_AddElement
  <2>2. ~(rank(m) <= limit)
    BY <1>4, <1>8
  <2> QED
    BY <1>6, <1>10, <2>1, <2>2
<1>12. Cardinality(P) <= limit
  <2>1. P # {}
    BY <1>6, <1>11, FS_EmptySet
  <2>2. Max(P) \in P /\ \A n \in P : n <= Max(P)
    <3>1. P \subseteq 0 .. B
      BY <1>4, <1>6
    <3> QED
      BY <2>1, <3>1, MaxIsGreatest
  <2>3. P \subseteq upto(Max(P)) /\ Max(P) \in C
    BY <1>4, <1>5, <2>2
  <2>4. rank(Max(P)) <= limit /\ rank(Max(P)) \in Nat /\ IsFiniteSet(upto(Max(P)))
    BY <1>2, <1>4, <2>2, <2>3
  <2>5. Cardinality(P) <= rank(Max(P))
    BY <1>r, <2>3, <2>4, FS_Subset, ZenonT(40)
  <2> QED
    BY <1>6, <1>10, <2>4, <2>5
<1>13. Cardinality(P) = limit /\ \A q \in P : q < r
  BY <1>4, <1>6, <1>7, <1>10, <1>11, <1>12
<1> QED
  BY <1>13 DEF P, rank, upto

-----------------------------------------------------------------------------
(* EventShapes.                                                                 *)

\* W is the wait of a Run that has had n answers.
AwaitFits(W, n) ==
  /\ W \in Waits
  /\ W.process.held => W.lease > 0
  /\ W.lease > 0 => W.run = "waiting_for_event"
  /\ n <= W.key
  /\ W.run \in {"waiting_for_event", "paused"} => n < W.key

\* What the inbox has, it has received by now; the rest is not announced or consumed.
InboxFits ==
  /\ received \in [Events -> ClockTimes \union {NeverDue}]
  /\ consumed \in [Waiters -> SUBSET Events] /\ note \in [Events -> Notes]
  /\ \A e \in Events : received[e] <= clock \/ received[e] = NeverDue
  /\ \A e \in Events : received[e] = NeverDue => ~note[e].pending /\ \A r \in Waiters : e \notin consumed[r]
  /\ \A r \in Waiters : wait[r].process.found \in Events => received[wait[r].process.found] # NeverDue

EventShapes ==
  /\ clock \in ClockTimes /\ interruptions \in 0 .. MaxInterruptions
  /\ wait \in [Waiters -> Waits] /\ answers \in [Waiters -> Seq(Events \union {NoEvent})]
  /\ \A r \in Waiters : AwaitFits(wait[r], Len(answers[r]))
  /\ InboxFits

LEMMA EventNumbers ==
  ASSUME EventWaitsAssumption
  PROVE  /\ NumRuns \in Nat /\ NumEvents \in Nat /\ PageLimit \in Nat /\ NeverDue \in Nat
         /\ Horizon \in Nat /\ MaxInterruptions \in Nat /\ MaxWaits \in Nat
         /\ 0 \in ClockTimes /\ NeverDue \in DueTimes /\ NeverDue > Horizon /\ 0 \in DueTimes
         /\ \A t \in ClockTimes : t \in Nat /\ t <= Horizon /\ t \in DueTimes
         /\ \A t \in ClockTimes : t + WaitLease \in DueTimes /\ t + WaitLease > 0
         /\ \A t \in ClockTimes : \A d \in 1 .. Duration : t + d \in DueTimes
         /\ \A t \in DueTimes : t \in Nat
         /\ \A r \in Waiters : r \in Nat /\ r > 0
         /\ \A e \in Events : e \in Nat /\ e # NoEvent
BY DEF EventWaitsAssumption, NeverDue, ClockTimes, DueTimes, Waiters, Events, NoEvent

LEMMA ShapesGiveTypes == ASSUME EventWaitsAssumption, EventShapes PROVE EventsTypeOK
<1>1. \A r \in Waiters : AwaitFits(wait[r], Len(answers[r]))
  BY DEF EventShapes
<1> QED
  BY <1>1 DEF EventShapes, InboxFits, EventsTypeOK, AwaitFits, PendingWait

LEMMA WaitFacts ==
  ASSUME EventWaitsAssumption, EventShapes, NEW r \in Waiters
  PROVE  /\ wait[r] \in Waits /\ AwaitFits(wait[r], Len(answers[r])) /\ answers[r] \in Seq(Events \union {NoEvent})
         /\ Len(answers[r]) \in Nat /\ wait[r].key \in Nat /\ wait[r].key <= MaxWaits
         /\ wait[r].deadline \in Nat /\ wait[r].available \in Nat /\ wait[r].lease \in Nat
         /\ wait[r].process \in [held : BOOLEAN, found : Events \union {NoEvent}, at : ClockTimes]
         /\ clock \in Nat /\ clock \in ClockTimes
<1>1. wait[r] \in Waits /\ AwaitFits(wait[r], Len(answers[r])) /\ answers[r] \in Seq(Events \union {NoEvent})
      /\ clock \in ClockTimes
  BY DEF EventShapes
<1>2. wait[r].key \in 0 .. MaxWaits /\ wait[r].deadline \in DueTimes /\ wait[r].available \in DueTimes
      /\ wait[r].lease \in DueTimes /\ wait[r].process \in [held : BOOLEAN, found : Events \union {NoEvent}, at : ClockTimes]
  BY <1>1 DEF Waits
<1>3. Len(answers[r]) \in Nat
  BY <1>1
<1>4. MaxWaits \in Nat /\ (\A t \in DueTimes : t \in Nat) /\ clock \in Nat
  BY <1>1, EventNumbers
<1> QED
  BY <1>1, <1>2, <1>3, <1>4

LEMMA InitShapes == ASSUME EventWaitsAssumption, EventInit PROVE EventShapes
<1>1. 0 \in ClockTimes /\ 0 \in DueTimes /\ NeverDue \in DueTimes /\ 0 \in 0 .. MaxWaits /\ 0 \in 0 .. NumRuns
      /\ 0 \in 0 .. MaxInterruptions
  BY EventNumbers
<1>2. [key |-> 0, run |-> "running", deadline |-> 0, available |-> NeverDue, lease |-> 0, process |-> Idle] \in Waits
  BY <1>1 DEF Waits, Idle
<1>3. ~(0 > 0) /\ 0 <= 0 /\ << >> \in Seq(Events \union {NoEvent}) /\ Len(<< >>) = 0
  OBVIOUS
<1>4. wait \in [Waiters -> Waits] /\ answers \in [Waiters -> Seq(Events \union {NoEvent})]
      /\ clock \in ClockTimes /\ interruptions \in 0 .. MaxInterruptions
  BY <1>1, <1>2, <1>3 DEF EventInit
<1>5. ASSUME NEW r \in Waiters PROVE AwaitFits(wait[r], Len(answers[r]))
  BY <1>2, <1>3 DEF EventInit, AwaitFits, Idle
<1>6. InboxFits
  <2>1. [pending |-> FALSE, due |-> NeverDue, cursor |-> 0] \in Notes
    BY <1>1 DEF Notes
  <2>2. \A r \in Waiters : wait[r].process.found = NoEvent
    BY DEF EventInit, Idle
  <2>3. received \in [Events -> ClockTimes \union {NeverDue}] /\ consumed \in [Waiters -> SUBSET Events]
        /\ note \in [Events -> Notes] /\ (\A e \in Events : received[e] = NeverDue /\ ~note[e].pending)
        /\ \A r \in Waiters : consumed[r] = {}
    BY <2>1 DEF EventInit
  <2> QED
    BY <2>2, <2>3, EventNumbers DEF InboxFits
<1> QED
  BY <1>4, <1>5, <1>6 DEF EventShapes

\* A step of one Run that leaves the inbox alone.
LEMMA SetShapes ==
  ASSUME EventWaitsAssumption, EventShapes, NEW r \in Waiters, NEW W, SetWait(r, W),
         AwaitFits(W, Len(answers[r])),
         W.process.found \in Events => received[W.process.found] # NeverDue,
         interruptions' \in 0 .. MaxInterruptions,
         UNCHANGED <<clock, answers, received, consumed, note>>
  PROVE  EventShapes'
<1>1. wait' \in [Waiters -> Waits] /\ \A s \in Waiters : wait'[s] = IF s = r THEN W ELSE wait[s]
  BY DEF SetWait, EventShapes, AwaitFits
<1>2. \A s \in Waiters : AwaitFits(wait'[s], Len(answers'[s]))
  BY <1>1 DEF EventShapes
<1>3. InboxFits'
  BY <1>1 DEF EventShapes, InboxFits
<1> QED
  BY <1>1, <1>2, <1>3 DEF EventShapes

LEMMA ArmShapes == ASSUME EventWaitsAssumption, EventShapes, NEW r \in Waiters, Arm(r) PROVE EventShapes'
<1> PICK d \in 1 .. Duration :
       SetWait(r, [wait[r] EXCEPT !.key = @ + 1, !.run = "waiting_for_event", !.deadline = clock + d, !.available = clock])
  BY DEF Arm
<1> DEFINE W == [wait[r] EXCEPT !.key = @ + 1, !.run = "waiting_for_event", !.deadline = clock + d, !.available = clock]
<1>1. /\ wait[r].key + 1 \in 0 .. MaxWaits /\ clock + d \in DueTimes /\ clock \in DueTimes
      /\ Len(answers[r]) <= wait[r].key /\ wait[r].key \in Nat /\ Len(answers[r]) \in Nat
  <2>1. wait[r].key < MaxWaits /\ wait[r].key \in Nat /\ MaxWaits \in Nat
    BY WaitFacts, EventNumbers DEF Arm
  <2>2. clock \in ClockTimes
    BY WaitFacts
  <2>3. clock + d \in DueTimes /\ clock \in DueTimes
    BY <2>2, EventNumbers
  <2> QED
    BY <2>1, <2>3, WaitFacts DEF AwaitFits
<1>2. W \in Waits /\ W.key = wait[r].key + 1 /\ W.run = "waiting_for_event" /\ W.lease = wait[r].lease
      /\ W.process = wait[r].process
  BY <1>1, WaitFacts DEF Waits
<1>3. SetWait(r, W)
  OBVIOUS
<1>4. UNCHANGED <<clock, answers, received, consumed, note, interruptions>>
  BY DEF Arm
<1> HIDE DEF W
<1>5. AwaitFits(W, Len(answers[r]))
  BY <1>1, <1>2, WaitFacts DEF AwaitFits
<1> QED
  BY <1>2, <1>3, <1>4, <1>5, SetShapes DEF EventShapes, InboxFits

LEMMA InterruptTyped == ASSUME EventWaitsAssumption, EventShapes, Interrupt PROVE interruptions' \in 0 .. MaxInterruptions
<1>1. interruptions \in 0 .. MaxInterruptions /\ MaxInterruptions \in Nat
  BY EventNumbers DEF EventShapes
<1> QED
  BY <1>1 DEF Interrupt

LEMMA RunShapes ==
  ASSUME EventWaitsAssumption, EventShapes, NEW r \in Waiters, PauseWait(r) \/ ResumeWait(r) \/ CancelWait(r)
  PROVE  EventShapes'
<1>1. clock \in DueTimes /\ NeverDue \in DueTimes /\ 0 \in DueTimes /\ ~(0 > 0)
  BY WaitFacts, EventNumbers
<1>2. CASE PauseWait(r)
  <2> DEFINE W == [wait[r] EXCEPT !.run = "paused", !.available = NeverDue, !.lease = 0]
  <2>1. W \in Waits /\ W.key = wait[r].key /\ W.run = "paused" /\ W.lease = 0 /\ W.process = wait[r].process
    BY <1>1, WaitFacts DEF Waits
  <2>2. SetWait(r, W) /\ UNCHANGED <<clock, answers, received, consumed, note>> /\ Interrupt /\ ~wait[r].process.held
        /\ wait[r].run = "waiting_for_event"
    BY <1>2 DEF PauseWait, Free, PendingWait
  <2> HIDE DEF W
  <2>3. AwaitFits(W, Len(answers[r]))
    BY <1>1, <2>1, <2>2, WaitFacts DEF AwaitFits
  <2> QED
    BY <2>1, <2>2, <2>3, SetShapes, InterruptTyped DEF EventShapes, InboxFits
<1>3. CASE CancelWait(r)
  <2> DEFINE W == [wait[r] EXCEPT !.run = "canceled", !.available = NeverDue, !.lease = 0]
  <2>1. W \in Waits /\ W.key = wait[r].key /\ W.run = "canceled" /\ W.lease = 0 /\ W.process = wait[r].process
    BY <1>1, WaitFacts DEF Waits
  <2>2. SetWait(r, W) /\ UNCHANGED <<clock, answers, received, consumed, note>> /\ Interrupt /\ ~wait[r].process.held
    BY <1>3 DEF CancelWait, Free
  <2> HIDE DEF W
  <2>3. AwaitFits(W, Len(answers[r]))
    BY <1>1, <2>1, <2>2, WaitFacts DEF AwaitFits
  <2> QED
    BY <2>1, <2>2, <2>3, SetShapes, InterruptTyped DEF EventShapes, InboxFits
<1>4. CASE ResumeWait(r)
  <2> DEFINE W == [wait[r] EXCEPT !.run = "waiting_for_event", !.available = clock]
  <2>1. W \in Waits /\ W.key = wait[r].key /\ W.run = "waiting_for_event" /\ W.lease = wait[r].lease
        /\ W.process = wait[r].process
    BY <1>1, WaitFacts DEF Waits
  <2>2. SetWait(r, W) /\ UNCHANGED <<clock, answers, received, consumed, note, interruptions>> /\ wait[r].run = "paused"
    BY <1>4 DEF ResumeWait
  <2> HIDE DEF W
  <2>3. AwaitFits(W, Len(answers[r]))
    BY <2>1, <2>2, WaitFacts DEF AwaitFits
  <2> QED
    BY <2>1, <2>2, <2>3, SetShapes DEF EventShapes, InboxFits
<1> QED
  BY <1>2, <1>3, <1>4

LEMMA ProbeShapes == ASSUME EventWaitsAssumption, EventShapes, NEW r \in Waiters, Probe(r) PROVE EventShapes'
<1> PICK e \in IF Matching(r) = {} THEN {NoEvent} ELSE Matching(r) :
       SetWait(r, [wait[r] EXCEPT !.process = [held |-> TRUE, found |-> e, at |-> clock]])
  BY DEF Probe
<1> DEFINE W == [wait[r] EXCEPT !.process = [held |-> TRUE, found |-> e, at |-> clock]]
<1>1. e \in Events \union {NoEvent} /\ (e \in Events => received[e] # NeverDue)
  <2>1. e \in Events => received[e] <= clock
    BY EventNumbers DEF Matching, Matches
  <2>2. clock \in ClockTimes
    BY WaitFacts
  <2>3. ~(NeverDue <= clock)
    BY <2>2, EventNumbers
  <2> QED
    BY <2>1, <2>3 DEF Matching
<1>2. W \in Waits /\ W.key = wait[r].key /\ W.run = "waiting_for_event" /\ W.lease = wait[r].lease
      /\ W.lease > 0 /\ W.process.held /\ W.process.found = e
  <2>1. wait[r].run = "waiting_for_event" /\ wait[r].lease > clock /\ clock \in Nat /\ wait[r].lease \in Nat
        /\ wait[r] \in Waits /\ clock \in ClockTimes
    BY WaitFacts DEF Probe, PendingWait
  <2> DEFINE Q == [held |-> TRUE, found |-> e, at |-> clock]
  <2>2. Q \in [held : BOOLEAN, found : Events \union {NoEvent}, at : ClockTimes] /\ Q.held /\ Q.found = e
    BY <1>1, <2>1
  <2>3. W = [wait[r] EXCEPT !.process = Q]
    OBVIOUS
  <2> HIDE DEF W, Q
  <2>4. W \in Waits /\ W.key = wait[r].key /\ W.run = wait[r].run /\ W.lease = wait[r].lease /\ W.process = Q
    BY <2>1, <2>2, <2>3 DEF Waits
  <2>5. wait[r].lease > 0
    BY <2>1
  <2> QED
    BY <2>1, <2>2, <2>4, <2>5
<1>3. SetWait(r, W)
  OBVIOUS
<1>4. UNCHANGED <<clock, answers, received, consumed, note, interruptions>> /\ wait[r].run = "waiting_for_event"
  BY DEF Probe, PendingWait
<1> HIDE DEF W
<1>5. AwaitFits(W, Len(answers[r]))
  BY <1>2, <1>4, WaitFacts DEF AwaitFits
<1> QED
  BY <1>1, <1>2, <1>3, <1>4, <1>5, SetShapes DEF EventShapes

LEMMA ParkShapes == ASSUME EventWaitsAssumption, EventShapes, NEW r \in Waiters, Park(r) PROVE EventShapes'
<1> DEFINE W == [wait[r] EXCEPT !.process = Idle, !.lease = 0, !.available = wait[r].deadline]
<1>1. 0 \in ClockTimes /\ 0 \in DueTimes /\ ~(0 > 0) /\ NoEvent \notin Events
  BY EventNumbers
<1>2. W \in Waits /\ W.key = wait[r].key /\ W.run = wait[r].run /\ W.lease = 0 /\ ~W.process.held
      /\ W.process.found = NoEvent
  BY <1>1, WaitFacts DEF Waits, Idle
<1>3. SetWait(r, W) /\ UNCHANGED <<clock, answers, received, consumed, note, interruptions>>
  BY DEF Park
<1> HIDE DEF W
<1>4. AwaitFits(W, Len(answers[r]))
  BY <1>1, <1>2, WaitFacts DEF AwaitFits
<1> QED
  BY <1>1, <1>2, <1>3, <1>4, SetShapes DEF EventShapes

LEMMA RollbackShapes == ASSUME EventWaitsAssumption, EventShapes, NEW r \in Waiters, Rollback(r) PROVE EventShapes'
<1> DEFINE W == [wait[r] EXCEPT !.process = Idle]
<1>1. 0 \in ClockTimes /\ NoEvent \notin Events
  BY EventNumbers
<1>2. W \in Waits /\ W.key = wait[r].key /\ W.run = wait[r].run /\ W.lease = wait[r].lease /\ ~W.process.held
      /\ W.process.found = NoEvent
  BY <1>1, WaitFacts DEF Waits, Idle
<1>3. SetWait(r, W) /\ UNCHANGED <<clock, answers, received, consumed, note>> /\ Interrupt
  BY DEF Rollback
<1> HIDE DEF W
<1>4. AwaitFits(W, Len(answers[r]))
  BY <1>2, WaitFacts DEF AwaitFits
<1> QED
  BY <1>1, <1>2, <1>3, <1>4, SetShapes, InterruptTyped

LEMMA ResolveShapes == ASSUME EventWaitsAssumption, EventShapes, NEW r \in Waiters, ResolveWait(r) PROVE EventShapes'
<1> DEFINE P == wait[r].process
           W == [wait[r] EXCEPT !.process = Idle, !.lease = 0, !.available = NeverDue, !.run = "running"]
<1>0. 0 \in ClockTimes /\ 0 \in DueTimes /\ NeverDue \in DueTimes /\ ~(0 > 0) /\ NoEvent \notin Events
  BY EventNumbers
<1>1. P.held /\ P.found \in Events \union {NoEvent} /\ Len(answers[r]) < wait[r].key
      /\ answers[r] \in Seq(Events \union {NoEvent})
  <2>1. P.held
    BY DEF ResolveWait
  <2>2. P.found \in Events \union {NoEvent} /\ AwaitFits(wait[r], Len(answers[r]))
    BY WaitFacts
  <2> QED
    BY <2>1, <2>2, WaitFacts DEF AwaitFits
<1>2. W \in Waits /\ W.key = wait[r].key /\ W.run = "running" /\ W.lease = 0 /\ ~W.process.held
      /\ W.process.found = NoEvent
  BY <1>0, WaitFacts DEF Waits, Idle
<1>3. /\ wait' = [wait EXCEPT ![r] = W] /\ answers' = [answers EXCEPT ![r] = Append(answers[r], P.found)]
      /\ consumed' = [consumed EXCEPT ![r] = consumed[r] \union ({P.found} \ {NoEvent})]
      /\ UNCHANGED <<clock, received, note, interruptions>>
  BY DEF ResolveWait, SetWait
<1>4. P.found \in Events => received[P.found] # NeverDue
  BY DEF EventShapes, InboxFits
<1>5. Append(answers[r], P.found) \in Seq(Events \union {NoEvent})
      /\ Len(Append(answers[r], P.found)) = Len(answers[r]) + 1
  <2> HIDE DEF P
  <2> QED
    BY <1>1
<1> HIDE DEF P, W
<1>6. AwaitFits(W, Len(Append(answers[r], P.found)))
  BY <1>0, <1>1, <1>2, <1>5, WaitFacts DEF AwaitFits
<1>7. answers' \in [Waiters -> Seq(Events \union {NoEvent})] /\ wait' \in [Waiters -> Waits]
      /\ \A s \in Waiters : AwaitFits(wait'[s], Len(answers'[s]))
  BY <1>2, <1>3, <1>5, <1>6 DEF EventShapes
<1>8. InboxFits'
  <2>1. consumed \in [Waiters -> SUBSET Events] /\ \A s \in Waiters : consumed'[s] =
            IF s = r THEN consumed[r] \union ({P.found} \ {NoEvent}) ELSE consumed[s]
    BY <1>3 DEF EventShapes, InboxFits
  <2>2. consumed' \in [Waiters -> SUBSET Events]
    BY <1>1, <1>3, <2>1
  <2>3. \A e \in Events : received[e] = NeverDue => ~note[e].pending /\ \A s \in Waiters : e \notin consumed'[s]
    BY <1>4, <2>1 DEF EventShapes, InboxFits
  <2>4. \A s \in Waiters : wait'[s].process.found \in Events => received[wait'[s].process.found] # NeverDue
    BY <1>0, <1>2, <1>3 DEF EventShapes, InboxFits
  <2> QED
    BY <1>3, <2>2, <2>3, <2>4 DEF EventShapes, InboxFits
<1> QED
  BY <1>3, <1>7, <1>8 DEF EventShapes

LEMMA PublishShapes == ASSUME EventWaitsAssumption, EventShapes, NEW e \in Events, PublishRunEvent(e) PROVE EventShapes'
<1>1. clock \in ClockTimes /\ clock \in DueTimes /\ clock # NeverDue /\ clock <= clock /\ 0 \in 0 .. NumRuns
  <2>1. clock \in ClockTimes
    BY DEF EventShapes
  <2> QED
    BY <2>1, EventNumbers
<1>2. [pending |-> TRUE, due |-> clock, cursor |-> 0] \in Notes
  BY <1>1 DEF Notes
<1>3. received' = [received EXCEPT ![e] = clock]
      /\ note' = [note EXCEPT ![e] = [pending |-> TRUE, due |-> clock, cursor |-> 0]]
      /\ UNCHANGED <<clock, wait, answers, consumed, interruptions>>
  BY DEF PublishRunEvent
<1>4. InboxFits'
  BY <1>1, <1>2, <1>3 DEF EventShapes, InboxFits
<1> QED
  BY <1>3, <1>4 DEF EventShapes

LEMMA TickShapes == ASSUME EventWaitsAssumption, EventShapes, ClockTick PROVE EventShapes'
<1>1. clock' \in ClockTimes /\ clock' = clock + 1 /\ clock \in Nat
  BY EventNumbers DEF ClockTick, EventShapes, ClockTimes
<1>2. \A e \in Events : received[e] <= clock' \/ received[e] = NeverDue
  <2>1. \A e \in Events : received[e] \in Nat
    BY EventNumbers DEF EventShapes, InboxFits
  <2>2. \A e \in Events : received[e] <= clock \/ received[e] = NeverDue
    BY DEF EventShapes, InboxFits
  <2> QED
    BY <1>1, <2>1, <2>2
<1> QED
  BY <1>1, <1>2 DEF ClockTick, EventShapes, InboxFits

-----------------------------------------------------------------------------
(* What a claim does.                                                      *)

LEMMA ClaimTypes ==
  ASSUME EventWaitsAssumption, EventShapes
  PROVE  /\ \A r \in Waiters : Available(r) \in DueTimes /\ Available(r) <= wait[r].available
         /\ \A r \in Waiters : \A e \in Events :
              Visited(e) /\ r \in Page(e) /\ Matches(r, e) => Available(r) <= received[e]
         /\ \A e \in Events : Left(e) \in Int /\ (Visited(e) => Left(e) \in Nat \ {0})
         /\ \A e \in Events : Candidates(e) \subseteq 0 .. NumRuns
<1>1. ASSUME NEW r \in Waiters PROVE
        /\ Available(r) \in DueTimes /\ Available(r) <= wait[r].available
        /\ \A e \in Events : Visited(e) /\ r \in Page(e) /\ Matches(r, e) => Available(r) <= received[e]
  <2> DEFINE T == {wait[r].available} \union {received[e] : e \in {d \in Events : Visited(d) /\ r \in Page(d) /\ Matches(r, d)}}
  <2>1. wait[r].available \in DueTimes /\ \A e \in Events : received[e] \in DueTimes
    <3>1. wait[r].available \in DueTimes
      BY WaitFacts DEF Waits
    <3> QED
      BY <3>1, EventNumbers DEF EventShapes, InboxFits
  <2>2. T \subseteq DueTimes /\ T # {} /\ wait[r].available \in T
        /\ \A e \in Events : Visited(e) /\ r \in Page(e) /\ Matches(r, e) => received[e] \in T
    BY <2>1
  <2>3. Available(r) = Min(T)
    BY DEF Available
  <2> HIDE DEF T
  <2>4. Min(T) \in T /\ \A n \in T : Min(T) <= n
    BY <2>2, EventNumbers, MinIsLeast
  <2> QED
    BY <2>2, <2>3, <2>4
<1>2. ASSUME NEW e \in Events PROVE Left(e) \in Int /\ (Visited(e) => Left(e) \in Nat \ {0})
  <2>1. IsFiniteSet(Events) /\ IsFiniteSet(Waiters)
    <3>1. 1 \in Int /\ NumEvents \in Int /\ NumRuns \in Int
      BY EventNumbers
    <3> QED
      BY <3>1, FS_Interval DEF Events, Waiters
  <2>2. IsFiniteSet(Events \X Waiters)
    BY <2>1, FS_Product
  <2>3. Cardinality({v \in Events \X Waiters : Before(v[1], e) /\ v[2] \in Candidates(v[1])}) \in Nat
    BY <2>2, FS_Subset, FS_CardinalityType
  <2> QED
    BY <2>3, EventNumbers DEF Left, Visited
<1>3. \A e \in Events : Candidates(e) \subseteq 0 .. NumRuns
  BY DEF Candidates, Waiters
<1> QED
  BY <1>1, <1>2, <1>3

\* A page that does not reach all candidates is full, and ends before the others.
LEMMA PageFacts ==
  ASSUME EventWaitsAssumption, EventShapes, NEW e \in Events, Visited(e)
  PROVE  /\ Cardinality(Page(e)) = Left(e) => Max(Page(e)) \in Page(e) /\ Page(e) \subseteq Waiters
         /\ \A r \in Candidates(e) \ Page(e) : Cardinality(Page(e)) = Left(e) /\ \A q \in Page(e) : q < r
<1>1. Left(e) \in Nat \ {0} /\ NumRuns \in Nat /\ Candidates(e) \subseteq 0 .. NumRuns
  BY ClaimTypes, EventNumbers
<1>2. Page(e) = {r \in Candidates(e) : Cardinality({x \in Candidates(e) : x <= r}) <= Left(e)}
  BY DEF Page
<1>3. Candidates(e) \subseteq Waiters
  BY DEF Candidates
<1>4. Cardinality(Page(e)) = Left(e) => Max(Page(e)) \in Page(e)
  <2>1. Page(e) \subseteq 0 .. NumRuns
    BY <1>1, <1>2
  <2>2. Cardinality(Page(e)) = Left(e) => Page(e) # {}
    BY <1>1, FS_EmptySet
  <2> QED
    BY <1>1, <2>1, <2>2, MaxIsGreatest
<1>5. ASSUME NEW r \in Candidates(e), r \notin Page(e)
      PROVE  Cardinality(Page(e)) = Left(e) /\ \A q \in Page(e) : q < r
  <2>1. ~(Cardinality({x \in Candidates(e) : x <= r}) <= Left(e))
    BY <1>2, <1>5
  <2> DEFINE P == {q \in Candidates(e) : Cardinality({x \in Candidates(e) : x <= q}) <= Left(e)}
  <2>2. Cardinality(P) = Left(e) /\ \A q \in P : q < r
    BY <1>1, <1>5, <2>1, PageIsFull, ZenonT(40)
  <2>3. Page(e) = P
    BY <1>2
  <2> HIDE DEF P
  <2> QED
    BY <2>2, <2>3
<1> QED
  BY <1>2, <1>3, <1>4, <1>5

LEMMA AdvancedFacts ==
  ASSUME EventWaitsAssumption, EventShapes, NEW e \in Events
  PROVE  /\ Advanced(e) \in Notes
         /\ Advanced(e).pending => note[e].pending
         /\ \A r \in Waiters : note[e].pending /\ note[e].cursor < r /\ PendingWait(r) =>
              (Visited(e) /\ r \in Page(e)) \/ (Advanced(e).pending /\ Advanced(e).cursor < r)
<1>0. note[e] \in Notes /\ clock \in DueTimes /\ NeverDue \in DueTimes /\ clock \in ClockTimes
  <2>1. clock \in ClockTimes
    BY DEF EventShapes
  <2> QED
    BY <2>1, EventNumbers DEF EventShapes, InboxFits
<1>1. CASE ~Visited(e)
  BY <1>0, <1>1 DEF Advanced
<1>2. CASE Visited(e) /\ Cardinality(Page(e)) = Left(e)
  <2> DEFINE N == [pending |-> TRUE, due |-> clock, cursor |-> Max(Page(e))]
  <2>1. Advanced(e) = N
    BY <1>2 DEF Advanced
  <2>2. Max(Page(e)) \in Page(e) /\ Max(Page(e)) \in Waiters
    BY <1>2, PageFacts
  <2>3. Max(Page(e)) \in 0 .. NumRuns
    BY <2>2, EventNumbers DEF Waiters
  <2>4. N \in Notes /\ N.pending /\ N.cursor = Max(Page(e))
    BY <1>0, <2>3 DEF Notes
  <2>5. note[e].pending
    BY <1>2 DEF Visited, Due
  <2>6. \A r \in Waiters : note[e].cursor < r /\ PendingWait(r) => r \in Candidates(e)
    BY DEF Candidates
  <2> HIDE DEF N
  <2>7. \A r \in Waiters : note[e].cursor < r /\ PendingWait(r) /\ r \notin Page(e) => Max(Page(e)) < r
    BY <1>2, <2>2, <2>6, PageFacts
  <2> QED
    BY <1>2, <2>1, <2>4, <2>5, <2>7
<1>3. CASE Visited(e) /\ Cardinality(Page(e)) # Left(e)
  <2>1. Advanced(e) = [pending |-> FALSE, due |-> NeverDue, cursor |-> 0]
    BY <1>3 DEF Advanced
  <2>2. 0 \in 0 .. NumRuns
    BY EventNumbers
  <2>3. Advanced(e) \in Notes /\ ~Advanced(e).pending
    BY <1>0, <2>1, <2>2 DEF Notes
  <2>4. \A r \in Waiters : note[e].cursor < r /\ PendingWait(r) => r \in Candidates(e)
    BY DEF Candidates
  <2>5. \A r \in Candidates(e) : r \in Page(e)
    BY <1>3, PageFacts
  <2> QED
    BY <1>3, <2>3, <2>4, <2>5
<1> QED
  BY <1>1, <1>2, <1>3

\* The wait of r after a claim.
Claimed(r) ==
  IF ClaimableWaits(r) THEN [wait[r] EXCEPT !.lease = clock + WaitLease, !.available = clock + WaitLease]
  ELSE [wait[r] EXCEPT !.available = Available(r)]

LEMMA ClaimedFacts ==
  ASSUME EventWaitsAssumption, EventShapes, NEW r \in Waiters
  PROVE  /\ Claimed(r) \in Waits /\ AwaitFits(Claimed(r), Len(answers[r]))
         /\ Claimed(r).process = wait[r].process /\ Claimed(r).run = wait[r].run
         /\ Claimed(r).deadline = wait[r].deadline /\ Claimed(r).key = wait[r].key
         /\ ~ClaimableWaits(r) => Claimed(r).lease = wait[r].lease /\ Claimed(r).available = Available(r)
         /\ ClaimableWaits(r) => Claimed(r).lease > 0 /\ PendingWait(r) /\ ~wait[r].process.held
<1>0. wait[r] \in Waits /\ AwaitFits(wait[r], Len(answers[r])) /\ clock + WaitLease \in DueTimes /\ clock + WaitLease > 0
      /\ Available(r) \in DueTimes
  <2>1. clock \in ClockTimes
    BY DEF EventShapes
  <2> QED
    BY <2>1, WaitFacts, ClaimTypes, EventNumbers
<1>1. CASE ClaimableWaits(r)
  <2> DEFINE W == [wait[r] EXCEPT !.lease = clock + WaitLease, !.available = clock + WaitLease]
  <2>1. Claimed(r) = W /\ PendingWait(r) /\ ~wait[r].process.held
    BY <1>1 DEF Claimed, ClaimableWaits, Free
  <2>2. W \in Waits /\ W.process = wait[r].process /\ W.run = wait[r].run /\ W.deadline = wait[r].deadline
        /\ W.key = wait[r].key /\ W.lease = clock + WaitLease
    BY <1>0 DEF Waits
  <2> HIDE DEF W
  <2> QED
    BY <1>0, <1>1, <2>1, <2>2 DEF AwaitFits, PendingWait
<1>2. CASE ~ClaimableWaits(r)
  <2> DEFINE W == [wait[r] EXCEPT !.available = Available(r)]
  <2>1. Claimed(r) = W
    BY <1>2 DEF Claimed
  <2>2. W \in Waits /\ W.process = wait[r].process /\ W.run = wait[r].run /\ W.deadline = wait[r].deadline
        /\ W.key = wait[r].key /\ W.lease = wait[r].lease /\ W.available = Available(r)
    BY <1>0 DEF Waits
  <2> HIDE DEF W
  <2> QED
    BY <1>0, <1>2, <2>1, <2>2 DEF AwaitFits
<1> QED
  BY <1>1, <1>2

LEMMA ClaimShapes == ASSUME EventWaitsAssumption, EventShapes, ClaimRunEventWaits PROVE EventShapes'
<1>1. note' = [e \in Events |-> Advanced(e)] /\ wait' = [r \in Waiters |-> Claimed(r)]
      /\ UNCHANGED <<clock, answers, received, consumed, interruptions>>
  BY DEF ClaimRunEventWaits, Claimed
<1>2. wait' \in [Waiters -> Waits] /\ \A r \in Waiters : AwaitFits(wait'[r], Len(answers[r]))
      /\ wait'[r].process = wait[r].process
  BY <1>1, ClaimedFacts
<1>3. InboxFits'
  <2>1. note' \in [Events -> Notes] /\ \A e \in Events : note'[e].pending => note[e].pending
    BY <1>1, AdvancedFacts
  <2> QED
    BY <1>1, <1>2, <2>1 DEF EventShapes, InboxFits
<1> QED
  BY <1>1, <1>2, <1>3 DEF EventShapes

LEMMA NextShapes == ASSUME EventWaitsAssumption, EventShapes, [EventNext]_eventVars PROVE EventShapes'
<1>1. CASE UNCHANGED eventVars
  BY <1>1 DEF eventVars, EventShapes, InboxFits
<1> QED
  BY <1>1, ArmShapes, RunShapes, ProbeShapes, ParkShapes, ResolveShapes, RollbackShapes, PublishShapes,
     TickShapes, ClaimShapes DEF EventNext

\* Every reachable state is well formed: only a pending wait is leased and only a leased one
\* is processed, cursors stay within the Runs, and only a stored event is announced, found
\* or consumed.
THEOREM EventsTypeCorrect == ASSUME EventWaitsAssumption PROVE EventSpec => []EventsTypeOK
<1>1. EventInit => EventShapes
  BY InitShapes
<1>2. EventShapes /\ [EventNext]_eventVars => EventShapes'
  BY NextShapes
<1>3. EventShapes => EventsTypeOK
  BY ShapesGiveTypes
<1> QED
  BY <1>1, <1>2, <1>3, PTL DEF EventSpec

-----------------------------------------------------------------------------
(* What a Run has answered, what its processor knows, what it is still to  *)
(* be told.                                                                *)

\* An answer is a consumed event, used once.
Answered(r) ==
  /\ \A i \in DOMAIN answers[r] : answers[r][i] \in consumed[r] \union {NoEvent}
  /\ \A i, j \in DOMAIN answers[r] : answers[r][i] = answers[r][j] /\ answers[r][i] # NoEvent => i = j

\* A processor found an event of the wait's time that is new to the Run, or there was none
\* when it looked.
Probed(r) ==
  LET P == wait[r].process
  IN P.held =>
       /\ P.at <= clock
       /\ P.found # NoEvent => P.found \notin consumed[r] /\ received[P.found] <= wait[r].deadline
       /\ P.found = NoEvent =>
            \A e \in Events \ consumed[r] : received[e] >= P.at \/ received[e] > wait[r].deadline

\* Nobody looks after the wait, or its processor has looked and found nothing.
Unattended(r) ==
  \/ wait[r].lease = 0 /\ wait[r].available > clock
  \/ wait[r].process.held /\ wait[r].process.found = NoEvent

Awaited(r) ==
  PendingWait(r) /\ Unattended(r) => \A e \in Matching(r) : note[e].pending /\ note[e].cursor < r

Follows(r) == Answered(r) /\ Probed(r) /\ Awaited(r)
InvE == EventShapes /\ \A r \in Waiters : Follows(r)

\* A Run whose wait, answers and consumption a step leaves alone.
LEMMA Undisturbed ==
  ASSUME NEW s \in Waiters, Follows(s), UNCHANGED <<clock, received, note>>,
         wait'[s] = wait[s], answers'[s] = answers[s], consumed'[s] = consumed[s]
  PROVE  Follows(s)'
<1>1. Matching(s)' = Matching(s)
  BY DEF Matching, Matches
<1>2. Answered(s)' /\ Probed(s)'
  BY DEF Follows, Answered, Probed
<1>3. Awaited(s)'
  BY <1>1 DEF Follows, Awaited, Unattended, PendingWait
<1> QED
  BY <1>2, <1>3 DEF Follows

LEMMA OthersFollow ==
  ASSUME InvE, NEW r \in Waiters, NEW W, SetWait(r, W), UNCHANGED <<clock, received, note>>,
         \A s \in Waiters \ {r} : answers'[s] = answers[s] /\ consumed'[s] = consumed[s],
         Follows(r)'
  PROVE  \A s \in Waiters : Follows(s)'
<1>1. \A s \in Waiters \ {r} : wait'[s] = wait[s]
  BY DEF SetWait, InvE, EventShapes
<1> QED
  BY <1>1, Undisturbed DEF InvE

\* A wait that is not processed, and is attended to or not pending.
LEMMA Attended ==
  ASSUME NEW r \in Waiters, Follows(r), UNCHANGED <<answers, consumed>>,
         ~wait'[r].process.held, wait'[r].run # "waiting_for_event" \/ wait'[r].lease > 0 \/ ~(wait'[r].available > clock')
         , wait'[r].lease \in Nat
  PROVE  Follows(r)'
<1>1. Answered(r)' /\ Probed(r)'
  BY DEF Follows, Answered, Probed
<1>2. Awaited(r)'
  BY DEF Awaited, Unattended, PendingWait
<1> QED
  BY <1>1, <1>2 DEF Follows

LEMMA InitFollows == ASSUME EventWaitsAssumption, EventInit, NEW r \in Waiters PROVE Follows(r)
BY DEF EventInit, Follows, Answered, Probed, Awaited, PendingWait, Idle

LEMMA ArmFollows == ASSUME EventWaitsAssumption, InvE, NEW r \in Waiters, Arm(r) PROVE \A s \in Waiters : Follows(s)'
<1> PICK d \in 1 .. Duration :
       SetWait(r, [wait[r] EXCEPT !.key = @ + 1, !.run = "waiting_for_event", !.deadline = clock + d, !.available = clock])
  BY DEF Arm
<1> DEFINE W == [wait[r] EXCEPT !.key = @ + 1, !.run = "waiting_for_event", !.deadline = clock + d, !.available = clock]
<1>1. wait[r] \in Waits /\ wait[r].run = "running" /\ AwaitFits(wait[r], Len(answers[r])) /\ wait[r].lease \in Nat
      /\ clock \in Nat
  BY WaitFacts DEF InvE, Arm
<1>2. ~wait[r].process.held
  BY <1>1 DEF AwaitFits
<1>3. W.process = wait[r].process /\ W.available = clock /\ W.lease = wait[r].lease
  BY <1>1 DEF Waits
<1>4. SetWait(r, W) /\ UNCHANGED <<clock, answers, received, consumed, note>>
  BY DEF Arm
<1> HIDE DEF W
<1>5. wait'[r] = W
  BY <1>4 DEF SetWait, InvE, EventShapes
<1>6. ~(W.available > clock')
  BY <1>1, <1>3, <1>4
<1>7. Follows(r)'
  BY <1>1, <1>2, <1>3, <1>4, <1>5, <1>6, Attended DEF InvE
<1> QED
  BY <1>4, <1>7, OthersFollow

LEMMA RunFollows ==
  ASSUME EventWaitsAssumption, InvE, NEW r \in Waiters, PauseWait(r) \/ ResumeWait(r) \/ CancelWait(r)
  PROVE  \A s \in Waiters : Follows(s)'
<1>1. wait[r] \in Waits /\ AwaitFits(wait[r], Len(answers[r])) /\ wait[r].lease \in Nat /\ clock \in Nat /\ Follows(r)
  BY WaitFacts DEF InvE
<1>2. wait'[r].process = wait[r].process /\ ~wait[r].process.held /\ wait'[r].lease \in Nat
      /\ (wait'[r].run # "waiting_for_event" \/ ~(wait'[r].available > clock'))
  <2>1. wait \in [Waiters -> Waits] /\ 0 \in Nat
    BY DEF InvE, EventShapes
  <2>2. CASE PauseWait(r)
    BY <1>1, <2>1, <2>2 DEF PauseWait, Free, SetWait, Waits
  <2>3. CASE CancelWait(r)
    BY <1>1, <2>1, <2>3 DEF CancelWait, Free, SetWait, Waits
  <2>4. CASE ResumeWait(r)
    <3>1. ~wait[r].process.held /\ clock' = clock
      BY <1>1, <2>4 DEF ResumeWait, AwaitFits
    <3>2. wait'[r] = [wait[r] EXCEPT !.run = "waiting_for_event", !.available = clock]
      BY <2>1, <2>4 DEF ResumeWait, SetWait
    <3>3. wait'[r].process = wait[r].process /\ wait'[r].lease = wait[r].lease /\ wait'[r].available = clock
      BY <1>1, <3>2 DEF Waits
    <3> QED
      BY <1>1, <3>1, <3>3
  <2> QED
    BY <2>2, <2>3, <2>4
<1>3. UNCHANGED <<clock, answers, received, consumed, note>> /\ \E W : SetWait(r, W)
  BY DEF PauseWait, ResumeWait, CancelWait
<1>4. Follows(r)'
  BY <1>1, <1>2, <1>3, Attended
<1> QED
  BY <1>3, <1>4, OthersFollow

LEMMA ProbeFollows == ASSUME EventWaitsAssumption, InvE, NEW r \in Waiters, Probe(r) PROVE \A s \in Waiters : Follows(s)'
<1> PICK e \in IF Matching(r) = {} THEN {NoEvent} ELSE Matching(r) :
       SetWait(r, [wait[r] EXCEPT !.process = [held |-> TRUE, found |-> e, at |-> clock]])
  BY DEF Probe
<1> DEFINE Q == [held |-> TRUE, found |-> e, at |-> clock]
           W == [wait[r] EXCEPT !.process = Q]
<1>1. wait[r] \in Waits /\ wait[r].lease \in Nat /\ clock \in Nat /\ wait[r].lease > clock /\ Follows(r)
      /\ received \in [Events -> ClockTimes \union {NeverDue}] /\ wait[r].deadline \in Nat
  BY WaitFacts DEF InvE, Probe, EventShapes, InboxFits
<1>2. Q.held /\ Q.found = e /\ Q.at = clock
  OBVIOUS
<1>3. SetWait(r, W) /\ UNCHANGED <<clock, answers, received, consumed, note>>
  BY DEF Probe
<1> HIDE DEF Q
<1>4. W.process = Q /\ W.lease = wait[r].lease /\ W.run = wait[r].run /\ W.deadline = wait[r].deadline
  BY <1>1 DEF Waits
<1> HIDE DEF W
<1>5. wait'[r] = W
  BY <1>3 DEF SetWait, InvE, EventShapes
<1>6. Matching(r)' = Matching(r)
  BY <1>3, <1>4, <1>5 DEF Matching, Matches
<1>7. \A d \in Events : received[d] \in Nat
  BY <1>1, EventNumbers
<1>8. Answered(r)'
  BY <1>1, <1>3 DEF Follows, Answered
<1>9. Probed(r)'
  <2>1. e # NoEvent => e \notin consumed[r] /\ received[e] <= wait[r].deadline
    BY DEF Matching, Matches
  <2>2. e = NoEvent => Matching(r) = {}
    BY EventNumbers DEF Matching
  <2>3. ASSUME Matching(r) = {}, NEW d \in Events \ consumed[r]
        PROVE  received[d] >= clock \/ received[d] > wait[r].deadline
    BY <1>1, <1>7, <2>3 DEF Matching, Matches
  <2>4. clock <= clock
    BY <1>1
  <2> QED
    BY <1>2, <1>3, <1>4, <1>5, <2>1, <2>2, <2>3, <2>4 DEF Probed
<1>10. Awaited(r)'
  <2>1. e = NoEvent => Matching(r) = {}
    BY EventNumbers DEF Matching
  <2>2. wait[r].lease # 0
    BY <1>1
  <2> QED
    BY <1>2, <1>4, <1>5, <1>6, <2>1, <2>2 DEF Awaited, Unattended
<1>11. Follows(r)'
  BY <1>8, <1>9, <1>10 DEF Follows
<1> QED
  BY <1>3, <1>11, OthersFollow

LEMMA ParkFollows == ASSUME EventWaitsAssumption, InvE, NEW r \in Waiters, Park(r) PROVE \A s \in Waiters : Follows(s)'
<1> DEFINE W == [wait[r] EXCEPT !.process = Idle, !.lease = 0, !.available = wait[r].deadline]
<1>1. wait[r] \in Waits /\ Follows(r) /\ wait[r].process.held /\ wait[r].process.found = NoEvent
      /\ AwaitFits(wait[r], Len(answers[r]))
  BY WaitFacts DEF InvE, Park
<1>2. W.process = Idle /\ ~Idle.held /\ W.run = wait[r].run /\ W.deadline = wait[r].deadline
  BY <1>1 DEF Waits, Idle
<1>3. SetWait(r, W) /\ UNCHANGED <<clock, answers, received, consumed, note>>
  BY DEF Park
<1> HIDE DEF W
<1>4. wait'[r] = W
  BY <1>3 DEF SetWait, InvE, EventShapes
<1>5. Matching(r)' = Matching(r)
  BY <1>2, <1>3, <1>4 DEF Matching, Matches
<1>6. Answered(r)' /\ Probed(r)'
  BY <1>1, <1>2, <1>3, <1>4 DEF Follows, Answered, Probed
<1>7. Awaited(r)'
  BY <1>1, <1>2, <1>3, <1>4, <1>5 DEF Follows, Awaited, Unattended, PendingWait
<1> QED
  BY <1>3, <1>6, <1>7, OthersFollow DEF Follows

LEMMA RollbackFollows == ASSUME EventWaitsAssumption, InvE, NEW r \in Waiters, Rollback(r) PROVE \A s \in Waiters : Follows(s)'
<1> DEFINE W == [wait[r] EXCEPT !.process = Idle]
<1>1. wait[r] \in Waits /\ Follows(r) /\ wait[r].lease > 0 /\ wait[r].lease \in Nat
  BY WaitFacts DEF InvE, Rollback, AwaitFits
<1>2. W.process = Idle /\ ~Idle.held /\ W.lease = wait[r].lease
  BY <1>1 DEF Waits, Idle
<1>3. SetWait(r, W) /\ UNCHANGED <<clock, answers, received, consumed, note>>
  BY DEF Rollback
<1> HIDE DEF W
<1>4. wait'[r] = W
  BY <1>3 DEF SetWait, InvE, EventShapes
<1>5. Follows(r)'
  BY <1>1, <1>2, <1>3, <1>4, Attended
<1> QED
  BY <1>3, <1>5, OthersFollow

LEMMA ResolveFollows == ASSUME EventWaitsAssumption, InvE, NEW r \in Waiters, ResolveWait(r) PROVE \A s \in Waiters : Follows(s)'
<1> DEFINE e == wait[r].process.found
           A == answers[r]
           C == consumed[r] \union ({e} \ {NoEvent})
           W == [wait[r] EXCEPT !.process = Idle, !.lease = 0, !.available = NeverDue, !.run = "running"]
<1>1. wait[r] \in Waits /\ Answered(r) /\ Probed(r) /\ wait[r].process.held
      /\ A \in Seq(Events \union {NoEvent}) /\ e \in Events \union {NoEvent}
  BY WaitFacts DEF InvE, ResolveWait, Follows
<1>2. W.process = Idle /\ ~Idle.held /\ W.run = "running"
  BY <1>1 DEF Waits, Idle
<1>3. SetWait(r, W) /\ UNCHANGED <<clock, received, note>>
      /\ answers' = [answers EXCEPT ![r] = Append(A, e)] /\ consumed' = [consumed EXCEPT ![r] = C]
  BY DEF ResolveWait
<1>4. e # NoEvent => e \notin consumed[r]
  BY <1>1 DEF Probed
<1>5. /\ \A i \in DOMAIN A : A[i] \in consumed[r] \union {NoEvent}
      /\ \A i, j \in DOMAIN A : A[i] = A[j] /\ A[i] # NoEvent => i = j
  BY <1>1 DEF Answered
<1>6. C = consumed[r] \union ({e} \ {NoEvent})
  OBVIOUS
<1> HIDE DEF W, e, A, C
<1>7. wait'[r] = W /\ answers'[r] = Append(A, e) /\ consumed'[r] = C
      /\ \A s \in Waiters \ {r} : answers'[s] = answers[s] /\ consumed'[s] = consumed[s]
  BY <1>3 DEF SetWait, InvE, EventShapes, InboxFits
<1>8. /\ DOMAIN Append(A, e) = DOMAIN A \union {Len(A) + 1}
      /\ Append(A, e)[Len(A) + 1] = e /\ \A i \in DOMAIN A : Append(A, e)[i] = A[i]
  <2>1. Len(A) \in Nat /\ DOMAIN A = 1 .. Len(A) /\ DOMAIN Append(A, e) = 1 .. Len(A) + 1
    BY <1>1
  <2> QED
    BY <1>1, <2>1
<1>9. /\ \A i \in DOMAIN Append(A, e) : Append(A, e)[i] \in C \union {NoEvent}
      /\ \A i, j \in DOMAIN Append(A, e) :
           Append(A, e)[i] = Append(A, e)[j] /\ Append(A, e)[i] # NoEvent => i = j
  BY <1>4, <1>5, <1>6, <1>8
<1>10. Answered(r)'
  BY <1>7, <1>9 DEF Answered
<1>11. Probed(r)' /\ Awaited(r)'
  BY <1>2, <1>7 DEF Probed, Awaited, PendingWait
<1> QED
  BY <1>3, <1>7, <1>10, <1>11, OthersFollow DEF Follows

LEMMA PublishFollows ==
  ASSUME EventWaitsAssumption, InvE, NEW e \in Events, PublishRunEvent(e)
  PROVE  \A s \in Waiters : Follows(s)'
<1>1. /\ received' = [received EXCEPT ![e] = clock]
      /\ note' = [note EXCEPT ![e] = [pending |-> TRUE, due |-> clock, cursor |-> 0]]
      /\ UNCHANGED <<clock, wait, answers, consumed>>
      /\ received \in [Events -> ClockTimes \union {NeverDue}] /\ note \in [Events -> Notes]
  BY DEF PublishRunEvent, InvE, EventShapes, InboxFits
<1>2. received'[e] = clock /\ note'[e].pending /\ note'[e].cursor = 0
      /\ \A d \in Events \ {e} : received'[d] = received[d] /\ note'[d] = note[d]
  BY <1>1
<1>3. ASSUME NEW s \in Waiters PROVE Follows(s)'
  <2>1. Follows(s) /\ s > 0 /\ clock \in Nat /\ wait[s].process \in [held : BOOLEAN, found : Events \union {NoEvent}, at : ClockTimes]
    BY WaitFacts, EventNumbers DEF InvE
  <2>2. Answered(s)'
    BY <1>1, <2>1 DEF Follows, Answered
  <2>3. Probed(s)'
    <3>1. wait[s].process.held => clock >= wait[s].process.at
      BY <2>1, EventNumbers DEF Follows, Probed
    <3>2. wait[s].process.found # NoEvent => received'[wait[s].process.found] = received[wait[s].process.found]
      <4>1. wait[s].process.found \in Events => wait[s].process.found # e
        BY DEF InvE, EventShapes, InboxFits, PublishRunEvent
      <4> QED
        BY <1>2, <2>1, <4>1
    <3> QED
      BY <1>1, <1>2, <2>1, <3>1, <3>2 DEF Follows, Probed
  <2>4. Matching(s)' \subseteq Matching(s) \union {e}
    BY <1>1, <1>2 DEF Matching, Matches
  <2>5. Awaited(s)'
    BY <1>1, <1>2, <2>1, <2>4 DEF Follows, Awaited, Unattended, PendingWait
  <2> QED
    BY <2>2, <2>3, <2>5 DEF Follows
<1> QED
  BY <1>3

LEMMA TickFollows == ASSUME EventWaitsAssumption, InvE, ClockTick PROVE \A s \in Waiters : Follows(s)'
<1>1. clock < Horizon /\ clock' = clock + 1 /\ clock \in Nat /\ UNCHANGED <<wait, answers, received, consumed, note>>
      /\ Horizon \in Nat /\ NeverDue > Horizon
  BY EventNumbers DEF ClockTick, InvE, EventShapes
<1>2. \A d \in Events : received[d] <= clock' => received[d] <= clock
  <2>1. \A d \in Events : received[d] <= clock \/ received[d] = NeverDue
    BY DEF InvE, EventShapes, InboxFits
  <2>2. ~(NeverDue <= clock')
    BY <1>1, EventNumbers
  <2> QED
    BY <2>1, <2>2
<1>3. ASSUME NEW s \in Waiters PROVE Follows(s)'
  <2>1. Follows(s) /\ wait[s].available \in Nat
        /\ wait[s].process \in [held : BOOLEAN, found : Events \union {NoEvent}, at : ClockTimes]
    BY WaitFacts DEF InvE
  <2>2. Answered(s)'
    BY <1>1, <2>1 DEF Follows, Answered
  <2>3. Probed(s)'
    <3>1. wait[s].process.held => wait[s].process.at <= clock'
      <4>1. wait[s].process.at \in Nat
        BY <2>1, EventNumbers
      <4> QED
        BY <1>1, <2>1, <4>1 DEF Follows, Probed
    <3> QED
      BY <1>1, <2>1, <3>1 DEF Follows, Probed
  <2>4. Matching(s)' \subseteq Matching(s)
    BY <1>1, <1>2 DEF Matching, Matches
  <2>5. Unattended(s)' => Unattended(s)
    BY <1>1, <2>1 DEF Unattended
  <2>6. Awaited(s)'
    BY <1>1, <2>1, <2>4, <2>5 DEF Follows, Awaited, PendingWait
  <2> QED
    BY <2>2, <2>3, <2>6 DEF Follows
<1> QED
  BY <1>3

LEMMA ClaimFollows == ASSUME EventWaitsAssumption, InvE, ClaimRunEventWaits PROVE \A s \in Waiters : Follows(s)'
<1>1. note' = [e \in Events |-> Advanced(e)] /\ wait' = [r \in Waiters |-> Claimed(r)]
      /\ UNCHANGED <<clock, answers, received, consumed>> /\ NoneLocked
  BY DEF ClaimRunEventWaits, Claimed
<1>2. ASSUME NEW s \in Waiters PROVE Follows(s)'
  <2>1. Follows(s) /\ wait'[s] = Claimed(s) /\ EventShapes /\ clock \in Nat /\ wait[s].available \in Nat
        /\ wait[s].lease \in Nat /\ Available(s) \in Nat /\ Available(s) <= wait[s].available
    BY <1>1, WaitFacts, ClaimTypes, EventNumbers DEF InvE
  <2>2. /\ wait'[s].process = wait[s].process /\ wait'[s].run = wait[s].run /\ wait'[s].deadline = wait[s].deadline
        /\ ~ClaimableWaits(s) => wait'[s].lease = wait[s].lease /\ wait'[s].available = Available(s)
        /\ ClaimableWaits(s) => wait'[s].lease > 0 /\ PendingWait(s) /\ ~wait[s].process.held
    BY <2>1, ClaimedFacts
  <2>3. Answered(s)' /\ Probed(s)'
    BY <1>1, <2>1, <2>2 DEF Follows, Answered, Probed
  <2>4. Matching(s)' = Matching(s)
    BY <1>1, <2>2 DEF Matching, Matches
  <2>5. ASSUME PendingWait(s)', Unattended(s)', NEW e \in Matching(s) PROVE note'[e].pending /\ note'[e].cursor < s
    <3>1. PendingWait(s) /\ e \in Events /\ Matches(s, e)
      BY <2>2, <2>5 DEF PendingWait, Matching
    <3>2. note'[e] = Advanced(e)
      BY <1>1, <3>1
    <3>3. CASE wait[s].process.held /\ wait[s].process.found = NoEvent
      <4>1. note[e].pending /\ note[e].cursor < s
        BY <2>1, <3>1, <3>3 DEF Follows, Awaited, Unattended
      <4>2. ~(Visited(e) /\ s \in Page(e))
        BY <1>1, <3>1, <3>3 DEF NoneLocked, Free
      <4> QED
        BY <2>1, <3>1, <3>2, <4>1, <4>2, AdvancedFacts
    <3>4. CASE ~(wait[s].process.held /\ wait[s].process.found = NoEvent)
      <4>1. wait'[s].lease = 0 /\ wait'[s].available > clock
        BY <1>1, <2>2, <2>5, <3>4 DEF Unattended
      <4>2. ~ClaimableWaits(s)
        BY <2>2, <4>1
      <4>3. wait[s].lease = 0 /\ Available(s) > clock
        BY <2>2, <4>1, <4>2
      <4>4. wait[s].available > clock
        BY <2>1, <4>3
      <4>5. note[e].pending /\ note[e].cursor < s
        BY <2>1, <2>5, <3>1, <4>3, <4>4 DEF Follows, Awaited, Unattended
      <4>6. ~(Visited(e) /\ s \in Page(e))
        <5>1. received[e] <= clock /\ received[e] \in Nat
          BY <2>1, <3>1, EventNumbers DEF Matches, EventShapes, InboxFits
        <5>2. Visited(e) /\ s \in Page(e) => Available(s) <= received[e]
          BY <2>1, <3>1, ClaimTypes
        <5> QED
          BY <2>1, <4>3, <5>1, <5>2
      <4> QED
        BY <2>1, <3>1, <3>2, <4>5, <4>6, AdvancedFacts
    <3> QED
      BY <3>3, <3>4
  <2>6. Awaited(s)'
    BY <2>4, <2>5 DEF Awaited
  <2> QED
    BY <2>3, <2>6 DEF Follows
<1> QED
  BY <1>2

LEMMA EventsInvariance ==
  ASSUME EventWaitsAssumption
  PROVE  /\ EventInit => InvE
         /\ InvE /\ [EventNext]_eventVars => InvE'
<1>1. EventInit => InvE
  BY InitShapes, InitFollows DEF InvE
<1>2. ASSUME InvE, [EventNext]_eventVars PROVE InvE'
  <2>1. EventShapes'
    BY <1>2, NextShapes DEF InvE
  <2>2. CASE UNCHANGED eventVars
    BY <1>2, <2>1, <2>2, Undisturbed DEF eventVars, InvE
  <2>3. CASE EventNext
    BY <1>2, <2>1, <2>3, ArmFollows, RunFollows, ProbeFollows, ParkFollows, ResolveFollows, RollbackFollows,
       PublishFollows, TickFollows, ClaimFollows DEF EventNext, InvE
  <2> QED
    BY <1>2, <2>2, <2>3
<1> QED
  BY <1>1, <1>2

-----------------------------------------------------------------------------
(* Theorems.                                                               *)

\* A parked wait misses no event: an event that answers it is still announced, and the
\* cursor of the announcement is before it.  This is what lets a claim advance a
\* notification page by page and drop it, and it needs claims to wait for processors.
THEOREM NothingForgotten == ASSUME EventWaitsAssumption PROVE EventSpec => []NotForgotten
<1>1. InvE => NotForgotten
  BY DEF InvE, Follows, Awaited, Unattended, NotForgotten
<1> QED
  BY <1>1, EventsInvariance, PTL DEF EventSpec

\* However many waits of a Run an event would answer, and however claims, leases and
\* rollbacks interleave, it answers one.
THEOREM AnsweredOnce == ASSUME EventWaitsAssumption PROVE EventSpec => []EventAnswersOnce
<1>1. InvE => EventAnswersOnce
  BY DEF InvE, Follows, Answered, EventAnswersOnce
<1> QED
  BY <1>1, EventsInvariance, PTL DEF EventSpec

-----------------------------------------------------------------------------
(* The refinement.                                                         *)

\* What the contract sees of the waits.
StateOf == [r \in Waiters |-> wait[r].run]
DeadlineOf == [r \in Waiters |-> wait[r].deadline]

LEMMA SetSeen ==
  ASSUME EventShapes, NEW r \in Waiters, NEW W, SetWait(r, W)
  PROVE  /\ StateOf' = [StateOf EXCEPT ![r] = W.run]
         /\ DeadlineOf' = [DeadlineOf EXCEPT ![r] = W.deadline]
         /\ StateOf[r] = wait[r].run /\ DeadlineOf[r] = wait[r].deadline
         /\ W.run = StateOf[r] => StateOf' = StateOf
         /\ W.deadline = DeadlineOf[r] => DeadlineOf' = DeadlineOf
<1>1. \A s \in Waiters : wait'[s] = IF s = r THEN W ELSE wait[s]
  BY DEF SetWait, EventShapes
<1> QED
  BY <1>1 DEF StateOf, DeadlineOf

\* The state and the deadline of a wait stay as they are.
LEMMA SetUnseen ==
  ASSUME EventShapes, NEW r \in Waiters, NEW W, SetWait(r, W), W.run = wait[r].run, W.deadline = wait[r].deadline,
         UNCHANGED <<clock, answers, received, consumed>>
  PROVE  UNCHANGED Contract!vars
<1>1. UNCHANGED <<StateOf, DeadlineOf>>
  BY SetSeen
<1> QED
  BY <1>1 DEF Contract!vars, StateOf, DeadlineOf

LEMMA ArmExpects ==
  ASSUME EventWaitsAssumption, InvE, NEW r \in Waiters, Arm(r)
  PROVE  Contract!Expect(r)
<1> PICK d \in 1 .. Duration :
       SetWait(r, [wait[r] EXCEPT !.key = @ + 1, !.run = "waiting_for_event", !.deadline = clock + d, !.available = clock])
  BY DEF Arm
<1> DEFINE W == [wait[r] EXCEPT !.key = @ + 1, !.run = "waiting_for_event", !.deadline = clock + d, !.available = clock]
<1>1. wait[r] \in Waits /\ clock \in Nat /\ EventShapes
  BY WaitFacts DEF InvE
<1>2. W.run = "waiting_for_event" /\ W.deadline = clock + d
  BY <1>1 DEF Waits
<1>3. SetWait(r, W) /\ wait[r].run = "running" /\ UNCHANGED <<clock, answers, received, consumed>>
  BY DEF Arm
<1> HIDE DEF W
<1>4. /\ StateOf' = [StateOf EXCEPT ![r] = "waiting_for_event"] /\ StateOf[r] = "running"
      /\ DeadlineOf' = [DeadlineOf EXCEPT ![r] = clock + d]
  BY <1>1, <1>2, <1>3, SetSeen
<1>5. DeadlineOf'[r] = clock + d /\ clock + d > clock
  BY <1>1, <1>4 DEF DeadlineOf
<1>6. DeadlineOf' = [DeadlineOf EXCEPT ![r] = DeadlineOf'[r]]
  BY <1>4, <1>5
<1> QED
  BY <1>3, <1>4, <1>5, <1>6 DEF Contract!Expect, Contract!Move, StateOf, DeadlineOf

LEMMA RunInterrupts ==
  ASSUME EventWaitsAssumption, InvE, NEW r \in Waiters, PauseWait(r) \/ ResumeWait(r) \/ CancelWait(r)
  PROVE  Contract!Interrupt(r)
<1>1. wait[r] \in Waits /\ EventShapes
  BY WaitFacts DEF InvE
<1>2. UNCHANGED <<clock, answers, received, consumed>>
  BY DEF PauseWait, ResumeWait, CancelWait
<1>3. PICK W : /\ SetWait(r, W) /\ W.deadline = wait[r].deadline
               /\ \/ wait[r].run = "waiting_for_event" /\ W.run = "paused"
                  \/ wait[r].run = "paused" /\ W.run = "waiting_for_event"
                  \/ wait[r].run \in {"waiting_for_event", "paused"} /\ W.run = "canceled"
  <2>1. CASE PauseWait(r)
    <3> DEFINE W == [wait[r] EXCEPT !.run = "paused", !.available = NeverDue, !.lease = 0]
    <3>1. W.run = "paused" /\ W.deadline = wait[r].deadline
      BY <1>1 DEF Waits
    <3>2. SetWait(r, W) /\ wait[r].run = "waiting_for_event"
      BY <2>1 DEF PauseWait, PendingWait
    <3> QED
      BY <3>1, <3>2
  <2>2. CASE ResumeWait(r)
    <3> DEFINE W == [wait[r] EXCEPT !.run = "waiting_for_event", !.available = clock]
    <3>1. W.run = "waiting_for_event" /\ W.deadline = wait[r].deadline
      BY <1>1 DEF Waits
    <3>2. SetWait(r, W) /\ wait[r].run = "paused"
      BY <2>2 DEF ResumeWait
    <3> QED
      BY <3>1, <3>2
  <2>3. CASE CancelWait(r)
    <3> DEFINE W == [wait[r] EXCEPT !.run = "canceled", !.available = NeverDue, !.lease = 0]
    <3>1. W.run = "canceled" /\ W.deadline = wait[r].deadline
      BY <1>1 DEF Waits
    <3>2. SetWait(r, W) /\ wait[r].run \in {"waiting_for_event", "paused"}
      BY <2>3 DEF CancelWait, PendingWait
    <3> QED
      BY <3>1, <3>2
  <2> QED
    BY <2>1, <2>2, <2>3
<1>4. /\ StateOf' = [StateOf EXCEPT ![r] = W.run] /\ StateOf[r] = wait[r].run
      /\ UNCHANGED DeadlineOf
  BY <1>1, <1>3, SetSeen
<1> QED
  BY <1>2, <1>3, <1>4 DEF Contract!Interrupt, Contract!Move, StateOf, DeadlineOf

LEMMA ResolveEnds ==
  ASSUME EventWaitsAssumption, InvE, NEW r \in Waiters, ResolveWait(r)
  PROVE  Contract!TimeOut(r) \/ \E e \in Events : Contract!Answer(r, e)
<1> DEFINE P == wait[r].process
           W == [wait[r] EXCEPT !.process = Idle, !.lease = 0, !.available = NeverDue, !.run = "running"]
<1>1. /\ wait[r] \in Waits /\ P \in [held : BOOLEAN, found : Events \union {NoEvent}, at : ClockTimes]
      /\ wait[r].deadline \in Nat /\ clock \in Nat /\ P.at \in Nat /\ EventShapes /\ Probed(r)
      /\ AwaitFits(wait[r], Len(answers[r]))
  BY WaitFacts, EventNumbers DEF InvE, Follows
<1>2. /\ P.held /\ (P.found # NoEvent \/ P.at >= wait[r].deadline)
      /\ SetWait(r, W) /\ UNCHANGED <<clock, received>>
      /\ answers' = [answers EXCEPT ![r] = Append(@, P.found)]
      /\ consumed' = [consumed EXCEPT ![r] = @ \union ({P.found} \ {NoEvent})]
  BY DEF ResolveWait
<1>3. W.run = "running" /\ W.deadline = wait[r].deadline
  BY <1>1 DEF Waits
<1> HIDE DEF W
<1>4. wait[r].run = "waiting_for_event"
  BY <1>1, <1>2 DEF AwaitFits
<1>5. /\ StateOf' = [StateOf EXCEPT ![r] = "running"] /\ StateOf[r] = "waiting_for_event"
      /\ UNCHANGED DeadlineOf /\ DeadlineOf[r] = wait[r].deadline
  BY <1>1, <1>2, <1>3, <1>4, SetSeen
<1>6. Contract!End(r, P.found)
  BY <1>2, <1>5 DEF Contract!End, Contract!Move, StateOf, DeadlineOf
<1>7. CASE P.found \in Events
  <2>1. P.found # NoEvent /\ received[P.found] # NeverDue
    BY <1>1, <1>7, EventNumbers DEF EventShapes, InboxFits
  <2>2. P.found \notin consumed[r] /\ received[P.found] <= wait[r].deadline
    BY <1>1, <1>2, <2>1 DEF Probed
  <2>3. received[P.found] <= clock
    BY <1>1, <1>7, <2>1 DEF EventShapes, InboxFits
  <2>4. consumed' = [consumed EXCEPT ![r] = @ \union {P.found}]
    <3>1. {P.found} \ {NoEvent} = {P.found}
      BY <2>1
    <3> QED
      BY <1>2, <3>1
  <2>5. PICK e \in Events : e = P.found
    BY <1>7
  <2>6. Contract!Answer(r, e)
    BY <1>2, <1>5, <2>2, <2>3, <2>4, <2>5
    DEF Contract!Answer, Contract!End, Contract!Move, StateOf, DeadlineOf
  <2> QED
    BY <2>6
<1>8. CASE P.found = NoEvent
  <2>1. P.at >= wait[r].deadline /\ P.at <= clock
    BY <1>1, <1>2, <1>8 DEF Probed
  <2>2. \A e \in Events \ consumed[r] : received[e] >= wait[r].deadline
    <3>1. \A e \in Events : received[e] \in Nat
      BY <1>1, EventNumbers DEF EventShapes, InboxFits
    <3>2. \A e \in Events \ consumed[r] : received[e] >= P.at \/ received[e] > wait[r].deadline
      BY <1>1, <1>2, <1>8 DEF Probed
    <3> QED
      BY <1>1, <2>1, <3>1, <3>2
  <2>3. UNCHANGED consumed
    <3>1. consumed \in [Waiters -> SUBSET Events] /\ {P.found} \ {NoEvent} = {}
      BY <1>1, <1>8 DEF EventShapes, InboxFits
    <3> QED
      BY <1>2, <3>1
  <2>4. wait[r].deadline <= clock
    BY <1>1, <2>1
  <2>5. Contract!TimeOut(r)
    BY <1>5, <1>6, <1>8, <2>2, <2>3, <2>4 DEF Contract!TimeOut, DeadlineOf
  <2> QED
    BY <2>5
<1>9. P.found \in Events \/ P.found = NoEvent
  BY <1>1
<1> QED
  BY <1>7, <1>8, <1>9

\* The transactions between a wait's arming and its end, the bookkeeping of notifications
\* and leases among them, are nothing to the Run.
LEMMA InternalUnseen ==
  ASSUME EventWaitsAssumption, InvE,
         ClaimRunEventWaits \/ \E r \in Waiters : Probe(r) \/ Park(r) \/ Rollback(r)
  PROVE  UNCHANGED Contract!vars
<1>1. EventShapes
  BY DEF InvE
<1>2. CASE ClaimRunEventWaits
  <2>1. wait' = [r \in Waiters |-> Claimed(r)] /\ UNCHANGED <<clock, answers, received, consumed>>
    BY <1>2 DEF ClaimRunEventWaits, Claimed
  <2>2. \A r \in Waiters : wait'[r].run = wait[r].run /\ wait'[r].deadline = wait[r].deadline
    BY <1>1, <2>1, ClaimedFacts
  <2> QED
    BY <2>1, <2>2 DEF Contract!vars
<1>3. ASSUME NEW r \in Waiters, Probe(r) PROVE UNCHANGED Contract!vars
  <2>1. PICK e : SetWait(r, [wait[r] EXCEPT !.process = [held |-> TRUE, found |-> e, at |-> clock]])
    BY <1>3 DEF Probe
  <2>2. wait[r] \in Waits /\ UNCHANGED <<clock, answers, received, consumed>>
    BY <1>1, <1>3, WaitFacts DEF Probe
  <2>3. \A Q : LET W == [wait[r] EXCEPT !.process = Q]
               IN W.run = wait[r].run /\ W.deadline = wait[r].deadline
    BY <2>2 DEF Waits
  <2> QED
    BY <1>1, <2>1, <2>2, <2>3, SetUnseen
<1>4. ASSUME NEW r \in Waiters, Park(r) PROVE UNCHANGED Contract!vars
  <2> DEFINE W == [wait[r] EXCEPT !.process = Idle, !.lease = 0, !.available = wait[r].deadline]
  <2>1. SetWait(r, W) /\ wait[r] \in Waits /\ UNCHANGED <<clock, answers, received, consumed>>
    BY <1>1, <1>4, WaitFacts DEF Park
  <2>2. W.run = wait[r].run /\ W.deadline = wait[r].deadline
    BY <2>1 DEF Waits
  <2> QED
    BY <1>1, <2>1, <2>2, SetUnseen
<1>5. ASSUME NEW r \in Waiters, Rollback(r) PROVE UNCHANGED Contract!vars
  <2> DEFINE W == [wait[r] EXCEPT !.process = Idle]
  <2>1. SetWait(r, W) /\ wait[r] \in Waits /\ UNCHANGED <<clock, answers, received, consumed>>
    BY <1>1, <1>5, WaitFacts DEF Rollback
  <2>2. W.run = wait[r].run /\ W.deadline = wait[r].deadline
    BY <2>1 DEF Waits
  <2> QED
    BY <1>1, <2>1, <2>2, SetUnseen
<1> QED
  BY <1>2, <1>3, <1>4, <1>5

LEMMA WaitContractInits == ASSUME EventWaitsAssumption, EventInit PROVE Contract!Init
<1>1. \A t \in ClockTimes : t \in Nat
  BY EventNumbers
<1>2. 0 \in Nat /\ NeverDue \in Nat
  BY EventNumbers
<1> QED
  BY <1>1, <1>2 DEF EventInit, Contract!Init

LEMMA EventsStep ==
  ASSUME EventWaitsAssumption, InvE, [EventNext]_eventVars
  PROVE  [Contract!Next]_(Contract!vars)
<1>1. ClockTick => Contract!Tick
  BY DEF ClockTick, Contract!Tick
<1>2. ASSUME NEW e \in Events, PublishRunEvent(e) PROVE Contract!Receive(e)
  BY <1>2 DEF PublishRunEvent, Contract!Receive
<1>3. ASSUME UNCHANGED eventVars PROVE UNCHANGED Contract!vars
  BY <1>3 DEF eventVars, Contract!vars
<1> QED
  BY <1>1, <1>2, <1>3, ArmExpects, RunInterrupts, ResolveEnds, InternalUnseen DEF EventNext, Contract!Next

\* Whatever claims, pages, leases, rollbacks, pauses and late announcements do, a wait is
\* answered by an event of its time that its Run has not used, or times out when its
\* deadline has come and no such event had been received before.
THEOREM WaitContractImplemented == ASSUME EventWaitsAssumption PROVE EventSpec => ImplementsWaitContract
<1>1. EventInit => Contract!Init
  BY WaitContractInits
<1>2. InvE /\ [EventNext]_eventVars => [Contract!Next]_(Contract!vars)
  BY EventsStep
<1> QED
  BY <1>1, <1>2, EventsInvariance, PTL DEF EventSpec, ImplementsWaitContract, Contract!Spec
=============================================================================
