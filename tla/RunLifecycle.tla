---------------------------- MODULE RunLifecycle ----------------------------
(***************************************************************************)
(* The contract of an AgentRun: which status may follow which, who may     *)
(* hold it, and when a Turn may be applied to it, without saying how       *)
(* workers, operators and timers bring the changes about.                  *)
(*                                                                         *)
(* It is the reading of canTransitionAgentRun, TransitionRun, the claim    *)
(* and the run commands together, as RunTurns implements it.               *)
(***************************************************************************)
EXTENDS Naturals

CONSTANTS Workers, NoWorker, Waits

VARIABLES
  status,   \* Status of the Run
  saved,    \* PausedFrom, what a pause interrupted
  holder,   \* LeaseOwner
  live,     \* whether the lease has not expired
  applied   \* LastAppliedTurn

vars == <<status, saved, holder, live, applied>>

Ends == {"completed", "failed", "canceled"}

Init == /\ status = "queued" /\ saved = "none"
        /\ holder = NoWorker /\ live = FALSE /\ applied = 0

Release == holder' = NoWorker /\ live' = FALSE

\* A claim takes a queued Run, or a Running one nobody holds any more.
Claim(w) ==
  /\ status \in {"queued", "running"} /\ ~live
  /\ status' = "running" /\ holder' = w /\ live' = TRUE
  /\ UNCHANGED <<saved, applied>>

\* A Run may also be started without being held.
Start ==
  /\ status = "queued" /\ status' = "running"
  /\ UNCHANGED <<saved, holder, live, applied>>

Lapse == live /\ live' = FALSE /\ UNCHANGED <<status, saved, holder, applied>>

\* A Turn counts only for a Running Run, which may stay so ...
Continue ==
  /\ status = "running" /\ applied' = applied + 1
  /\ UNCHANGED <<status, saved, holder, live>>

\* ... or leave with it, to wait, to queue, to pause or to end, giving up its lease.
Leave ==
  /\ status = "running"
  /\ status' \in {"queued", "paused"} \union Waits \union Ends
  /\ saved' \in IF status' = "paused" THEN {"running", "none"} ELSE {"none"}
  /\ Release
  /\ applied' \in {applied, applied + 1}

\* What a Run waits for requeues it, makes it wait for what comes next, or ends it: an
\* approval for the approved call, an accepted request for its result or, handed off, for
\* nothing more, a result for a person, or as the end of what was handed off or failed.
Follows(s) == CASE s = "waiting_for_approval"   -> {"waiting_for_dependency"}
                [] s = "waiting_for_agent"      -> {"waiting_for_dependency", "completed"}
                [] s = "waiting_for_dependency" -> {"waiting_for_event", "completed", "failed"}
                [] OTHER                        -> {}

Awaken ==
  /\ status \in Waits
  /\ status' \in {"queued"} \union Follows(status)
  /\ UNCHANGED <<saved, holder, live, applied>>

\* During a pause an approval can only be refused and a result comes in, which ends
\* nothing: what changes is what the pause will be lifted to.
AwakenPaused ==
  /\ status = "paused"
  /\ \/ saved \in {"waiting_for_approval", "waiting_for_dependency"} /\ saved' = "queued"
     \/ saved = "waiting_for_dependency" /\ saved' = "waiting_for_event"
  /\ UNCHANGED <<status, holder, live, applied>>

\* A queued Run is made to wait, or hands its work over, without having run.
Engage ==
  /\ status = "queued" /\ status' \in {"completed"} \union Waits
  /\ UNCHANGED <<saved, holder, live, applied>>

\* What a pause interrupts is what Resume goes back to, if it is a wait.
Pause ==
  /\ status \in {"queued"} \union Waits
  /\ status' = "paused" /\ saved' = status
  /\ UNCHANGED <<holder, live, applied>>

Resume ==
  /\ status = "paused"
  /\ status' = IF saved \in Waits THEN saved ELSE "queued"
  /\ saved' = "none"
  /\ UNCHANGED <<holder, live, applied>>

Cancel ==
  /\ status \in {"queued", "paused"} \union Waits
  /\ status' = "canceled" /\ saved' = "none"
  /\ UNCHANGED <<holder, live, applied>>

\* The only way out of an end.
Retry ==
  /\ status = "failed" /\ status' = "queued"
  /\ UNCHANGED <<saved, holder, live, applied>>

Next == \/ \E w \in Workers : Claim(w)
        \/ Start \/ Lapse \/ Continue \/ Leave
        \/ Awaken \/ AwakenPaused \/ Engage
        \/ Pause \/ Resume \/ Cancel \/ Retry

Spec == Init /\ [][Next]_vars

=============================================================================
