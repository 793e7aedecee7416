--------------------------- MODULE ActionContract ---------------------------
(* What a governed action promises to whoever reviews or pays for it:      *)
(* nothing leaves for the provider before the call is admitted, nothing    *)
(* ever leaves for a refused call, a change leaves at most once, and       *)
(* neither a refusal nor a closed call is revisited.                       *)
EXTENDS Naturals

CONSTANTS Calls, Reads
VARIABLES phase, sends

vars == <<phase, sends>>
Init == phase = [c \in Calls |-> "none"] /\ sends = [c \in Calls |-> 0]

Move(c, from, to) ==
  phase[c] \in from /\ phase' = [phase EXCEPT ![c] = to] /\ UNCHANGED sends

Propose(c) == \E p \in {"review", "admitted", "refused"} : Move(c, {"none"}, p)
Decide(c)  == \E p \in {"admitted", "refused"} : Move(c, {"review"}, p)
Close(c)   == Move(c, {"admitted"}, "closed")

\* Also after the call was closed, by a worker that lost it.
Send(c) ==
  /\ phase[c] \in {"admitted", "closed"}
  /\ c \in Reads \/ sends[c] = 0
  /\ sends' = [sends EXCEPT ![c] = @ + 1] /\ UNCHANGED phase

Next == \E c \in Calls : Propose(c) \/ Decide(c) \/ Close(c) \/ Send(c)
Spec == Init /\ [][Next]_vars
=============================================================================
