---------------------------- MODULE JoinContract ----------------------------
(* What a fork promises to the Run that made it: the Run waits until the   *)
(* branches' ends decide the join as its policy has it, or until the Run   *)
(* is canceled; a join is decided once, and what was recorded of a branch  *)
(* stands; and a Run whose join failed owes an explanation, with which it  *)
(* fails.  Who notices the ends of branches, when, and how often, is left  *)
(* open.                                                                   *)
CONSTANTS Runs, Groups, NoGroup
VARIABLES
  end,     \* how each Run ended, if it has
  debt,    \* it owes an explanation
  on,      \* the join it waits for
  verdict, \* what was recorded of it as a branch
  join     \* the joins

vars == <<end, debt, on, verdict, join>>

Ends == {"completed", "failed", "canceled"}
Lost == {"failed", "canceled"}
NoJoin == [status |-> "none"]

Init ==
  /\ \E root \in Runs : end = [r \in Runs |-> IF r = root THEN "open" ELSE "none"]
  /\ debt = [r \in Runs |-> FALSE] /\ on = [r \in Runs |-> NoGroup]
  /\ verdict = [r \in Runs |-> "running"] /\ join = [g \in Groups |-> NoJoin]

Fork(r, g, B) ==
  /\ end[r] = "open" /\ on[r] = NoGroup /\ ~debt[r]
  /\ join[g] = NoJoin /\ B # {} /\ \A b \in B : end[b] = "none"
  /\ \E mode \in {"all", "any"}, failure \in {"fail_fast", "wait"} :
       join' = [join EXCEPT ![g] = [source |-> r, branches |-> B, mode |-> mode,
                                    failure |-> failure, status |-> "waiting"]]
  /\ end' = [b \in Runs |-> IF b \in B THEN "open" ELSE end[b]]
  /\ on' = [on EXCEPT ![r] = g]
  /\ UNCHANGED <<debt, verdict>>

Finish(r, s) ==
  /\ end[r] = "open" /\ on[r] = NoGroup /\ (s = "completed" => ~debt[r])
  /\ end' = [end EXCEPT ![r] = s]
  /\ UNCHANGED <<debt, on, verdict, join>>

Cancel(r) ==
  /\ end[r] = "open"
  /\ end' = [end EXCEPT ![r] = "canceled"] /\ on' = [on EXCEPT ![r] = NoGroup]
  /\ UNCHANGED <<debt, verdict, join>>

\* The branches' ends allow the join to be decided to s.
Warranted(g, s) ==
  LET B == join[g].branches
      all == join[g].mode = "all"
      lost == {b \in B : end[b] \in Lost}
      completed == {b \in B : end[b] = "completed"}
  IN \/ s = "satisfied" /\ completed # {} /\ (all => completed = B)
     \/ s = "failed" /\ all /\ lost # {} /\ (join[g].failure = "wait" => lost \union completed = B)
     \/ s = "failed" /\ ~all /\ lost = B

Decide(g, s) ==
  /\ join[g].status = "waiting" /\ on[join[g].source] = g /\ Warranted(g, s)
  /\ join' = [join EXCEPT ![g].status = s]
  /\ on' = [on EXCEPT ![join[g].source] = NoGroup]
  /\ debt' = [debt EXCEPT ![join[g].source] = @ \/ s = "failed"]

\* The ends of the branches in C are recorded, and may decide the join.
Record(g, C) ==
  /\ join[g] # NoJoin /\ C # {} /\ C \subseteq join[g].branches
  /\ \A c \in C : end[c] \in Ends /\ verdict[c] = "running"
  /\ verdict' = [c \in Runs |-> IF c \notin C THEN verdict[c]
                                ELSE IF end[c] = "completed" THEN "satisfied" ELSE end[c]]
  /\ UNCHANGED <<debt, on, join>> \/ \E s \in {"satisfied", "failed"} : Decide(g, s)
  /\ UNCHANGED end

\* Nobody waits for the join any more.
Retire(g) ==
  /\ join[g].status = "waiting" /\ end[join[g].source] \in Ends
  /\ join' = [join EXCEPT ![g].status = "canceled"]
  /\ verdict' = [c \in Runs |-> IF c \in join[g].branches /\ verdict[c] = "running"
                                THEN "canceled" ELSE verdict[c]]
  /\ UNCHANGED <<end, debt, on>>

Next ==
  \/ \E r \in Runs : Cancel(r) \/ \E s \in {"completed", "failed"} : Finish(r, s)
  \/ \E r \in Runs, g \in Groups, B \in SUBSET Runs : Fork(r, g, B)
  \/ \E g \in Groups : Retire(g) \/ \E C \in SUBSET Runs : Record(g, C)

Spec == Init /\ [][Next]_vars
=============================================================================
