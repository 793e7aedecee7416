------------------------------- MODULE Forks -------------------------------
(***************************************************************************)
(* Trees of Runs: a Run forks child Runs and waits for a dependency group  *)
(* of them, children settle the group, and whatever ends a Run also ends   *)
(* the Runs below it.                                                      *)
(*                                                                         *)
(* A fork, the resolution of one edge and the reconciliation of a group    *)
(* are transactions of the store.  What follows them is not: the losers of *)
(* a join_any are canceled one by one, and the descendants of an ended Run *)
(* are listed level by level and canceled leaf first, by the process that  *)
(* ended it or by a later maintenance pass, any of which may stop half way *)
(* (a crash, a revision conflict that outlived its retries).               *)
(*                                                                         *)
(* Runs are numbered in the order they are created, 1 is the root.  Every  *)
(* other Run is the branch of one fork, so its edge is a field of the Run. *)
(* marked says that the Run's checkpoint still names its fork: it does at  *)
(* creation, and a runner returns a checkpoint of its own with every Turn. *)
(***************************************************************************)
EXTENDS Naturals, FiniteSets, Sequences

CONSTANTS
  MaxRuns,     \* model bound: Runs
  MaxGroups,   \* model bound: forks
  Processes,   \* workers, maintenance passes and servers that act for a Run
  KeepsMarker, \* the children's runners return the checkpoint they were given
  MaxCommands, \* model bound: pauses and cancellations
  MaxFaults    \* model bound: processes that stop half way

Runs == 1 .. MaxRuns
Groups == 1 .. MaxGroups
Ended == {"completed", "failed", "canceled"}
RunStatus == {"queued", "running", "paused", "waiting_for_dependency"} \union Ended
Settled == {"satisfied", "failed", "canceled"}
EdgeState == {"running"} \union Settled
GroupStatus == {"waiting"} \union Settled
Modes == {"all", "any"}
FailureModes == {"fail_fast", "wait"}

ASSUME ForksAssumption ==
  /\ {MaxRuns, MaxGroups, MaxCommands, MaxFaults} \subseteq Nat
  /\ MaxRuns > 0 /\ KeepsMarker \in BOOLEAN

VARIABLES
  run,   \* the Runs created so far
  group, \* the dependency groups created so far
  proc,  \* what each process is in the middle of
  spent  \* what has been used of the model's bounds

vars == <<run, group, proc, spent>>

\* fork is the group of the Run's branch, on the group it waits for; owes says that
\* the Run has to explain a failed dependency, and then fail.
RunRecords == [status : RunStatus, pausedFrom : RunStatus \union {"none"},
               on : {0} \union Groups, parent : {0} \union Runs, fork : {0} \union Groups,
               edge : EdgeState, marked : BOOLEAN, owes : BOOLEAN]
GroupRecords == [source : Runs, mode : Modes, failure : FailureModes, status : GroupStatus]
Frames == [run : Runs, kids : SUBSET Runs]
ProcStates == [task : {"idle"}]
              \union [task : {"losers"}, fork : Groups, todo : SUBSET Runs, canceled : SUBSET Runs]
              \union [task : {"cascade"}, frames : Seq(Frames)]
Idle == [task |-> "idle"]

TypeOK ==
  /\ run \in Seq(RunRecords) /\ Len(run) \in Runs
  /\ group \in Seq(GroupRecords) /\ Len(group) <= MaxGroups
  /\ proc \in [Processes -> ProcStates]
  /\ spent \in [{"command", "fault"} -> Nat]

Created == DOMAIN run
NewRun(p, g) == [status |-> "queued", pausedFrom |-> "none", on |-> 0, parent |-> p,
                 fork |-> g, edge |-> "running", marked |-> g # 0, owes |-> FALSE]

Init ==
  /\ run = <<NewRun(0, 0)>> /\ group = << >>
  /\ proc = [x \in Processes |-> Idle]
  /\ spent = [b \in {"command", "fault"} |-> 0]

-----------------------------------------------------------------------------
(* What the code asks of the records.                                      *)

Members(g) == {r \in Created : run[r].fork = g}
Children(r) == {c \in Created : run[c].parent = r}
HasEnded(r) == run[r].status \in Ended
Source(g) == group[g].source

\* The source waits for the group, or did when it was paused.
WaitsActively(r, g) == run[r].on = g /\ run[r].status = "waiting_for_dependency"
WaitsFor(r, g) ==
  /\ run[r].on = g
  /\ \/ run[r].status = "waiting_for_dependency"
     \/ run[r].status = "paused" /\ run[r].pausedFrom = "waiting_for_dependency"

\* What an ended child means for its edge.
VerdictAsIs(c) == run[c].status
Verdict(c) == IF run[c].status = "completed" THEN "satisfied" ELSE run[c].status

\* The status of a group whose edges are as in R.
EvaluateFailures(g, R) ==
  LET M == Members(g)
      open == \E c \in M : R[c].edge = "running"
  IN IF group[g].status # "waiting" THEN group[g].status
     ELSE IF group[g].mode = "all" /\ \E c \in M : R[c].edge = "failed" THEN "failed"
     ELSE IF open THEN "waiting" ELSE "satisfied"

Evaluate(g, R) ==
  LET M == Members(g)
      open == \E c \in M : R[c].edge = "running"
      failure == \E c \in M : R[c].edge \in {"failed", "canceled"}
  IN IF group[g].status # "waiting" THEN group[g].status
     ELSE IF group[g].mode = "all"
     THEN IF ~open /\ ~failure THEN "satisfied"
          ELSE IF failure /\ (group[g].failure = "fail_fast" \/ ~open) THEN "failed"
          ELSE "waiting"
     ELSE IF \E c \in M : R[c].edge = "satisfied" THEN "satisfied"
          ELSE IF ~open THEN "failed" ELSE "waiting"

\* The source as a group that leaves its wait with status s leaves it.
Woken(R, s) ==
  LET owing == [R EXCEPT !.on = 0, !.owes = @ \/ s = "failed"]
  IN IF R.status = "paused" THEN [owing EXCEPT !.pausedFrom = "queued"]
                            ELSE [owing EXCEPT !.status = "queued"]

\* The edges of C are written; the group follows, and wakes its source.
Written(C) == [r \in Created |-> IF r \in C THEN [run[r] EXCEPT !.edge = Verdict(r)] ELSE run[r]]
Settle(g, C) ==
  LET R == Written(C)
      s == Evaluate(g, R)
      wakes == group[g].status = "waiting" /\ s # "waiting"
  IN /\ group' = [group EXCEPT ![g].status = s]
     /\ run' = IF wakes THEN [R EXCEPT ![Source(g)] = Woken(@, s)] ELSE R

\* The source has ended: its open edges are canceled, their Runs left alone.
Retire(g) ==
  /\ group' = [group EXCEPT ![g].status = "canceled"]
  /\ run' = [r \in Created |-> IF r \in Members(g) /\ run[r].edge = "running"
                               THEN [run[r] EXCEPT !.edge = "canceled"] ELSE run[r]]

\* The resolution of the edge of an ended child, which a source that has ended, a
\* settled edge, or a source that does not wait for the group turn into something else.
ResolveAgain(c) ==
  LET g == run[c].fork IN
  IF group[g].status = "waiting" /\ HasEnded(Source(g)) THEN Retire(g)
  ELSE IF group[g].status = "waiting" /\ ~WaitsFor(Source(g), g)
       THEN UNCHANGED <<run, group>>
       ELSE Settle(g, {c})

Resolve(c) ==
  LET g == run[c].fork IN
  IF group[g].status = "waiting" /\ HasEnded(Source(g)) THEN Retire(g)
  ELSE IF \/ run[c].edge # "running"
          \/ group[g].status = "waiting" /\ ~WaitsFor(Source(g), g)
       THEN UNCHANGED <<run, group>>
       ELSE Settle(g, {c})

Spend(b, max) == spent[b] < max /\ spent' = [spent EXCEPT ![b] = @ + 1]
Put(r, R) == run' = [run EXCEPT ![r] = R]
Become(x, p) == proc' = [proc EXCEPT ![x] = p]

-----------------------------------------------------------------------------
(* The Runs' own Turns.                                                    *)

Start(r) ==
  /\ run[r].status = "queued"
  /\ Put(r, [run[r] EXCEPT !.status = "running"])
  /\ UNCHANGED <<group, proc, spent>>

\* A runner's last Turn; what it returns replaces the checkpoint.
Finish(r) ==
  /\ run[r].status = "running"
  /\ \E s \in {"completed", "failed"}, m \in {run[r].marked, run[r].marked /\ KeepsMarker} :
       /\ s = "completed" => ~run[r].owes
       /\ Put(r, [run[r] EXCEPT !.status = s, !.marked = m])
  /\ UNCHANGED <<group, proc, spent>>

\* One transaction creates the children, their edges and the group, and parks the source.
Fork(r, n, mode, failure) ==
  /\ run[r].status = "running" /\ ~run[r].owes
  /\ Len(run) + n <= MaxRuns /\ Len(group) < MaxGroups
  /\ LET g == Len(group) + 1 IN
       /\ group' = Append(group, [source |-> r, mode |-> mode, failure |-> failure,
                                  status |-> "waiting"])
       /\ run' = [run EXCEPT ![r] = [@ EXCEPT !.status = "waiting_for_dependency", !.on = g]]
                 \o [i \in 1 .. n |-> NewRun(r, g)]
  /\ UNCHANGED <<proc, spent>>

-----------------------------------------------------------------------------
(* Operators.                                                              *)

Pause(r) ==
  /\ run[r].status \notin Ended \union {"paused"} /\ Spend("command", MaxCommands)
  /\ Put(r, [run[r] EXCEPT !.status = "paused", !.pausedFrom = run[r].status])
  /\ UNCHANGED <<group, proc>>

ResumeQueued(r) ==
  /\ run[r].status = "paused"
  /\ Put(r, [run[r] EXCEPT !.pausedFrom = "none", !.status = "queued"])
  /\ UNCHANGED <<group, proc, spent>>

Resume(r) ==
  /\ run[r].status = "paused"
  /\ Put(r, [run[r] EXCEPT !.pausedFrom = "none",
               !.status = IF run[r].on # 0 THEN run[r].pausedFrom ELSE "queued"])
  /\ UNCHANGED <<group, proc, spent>>

Canceled(R) == [R EXCEPT !.status = "canceled", !.pausedFrom = "none", !.on = 0]
Cancel(r) ==
  /\ ~HasEnded(r) /\ Spend("command", MaxCommands)
  /\ Put(r, Canceled(run[r]))
  /\ UNCHANGED <<group, proc>>

-----------------------------------------------------------------------------
(* Fan-in.                                                                 *)

\* The edge is settled in one transaction; if that made its child the winner of a
\* join_any, or the child had won before, its open rivals are canceled next.
CompleteChildOnce(x, c) ==
  LET g == run[c].fork IN
  /\ proc[x] = Idle /\ g # 0 /\ HasEnded(c) /\ run[c].marked
  /\ Resolve(c)
  /\ IF /\ Verdict(c) = "satisfied" /\ run'[Source(g)].status \notin Ended
        /\ group[g].mode = "any" /\ group[g].status = "waiting" /\ group'[g].status = "satisfied"
     THEN Become(x, [task |-> "losers", fork |-> g, canceled |-> {},
                     todo |-> {l \in Members(g) \ {c} : run'[l].edge = "running"}])
     ELSE UNCHANGED proc
  /\ UNCHANGED spent

CompleteChild(x, c) ==
  LET g == run[c].fork IN
  /\ proc[x] = Idle /\ g # 0 /\ HasEnded(c) /\ run[c].marked
  /\ Resolve(c)
  /\ IF /\ Verdict(c) = "satisfied" /\ run'[Source(g)].status \notin Ended
        /\ group[g].mode = "any" /\ group'[g].status = "satisfied"
     THEN Become(x, [task |-> "losers", fork |-> g, canceled |-> {},
                     todo |-> {l \in Members(g) \ {c} : run'[l].edge = "running"}])
     ELSE UNCHANGED proc
  /\ UNCHANGED spent

\* A loser whose checkpoint no longer names the fork ends the operation with an error.
CancelLoser(x) ==
  /\ proc[x].task = "losers" /\ proc[x].canceled = {}
  /\ \E l \in proc[x].todo :
       IF HasEnded(l) \/ run[l].marked
       THEN /\ run' = IF HasEnded(l) THEN run
                      ELSE [run EXCEPT ![l] = Canceled(@)]
            /\ Become(x, [proc[x] EXCEPT !.todo = @ \ {l}, !.canceled = {l}])
       ELSE UNCHANGED run /\ Become(x, Idle)
  /\ UNCHANGED <<group, spent>>

CompleteLoser(x) ==
  /\ proc[x].task = "losers"
  /\ \E l \in proc[x].canceled :
       IF run[l].marked
       THEN Resolve(l) /\ Become(x, [proc[x] EXCEPT !.canceled = {}])
       ELSE UNCHANGED <<run, group>> /\ Become(x, Idle)
  /\ UNCHANGED spent

LosersDone(x) ==
  /\ proc[x].task = "losers" /\ proc[x].todo = {} /\ proc[x].canceled = {}
  /\ Become(x, Idle)
  /\ UNCHANGED <<run, group, spent>>

\* Maintenance finds a waiting group that its source or a child has outrun.  The
\* children of a join_any that still carry their marker go through CompleteChild.
Reconcile(x, g) ==
  LET late == {c \in Members(g) : HasEnded(c) /\ run[c].edge = "running"} IN
  /\ proc[x] = Idle /\ group[g].status = "waiting"
  /\ IF HasEnded(Source(g)) THEN Retire(g)
     ELSE /\ late # {} /\ WaitsFor(Source(g), g)
          /\ group[g].mode = "any" => \A c \in late : ~run[c].marked
          /\ Settle(g, late)
  /\ UNCHANGED <<proc, spent>>

-----------------------------------------------------------------------------
(* The cascade below an ended Run.                                         *)

Frame(r) == [run |-> r, kids |-> Children(r)]
Top(x) == proc[x].frames[Len(proc[x].frames)]
Below(x) == SubSeq(proc[x].frames, 1, Len(proc[x].frames) - 1)

CascadeCanceled(x, r) ==
  /\ proc[x] = Idle /\ run[r].status = "canceled" /\ Children(r) # {}
  /\ Become(x, [task |-> "cascade", frames |-> <<Frame(r)>>])
  /\ UNCHANGED <<run, group, spent>>

Cascade(x, r) ==
  /\ proc[x] = Idle /\ HasEnded(r) /\ Children(r) # {}
  /\ Become(x, [task |-> "cascade", frames |-> <<Frame(r)>>])
  /\ UNCHANGED <<run, group, spent>>

\* A child's own children are listed before the child is canceled.
Descend(x) ==
  /\ proc[x].task = "cascade"
  /\ \E c \in Top(x).kids :
       Become(x, [proc[x] EXCEPT !.frames =
                    Append(Append(Below(x), [Top(x) EXCEPT !.kids = @ \ {c}]), Frame(c))])
  /\ UNCHANGED <<run, group, spent>>

Ascend(x) ==
  /\ proc[x].task = "cascade" /\ Top(x).kids = {}
  /\ IF Len(proc[x].frames) = 1 THEN Become(x, Idle) /\ UNCHANGED run
     ELSE /\ Become(x, [proc[x] EXCEPT !.frames = Below(x)])
          /\ run' = IF HasEnded(Top(x).run) THEN run
                    ELSE [run EXCEPT ![Top(x).run] = Canceled(@)]
  /\ UNCHANGED <<group, spent>>

\* The process dies, or a conflict that outlives its retries ends the operation.
Abort(x) ==
  /\ proc[x] # Idle /\ Spend("fault", MaxFaults)
  /\ Become(x, Idle)
  /\ UNCHANGED <<run, group>>

-----------------------------------------------------------------------------

Turn(r) ==
  \/ Start(r) \/ Finish(r)
  \/ \E n \in 1 .. MaxRuns, m \in Modes, f \in FailureModes : Fork(r, n, m, f)
Operate(r) == Pause(r) \/ Resume(r) \/ Cancel(r)
Continue(x) == CancelLoser(x) \/ CompleteLoser(x) \/ LosersDone(x) \/ Descend(x) \/ Ascend(x)

Next ==
  \/ \E r \in Created : Turn(r) \/ Operate(r)
  \/ \E x \in Processes :
       \/ Continue(x) \/ Abort(x)
       \/ \E r \in Created : CompleteChild(x, r) \/ Cascade(x, r)
       \/ \E g \in DOMAIN group : Reconcile(x, g)

Spec == Init /\ [][Next]_vars

\* A process finishes what it began, and each maintenance pass visits every waiting
\* group and the newest ended Runs.  Nothing is assumed of runners and people.
Fairness ==
  /\ \A x \in Processes : WF_vars(Continue(x))
  /\ \A r \in Runs \ {1} : SF_vars(r \in Created /\ \E x \in Processes : CompleteChild(x, r))
  /\ \A r \in Runs \ {MaxRuns} : SF_vars(r \in Created /\ \E x \in Processes : Cascade(x, r))
  /\ \A g \in Groups : SF_vars(g \in DOMAIN group /\ \E x \in Processes : Reconcile(x, g))

FairSpec == Spec /\ Fairness

-----------------------------------------------------------------------------
(* What the design promises.                                               *)

\* A group waits exactly as long as its source does, through pauses, resumptions
\* and whatever settles its edges meanwhile: an edge of a waiting group can always be
\* written, and no source waits for a group that is through.
WaitsTogether ==
  \A g \in DOMAIN group :
    /\ group[g].status = "waiting" /\ ~HasEnded(Source(g)) => WaitsFor(Source(g), g)
    /\ WaitsFor(Source(g), g) => group[g].status = "waiting"

\* In whatever order children end, an edge says how its child ended, and a settled
\* group is what its policy makes of all the children's ends.
OutcomeIsRight ==
  /\ \A c \in Created : run[c].fork # 0 /\ run[c].edge # "running" =>
       \/ HasEnded(c) /\ run[c].edge = Verdict(c)
       \/ run[c].edge = "canceled" /\ HasEnded(Source(run[c].fork))
  /\ \A g \in DOMAIN group :
       LET ended(s) == {c \in Members(g) : run[c].status \in s} IN
       CASE group[g].status = "satisfied" /\ group[g].mode = "all" -> ended({"completed"}) = Members(g)
         [] group[g].status = "satisfied" /\ group[g].mode = "any" -> ended({"completed"}) # {}
         [] group[g].status = "failed" /\ group[g].mode = "all" -> ended({"failed", "canceled"}) # {}
         [] group[g].status = "failed" /\ group[g].mode = "any" -> ended({"failed", "canceled"}) = Members(g)
         [] group[g].status = "canceled" -> HasEnded(Source(g))
         [] OTHER -> TRUE

EndOf(r) == IF r \notin Created THEN "none" ELSE IF HasEnded(r) THEN run[r].status ELSE "open"
JoinOf(g) ==
  IF g \notin DOMAIN group THEN [status |-> "none"]
  ELSE [source |-> Source(g), branches |-> Members(g), mode |-> group[g].mode,
        failure |-> group[g].failure, status |-> group[g].status]

Contract == INSTANCE JoinContract WITH
  NoGroup <- 0,
  end <- [r \in Runs |-> EndOf(r)],
  debt <- [r \in Runs |-> r \in Created /\ run[r].owes],
  on <- [r \in Runs |-> IF r \in Created THEN run[r].on ELSE 0],
  verdict <- [r \in Runs |-> IF r \in Created THEN run[r].edge ELSE "running"],
  join <- [g \in Groups |-> JoinOf(g)]

\* Whoever resolves, reconciles, cancels or cascades, in whatever order and however
\* often, every join keeps to JoinContract: late children change neither a decision nor
\* what was recorded, and nothing but a decision or a cancellation ends the wait.
ImplementsJoin == Contract!Spec

\* The three promises below hold again and again, whatever dies in between; since an
\* end is final and a Run that has ended forks no more, each holds for every Run.

\* A group that the ends of its children decide, or whose source has ended, is settled.
GroupsSettle ==
  []<>(\A g \in DOMAIN group :
         LET late == {c \in Members(g) : HasEnded(c) /\ run[c].edge = "running"}
         IN group[g].status = "waiting" => ~HasEnded(Source(g)) /\ Evaluate(g, Written(late)) = "waiting")

\* No Run outlives an ancestor, also when it was forked while the cascade that ended
\* the ancestor's other descendants was on its way.
TreeStops ==
  []<>(\A r \in Created : HasEnded(r) => \A c \in Children(r) : HasEnded(c))

\* After a join_any has its winner the rivals stop: "so no second wake or
\* unnecessary background work survives the winner" (run_fork.go:545).
LosersStop ==
  []<>(\A g \in DOMAIN group :
         group[g].mode = "any" /\ group[g].status = "satisfied" =>
           \A c \in Members(g) : HasEnded(c))
=============================================================================
