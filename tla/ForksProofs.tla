------------------------------ MODULE ForksProofs ------------------------------
(***************************************************************************)
(* Theorems about Forks for any number of Runs, forks, processes, commands *)
(* and faults.                                                             *)
(*                                                                         *)
(* Every step does one of four things to the records: it changes one Run,  *)
(* forks one, settles a group, or retires the group of a source that has   *)
(* ended.  The invariant ties the three views of a wait together: the Run  *)
(* that waits, the group it waits for, and the edges of the group.  Each   *)
(* of the four is then a step of JoinContract, or none, and moves each Run *)
(* only as RunLifecycle lets it move.                                      *)
(***************************************************************************)
EXTENDS Forks, TLAPS

LEMMA FunctionIsSequence ==
  ASSUME NEW S, NEW n \in Nat, NEW f \in [1 .. n -> S]
  PROVE  f \in Seq(S) /\ Len(f) = n
OBVIOUS

LEMMA ExceptIsSequence ==
  ASSUME NEW S, NEW q \in Seq(S), NEW i \in 1 .. Len(q), NEW e \in S
  PROVE  /\ [q EXCEPT ![i] = e] \in Seq(S) /\ Len([q EXCEPT ![i] = e]) = Len(q)
         /\ \A j \in 1 .. Len(q) : [q EXCEPT ![i] = e][j] = IF j = i THEN e ELSE q[j]
OBVIOUS

LEMMA Joined ==
  ASSUME NEW S, NEW q \in Seq(S), NEW n \in Nat, NEW f \in [1 .. n -> S]
  PROVE  /\ (q \o f) \in Seq(S) /\ Len(q \o f) = Len(q) + n
         /\ \A j \in 1 .. Len(q) : (q \o f)[j] = q[j]
         /\ \A j \in 1 .. n : (q \o f)[Len(q) + j] = f[j]
<1>1. f \in Seq(S) /\ Len(f) = n
  BY FunctionIsSequence
<1> QED
  BY <1>1

-----------------------------------------------------------------------------
(* The invariant.                                                          *)

\* A Run waits for a group that waits, and whose source it is; only such a Run names one.
RunWaits(r) ==
  run[r].on # 0 =>
    /\ run[r].on \in DOMAIN group /\ Source(run[r].on) = r
    /\ WaitsFor(r, run[r].on) /\ group[run[r].on].status = "waiting"

\* The two parts of OutcomeIsRight, of one Run and of one group.
EdgeRight(c) ==
  run[c].fork # 0 /\ run[c].edge # "running" =>
    \/ HasEnded(c) /\ run[c].edge = Verdict(c)
    \/ run[c].edge = "canceled" /\ HasEnded(Source(run[c].fork))

GroupRight(g) ==
  LET M == Members(g)
      s == group[g].status
      m == group[g].mode
  IN /\ s = "satisfied" /\ m = "all" => \A c \in M : run[c].status = "completed"
     /\ s = "satisfied" /\ m = "any" => \E c \in M : run[c].status = "completed"
     /\ s = "failed" /\ m = "all" => \E c \in M : run[c].status \in {"failed", "canceled"}
     /\ s = "failed" /\ m = "any" => \A c \in M : run[c].status \in {"failed", "canceled"}
     /\ s = "canceled" => HasEnded(Source(g))

GroupWaits(g) == group[g].status = "waiting" /\ ~HasEnded(Source(g)) => WaitsFor(Source(g), g)

\* What a process is in the middle of concerns Runs there are; the losers it is about to
\* settle have ended.
ProcFits(P) ==
  /\ P \in ProcStates
  /\ P.task = "losers" =>
       /\ P.fork \in DOMAIN group
       /\ P.todo \subseteq Members(P.fork) /\ P.canceled \subseteq Members(P.fork)
       /\ \A l \in P.canceled : HasEnded(l)
  /\ P.task = "cascade" =>
       /\ Len(P.frames) > 0
       /\ \A i \in 1 .. Len(P.frames) : P.frames[i].run \in Created /\ P.frames[i].kids \subseteq Created

Records ==
  /\ run \in Seq(RunRecords) /\ Len(run) \in Runs
  /\ group \in Seq(GroupRecords) /\ Len(group) <= MaxGroups
  /\ \A r \in Created : run[r].fork \in 0 .. Len(group)
  /\ \A g \in DOMAIN group : Source(g) \in Created

Waiting ==
  /\ \A r \in Created : RunWaits(r)
  /\ \A g \in DOMAIN group : GroupWaits(g)

Right ==
  /\ \A c \in Created : EdgeRight(c)
  /\ \A g \in DOMAIN group : GroupRight(g)

State == Records /\ Waiting /\ Right

Inv ==
  /\ State
  /\ proc \in [Processes -> ProcStates] /\ \A x \in Processes : ProcFits(proc[x])
  /\ spent \in [{"command", "fault"} -> Nat]

LEMMA RightIsRight == ASSUME Records PROVE Right <=> OutcomeIsRight
<1>1. \A g \in DOMAIN group : group[g].mode \in Modes /\ group[g].status \in GroupStatus
  <2>1. \A g \in DOMAIN group : group[g] \in GroupRecords
    BY DEF Records
  <2> QED
    BY <2>1 DEF GroupRecords
<1>2. ASSUME NEW g \in DOMAIN group
      PROVE  GroupRight(g) <=>
               LET ended(s) == {c \in Members(g) : run[c].status \in s} IN
               CASE group[g].status = "satisfied" /\ group[g].mode = "all" -> ended({"completed"}) = Members(g)
                 [] group[g].status = "satisfied" /\ group[g].mode = "any" -> ended({"completed"}) # {}
                 [] group[g].status = "failed" /\ group[g].mode = "all" -> ended({"failed", "canceled"}) # {}
                 [] group[g].status = "failed" /\ group[g].mode = "any" -> ended({"failed", "canceled"}) = Members(g)
                 [] group[g].status = "canceled" -> HasEnded(Source(g))
                 [] OTHER -> TRUE
  <2> DEFINE M == Members(g)
             s == group[g].status
             m == group[g].mode
             done == {c \in M : run[c].status \in {"completed"}}
             lost == {c \in M : run[c].status \in {"failed", "canceled"}}
  <2>1. m \in Modes /\ s \in GroupStatus
    BY <1>1
  <2>2. /\ (done = M) <=> \A c \in M : run[c].status = "completed"
        /\ (done # {}) <=> \E c \in M : run[c].status = "completed"
        /\ (lost # {}) <=> \E c \in M : run[c].status \in {"failed", "canceled"}
        /\ (lost = M) <=> \A c \in M : run[c].status \in {"failed", "canceled"}
    OBVIOUS
  <2>3. GroupRight(g) <=>
          /\ s = "satisfied" /\ m = "all" => done = M
          /\ s = "satisfied" /\ m = "any" => done # {}
          /\ s = "failed" /\ m = "all" => lost # {}
          /\ s = "failed" /\ m = "any" => lost = M
          /\ s = "canceled" => HasEnded(Source(g))
    BY <2>2 DEF GroupRight
  <2>4. GroupRight(g) <=>
          CASE s = "satisfied" /\ m = "all" -> done = M
            [] s = "satisfied" /\ m = "any" -> done # {}
            [] s = "failed" /\ m = "all" -> lost # {}
            [] s = "failed" /\ m = "any" -> lost = M
            [] s = "canceled" -> HasEnded(Source(g))
            [] OTHER -> TRUE
    <3> HIDE DEF done, lost, M, s, m
    <3> QED
      BY <2>1, <2>3 DEF Modes, GroupStatus, Settled
  <2> QED
    BY <2>4
<1> QED
  BY <1>2 DEF Right, EdgeRight, OutcomeIsRight

-----------------------------------------------------------------------------
(* What no step takes back: Runs keep their fork and a settled edge, an    *)
(* end is final, groups keep their source, policy and, once settled, their *)
(* status, and a source leaves its wait with its group or by cancellation. *)

Grows ==
  /\ Created \subseteq Created' /\ DOMAIN group \subseteq (DOMAIN group)'
  /\ \A r \in Created : run'[r].fork = run[r].fork
  /\ \A r \in Created' \ Created : run'[r].fork \notin DOMAIN group
  /\ \A r \in Created : HasEnded(r) => run'[r].status = run[r].status
  /\ \A r \in Created : run[r].edge # "running" => run'[r].edge = run[r].edge
  /\ \A g \in DOMAIN group : group'[g].source = group[g].source /\ group'[g].mode = group[g].mode
                               /\ group'[g].failure = group[g].failure
  /\ \A g \in DOMAIN group : group[g].status # "waiting" => group'[g].status = group[g].status
  /\ \A g \in DOMAIN group :
       WaitsFor(Source(g), g) /\ run'[Source(g)].on # g =>
         group'[g].status # "waiting" \/ run'[Source(g)].status = "canceled"

LEMMA GrowsFacts ==
  ASSUME Records, Grows
  PROVE  /\ \A g \in DOMAIN group : Members(g)' = Members(g) /\ Source(g)' = Source(g)
         /\ \A r \in Created : HasEnded(r) => HasEnded(r)' /\ Verdict(r)' = Verdict(r)
         /\ \A g \in DOMAIN group : HasEnded(Source(g)) => HasEnded(Source(g))'
<1>1. ASSUME NEW g \in DOMAIN group PROVE Members(g)' = Members(g) /\ Source(g)' = Source(g)
  <2>1. \A r \in Created' : r \in Created \/ run'[r].fork # g
    BY DEF Grows
  <2> QED
    BY <2>1 DEF Grows, Members, Source
<1>2. \A r \in Created : HasEnded(r) => HasEnded(r)' /\ Verdict(r)' = Verdict(r)
  BY DEF Grows, HasEnded, Verdict
<1> QED
  BY <1>1, <1>2 DEF Records

LEMMA ProcGrows ==
  ASSUME Records, Grows, NEW P, ProcFits(P)
  PROVE  ProcFits(P)'
<1>1. P.task = "losers" => Members(P.fork)' = Members(P.fork) /\ Members(P.fork) \subseteq Created
  BY GrowsFacts DEF ProcFits, Members
<1> QED
  BY <1>1, GrowsFacts DEF ProcFits, Grows

\* A settled group stays right as long as its status stays.
LEMMA RightGrows ==
  ASSUME Records, Grows, NEW g \in DOMAIN group, GroupRight(g), group'[g].status = group[g].status
  PROVE  GroupRight(g)'
<1>1. Members(g)' = Members(g) /\ (HasEnded(Source(g)) => HasEnded(Source(g))') /\ Members(g) \subseteq Created
      /\ group'[g].mode = group[g].mode
  BY GrowsFacts DEF Members, Grows
<1>2. \A c \in Members(g) : run[c].status \in Ended => run'[c].status = run[c].status
  BY <1>1 DEF Grows, HasEnded
<1> QED
  BY <1>1, <1>2 DEF GroupRight, Ended

-----------------------------------------------------------------------------
(* One Run changes.                                                        *)

LEMMA RunFacts ==
  ASSUME Records
  PROVE  /\ Created = 1 .. Len(run) /\ Len(run) \in Nat /\ Len(run) <= MaxRuns /\ Created \subseteq Runs
         /\ DOMAIN group = 1 .. Len(group) /\ Len(group) \in Nat
         /\ \A r \in Created : run[r] \in RunRecords
         /\ \A g \in DOMAIN group : group[g] \in GroupRecords
BY ForksAssumption DEF Records, Created, Runs

\* R is what a step that leaves the groups alone may make of Run r.
Next1(r, R) ==
  /\ R \in RunRecords /\ R.fork = run[r].fork /\ R.edge = run[r].edge /\ R.owes = run[r].owes
  /\ HasEnded(r) => R.status = run[r].status
  /\ R.status = "completed" => HasEnded(r) \/ ~R.owes
  /\ \/ R.on = 0 /\ R.status = "canceled"
     \/ R.on = run[r].on /\ (R.on # 0 => \/ R.status = "waiting_for_dependency"
                                         \/ R.status = "paused" /\ R.pausedFrom = "waiting_for_dependency")

LEMMA PutFacts ==
  ASSUME Records, NEW r \in Created, NEW R \in RunRecords, Put(r, R)
  PROVE  /\ run' \in Seq(RunRecords) /\ Len(run') = Len(run) /\ Created' = Created
         /\ \A q \in Created : run'[q] = IF q = r THEN R ELSE run[q]
<1>1. r \in 1 .. Len(run) /\ run \in Seq(RunRecords) /\ run' = [run EXCEPT ![r] = R]
  BY RunFacts DEF Put, Records
<1>2. run' \in Seq(RunRecords) /\ Len(run') = Len(run)
      /\ \A q \in 1 .. Len(run) : run'[q] = IF q = r THEN R ELSE run[q]
  BY <1>1, ExceptIsSequence
<1> QED
  BY <1>1, <1>2, RunFacts DEF Created

LEMMA PutKeeps ==
  ASSUME State, NEW r \in Created, NEW R, Next1(r, R), Put(r, R), UNCHANGED group
  PROVE  State' /\ Grows
<1>1. /\ run' \in Seq(RunRecords) /\ Len(run') = Len(run) /\ Created' = Created
      /\ \A q \in Created : run'[q] = IF q = r THEN R ELSE run[q]
  BY PutFacts DEF State, Next1
<1>2. Records /\ Waiting /\ Right /\ Next1(r, R)
  BY DEF State
<1>3. Grows
  <2>1. ASSUME NEW g \in DOMAIN group, WaitsFor(Source(g), g), run'[Source(g)].on # g
        PROVE  run'[Source(g)].status = "canceled"
    <3>1. Source(g) \in Created /\ run[Source(g)].on = g
      BY <1>2, <2>1 DEF Records, WaitsFor
    <3>2. Source(g) = r /\ R.on # run[r].on
      BY <1>1, <2>1, <3>1
    <3> QED
      BY <1>1, <1>2, <3>2 DEF Next1
  <2> QED
    BY <1>1, <1>2, <2>1 DEF Grows, Next1, HasEnded
<1>4. Records'
  BY <1>1, <1>2 DEF Records, Next1, Source
<1>5. \A q \in Created : q # r => (WaitsFor(q, run[q].on) => WaitsFor(q, run[q].on)')
  BY <1>1 DEF WaitsFor
<1>6. ASSUME NEW q \in Created PROVE RunWaits(q)'
  <2>1. RunWaits(q)
    BY <1>2 DEF Waiting
  <2>2. CASE q # r
    BY <1>1, <2>1, <2>2 DEF RunWaits, WaitsFor, Source
  <2>3. CASE q = r /\ R.on # 0
    <3>1. R.on = run[r].on /\ (R.status = "waiting_for_dependency" \/ (R.status = "paused" /\ R.pausedFrom = "waiting_for_dependency"))
      BY <1>2, <2>3 DEF Next1
    <3> QED
      BY <1>1, <2>1, <2>3, <3>1 DEF RunWaits, WaitsFor, Source
  <2>4. CASE q = r /\ R.on = 0
    BY <1>1, <2>4 DEF RunWaits
  <2> QED
    BY <2>2, <2>3, <2>4
<1>7. ASSUME NEW g \in DOMAIN group PROVE GroupWaits(g)'
  <2>1. GroupWaits(g) /\ Source(g) \in Created /\ g # 0
    BY <1>2, RunFacts DEF Waiting, Records
  <2>2. CASE Source(g) # r
    BY <1>1, <2>1, <2>2 DEF GroupWaits, WaitsFor, Source, HasEnded
  <2>3. CASE Source(g) = r
    <3>1. HasEnded(r) => HasEnded(r)'
      BY <1>1, <1>2 DEF Next1, HasEnded
    <3>2. CASE group[g].status = "waiting" /\ ~HasEnded(r)'
      <4>1. WaitsFor(r, g)
        BY <2>1, <2>3, <3>1, <3>2 DEF GroupWaits
      <4>2. ~(R.status \in Ended)
        BY <1>1, <3>2 DEF HasEnded
      <4>3. R.on = g /\ (R.status = "waiting_for_dependency" \/ (R.status = "paused" /\ R.pausedFrom = "waiting_for_dependency"))
        BY <1>2, <2>1, <4>1, <4>2 DEF Next1, WaitsFor, Ended
      <4> QED
        BY <1>1, <2>3, <4>3 DEF GroupWaits, WaitsFor, Source
    <3> QED
      BY <2>3, <3>2 DEF GroupWaits, Source
  <2> QED
    BY <2>2, <2>3
<1>8. ASSUME NEW c \in Created PROVE EdgeRight(c)'
  <2>1. EdgeRight(c) /\ run'[c].fork = run[c].fork /\ run'[c].edge = run[c].edge
    BY <1>1, <1>2 DEF Right, Next1
  <2>2. run[c].fork # 0 => run[c].fork \in DOMAIN group
    BY <1>2, RunFacts DEF Records
  <2>3. (HasEnded(c) => HasEnded(c)' /\ Verdict(c)' = Verdict(c))
        /\ \A g \in DOMAIN group : (HasEnded(Source(g)) => HasEnded(Source(g))') /\ Source(g)' = Source(g)
    BY <1>2, <1>3, GrowsFacts
  <2> QED
    BY <2>1, <2>2, <2>3 DEF EdgeRight, HasEnded
<1>9. ASSUME NEW g \in DOMAIN group PROVE GroupRight(g)'
  BY <1>2, <1>3, RightGrows DEF Right
<1> QED
  BY <1>1, <1>3, <1>4, <1>6, <1>7, <1>8, <1>9 DEF State, Waiting, Right

-----------------------------------------------------------------------------
(* A fork.                                                                 *)

\* The records after a fork: g is the new group, R the Run that waits for it.
LEMMA ForkFacts ==
  ASSUME State, NEW r \in Created, NEW n \in 1 .. MaxRuns, NEW mode \in Modes, NEW failure \in FailureModes,
         Fork(r, n, mode, failure)
  PROVE  LET g == Len(group')
         IN /\ g \in Groups /\ g # 0 /\ g \notin DOMAIN group /\ Len(group) < g /\ run[r].status = "running"
            /\ run' \in Seq(RunRecords) /\ Len(run') = Len(run) + n /\ Len(run') <= MaxRuns /\ n > 0
            /\ Created = 1 .. Len(run) /\ Created' = 1 .. (Len(run) + n) /\ Created \subseteq Created'
            /\ \A q \in Created : q # r => run'[q] = run[q]
            /\ run'[r].status = "waiting_for_dependency" /\ run'[r].on = g /\ run'[r].fork = run[r].fork
            /\ run'[r].edge = run[r].edge /\ run'[r].owes = run[r].owes
            /\ run'[r].pausedFrom = run[r].pausedFrom
            /\ \A q \in Created' \ Created :
                 /\ run'[q].fork = g /\ run'[q].on = 0 /\ run'[q].edge = "running"
                 /\ run'[q].status = "queued" /\ run'[q].owes = FALSE /\ run'[q].pausedFrom = "none"
            /\ group' \in Seq(GroupRecords) /\ g = Len(group) + 1 /\ DOMAIN group' = 1 .. g
            /\ DOMAIN group' = DOMAIN group \union {g}
            /\ group'[g].source = r /\ group'[g].status = "waiting"
            /\ \A h \in DOMAIN group : group'[h] = group[h]
<1> PICK g : g = Len(group) + 1
  OBVIOUS
<1> DEFINE R == [run[r] EXCEPT !.status = "waiting_for_dependency", !.on = g]
           N == [source |-> r, mode |-> mode, failure |-> failure, status |-> "waiting"]
           old == [run EXCEPT ![r] = R]
           new == [i \in 1 .. n |-> NewRun(r, g)]
<1>1. Records /\ Waiting /\ Right /\ run[r] \in RunRecords /\ r \in Runs /\ n \in Nat /\ n > 0
      /\ run \in Seq(RunRecords) /\ r \in 1 .. Len(run)
  BY RunFacts, ForksAssumption DEF State, Records
<1>2. g \in Groups /\ g # 0 /\ g \notin DOMAIN group /\ g \in Nat /\ Len(group) \in Nat /\ Len(group) < g
  BY <1>1, RunFacts, ForksAssumption DEF Fork, Groups
<1>3. R \in RunRecords /\ R.status = "waiting_for_dependency" /\ R.on = g /\ R.fork = run[r].fork
      /\ R.edge = run[r].edge /\ R.owes = run[r].owes /\ R.pausedFrom = run[r].pausedFrom
  BY <1>1, <1>2 DEF RunRecords, RunStatus
<1>4. /\ NewRun(r, g) \in RunRecords /\ NewRun(r, g).fork = g /\ NewRun(r, g).on = 0
      /\ NewRun(r, g).edge = "running" /\ NewRun(r, g).status = "queued"
      /\ NewRun(r, g).owes = FALSE /\ NewRun(r, g).pausedFrom = "none"
  BY <1>1, <1>2 DEF NewRun, RunRecords, RunStatus, EdgeState, Settled
<1>5. N \in GroupRecords /\ N.source = r /\ N.status = "waiting"
  BY <1>1 DEF GroupRecords, GroupStatus
<1>6. /\ group' = Append(group, N)
      /\ run' = old \o new /\ run[r].status = "running" /\ Len(run) + n <= MaxRuns /\ Len(group) < MaxGroups
  BY DEF Fork
<1>7. new \in [1 .. n -> RunRecords] /\ \A i \in 1 .. n : new[i] = NewRun(r, g)
  BY <1>4
<1> HIDE DEF R, N
<1>8. old \in Seq(RunRecords) /\ Len(old) = Len(run) /\ \A q \in 1 .. Len(run) : old[q] = IF q = r THEN R ELSE run[q]
  BY <1>1, <1>3, ExceptIsSequence
<1> HIDE DEF old, new
<1>9. /\ run' \in Seq(RunRecords) /\ Len(run') = Len(run) + n
      /\ \A q \in 1 .. Len(run) : run'[q] = IF q = r THEN R ELSE run[q]
      /\ \A i \in 1 .. n : run'[Len(run) + i] = NewRun(r, g)
  <2>1. /\ (old \o new) \in Seq(RunRecords) /\ Len(old \o new) = Len(old) + n
        /\ \A j \in 1 .. Len(old) : (old \o new)[j] = old[j]
        /\ \A j \in 1 .. n : (old \o new)[Len(old) + j] = new[j]
    BY <1>1, <1>7, <1>8, Joined
  <2> QED
    BY <1>6, <1>7, <1>8, <2>1
<1>10. /\ Created = 1 .. Len(run) /\ Created' = 1 .. (Len(run) + n) /\ Created \subseteq Created' /\ Len(run) \in Nat
       /\ \A q \in Created : run'[q] = IF q = r THEN R ELSE run[q]
       /\ \A q \in Created' \ Created : run'[q] = NewRun(r, g)
  <2>1. Created = 1 .. Len(run) /\ Created' = 1 .. Len(run') /\ Len(run) \in Nat
    BY <1>9, RunFacts, <1>1 DEF Created
  <2>2. \A q \in Created' \ Created : q - Len(run) \in 1 .. n /\ q = Len(run) + (q - Len(run))
    BY <1>1, <1>9, <2>1
  <2> QED
    BY <1>1, <1>9, <2>1, <2>2
<1>11. /\ group' \in Seq(GroupRecords) /\ Len(group') = g /\ DOMAIN group' = 1 .. g
       /\ DOMAIN group' = DOMAIN group \union {g} /\ group'[g] = N
       /\ \A h \in DOMAIN group : group'[h] = group[h]
  <2>1. group \in Seq(GroupRecords) /\ DOMAIN group = 1 .. Len(group) /\ g = Len(group) + 1
    BY <1>1, RunFacts DEF Records
  <2>2. group' \in Seq(GroupRecords) /\ Len(group') = g
    BY <1>5, <1>6, <2>1
  <2> QED
    BY <1>2, <1>5, <1>6, <2>1, <2>2
<1>12. /\ \A q \in Created : q # r => run'[q] = run[q]
       /\ run'[r].status = "waiting_for_dependency" /\ run'[r].on = g /\ run'[r].fork = run[r].fork
       /\ run'[r].edge = run[r].edge /\ run'[r].owes = run[r].owes /\ run'[r].pausedFrom = run[r].pausedFrom
  BY <1>3, <1>10
<1>13. \A q \in Created' \ Created :
         /\ run'[q].fork = g /\ run'[q].on = 0 /\ run'[q].edge = "running"
         /\ run'[q].status = "queued" /\ run'[q].owes = FALSE /\ run'[q].pausedFrom = "none"
  BY <1>4, <1>10
<1>14. group'[g].source = r /\ group'[g].status = "waiting"
  BY <1>5, <1>11
<1> HIDE DEF N, R
<1>15. Len(run') = Len(run) + n /\ Len(run') <= MaxRuns /\ run[r].status = "running"
  BY <1>6, <1>9
<1> QED
  BY <1>1, <1>2, <1>9, <1>10, <1>11, <1>12, <1>13, <1>14, <1>15

LEMMA ForkKeeps ==
  ASSUME State, NEW r \in Created, NEW n \in 1 .. MaxRuns, NEW mode \in Modes, NEW failure \in FailureModes,
         Fork(r, n, mode, failure)
  PROVE  State' /\ Grows
<1> PICK g : g = Len(group')
  OBVIOUS
<1>1. Records /\ Waiting /\ Right /\ run[r] \in RunRecords /\ r \in Runs /\ r \in 1 .. Len(run)
      /\ Len(run) \in Nat /\ Len(group) \in Nat /\ n \in Nat /\ g \in Nat
  BY RunFacts, ForksAssumption DEF State, Records
<1>2. g \in Groups /\ g # 0 /\ g \notin DOMAIN group /\ Len(group) < g /\ run[r].status = "running"
  BY ForkFacts
<1>3. /\ run'[r].status = "waiting_for_dependency" /\ run'[r].on = g /\ run'[r].fork = run[r].fork
      /\ run'[r].edge = run[r].edge
  BY ForkFacts
<1>4. \A q \in Created' \ Created : /\ run'[q].fork = g /\ run'[q].on = 0 /\ run'[q].edge = "running"
                                   /\ run'[q].status = "queued"
  BY ForkFacts
<1>5. group'[g].source = r /\ group'[g].status = "waiting"
  BY ForkFacts
<1>9. run' \in Seq(RunRecords) /\ Len(run') = Len(run) + n /\ Len(run') <= MaxRuns /\ n > 0
  BY ForkFacts
<1>10. /\ Created = 1 .. Len(run) /\ Created' = 1 .. (Len(run) + n) /\ Created \subseteq Created'
       /\ \A q \in Created : q # r => run'[q] = run[q]
  BY ForkFacts
<1>11. /\ group' \in Seq(GroupRecords) /\ g = Len(group) + 1 /\ DOMAIN group' = 1 .. g
       /\ DOMAIN group' = DOMAIN group \union {g}
       /\ \A h \in DOMAIN group : group'[h] = group[h]
  BY ForkFacts
<1>12. Grows
  <2>1. \A q \in Created' \ Created : run'[q].fork \notin DOMAIN group
    BY <1>2, <1>4, <1>10
  <2>2. \A q \in Created : run'[q].fork = run[q].fork /\ (HasEnded(q) => run'[q].status = run[q].status)
    BY <1>2, <1>3, <1>10 DEF HasEnded, Ended
  <2>3. \A q \in Created : run'[q].edge = run[q].edge
    BY <1>3, <1>10
  <2>4. ASSUME NEW h \in DOMAIN group, WaitsFor(Source(h), h) PROVE run'[Source(h)].on = h
    <3>1. Source(h) \in Created /\ Source(h) # r
      BY <1>1, <1>2, <2>4 DEF Records, WaitsFor
    <3> QED
      BY <1>10, <2>4, <3>1 DEF WaitsFor
  <2> QED
    BY <1>10, <1>11, <2>1, <2>2, <2>3, <2>4 DEF Grows
<1>13. Records'
  <2>1. Len(run') \in Runs /\ Len(group') <= MaxGroups
    BY <1>1, <1>2, <1>9, <1>11, RunFacts, ForksAssumption DEF Runs, Groups, Records
  <2>2. \A q \in Created' : run'[q].fork \in 0 .. Len(group')
    BY <1>1, <1>2, <1>3, <1>4, <1>10, <1>11 DEF Records
  <2>3. \A h \in DOMAIN group' : group'[h].source \in Created'
    BY <1>1, <1>5, <1>10, <1>11 DEF Records, Source
  <2> QED
    BY <1>9, <1>11, <2>1, <2>2, <2>3 DEF Records, Source
<1>14. ASSUME NEW q \in Created' PROVE RunWaits(q)'
  <2>1. CASE q = r
    BY <1>2, <1>3, <1>5, <1>10, <1>11, <2>1 DEF RunWaits, WaitsFor, Source
  <2>2. CASE q \in Created /\ q # r
    <3>1. RunWaits(q) /\ run'[q] = run[q]
      BY <1>1, <1>10, <2>2 DEF Waiting
    <3>2. run[q].on # 0 => run[q].on \in DOMAIN group' /\ group'[run[q].on] = group[run[q].on]
      BY <1>11, <3>1 DEF RunWaits
    <3> QED
      BY <3>1, <3>2 DEF RunWaits, WaitsFor, Source
  <2>3. CASE q \notin Created
    BY <1>4, <1>10, <2>3 DEF RunWaits
  <2> QED
    BY <2>1, <2>2, <2>3
<1>15. ASSUME NEW h \in DOMAIN group' PROVE GroupWaits(h)'
  <2>1. CASE h = g
    BY <1>1, <1>2, <1>3, <1>5, <1>10, <1>11, <2>1 DEF GroupWaits, WaitsFor, Source
  <2>2. CASE h \in DOMAIN group /\ Source(h) # r
    BY <1>1, <1>10, <1>11, <2>2 DEF Waiting, Records, GroupWaits, WaitsFor, Source, HasEnded
  <2>3. CASE h \in DOMAIN group /\ Source(h) = r
    <3>1. group[h].status # "waiting"
      BY <1>1, <1>2, <2>3 DEF Waiting, GroupWaits, WaitsFor, HasEnded, Ended
    <3> QED
      BY <1>11, <2>3, <3>1 DEF GroupWaits
  <2> QED
    BY <1>11, <2>1, <2>2, <2>3
<1>16. ASSUME NEW c \in Created' PROVE EdgeRight(c)'
  <2>1. CASE c \in Created
    <3>1. EdgeRight(c) /\ run'[c].fork = run[c].fork /\ run'[c].edge = run[c].edge
      BY <1>1, <1>3, <1>10, <2>1 DEF Right
    <3>2. run[c].fork # 0 => run[c].fork \in DOMAIN group
      BY <1>1, <2>1, RunFacts DEF Records
    <3>3. (HasEnded(c) => HasEnded(c)' /\ Verdict(c)' = Verdict(c))
          /\ \A h \in DOMAIN group : (HasEnded(Source(h)) => HasEnded(Source(h))') /\ Source(h)' = Source(h)
      BY <1>1, <1>12, <2>1, GrowsFacts
    <3> QED
      BY <3>1, <3>2, <3>3 DEF EdgeRight, HasEnded
  <2>2. CASE c \notin Created
    BY <1>4, <1>10, <2>2 DEF EdgeRight
  <2> QED
    BY <2>1, <2>2
<1>17. ASSUME NEW h \in DOMAIN group' PROVE GroupRight(h)'
  <2>1. CASE h = g
    BY <1>5, <1>11, <2>1 DEF GroupRight
  <2>2. CASE h \in DOMAIN group
    BY <1>1, <1>11, <1>12, <2>2, RightGrows DEF Right
  <2> QED
    BY <1>11, <2>1, <2>2
<1> QED
  BY <1>12, <1>13, <1>14, <1>15, <1>16, <1>17 DEF State, Waiting, Right

-----------------------------------------------------------------------------
(* A source that has ended.                                                *)

\* The records after the group of a source that has ended is retired.
LEMMA RetireFacts ==
  ASSUME Records, NEW g \in DOMAIN group, Retire(g)
  PROVE  /\ run' \in Seq(RunRecords) /\ Len(run') = Len(run) /\ Created' = Created
         /\ \A r \in Created :
              /\ run'[r].status = run[r].status /\ run'[r].on = run[r].on /\ run'[r].owes = run[r].owes
              /\ run'[r].pausedFrom = run[r].pausedFrom /\ run'[r].fork = run[r].fork
              /\ run'[r].edge = IF r \in Members(g) /\ run[r].edge = "running" THEN "canceled" ELSE run[r].edge
         /\ group' \in Seq(GroupRecords) /\ Len(group') = Len(group) /\ DOMAIN group' = DOMAIN group
         /\ \A h \in DOMAIN group :
              /\ group'[h].source = group[h].source /\ group'[h].mode = group[h].mode
              /\ group'[h].failure = group[h].failure
              /\ group'[h].status = IF h = g THEN "canceled" ELSE group[h].status
<1>1. group \in Seq(GroupRecords) /\ run \in Seq(RunRecords) /\ group[g] \in GroupRecords /\ Len(run) \in Nat
  BY RunFacts DEF Records
<1>2. /\ \A r \in Created : run'[r] = IF r \in Members(g) /\ run[r].edge = "running"
                                      THEN [run[r] EXCEPT !.edge = "canceled"] ELSE run[r]
      /\ run' = [r \in Created |-> IF r \in Members(g) /\ run[r].edge = "running"
                                   THEN [run[r] EXCEPT !.edge = "canceled"] ELSE run[r]]
  BY DEF Retire
<1>3. ASSUME NEW r \in Created
      PROVE  /\ run'[r] \in RunRecords /\ run'[r].status = run[r].status /\ run'[r].on = run[r].on
             /\ run'[r].owes = run[r].owes
             /\ run'[r].pausedFrom = run[r].pausedFrom /\ run'[r].fork = run[r].fork
             /\ run'[r].edge = IF r \in Members(g) /\ run[r].edge = "running" THEN "canceled" ELSE run[r].edge
  <2>1. run[r] \in RunRecords
    BY RunFacts
  <2>2. CASE r \in Members(g) /\ run[r].edge = "running"
    <3>1. run'[r] = [run[r] EXCEPT !.edge = "canceled"]
      BY <1>2, <2>2
    <3> QED
      BY <2>1, <2>2, <3>1 DEF RunRecords, EdgeState, Settled
  <2>3. CASE ~(r \in Members(g) /\ run[r].edge = "running")
    <3>1. run'[r] = run[r]
      BY <1>2, <2>3
    <3> QED
      BY <2>1, <2>3, <3>1
  <2> QED
    BY <2>2, <2>3
<1>4. run' \in Seq(RunRecords) /\ Len(run') = Len(run) /\ Created' = Created
  <2>1. run' \in [1 .. Len(run) -> RunRecords]
    BY <1>2, <1>3, RunFacts
  <2>2. run' \in Seq(RunRecords) /\ Len(run') = Len(run)
    BY <1>1, <2>1, FunctionIsSequence
  <2> QED
    BY <1>1, <2>2 DEF Created
<1>5. /\ group' \in Seq(GroupRecords) /\ Len(group') = Len(group) /\ DOMAIN group' = DOMAIN group
      /\ \A h \in DOMAIN group : /\ group'[h].source = group[h].source /\ group'[h].mode = group[h].mode
                                 /\ group'[h].failure = group[h].failure
                                 /\ group'[h].status = IF h = g THEN "canceled" ELSE group[h].status
  <2> DEFINE N == [group[g] EXCEPT !.status = "canceled"]
  <2>1. N \in GroupRecords /\ N.source = group[g].source /\ N.mode = group[g].mode
        /\ N.failure = group[g].failure /\ N.status = "canceled"
    BY <1>1 DEF GroupRecords, GroupStatus, Settled
  <2>2. group' = [group EXCEPT ![g] = N]
    BY DEF Retire
  <2> HIDE DEF N
  <2>3. group' \in Seq(GroupRecords) /\ Len(group') = Len(group)
        /\ \A h \in 1 .. Len(group) : group'[h] = IF h = g THEN N ELSE group[h]
    BY <1>1, <2>1, <2>2, ExceptIsSequence, RunFacts
  <2> QED
    BY <1>1, <2>1, <2>3, RunFacts
<1> QED
  BY <1>3, <1>4, <1>5

LEMMA RetireKeeps ==
  ASSUME State, NEW g \in DOMAIN group, group[g].status = "waiting", HasEnded(Source(g)), Retire(g)
  PROVE  State' /\ Grows
<1>1. Records /\ Waiting /\ Right
  BY DEF State
<1>3. \A r \in Created : /\ run'[r].status = run[r].status /\ run'[r].on = run[r].on
                         /\ run'[r].pausedFrom = run[r].pausedFrom /\ run'[r].fork = run[r].fork
                         /\ \/ run'[r].edge = run[r].edge
                            \/ run'[r].edge = "canceled" /\ r \in Members(g)
                         /\ run[r].edge # "running" => run'[r].edge = run[r].edge
  BY <1>1, RetireFacts
<1>4. run' \in Seq(RunRecords) /\ Len(run') = Len(run) /\ Created' = Created
  BY <1>1, RetireFacts
<1>5. /\ group' \in Seq(GroupRecords) /\ Len(group') = Len(group) /\ DOMAIN group' = DOMAIN group
      /\ \A h \in DOMAIN group : /\ group'[h].source = group[h].source /\ group'[h].mode = group[h].mode
                                 /\ group'[h].failure = group[h].failure
                                 /\ group'[h].status = IF h = g THEN "canceled" ELSE group[h].status
  BY <1>1, RetireFacts
<1>6. Grows
  <2>2. \A h \in DOMAIN group : Source(h) \in Created /\ (WaitsFor(Source(h), h) => run'[Source(h)].on = h)
    BY <1>1, <1>3 DEF Records, WaitsFor
  <2> QED
    BY <1>1, <1>3, <1>4, <1>5, <2>2 DEF Grows
<1>7. Records'
  BY <1>1, <1>3, <1>4, <1>5 DEF Records, Source
<1>8. ASSUME NEW r \in Created PROVE RunWaits(r)'
  <2>1. RunWaits(r)
    BY <1>1 DEF Waiting
  <2>2. run[r].on # g
    BY <2>1, RunFacts, <1>1 DEF RunWaits, WaitsFor, HasEnded, Ended
  <2> QED
    BY <1>3, <1>5, <2>1, <2>2 DEF RunWaits, WaitsFor, Source
<1>9. ASSUME NEW h \in DOMAIN group PROVE GroupWaits(h)'
  <2>1. GroupWaits(h) /\ Source(h) \in Created
    BY <1>1 DEF Waiting, Records
  <2> QED
    BY <1>3, <1>5, <2>1 DEF GroupWaits, WaitsFor, Source, HasEnded
<1>10. ASSUME NEW c \in Created PROVE EdgeRight(c)'
  <2>1. EdgeRight(c) /\ (run[c].fork # 0 => run[c].fork \in DOMAIN group)
    BY <1>1, RunFacts DEF Right, Records
  <2>2. (HasEnded(c) => HasEnded(c)' /\ Verdict(c)' = Verdict(c))
        /\ \A h \in DOMAIN group : (HasEnded(Source(h)) => HasEnded(Source(h))') /\ Source(h)' = Source(h)
    BY <1>1, <1>6, GrowsFacts
  <2>3. CASE run'[c].edge = run[c].edge
    BY <1>3, <2>1, <2>2, <2>3 DEF EdgeRight, HasEnded
  <2>4. CASE run'[c].edge = "canceled" /\ c \in Members(g)
    <3>1. run'[c].fork = g
      BY <1>3, <2>4 DEF Members
    <3>2. HasEnded(Source(g))' /\ Source(g)' = Source(g)
      BY <2>2
    <3> QED
      BY <2>4, <3>1, <3>2 DEF EdgeRight, HasEnded
  <2> QED
    BY <1>3, <2>3, <2>4
<1>11. ASSUME NEW h \in DOMAIN group PROVE GroupRight(h)'
  <2>1. CASE h = g
    <3>1. HasEnded(Source(g))' /\ group'[g].status = "canceled"
      BY <1>1, <1>5, <1>6, GrowsFacts
    <3> QED
      BY <2>1, <3>1 DEF GroupRight
  <2>2. CASE h # g
    BY <1>1, <1>5, <1>6, <2>2, RightGrows DEF Right
  <2> QED
    BY <2>1, <2>2
<1> QED
  BY <1>4, <1>5, <1>6, <1>7, <1>8, <1>9, <1>10, <1>11 DEF State, Waiting, Right

-----------------------------------------------------------------------------
(* A group is settled as far as the ends of the children in C settle it.   *)

\* What Evaluate says when it leaves the wait.
LEMMA Verdicts ==
  ASSUME Records, NEW g \in DOMAIN group, group[g].status = "waiting", NEW R,
         \A c \in Members(g) : R[c].edge \in EdgeState
  PROVE  LET s == Evaluate(g, R)
             m == group[g].mode
         IN /\ s \in {"waiting", "satisfied", "failed"}
            /\ s = "satisfied" /\ m = "all" => \A c \in Members(g) : R[c].edge = "satisfied"
            /\ s = "satisfied" /\ m = "any" => \E c \in Members(g) : R[c].edge = "satisfied"
            /\ s = "failed" /\ m = "all" => \E c \in Members(g) : R[c].edge \in {"failed", "canceled"}
            /\ s = "failed" /\ m = "any" => \A c \in Members(g) : R[c].edge \in {"failed", "canceled"}
            /\ s = "failed" /\ m = "all" /\ group[g].failure = "wait" => \A c \in Members(g) : R[c].edge # "running"
<1> DEFINE M == Members(g)
           open == \E c \in M : R[c].edge = "running"
           failure == \E c \in M : R[c].edge \in {"failed", "canceled"}
           won == \E c \in M : R[c].edge = "satisfied"
           s == Evaluate(g, R)
           m == group[g].mode
<1>1. m \in Modes
  BY RunFacts DEF GroupRecords
<1>2. s = IF m = "all"
          THEN IF ~open /\ ~failure THEN "satisfied"
               ELSE IF failure /\ (group[g].failure = "fail_fast" \/ ~open) THEN "failed" ELSE "waiting"
          ELSE IF won THEN "satisfied" ELSE IF ~open THEN "failed" ELSE "waiting"
  BY DEF Evaluate
<1>3. ~open /\ ~failure => \A c \in M : R[c].edge = "satisfied"
  BY DEF EdgeState, Settled
<1>4. ~open /\ ~won => \A c \in M : R[c].edge \in {"failed", "canceled"}
  BY DEF EdgeState, Settled
<1>5. failure <=> \E c \in M : R[c].edge \in {"failed", "canceled"}
  OBVIOUS
<1>6. won <=> \E c \in M : R[c].edge = "satisfied"
  OBVIOUS
<1>9. ~open <=> \A c \in M : R[c].edge # "running"
  OBVIOUS
<1> HIDE DEF M, open, failure, won, s, m
<1>7. /\ s \in {"waiting", "satisfied", "failed"}
      /\ s = "satisfied" /\ m = "all" => ~open /\ ~failure
      /\ s = "satisfied" /\ m = "any" => won
      /\ s = "failed" /\ m = "all" => failure
      /\ s = "failed" /\ m = "any" => ~open /\ ~won
      /\ s = "failed" /\ m = "all" /\ group[g].failure = "wait" => ~open
  BY <1>1, <1>2 DEF Modes
<1>8. /\ s \in {"waiting", "satisfied", "failed"}
      /\ s = "satisfied" /\ m = "all" => \A c \in M : R[c].edge = "satisfied"
      /\ s = "satisfied" /\ m = "any" => \E c \in M : R[c].edge = "satisfied"
      /\ s = "failed" /\ m = "all" => \E c \in M : R[c].edge \in {"failed", "canceled"}
      /\ s = "failed" /\ m = "any" => \A c \in M : R[c].edge \in {"failed", "canceled"}
      /\ s = "failed" /\ m = "all" /\ group[g].failure = "wait" => \A c \in M : R[c].edge # "running"
  BY <1>3, <1>4, <1>5, <1>6, <1>7, <1>9
<1> QED
  BY <1>8 DEF M, s, m

\* The records after the edges of C are written.
LEMMA WrittenFacts ==
  ASSUME Records, NEW g \in DOMAIN group, NEW C, C \subseteq Members(g), \A c \in C : HasEnded(c)
  PROVE  /\ Written(C) \in [Created -> RunRecords]
         /\ \A r \in Created :
              /\ Written(C)[r].status = run[r].status /\ Written(C)[r].on = run[r].on
              /\ Written(C)[r].pausedFrom = run[r].pausedFrom /\ Written(C)[r].fork = run[r].fork
              /\ Written(C)[r].owes = run[r].owes
              /\ Written(C)[r].edge = IF r \in C THEN Verdict(r) ELSE run[r].edge
<1>1. \A r \in Created : run[r] \in RunRecords
  BY RunFacts
<1>2. C \subseteq Created /\ \A c \in C : Verdict(c) \in EdgeState
  BY DEF Members, HasEnded, Ended, Verdict, EdgeState, Settled
<1>3. \A r \in Created : Written(C)[r] = IF r \in C THEN [run[r] EXCEPT !.edge = Verdict(r)] ELSE run[r]
  BY DEF Written
<1>4. ASSUME NEW r \in Created
      PROVE  /\ Written(C)[r] \in RunRecords
             /\ Written(C)[r].status = run[r].status /\ Written(C)[r].on = run[r].on
             /\ Written(C)[r].pausedFrom = run[r].pausedFrom /\ Written(C)[r].fork = run[r].fork
             /\ Written(C)[r].owes = run[r].owes
             /\ Written(C)[r].edge = IF r \in C THEN Verdict(r) ELSE run[r].edge
  <2>1. CASE r \in C
    <3>1. Written(C)[r] = [run[r] EXCEPT !.edge = Verdict(r)] /\ run[r] \in RunRecords /\ Verdict(r) \in EdgeState
      BY <1>1, <1>2, <1>3, <2>1
    <3> QED
      BY <2>1, <3>1 DEF RunRecords
  <2>2. CASE r \notin C
    BY <1>1, <1>3, <2>2
  <2> QED
    BY <2>1, <2>2
<1> QED
  BY <1>4 DEF Written

LEMMA WokenFacts ==
  ASSUME NEW R \in RunRecords, NEW s
  PROVE  /\ Woken(R, s) \in RunRecords /\ Woken(R, s).on = 0 /\ Woken(R, s).fork = R.fork
         /\ Woken(R, s).edge = R.edge /\ (R.status # "paused" => Woken(R, s).status = "queued")
         /\ (R.status # "paused" => Woken(R, s).pausedFrom = R.pausedFrom)
         /\ (R.status = "paused" => Woken(R, s).status = "paused" /\ Woken(R, s).pausedFrom = "queued")
         /\ Woken(R, s).owes = (R.owes \/ s = "failed")
<1> DEFINE W == [R EXCEPT !.on = 0, !.owes = @ \/ s = "failed"]
<1>1. (R.owes \/ s = "failed") \in BOOLEAN
  BY DEF RunRecords
<1>2. W \in RunRecords /\ W.on = 0 /\ W.fork = R.fork /\ W.edge = R.edge /\ W.status = R.status
      /\ W.owes = (R.owes \/ s = "failed") /\ W.pausedFrom = R.pausedFrom
  BY <1>1 DEF RunRecords
<1>3. Woken(R, s) = IF R.status = "paused" THEN [W EXCEPT !.pausedFrom = "queued"] ELSE [W EXCEPT !.status = "queued"]
  BY DEF Woken
<1> HIDE DEF W
<1> QED
  BY <1>2, <1>3 DEF RunRecords, RunStatus

\* What the wake-up of a source makes of its status.
Wakes(R, Q) ==
  IF R.status = "paused" THEN Q.status = "paused" /\ Q.pausedFrom = "queued"
                         ELSE Q.status = "queued" /\ Q.pausedFrom = R.pausedFrom

\* The records after Settle: edges of C, the status of the group, and its source.
LEMMA SettleFacts ==
  ASSUME Records, NEW g \in DOMAIN group, NEW C, C \subseteq Members(g), \A c \in C : HasEnded(c), Settle(g, C)
  PROVE  LET s == Evaluate(g, Written(C))
             wakes == group[g].status = "waiting" /\ s # "waiting"
         IN /\ run' \in Seq(RunRecords) /\ Len(run') = Len(run) /\ Created' = Created
            /\ \A r \in Created :
                 /\ run'[r].fork = run[r].fork
                 /\ run'[r].edge = IF r \in C THEN Verdict(r) ELSE run[r].edge
                 /\ run'[r].edge = Written(C)[r].edge
                 /\ ~(wakes /\ r = Source(g)) => run'[r].status = run[r].status /\ run'[r].on = run[r].on
                                                 /\ run'[r].pausedFrom = run[r].pausedFrom
                                                 /\ run'[r].owes = run[r].owes
                 /\ wakes /\ r = Source(g) => run'[r].on = 0 /\ run'[r].status \in {"queued", "paused"}
                                              /\ run'[r].owes = (run[r].owes \/ s = "failed")
                                              /\ Wakes(run[r], run'[r])
            /\ group' \in Seq(GroupRecords) /\ Len(group') = Len(group) /\ DOMAIN group' = DOMAIN group
            /\ \A h \in DOMAIN group :
                 /\ group'[h].source = group[h].source /\ group'[h].mode = group[h].mode
                 /\ group'[h].failure = group[h].failure
                 /\ group'[h].status = IF h = g THEN s ELSE group[h].status
<1> DEFINE R == Written(C)
           s == Evaluate(g, R)
           wakes == group[g].status = "waiting" /\ s # "waiting"
           S == Source(g)
           W == Woken(R[S], s)
<1>1. R \in [Created -> RunRecords] /\ S \in Created /\ group \in Seq(GroupRecords) /\ group[g] \in GroupRecords
      /\ Len(run) \in Nat /\ Created = 1 .. Len(run) /\ DOMAIN group = 1 .. Len(group)
  BY WrittenFacts, RunFacts DEF Records
<1>2. \A r \in Created : /\ R[r].status = run[r].status /\ R[r].on = run[r].on
                         /\ R[r].pausedFrom = run[r].pausedFrom /\ R[r].fork = run[r].fork
                         /\ R[r].owes = run[r].owes
                         /\ R[r].edge = IF r \in C THEN Verdict(r) ELSE run[r].edge
  BY WrittenFacts
<1>3. run' = IF wakes THEN [R EXCEPT ![S] = W] ELSE R
  BY DEF Settle
<1>4. group' = [group EXCEPT ![g].status = s]
  BY DEF Settle
<1>5. s \in GroupStatus
  <2>1. group[g].status \in GroupStatus
    BY <1>1 DEF GroupRecords
  <2>2. \A c \in Members(g) : R[c].edge \in EdgeState
    BY <1>1 DEF Members, RunRecords
  <2>3. group[g].status = "waiting" => s \in {"waiting", "satisfied", "failed"}
    <3> HIDE DEF R
    <3> QED
      BY <2>2, Verdicts
  <2>4. group[g].status # "waiting" => s = group[g].status
    BY DEF Evaluate
  <2> QED
    BY <2>1, <2>3, <2>4 DEF GroupStatus, Settled
<1> HIDE DEF R, s
<1>6. /\ W \in RunRecords /\ W.on = 0 /\ W.fork = R[S].fork /\ W.edge = R[S].edge /\ W.status \in {"queued", "paused"}
      /\ W.owes = (R[S].owes \/ s = "failed") /\ Wakes(R[S], W)
  BY <1>1, WokenFacts DEF Wakes
<1> HIDE DEF W, S
<1>7. run' \in [Created -> RunRecords] /\ \A r \in Created : run'[r] = IF wakes /\ r = S THEN W ELSE R[r]
  BY <1>1, <1>3, <1>6
<1>8. run' \in Seq(RunRecords) /\ Len(run') = Len(run) /\ Created' = Created
  <2>1. run' \in Seq(RunRecords) /\ Len(run') = Len(run)
    BY <1>1, <1>7, FunctionIsSequence
  <2> QED
    BY <1>1, <2>1 DEF Created
<1>9. \A r \in Created :
        /\ run'[r].fork = run[r].fork
        /\ run'[r].edge = IF r \in C THEN Verdict(r) ELSE run[r].edge
        /\ run'[r].edge = R[r].edge
        /\ ~(wakes /\ r = S) => run'[r].status = run[r].status /\ run'[r].on = run[r].on
                                /\ run'[r].pausedFrom = run[r].pausedFrom
                                /\ run'[r].owes = run[r].owes
        /\ wakes /\ r = S => run'[r].on = 0 /\ run'[r].status \in {"queued", "paused"}
                             /\ run'[r].owes = (run[r].owes \/ s = "failed")
                             /\ Wakes(run[r], run'[r])
  <2>1. Wakes(run[S], W)
    BY <1>1, <1>2, <1>6 DEF Wakes
  <2> HIDE DEF wakes
  <2> QED
    BY <1>1, <1>2, <1>6, <1>7, <2>1
<1>10. /\ group' \in Seq(GroupRecords) /\ Len(group') = Len(group) /\ DOMAIN group' = DOMAIN group
       /\ \A h \in DOMAIN group :
            /\ group'[h].source = group[h].source /\ group'[h].mode = group[h].mode
            /\ group'[h].failure = group[h].failure
            /\ group'[h].status = IF h = g THEN s ELSE group[h].status
  <2> DEFINE N == [group[g] EXCEPT !.status = s]
  <2>1. N \in GroupRecords /\ N.source = group[g].source /\ N.mode = group[g].mode
        /\ N.failure = group[g].failure /\ N.status = s
    BY <1>1, <1>5 DEF GroupRecords
  <2>2. group' = [group EXCEPT ![g] = N]
    BY <1>4
  <2> HIDE DEF N
  <2>3. group' \in Seq(GroupRecords) /\ Len(group') = Len(group)
        /\ \A h \in 1 .. Len(group) : group'[h] = IF h = g THEN N ELSE group[h]
    BY <1>1, <2>1, <2>2, ExceptIsSequence
  <2> QED
    BY <1>1, <2>1, <2>3
<1> QED
  BY <1>8, <1>9, <1>10 DEF R, s, S

LEMMA SettleKeeps ==
  ASSUME State, NEW g \in DOMAIN group, NEW C, C \subseteq Members(g),
         \A c \in C : HasEnded(c) /\ run[c].edge = "running",
         group[g].status = "waiting" => WaitsFor(Source(g), g),
         Settle(g, C)
  PROVE  State' /\ Grows
<1> DEFINE R == Written(C)
           s == Evaluate(g, R)
           wakes == group[g].status = "waiting" /\ s # "waiting"
           S == Source(g)
<1>1. Records /\ Waiting /\ Right /\ C \subseteq Created /\ Members(g) \subseteq Created /\ S \in Created /\ g # 0
  BY RunFacts DEF State, Members, Records
<1>2. /\ run' \in Seq(RunRecords) /\ Len(run') = Len(run) /\ Created' = Created
      /\ \A r \in Created :
           /\ run'[r].fork = run[r].fork
           /\ run'[r].edge = IF r \in C THEN Verdict(r) ELSE run[r].edge
           /\ run'[r].edge = R[r].edge
           /\ ~(wakes /\ r = S) => run'[r].status = run[r].status /\ run'[r].on = run[r].on
                                   /\ run'[r].pausedFrom = run[r].pausedFrom
           /\ wakes /\ r = S => run'[r].on = 0 /\ run'[r].status \in {"queued", "paused"}
  BY <1>1, SettleFacts
<1>3. /\ group' \in Seq(GroupRecords) /\ Len(group') = Len(group) /\ DOMAIN group' = DOMAIN group
      /\ \A h \in DOMAIN group :
           /\ group'[h].source = group[h].source /\ group'[h].mode = group[h].mode
           /\ group'[h].failure = group[h].failure
           /\ group'[h].status = IF h = g THEN s ELSE group[h].status
  BY <1>1, SettleFacts
<1>4. wakes => WaitsFor(S, g) /\ ~HasEnded(S)
  BY DEF WaitsFor, HasEnded, Ended
<1>5. group[g].status # "waiting" => s = group[g].status
  BY DEF Evaluate
<1>6. group[g].status = "waiting" =>
        LET m == group[g].mode
        IN /\ s \in {"waiting", "satisfied", "failed"}
           /\ s = "satisfied" /\ m = "all" => \A c \in Members(g) : run'[c].edge = "satisfied"
           /\ s = "satisfied" /\ m = "any" => \E c \in Members(g) : run'[c].edge = "satisfied"
           /\ s = "failed" /\ m = "all" => \E c \in Members(g) : run'[c].edge \in {"failed", "canceled"}
           /\ s = "failed" /\ m = "any" => \A c \in Members(g) : run'[c].edge \in {"failed", "canceled"}
  <2>1. \A c \in Members(g) : R[c].edge \in EdgeState /\ run'[c].edge = R[c].edge
    <3>1. \A c \in Members(g) : R[c] \in RunRecords
      BY <1>1, WrittenFacts
    <3> QED
      BY <1>1, <1>2, <3>1 DEF RunRecords
  <2> HIDE DEF R
  <2>2. group[g].status = "waiting" =>
        LET m == group[g].mode
        IN /\ s \in {"waiting", "satisfied", "failed"}
           /\ s = "satisfied" /\ m = "all" => \A c \in Members(g) : R[c].edge = "satisfied"
           /\ s = "satisfied" /\ m = "any" => \E c \in Members(g) : R[c].edge = "satisfied"
           /\ s = "failed" /\ m = "all" => \E c \in Members(g) : R[c].edge \in {"failed", "canceled"}
           /\ s = "failed" /\ m = "any" => \A c \in Members(g) : R[c].edge \in {"failed", "canceled"}
    BY <1>1, <2>1, Verdicts
  <2> HIDE DEF s
  <2> QED
    BY <2>1, <2>2
<1>e. \A c \in Members(g) : EdgeRight(c) /\ run[c].fork = g
  BY <1>1 DEF Right, Members
<1> HIDE DEF R, s
<1>7. Grows
  <2>1. \A r \in Created : run[r].edge # "running" => run'[r].edge = run[r].edge
    BY <1>2
  <2>2. ASSUME NEW h \in DOMAIN group, WaitsFor(Source(h), h), run'[Source(h)].on # h
        PROVE  group'[h].status # "waiting"
    <3>1. Source(h) \in Created /\ run[Source(h)].on = h
      BY <1>1, <2>2 DEF Records, WaitsFor
    <3>2. wakes /\ Source(h) = S
      BY <1>2, <2>2, <3>1
    <3>3. h = g
      BY <1>4, <3>1, <3>2 DEF WaitsFor
    <3> QED
      BY <1>3, <3>2, <3>3
  <2> QED
    BY <1>2, <1>3, <1>4, <1>5, <2>1, <2>2 DEF Grows
<1>8. Records'
  BY <1>1, <1>2, <1>3 DEF Records, Source
<1>9. ASSUME NEW r \in Created PROVE RunWaits(r)'
  <2>1. RunWaits(r)
    BY <1>1 DEF Waiting
  <2>2. CASE wakes /\ r = S
    BY <1>2, <2>2 DEF RunWaits
  <2>3. CASE ~(wakes /\ r = S)
    <3>1. run'[r].on = run[r].on /\ run'[r].status = run[r].status /\ run'[r].pausedFrom = run[r].pausedFrom
      BY <1>2, <2>3
    <3>2. CASE run[r].on = g
      <4>1. r = S /\ group[g].status = "waiting"
        BY <1>1, <2>1, <3>2 DEF RunWaits
      <4>2. group'[g].status = "waiting"
        BY <1>3, <2>3, <4>1
      <4> QED
        BY <1>3, <2>1, <3>1, <3>2, <4>2 DEF RunWaits, WaitsFor, Source
    <3>3. CASE run[r].on # g
      BY <1>3, <2>1, <3>1, <3>3 DEF RunWaits, WaitsFor, Source
    <3> QED
      BY <3>2, <3>3
  <2> QED
    BY <2>2, <2>3
<1>10. ASSUME NEW h \in DOMAIN group PROVE GroupWaits(h)'
  <2>1. GroupWaits(h) /\ Source(h) \in Created /\ h # 0
    BY <1>1, RunFacts DEF Waiting, Records
  <2>2. CASE wakes /\ Source(h) = S
    <3>1. CASE h = g
      <4>1. group'[h].status # "waiting"
        BY <1>3, <2>2, <3>1
      <4> QED
        BY <4>1 DEF GroupWaits
    <3>2. CASE h # g
      <4>1. group[h].status # "waiting"
        BY <1>4, <2>1, <2>2, <3>2 DEF GroupWaits, WaitsFor
      <4> QED
        BY <1>3, <3>2, <4>1 DEF GroupWaits
    <3> QED
      BY <3>1, <3>2
  <2>3. CASE ~(wakes /\ Source(h) = S)
    <3>1. /\ run'[Source(h)].on = run[Source(h)].on /\ run'[Source(h)].status = run[Source(h)].status
          /\ run'[Source(h)].pausedFrom = run[Source(h)].pausedFrom
      BY <1>2, <2>1, <2>3
    <3>2. group'[h].status = "waiting" => group[h].status = "waiting"
      BY <1>3, <1>5
    <3>3. group'[h].source = Source(h)
      BY <1>3 DEF Source
    <3> QED
      BY <2>1, <3>1, <3>2, <3>3 DEF GroupWaits, WaitsFor, Source, HasEnded
  <2> QED
    BY <2>2, <2>3
<1>11. ASSUME NEW c \in Created PROVE EdgeRight(c)'
  <2>1. EdgeRight(c) /\ (run[c].fork # 0 => run[c].fork \in DOMAIN group)
    BY <1>1, RunFacts DEF Right, Records
  <2>2. (HasEnded(c) => HasEnded(c)' /\ Verdict(c)' = Verdict(c))
        /\ \A h \in DOMAIN group : (HasEnded(Source(h)) => HasEnded(Source(h))') /\ Source(h)' = Source(h)
    BY <1>1, <1>7, GrowsFacts
  <2>3. CASE c \in C
    BY <1>2, <2>2, <2>3 DEF EdgeRight, HasEnded
  <2>4. CASE c \notin C
    <3>1. run'[c].edge = run[c].edge /\ run'[c].fork = run[c].fork
      BY <1>2, <2>4
    <3> QED
      BY <2>1, <2>2, <3>1 DEF EdgeRight, HasEnded
  <2> QED
    BY <2>3, <2>4
<1>12. group[g].status = "waiting" =>
         \A c \in Members(g) : run'[c].edge # "running" => HasEnded(c)' /\ run'[c].edge = Verdict(c)'
  <2> SUFFICES ASSUME group[g].status = "waiting", NEW c \in Members(g), run'[c].edge # "running"
               PROVE  HasEnded(c)' /\ run'[c].edge = Verdict(c)'
    OBVIOUS
  <2>1. ~HasEnded(S)
    BY DEF WaitsFor, HasEnded, Ended
  <2>2. c \in Created
    BY <1>1
  <2>3. HasEnded(c) => HasEnded(c)' /\ Verdict(c)' = Verdict(c)
    BY <1>1, <1>7, <2>2, GrowsFacts
  <2>4. HasEnded(c) /\ run'[c].edge = Verdict(c)
    <3>1. CASE c \in C
      BY <1>2, <2>2, <3>1
    <3>2. CASE c \notin C
      <4>1. run'[c].edge = run[c].edge
        BY <1>2, <2>2, <3>2
      <4> QED
        BY <1>e, <1>1, <2>1, <4>1 DEF EdgeRight
    <3> QED
      BY <3>1, <3>2
  <2> QED
    BY <2>3, <2>4
<1>13. ASSUME NEW h \in DOMAIN group PROVE GroupRight(h)'
  <2>1. CASE h # g \/ group[g].status # "waiting"
    <3>1. group'[h].status = group[h].status
      BY <1>3, <1>5, <2>1
    <3> QED
      BY <1>1, <1>7, <3>1, RightGrows DEF Right
  <2>2. CASE h = g /\ group[g].status = "waiting"
    <3>1. Members(g)' = Members(g) /\ group'[g].mode = group[g].mode /\ group'[g].status = s
      BY <1>1, <1>3, <1>7, GrowsFacts
    <3>2. \A c \in Members(g) : run'[c].edge # "running" => run'[c].status \in Ended
            /\ run'[c].edge = IF run'[c].status = "completed" THEN "satisfied" ELSE run'[c].status
      BY <1>12, <2>2 DEF HasEnded, Verdict
    <3>3. /\ \A c \in Members(g) : run'[c].edge = "satisfied" => run'[c].status = "completed"
          /\ \A c \in Members(g) : run'[c].edge \in {"failed", "canceled"} => run'[c].status \in {"failed", "canceled"}
      BY <3>2 DEF Ended
    <3> QED
      BY <1>6, <2>2, <3>1, <3>3 DEF GroupRight
  <2> QED
    BY <2>1, <2>2
<1> QED
  BY <1>2, <1>3, <1>7, <1>8, <1>9, <1>10, <1>11, <1>13 DEF State, Waiting, Right

-----------------------------------------------------------------------------
(* The steps, as far as they concern the records.                          *)

LEMMA NothingKeeps == ASSUME State, UNCHANGED <<run, group>> PROVE State' /\ Grows
<1>1. State'
  BY DEF State, Records, Waiting, Right, RunWaits, GroupWaits, EdgeRight, GroupRight, Created, Members, WaitsFor,
     HasEnded, Source, Verdict
<1>2. Grows
  BY DEF Grows, Created, WaitsFor
<1> QED
  BY <1>1, <1>2

LEMMA ResolveKeeps ==
  ASSUME State, NEW c \in Created, run[c].fork # 0, HasEnded(c), Resolve(c)
  PROVE  State' /\ Grows
<1> DEFINE g == run[c].fork
<1>1. g \in DOMAIN group /\ c \in Members(g)
  BY RunFacts DEF State, Records, Members
<1>2. CASE group[g].status = "waiting" /\ HasEnded(Source(g))
  BY <1>1, <1>2, RetireKeeps DEF Resolve
<1>3. CASE ~(group[g].status = "waiting" /\ HasEnded(Source(g))) /\
           (run[c].edge # "running" \/ (group[g].status = "waiting" /\ ~WaitsFor(Source(g), g)))
  <2>1. UNCHANGED <<run, group>>
    BY <1>3 DEF Resolve
  <2> QED
    BY <2>1, NothingKeeps
<1>4. CASE ~(group[g].status = "waiting" /\ HasEnded(Source(g))) /\
           ~(run[c].edge # "running" \/ (group[g].status = "waiting" /\ ~WaitsFor(Source(g), g)))
  <2>1. Settle(g, {c})
    BY <1>4 DEF Resolve
  <2> QED
    BY <1>1, <1>4, <2>1, SettleKeeps
<1> QED
  BY <1>2, <1>3, <1>4

\* A Run forks, or changes alone.
LEMMA TurnIs ==
  ASSUME State, NEW r \in Created, Turn(r) \/ Operate(r)
  PROVE  \/ \E n \in 1 .. MaxRuns, m \in Modes, f \in FailureModes : Fork(r, n, m, f)
         \/ UNCHANGED group /\ \E R : Next1(r, R) /\ Put(r, R)
<1>1. run[r] \in RunRecords /\ RunWaits(r)
  BY RunFacts DEF State, Waiting
<1>2. run[r].status \notin {"waiting_for_dependency", "paused"} => run[r].on = 0
  BY <1>1 DEF RunWaits, WaitsFor
<1>3. CASE Start(r)
  <2> DEFINE R == [run[r] EXCEPT !.status = "running"]
  <2>1. Next1(r, R)
    BY <1>1, <1>2, <1>3 DEF Start, Next1, RunRecords, RunStatus, HasEnded, Ended
  <2> QED
    BY <1>3, <2>1, Zenon DEF Start
<1>4. CASE Finish(r)
  <2>1. PICK s \in {"completed", "failed"}, m \in {run[r].marked, run[r].marked /\ KeepsMarker} :
          (s = "completed" => ~run[r].owes) /\ Put(r, [run[r] EXCEPT !.status = s, !.marked = m])
    BY <1>4 DEF Finish
  <2> DEFINE R == [run[r] EXCEPT !.status = s, !.marked = m]
  <2>2. m \in BOOLEAN
    BY <1>1, ForksAssumption DEF RunRecords
  <2>3. Next1(r, R)
    BY <1>1, <1>2, <1>4, <2>1, <2>2 DEF Finish, Next1, RunRecords, RunStatus, HasEnded, Ended
  <2> QED
    BY <1>4, <2>1, <2>3, Zenon DEF Finish
<1>5. CASE \E n \in 1 .. MaxRuns, m \in Modes, f \in FailureModes : Fork(r, n, m, f)
  BY <1>5
<1>6. CASE Pause(r)
  <2> DEFINE R == [run[r] EXCEPT !.status = "paused", !.pausedFrom = run[r].status]
  <2>1. Next1(r, R)
    BY <1>1, <1>2, <1>6 DEF Pause, Next1, RunRecords, RunStatus, HasEnded
  <2> QED
    BY <1>6, <2>1, Zenon DEF Pause
<1>7. CASE Resume(r)
  <2> DEFINE s == IF run[r].on # 0 THEN run[r].pausedFrom ELSE "queued"
             R == [run[r] EXCEPT !.pausedFrom = "none", !.status = s]
  <2>1. run[r].status = "paused" /\ (run[r].on # 0 => run[r].pausedFrom = "waiting_for_dependency")
    BY <1>1, <1>7 DEF Resume, RunWaits, WaitsFor
  <2>2. s \in {"waiting_for_dependency", "queued"} /\ (run[r].on # 0 => s = "waiting_for_dependency")
    BY <2>1
  <2>3. Put(r, R) /\ UNCHANGED group
    BY <1>7 DEF Resume
  <2> HIDE DEF s
  <2>4. Next1(r, R)
    BY <1>1, <2>1, <2>2 DEF Next1, RunRecords, RunStatus, HasEnded, Ended
  <2> QED
    BY <2>3, <2>4
<1>8. CASE Cancel(r)
  <2>1. Next1(r, Canceled(run[r]))
    BY <1>1, <1>8 DEF Cancel, Next1, Canceled, RunRecords, RunStatus, HasEnded, Ended
  <2> QED
    BY <1>8, <2>1, Zenon DEF Cancel
<1> QED
  BY <1>3, <1>4, <1>5, <1>6, <1>7, <1>8 DEF Turn, Operate

LEMMA TurnKeeps ==
  ASSUME State, NEW r \in Created, Turn(r) \/ Operate(r)
  PROVE  State' /\ Grows
BY TurnIs, ForkKeeps, PutKeeps

\* A Run that has not ended is canceled.
LEMMA CancelKeeps ==
  ASSUME State, NEW r \in Created, UNCHANGED group,
         run' = IF HasEnded(r) THEN run ELSE [run EXCEPT ![r] = Canceled(@)]
  PROVE  State' /\ Grows /\ HasEnded(r)'
<1>1. run[r] \in RunRecords /\ run \in Seq(RunRecords) /\ r \in 1 .. Len(run)
  BY RunFacts DEF State, Records
<1>2. CASE HasEnded(r)
  BY <1>2, NothingKeeps DEF HasEnded
<1>3. CASE ~HasEnded(r)
  <2>1. Next1(r, Canceled(run[r])) /\ Put(r, Canceled(run[r])) /\ Canceled(run[r]).status = "canceled"
    BY <1>1, <1>3 DEF Next1, Canceled, RunRecords, RunStatus, Ended, Put
  <2>2. run'[r].status = "canceled"
    BY <1>1, <2>1 DEF Put
  <2> QED
    BY <2>1, <2>2, PutKeeps DEF HasEnded, Ended
<1> QED
  BY <1>2, <1>3

\* Whatever a process does next, the others are where they were.
LEMMA InvKeeps ==
  ASSUME Inv, State', Grows, spent' \in [{"command", "fault"} -> Nat],
         \/ UNCHANGED proc
         \/ \E x \in Processes : \E P : Become(x, P) /\ ProcFits(P)'
  PROVE  Inv' /\ Grows
<1>1. Records /\ proc \in [Processes -> ProcStates] /\ \A x \in Processes : ProcFits(proc[x])
  BY DEF Inv, State
<1>2. ASSUME NEW Q, ProcFits(Q) PROVE ProcFits(Q)'
  BY <1>1, <1>2, ProcGrows
<1>3. ASSUME NEW y \in Processes, NEW Q, proc'[y] = Q, ProcFits(Q)' PROVE ProcFits(proc[y])'
  BY <1>3 DEF ProcFits
<1>4. CASE UNCHANGED proc
  <2>1. ASSUME NEW y \in Processes PROVE ProcFits(proc[y])'
    <3>1. PICK Q : Q = proc[y]
      OBVIOUS
    <3> QED
      BY <1>1, <1>2, <1>3, <1>4, <3>1
  <2> QED
    BY <1>1, <1>4, <2>1 DEF Inv
<1>5. ASSUME NEW x \in Processes, NEW P, Become(x, P), ProcFits(P)' PROVE Inv' /\ Grows
  <2>1. P \in ProcStates
    BY <1>5 DEF ProcFits
  <2>2. proc' \in [Processes -> ProcStates] /\ \A y \in Processes : proc'[y] = IF y = x THEN P ELSE proc[y]
    BY <1>1, <1>5, <2>1 DEF Become
  <2>3. ASSUME NEW y \in Processes PROVE ProcFits(proc[y])'
    <3>1. PICK Q : Q = proc[y]
      OBVIOUS
    <3> QED
      BY <1>1, <1>2, <1>3, <1>5, <2>2, <3>1
  <2> QED
    BY <2>2, <2>3 DEF Inv
<1> QED
  BY <1>4, <1>5

-----------------------------------------------------------------------------
(* The steps of processes.                                                 *)

LEMMA ProcFacts ==
  ASSUME Inv, NEW x \in Processes
  PROVE  /\ ProcFits(proc[x]) /\ State /\ Created \subseteq Runs /\ DOMAIN group \subseteq Groups
         /\ proc[x].task = "losers" =>
              /\ proc[x] \in [task : {"losers"}, fork : Groups, todo : SUBSET Runs, canceled : SUBSET Runs]
              /\ proc[x].fork \in DOMAIN group
              /\ proc[x].todo \subseteq Members(proc[x].fork) /\ proc[x].canceled \subseteq Members(proc[x].fork)
              /\ \A l \in proc[x].canceled : HasEnded(l)
         /\ proc[x].task = "cascade" =>
              /\ proc[x] \in [task : {"cascade"}, frames : Seq(Frames)]
              /\ Len(proc[x].frames) > 0
              /\ \A i \in 1 .. Len(proc[x].frames) :
                   proc[x].frames[i].run \in Created /\ proc[x].frames[i].kids \subseteq Created
<1>1. ProcFits(proc[x]) /\ State /\ Records
  BY DEF Inv, State
<1>2. DOMAIN group \subseteq Groups
  BY <1>1, RunFacts, ForksAssumption DEF Records, Groups
<1>3. proc[x] \in ProcStates
  BY <1>1 DEF ProcFits
<1>4. proc[x].task = "losers" => proc[x] \in [task : {"losers"}, fork : Groups, todo : SUBSET Runs, canceled : SUBSET Runs]
  BY <1>3 DEF ProcStates
<1>5. proc[x].task = "cascade" => proc[x] \in [task : {"cascade"}, frames : Seq(Frames)]
  BY <1>3 DEF ProcStates
<1> QED
  BY <1>1, <1>2, <1>4, <1>5, RunFacts DEF ProcFits

LEMMA IdleFits == ProcFits(Idle) /\ ProcFits(Idle)'
BY DEF ProcFits, Idle, ProcStates

\* Losers of a fork, all of them members and those to settle ended.
LEMMA LosersFit ==
  ASSUME Records, NEW g \in DOMAIN group, NEW T, NEW C, T \subseteq Members(g), C \subseteq Members(g),
         \A l \in C : HasEnded(l)
  PROVE  ProcFits([task |-> "losers", fork |-> g, canceled |-> C, todo |-> T])
<1> DEFINE P == [task |-> "losers", fork |-> g, canceled |-> C, todo |-> T]
<1>1. g \in Groups /\ T \subseteq Runs /\ C \subseteq Runs
  BY RunFacts, ForksAssumption DEF Records, Groups, Members
<1>2. P \in [task : {"losers"}, fork : Groups, todo : SUBSET Runs, canceled : SUBSET Runs]
  BY <1>1
<1>3. P.task = "losers" /\ P.fork = g /\ P.todo = T /\ P.canceled = C
  OBVIOUS
<1>4. P \in ProcStates
  BY <1>2 DEF ProcStates
<1> HIDE DEF P
<1>5. ProcFits(P)
  BY <1>3, <1>4 DEF ProcFits
<1> QED
  BY <1>5 DEF P

LEMMA CompleteChildInv ==
  ASSUME Inv, NEW x \in Processes, NEW c \in Created, CompleteChild(x, c)
  PROVE  Inv' /\ Grows
<1> DEFINE g == run[c].fork
           T == {l \in Members(g) \ {c} : run'[l].edge = "running"}
           P == [task |-> "losers", fork |-> g, canceled |-> {}, todo |-> T]
<1>1. State /\ Records /\ g # 0 /\ HasEnded(c) /\ Resolve(c) /\ spent' \in [{"command", "fault"} -> Nat]
  BY DEF Inv, State, CompleteChild
<1>2. State' /\ Grows
  BY <1>1, ResolveKeeps
<1>3. g \in DOMAIN group
  BY <1>1, RunFacts DEF Records
<1>4. UNCHANGED proc \/ Become(x, P)
  BY DEF CompleteChild
<1>5. PICK t : t = T
  OBVIOUS
<1>6. ProcFits([task |-> "losers", fork |-> g, canceled |-> {}, todo |-> t])
  BY <1>1, <1>3, <1>5, LosersFit
<1>7. PICK p : p = [task |-> "losers", fork |-> g, canceled |-> {}, todo |-> t]
  OBVIOUS
<1>8. ProcFits(p) /\ P = p
  BY <1>5, <1>6, <1>7
<1>9. ProcFits(p)'
  BY <1>1, <1>2, <1>8, ProcGrows
<1> HIDE DEF P
<1>10. UNCHANGED proc \/ \E y \in Processes : \E Q : Become(y, Q) /\ ProcFits(Q)'
  BY <1>4, <1>8, <1>9
<1> QED
  BY <1>1, <1>2, <1>10, InvKeeps

LEMMA LoserSettling ==
  ASSUME NEW q \in [task : {"losers"}, fork : Groups, todo : SUBSET Runs, canceled : SUBSET Runs],
         NEW t \in SUBSET Runs, NEW k \in SUBSET Runs
  PROVE  LET p == [q EXCEPT !.todo = t, !.canceled = k]
         IN /\ p \in [task : {"losers"}, fork : Groups, todo : SUBSET Runs, canceled : SUBSET Runs]
            /\ p.task = "losers" /\ p.fork = q.fork /\ p.todo = t /\ p.canceled = k
OBVIOUS

LEMMA CancelLoserInv == ASSUME Inv, NEW x \in Processes, CancelLoser(x) PROVE Inv' /\ Grows
<1> DEFINE g == proc[x].fork
<1>1. /\ State /\ Records /\ proc[x].task = "losers" /\ spent' \in [{"command", "fault"} -> Nat] /\ UNCHANGED group
      /\ proc[x] \in [task : {"losers"}, fork : Groups, todo : SUBSET Runs, canceled : SUBSET Runs]
      /\ g \in DOMAIN group /\ proc[x].todo \subseteq Members(g) /\ Members(g) \subseteq Created
  BY ProcFacts DEF Inv, State, CancelLoser, Members
<1>2. PICK l \in proc[x].todo :
         IF HasEnded(l) \/ run[l].marked
         THEN /\ run' = IF HasEnded(l) THEN run ELSE [run EXCEPT ![l] = Canceled(@)]
              /\ Become(x, [proc[x] EXCEPT !.todo = @ \ {l}, !.canceled = {l}])
         ELSE UNCHANGED run /\ Become(x, Idle)
  BY DEF CancelLoser
<1>3. CASE HasEnded(l) \/ run[l].marked
  <2>1. State' /\ Grows /\ HasEnded(l)'
    BY <1>1, <1>2, <1>3, CancelKeeps
  <2>2. PICK h : h = g
    OBVIOUS
  <2>3. h \in DOMAIN group' /\ Members(h)' = Members(h) /\ h = g
    <3>1. h \in DOMAIN group
      BY <1>1, <2>2
    <3> QED
      BY <1>1, <2>1, <2>2, <3>1, GrowsFacts
  <2>4. PICK t : t = proc[x].todo \ {l}
    OBVIOUS
  <2>5. PICK p : p = [proc[x] EXCEPT !.todo = @ \ {l}, !.canceled = {l}]
    OBVIOUS
  <2>6. p \in [task : {"losers"}, fork : Groups, todo : SUBSET Runs, canceled : SUBSET Runs]
        /\ p.task = "losers" /\ p.fork = h /\ p.todo = t /\ p.canceled = {l}
    <3>1. PICK k : k = {l}
      OBVIOUS
    <3>2. t \in SUBSET Runs /\ k \in SUBSET Runs /\ p = [proc[x] EXCEPT !.todo = t, !.canceled = k]
      BY <1>1, <2>4, <2>5, <3>1
    <3> QED
      BY <1>1, <2>3, <3>1, <3>2, LoserSettling
  <2>7. p \in ProcStates
    BY <2>6 DEF ProcStates
  <2>8. ProcFits(p)'
    <3>1. p.task = "losers" /\ p.fork = h /\ p.todo = t /\ p.canceled = {l}
      BY <2>6
    <3>2. h \in DOMAIN group' /\ t \subseteq Members(h)' /\ {l} \subseteq Members(h)'
      <4>1. t \subseteq Members(h) /\ {l} \subseteq Members(h)
        BY <1>1, <2>3, <2>4
      <4> QED
        BY <2>3, <4>1
    <3> QED
      BY <2>1, <2>7, <3>1, <3>2 DEF ProcFits
  <2> QED
    BY <1>1, <1>2, <1>3, <2>1, <2>5, <2>8, InvKeeps
<1>4. CASE ~(HasEnded(l) \/ run[l].marked)
  <2>1. UNCHANGED <<run, group>> /\ Become(x, Idle)
    BY <1>1, <1>2, <1>4
  <2> QED
    BY <1>1, <2>1, NothingKeeps, IdleFits, InvKeeps
<1> QED
  BY <1>3, <1>4

LEMMA CompleteLoserInv == ASSUME Inv, NEW x \in Processes, CompleteLoser(x) PROVE Inv' /\ Grows
<1> DEFINE g == proc[x].fork
<1>1. /\ State /\ Records /\ proc[x].task = "losers" /\ spent' \in [{"command", "fault"} -> Nat]
      /\ proc[x] \in [task : {"losers"}, fork : Groups, todo : SUBSET Runs, canceled : SUBSET Runs]
      /\ g \in DOMAIN group /\ g # 0 /\ proc[x].todo \subseteq Members(g) /\ Members(g) \subseteq Created
      /\ proc[x].canceled \subseteq Members(g) /\ \A l \in proc[x].canceled : HasEnded(l)
  BY ProcFacts, RunFacts DEF Inv, State, CompleteLoser, Members
<1>2. PICK l \in proc[x].canceled :
         IF run[l].marked
         THEN Resolve(l) /\ Become(x, [proc[x] EXCEPT !.canceled = {}])
         ELSE UNCHANGED <<run, group>> /\ Become(x, Idle)
  BY DEF CompleteLoser
<1>3. CASE run[l].marked
  <2>1. l \in Created /\ run[l].fork = g /\ HasEnded(l) /\ Resolve(l)
    BY <1>1, <1>2, <1>3 DEF Members
  <2>2. State' /\ Grows
    BY <1>1, <2>1, ResolveKeeps
  <2>3. PICK p : p = [task |-> "losers", fork |-> g, canceled |-> {}, todo |-> proc[x].todo]
    OBVIOUS
  <2>4. [proc[x] EXCEPT !.canceled = {}] = p
    BY <1>1, <2>3, SMTT(20)
  <2>5. ProcFits(p)
    BY <1>1, <2>3, LosersFit
  <2>6. ProcFits(p)'
    BY <1>1, <2>2, <2>5, ProcGrows
  <2> QED
    BY <1>1, <1>2, <1>3, <2>2, <2>4, <2>6, InvKeeps
<1>4. CASE ~run[l].marked
  <2>1. UNCHANGED <<run, group>> /\ Become(x, Idle)
    BY <1>2, <1>4
  <2> QED
    BY <1>1, <2>1, NothingKeeps, IdleFits, InvKeeps
<1> QED
  BY <1>3, <1>4

LEMMA IdleInv ==
  ASSUME Inv, NEW x \in Processes, LosersDone(x) \/ Abort(x)
  PROVE  Inv' /\ Grows
<1>1. UNCHANGED <<run, group>> /\ Become(x, Idle)
  BY DEF LosersDone, Abort
<1>2. spent' \in [{"command", "fault"} -> Nat]
  BY DEF Inv, LosersDone, Abort, Spend
<1>3. State
  BY DEF Inv
<1> QED
  BY <1>1, <1>2, <1>3, NothingKeeps, IdleFits, InvKeeps

LEMMA ReconcileInv ==
  ASSUME Inv, NEW x \in Processes, NEW g \in DOMAIN group, Reconcile(x, g)
  PROVE  Inv' /\ Grows
<1> DEFINE late == {c \in Members(g) : HasEnded(c) /\ run[c].edge = "running"}
<1>1. State /\ group[g].status = "waiting" /\ UNCHANGED <<proc, spent>> /\ spent \in [{"command", "fault"} -> Nat]
  BY DEF Inv, Reconcile
<1>2. CASE HasEnded(Source(g))
  <2>1. State' /\ Grows
    BY <1>1, <1>2, RetireKeeps DEF Reconcile
  <2> QED
    BY <1>1, <2>1, InvKeeps
<1>3. CASE ~HasEnded(Source(g))
  <2>1. WaitsFor(Source(g), g) /\ Settle(g, late)
    BY <1>3 DEF Reconcile
  <2>2. State' /\ Grows
    BY <1>1, <2>1, SettleKeeps
  <2> QED
    BY <1>1, <2>2, InvKeeps
<1> QED
  BY <1>2, <1>3

\* A cascade over Runs there are.
LEMMA CascadeFits ==
  ASSUME Records, NEW F, F \in Seq(Frames), Len(F) > 0,
         \A i \in 1 .. Len(F) : F[i].run \in Created /\ F[i].kids \subseteq Created
  PROVE  ProcFits([task |-> "cascade", frames |-> F])
<1> DEFINE P == [task |-> "cascade", frames |-> F]
<1>1. P \in [task : {"cascade"}, frames : Seq(Frames)]
  OBVIOUS
<1>2. P \in ProcStates /\ P.task = "cascade" /\ P.frames = F
  BY <1>1 DEF ProcStates
<1> HIDE DEF P
<1>3. ProcFits(P)
  BY <1>2 DEF ProcFits
<1> QED
  BY <1>3 DEF P

LEMMA FrameFits ==
  ASSUME Records, NEW r \in Created
  PROVE  Frame(r) \in Frames /\ Frame(r).run = r /\ Frame(r).kids = Children(r) /\ Children(r) \subseteq Created
BY RunFacts DEF Frame, Frames, Children

LEMMA CascadeInv ==
  ASSUME Inv, NEW x \in Processes, NEW r \in Created, Cascade(x, r)
  PROVE  Inv' /\ Grows
<1>1. State /\ Records /\ UNCHANGED <<run, group, spent>> /\ spent \in [{"command", "fault"} -> Nat]
  BY DEF Inv, State, Cascade
<1>2. PICK F : F = <<Frame(r)>>
  OBVIOUS
<1>3. F \in Seq(Frames) /\ Len(F) = 1 /\ F[1] = Frame(r)
  BY <1>1, <1>2, FrameFits
<1>4. \A i \in 1 .. Len(F) : F[i].run \in Created /\ F[i].kids \subseteq Created
  BY <1>1, <1>3, FrameFits
<1>5. PICK p : p = [task |-> "cascade", frames |-> F]
  OBVIOUS
<1>6. ProcFits(p)
  BY <1>1, <1>3, <1>4, <1>5, CascadeFits
<1>7. State' /\ Grows
  BY <1>1, NothingKeeps
<1>8. ProcFits(p)'
  BY <1>1, <1>6, <1>7, ProcGrows
<1>9. Become(x, p)
  BY <1>2, <1>5 DEF Cascade
<1> QED
  BY <1>1, <1>7, <1>8, <1>9, InvKeeps

LEMMA Stack ==
  ASSUME NEW F \in Seq(Frames), Len(F) > 0
  PROVE  LET B == SubSeq(F, 1, Len(F) - 1)
         IN /\ F[Len(F)] \in Frames /\ Len(F) \in 1 .. Len(F)
            /\ B \in Seq(Frames) /\ Len(B) = Len(F) - 1
            /\ \A i \in 1 .. Len(B) : B[i] = F[i] /\ i \in 1 .. Len(F)
<1>1. Len(F) \in Nat /\ Len(F) \in 1 .. Len(F) /\ 1 \in Nat /\ Len(F) - 1 \in Nat
  OBVIOUS
<1>2. F[Len(F)] \in Frames
  BY <1>1
<1> DEFINE B == SubSeq(F, 1, Len(F) - 1)
<1>3. B = [i \in 1 .. Len(F) - 1 |-> F[i]]
  BY <1>1
<1>4. \A i \in 1 .. Len(F) - 1 : F[i] \in Frames /\ i \in 1 .. Len(F)
  BY <1>1
<1> HIDE DEF B
<1>5. B \in [1 .. Len(F) - 1 -> Frames] /\ Len(F) - 1 \in Nat /\ \A i \in 1 .. Len(F) - 1 : B[i] = F[i]
  BY <1>1, <1>3, <1>4
<1>6. B \in Seq(Frames) /\ Len(B) = Len(F) - 1
  BY <1>5, FunctionIsSequence
<1>7. \A i \in 1 .. Len(B) : B[i] = F[i] /\ i \in 1 .. Len(F)
  BY <1>4, <1>5, <1>6
<1> QED
  BY <1>1, <1>2, <1>6, <1>7 DEF B

LEMMA Pushed ==
  ASSUME NEW B \in Seq(Frames), NEW f \in Frames, NEW e \in Frames
  PROVE  LET F == Append(Append(B, f), e)
         IN /\ F \in Seq(Frames) /\ Len(F) = Len(B) + 2 /\ Len(B) \in Nat
            /\ F[Len(B) + 1] = f /\ F[Len(B) + 2] = e
            /\ \A i \in 1 .. Len(B) : F[i] = B[i]
OBVIOUS

LEMMA DescendInv == ASSUME Inv, NEW x \in Processes, Descend(x) PROVE Inv' /\ Grows
<1> PICK c \in Top(x).kids :
      Become(x, [proc[x] EXCEPT !.frames = Append(Append(Below(x), [Top(x) EXCEPT !.kids = @ \ {c}]), Frame(c))])
  BY DEF Descend
<1>1. /\ State /\ Records /\ UNCHANGED <<run, group, spent>> /\ spent \in [{"command", "fault"} -> Nat]
      /\ proc[x] \in [task : {"cascade"}, frames : Seq(Frames)] /\ Len(proc[x].frames) > 0
      /\ \A i \in 1 .. Len(proc[x].frames) :
           proc[x].frames[i].run \in Created /\ proc[x].frames[i].kids \subseteq Created
  BY ProcFacts DEF Inv, State, Descend
<1>2. PICK F : F = proc[x].frames
  OBVIOUS
<1>3. F \in Seq(Frames) /\ Len(F) > 0 /\ \A i \in 1 .. Len(F) : F[i].run \in Created /\ F[i].kids \subseteq Created
  BY <1>1, <1>2
<1>4. PICK B : B = SubSeq(F, 1, Len(F) - 1)
  OBVIOUS
<1>5. /\ F[Len(F)] \in Frames /\ F[Len(F)].run \in Created /\ F[Len(F)].kids \subseteq Created
      /\ B \in Seq(Frames) /\ Len(B) \in Nat
      /\ \A i \in 1 .. Len(B) : B[i].run \in Created /\ B[i].kids \subseteq Created
  BY <1>3, <1>4, Stack
<1>6. Top(x) = F[Len(F)] /\ Below(x) = B /\ c \in F[Len(F)].kids
  BY <1>2, <1>4 DEF Top, Below
<1>7. PICK f : f = [F[Len(F)] EXCEPT !.kids = @ \ {c}]
  OBVIOUS
<1>8. f \in Frames /\ f.run \in Created /\ f.kids \subseteq Created
  BY <1>5, <1>7 DEF Frames
<1>9. PICK e : e = Frame(c)
  OBVIOUS
<1>10. e \in Frames /\ e.run \in Created /\ e.kids \subseteq Created
  BY <1>1, <1>5, <1>6, <1>9, FrameFits
<1>11. PICK G : G = Append(Append(B, f), e)
  OBVIOUS
<1>12. /\ G \in Seq(Frames) /\ Len(G) = Len(B) + 2 /\ G[Len(B) + 1] = f /\ G[Len(B) + 2] = e
       /\ \A i \in 1 .. Len(B) : G[i] = B[i]
  BY <1>5, <1>8, <1>10, <1>11, Pushed
<1>13. \A i \in 1 .. Len(G) : G[i].run \in Created /\ G[i].kids \subseteq Created
  <2>1. \A i \in 1 .. Len(G) : i \in 1 .. Len(B) \/ i = Len(B) + 1 \/ i = Len(B) + 2
    BY <1>5, <1>12
  <2> QED
    BY <1>5, <1>8, <1>10, <1>12, <2>1
<1>14. Len(G) > 0
  BY <1>5, <1>12
<1>15. PICK p : p = [task |-> "cascade", frames |-> G]
  OBVIOUS
<1>16. ProcFits(p)
  BY <1>1, <1>12, <1>13, <1>14, <1>15, CascadeFits
<1>17. State' /\ Grows
  BY <1>1, NothingKeeps
<1>18. ProcFits(p)'
  BY <1>1, <1>16, <1>17, ProcGrows
<1>19. Become(x, p)
  <2>1. [proc[x] EXCEPT !.frames = G] = p
    BY <1>1, <1>15
  <2> QED
    BY <1>6, <1>7, <1>9, <1>11, <2>1
<1> QED
  BY <1>1, <1>17, <1>18, <1>19, InvKeeps

LEMMA AscendInv == ASSUME Inv, NEW x \in Processes, Ascend(x) PROVE Inv' /\ Grows
<1>1. /\ State /\ Records /\ UNCHANGED <<group, spent>> /\ spent \in [{"command", "fault"} -> Nat]
      /\ proc[x] \in [task : {"cascade"}, frames : Seq(Frames)] /\ Len(proc[x].frames) > 0
      /\ \A i \in 1 .. Len(proc[x].frames) :
           proc[x].frames[i].run \in Created /\ proc[x].frames[i].kids \subseteq Created
  BY ProcFacts DEF Inv, State, Ascend
<1>2. CASE Len(proc[x].frames) = 1
  <2>1. UNCHANGED run /\ Become(x, Idle)
    BY <1>2 DEF Ascend
  <2> QED
    BY <1>1, <2>1, NothingKeeps, IdleFits, InvKeeps
<1>3. CASE Len(proc[x].frames) # 1
  <2>1. PICK F : F = proc[x].frames
    OBVIOUS
  <2>2. F \in Seq(Frames) /\ Len(F) > 0 /\ Len(F) # 1
        /\ \A i \in 1 .. Len(F) : F[i].run \in Created /\ F[i].kids \subseteq Created
    BY <1>1, <1>3, <2>1
  <2>3. PICK B : B = SubSeq(F, 1, Len(F) - 1)
    OBVIOUS
  <2>4. /\ F[Len(F)].run \in Created /\ B \in Seq(Frames) /\ Len(B) = Len(F) - 1
        /\ \A i \in 1 .. Len(B) : B[i].run \in Created /\ B[i].kids \subseteq Created
    BY <2>2, <2>3, Stack
  <2>5. Len(B) > 0
    BY <2>2, <2>4
  <2>6. PICK p : p = [task |-> "cascade", frames |-> B]
    OBVIOUS
  <2>7. ProcFits(p)
    BY <1>1, <2>4, <2>5, <2>6, CascadeFits
  <2>8. Top(x) = F[Len(F)] /\ Below(x) = B
    BY <2>1, <2>3 DEF Top, Below
  <2>9. PICK r \in Created : r = F[Len(F)].run
    BY <2>4
  <2>10. run' = IF HasEnded(r) THEN run ELSE [run EXCEPT ![r] = Canceled(@)]
    BY <1>3, <2>8, <2>9 DEF Ascend
  <2>11. State' /\ Grows
    BY <1>1, <2>10, CancelKeeps
  <2>12. ProcFits(p)'
    BY <1>1, <2>7, <2>11, ProcGrows
  <2>13. Become(x, p)
    <3>1. [proc[x] EXCEPT !.frames = B] = p
      BY <1>1, <2>6
    <3> QED
      BY <1>3, <2>8, <3>1 DEF Ascend
  <2> QED
    BY <1>1, <2>11, <2>12, <2>13, InvKeeps
<1> QED
  BY <1>2, <1>3

-----------------------------------------------------------------------------

LEMMA InitInv == Init => Inv
<1> SUFFICES ASSUME Init PROVE Inv
  OBVIOUS
<1>1. NewRun(0, 0) \in RunRecords
  BY DEF NewRun, RunRecords, RunStatus, EdgeState, Settled
<1>2. /\ run \in Seq(RunRecords) /\ Len(run) = 1 /\ run[1] = NewRun(0, 0) /\ Created = {1}
      /\ group \in Seq(GroupRecords) /\ Len(group) = 0 /\ DOMAIN group = {}
  BY <1>1 DEF Init, Created
<1>3. Records
  BY <1>2, ForksAssumption DEF Records, Runs, NewRun
<1>4. Waiting /\ Right
  BY <1>2 DEF Waiting, Right, RunWaits, EdgeRight, NewRun
<1>5. proc \in [Processes -> ProcStates] /\ \A x \in Processes : ProcFits(proc[x])
  BY IdleFits DEF Init, ProcFits
<1>6. spent \in [{"command", "fault"} -> Nat]
  BY DEF Init
<1> QED
  BY <1>3, <1>4, <1>5, <1>6 DEF Inv, State

LEMMA NextInv == Inv /\ [Next]_vars => Inv' /\ Grows
<1> SUFFICES ASSUME Inv, [Next]_vars PROVE Inv' /\ Grows
  OBVIOUS
<1>0. State /\ spent \in [{"command", "fault"} -> Nat]
  BY DEF Inv
<1>1. ASSUME NEW r \in Created, Turn(r) \/ Operate(r) PROVE Inv' /\ Grows
  <2>1. State' /\ Grows
    BY <1>0, <1>1, TurnKeeps
  <2>2. UNCHANGED proc /\ spent' \in [{"command", "fault"} -> Nat]
    <3>1. CASE Turn(r)
      BY <1>0, <3>1 DEF Turn, Start, Finish, Fork
    <3>2. CASE Resume(r)
      BY <1>0, <3>2 DEF Resume
    <3>3. CASE Pause(r) \/ Cancel(r)
      <4>1. UNCHANGED proc /\ spent' = [spent EXCEPT !["command"] = @ + 1]
        BY <3>3 DEF Pause, Cancel, Spend
      <4> QED
        BY <1>0, <4>1
    <3> QED
      BY <1>1, <3>1, <3>2, <3>3 DEF Operate
  <2> QED
    BY <2>1, <2>2, InvKeeps
<1>2. ASSUME NEW x \in Processes, Continue(x) \/ Abort(x) PROVE Inv' /\ Grows
  BY <1>2, CancelLoserInv, CompleteLoserInv, IdleInv, DescendInv, AscendInv DEF Continue
<1>3. ASSUME NEW x \in Processes, NEW r \in Created, CompleteChild(x, r) \/ Cascade(x, r) PROVE Inv' /\ Grows
  BY <1>3, CompleteChildInv, CascadeInv
<1>4. ASSUME NEW x \in Processes, NEW g \in DOMAIN group, Reconcile(x, g) PROVE Inv' /\ Grows
  BY <1>4, ReconcileInv
<1>5. CASE UNCHANGED vars
  <2>1. State' /\ Grows /\ UNCHANGED <<proc, spent>>
    BY <1>0, <1>5, NothingKeeps DEF vars
  <2> QED
    BY <1>0, <2>1, InvKeeps
<1> QED
  BY <1>1, <1>2, <1>3, <1>4, <1>5 DEF Next

-----------------------------------------------------------------------------
(* What a step is of the contract's, said Run by Run and join by join.     *)

DebtOf(r) == r \in Created /\ run[r].owes
OnOf(r) == IF r \in Created THEN run[r].on ELSE 0
VerdictOf(r) == IF r \in Created THEN run[r].edge ELSE "running"

LEMMA AsNothing ==
  ASSUME \A q \in Runs : /\ EndOf(q)' = EndOf(q) /\ DebtOf(q)' = DebtOf(q) /\ OnOf(q)' = OnOf(q)
                         /\ VerdictOf(q)' = VerdictOf(q),
         \A h \in Groups : JoinOf(h)' = JoinOf(h)
  PROVE  UNCHANGED Contract!vars
BY Zenon DEF Contract!vars, DebtOf, OnOf, VerdictOf

LEMMA AsCancel ==
  ASSUME NEW r \in Runs, EndOf(r) = "open",
         \A q \in Runs : /\ EndOf(q)' = IF q = r THEN "canceled" ELSE EndOf(q)
                         /\ OnOf(q)' = IF q = r THEN 0 ELSE OnOf(q)
                         /\ DebtOf(q)' = DebtOf(q) /\ VerdictOf(q)' = VerdictOf(q),
         \A h \in Groups : JoinOf(h)' = JoinOf(h)
  PROVE  Contract!Cancel(r)
BY DEF Contract!Cancel, DebtOf, OnOf, VerdictOf

LEMMA AsFinish ==
  ASSUME NEW r \in Runs, EndOf(r) = "open", OnOf(r) = 0, NEW s, s = "completed" => ~DebtOf(r),
         \A q \in Runs : /\ EndOf(q)' = IF q = r THEN s ELSE EndOf(q)
                         /\ DebtOf(q)' = DebtOf(q) /\ OnOf(q)' = OnOf(q) /\ VerdictOf(q)' = VerdictOf(q),
         \A h \in Groups : JoinOf(h)' = JoinOf(h)
  PROVE  Contract!Finish(r, s)
BY DEF Contract!Finish, DebtOf, OnOf, VerdictOf

LEMMA AsFork ==
  ASSUME NEW r \in Runs, NEW g \in Groups, NEW B \in SUBSET Runs, NEW mode \in Modes, NEW failure \in FailureModes,
         EndOf(r) = "open", OnOf(r) = 0, ~DebtOf(r), JoinOf(g) = [status |-> "none"], B # {},
         \A b \in B : EndOf(b) = "none",
         \A q \in Runs : /\ EndOf(q)' = IF q \in B THEN "open" ELSE EndOf(q)
                         /\ OnOf(q)' = IF q = r THEN g ELSE OnOf(q)
                         /\ DebtOf(q)' = DebtOf(q) /\ VerdictOf(q)' = VerdictOf(q),
         \A h \in Groups : JoinOf(h)' = IF h = g THEN [source |-> r, branches |-> B, mode |-> mode,
                                                       failure |-> failure, status |-> "waiting"]
                                        ELSE JoinOf(h)
  PROVE  Contract!Fork(r, g, B)
BY DEF Contract!Fork, Contract!NoJoin, DebtOf, OnOf, VerdictOf, Modes, FailureModes

LEMMA AsRetire ==
  ASSUME NEW g \in Groups, JoinOf(g).status = "waiting", EndOf(JoinOf(g).source) \in Ended, JoinOf(g).source \in Runs,
         \A q \in Runs : /\ EndOf(q)' = EndOf(q) /\ DebtOf(q)' = DebtOf(q) /\ OnOf(q)' = OnOf(q)
                         /\ VerdictOf(q)' = IF q \in JoinOf(g).branches /\ VerdictOf(q) = "running" THEN "canceled"
                                            ELSE VerdictOf(q),
         \A h \in Groups : JoinOf(h)' = IF h = g THEN [JoinOf(g) EXCEPT !.status = "canceled"] ELSE JoinOf(h)
  PROVE  Contract!Retire(g)
BY DEF Contract!Retire, Contract!Ends, Ended, DebtOf, OnOf, VerdictOf

LEMMA AsRecord ==
  ASSUME NEW g \in Groups, NEW C \in SUBSET Runs, JoinOf(g) # [status |-> "none"], C # {},
         C \subseteq JoinOf(g).branches, \A c \in C : EndOf(c) \in Ended /\ VerdictOf(c) = "running",
         \A q \in Runs : /\ EndOf(q)' = EndOf(q) /\ DebtOf(q)' = DebtOf(q) /\ OnOf(q)' = OnOf(q)
                         /\ VerdictOf(q)' = IF q \notin C THEN VerdictOf(q)
                                            ELSE IF EndOf(q) = "completed" THEN "satisfied" ELSE EndOf(q),
         \A h \in Groups : JoinOf(h)' = JoinOf(h)
  PROVE  Contract!Record(g, C)
BY DEF Contract!Record, Contract!NoJoin, Contract!Ends, Ended, DebtOf, OnOf, VerdictOf

\* The ends of the branches of the join warrant that it is decided to s.
Warrants(g, s) ==
  LET B == JoinOf(g).branches
      all == JoinOf(g).mode = "all"
      lost == {b \in B : EndOf(b) \in {"failed", "canceled"}}
      completed == {b \in B : EndOf(b) = "completed"}
  IN \/ s = "satisfied" /\ completed # {} /\ (all => completed = B)
     \/ s = "failed" /\ all /\ lost # {} /\ (JoinOf(g).failure = "wait" => lost \union completed = B)
     \/ s = "failed" /\ ~all /\ lost = B

LEMMA AsWarranted ==
  ASSUME NEW g \in Groups, NEW s, JoinOf(g).branches \subseteq Runs
  PROVE  Contract!Warranted(g, s) <=> Warrants(g, s)
<1>1. {b \in JoinOf(g).branches : [q \in Runs |-> EndOf(q)][b] \in {"failed", "canceled"}}
        = {b \in JoinOf(g).branches : EndOf(b) \in {"failed", "canceled"}}
  OBVIOUS
<1>2. {b \in JoinOf(g).branches : [q \in Runs |-> EndOf(q)][b] = "completed"}
        = {b \in JoinOf(g).branches : EndOf(b) = "completed"}
  OBVIOUS
<1>3. [h \in Groups |-> JoinOf(h)][g] = JoinOf(g)
  OBVIOUS
<1> QED
  BY <1>1, <1>2, <1>3, Zenon DEF Contract!Warranted, Contract!Lost, Warrants

LEMMA AsDecided ==
  ASSUME NEW g \in Groups, NEW C \in SUBSET Runs, JoinOf(g).status = "waiting", C # {},
         JoinOf(g).branches \subseteq Runs, NEW S \in Runs, S = JoinOf(g).source, OnOf(S) = g,
         C \subseteq JoinOf(g).branches, \A c \in C : EndOf(c) \in Ended /\ VerdictOf(c) = "running",
         NEW s \in {"satisfied", "failed"}, Warrants(g, s),
         \A q \in Runs : /\ EndOf(q)' = EndOf(q)
                         /\ DebtOf(q)' = (DebtOf(q) \/ (q = S /\ s = "failed"))
                         /\ OnOf(q)' = IF q = S THEN 0 ELSE OnOf(q)
                         /\ VerdictOf(q)' = IF q \notin C THEN VerdictOf(q)
                                            ELSE IF EndOf(q) = "completed" THEN "satisfied" ELSE EndOf(q),
         \A h \in Groups : JoinOf(h)' = IF h = g THEN [JoinOf(g) EXCEPT !.status = s] ELSE JoinOf(h)
  PROVE  Contract!Record(g, C)
<1>1. Contract!Warranted(g, s)
  BY AsWarranted
<1>2. Contract!Decide(g, s)
  BY <1>1 DEF Contract!Decide, DebtOf, OnOf
<1>3. JoinOf(g) # [status |-> "none"]
  OBVIOUS
<1> QED
  BY <1>2, <1>3 DEF Contract!Record, Contract!NoJoin, Contract!Ends, Ended, DebtOf, OnOf, VerdictOf

-----------------------------------------------------------------------------
(* Every step is one of the contract's, or none of it.                     *)

JoinStep == Contract!Next \/ UNCHANGED Contract!vars

\* A join whose group stays as it was.
LEMMA JoinStays ==
  ASSUME Records, Grows, NEW h \in Groups,
         h \in DOMAIN group => group'[h].status = group[h].status,
         h \notin DOMAIN group => h \notin (DOMAIN group)'
  PROVE  JoinOf(h)' = JoinOf(h)
<1>1. CASE h \in DOMAIN group
  <2>1. h \in (DOMAIN group)' /\ Members(h)' = Members(h) /\ Source(h)' = Source(h)
        /\ group'[h].mode = group[h].mode /\ group'[h].failure = group[h].failure
    BY <1>1, GrowsFacts DEF Grows
  <2> QED
    BY <1>1, <2>1 DEF JoinOf
<1>2. CASE h \notin DOMAIN group
  BY <1>2 DEF JoinOf
<1> QED
  BY <1>1, <1>2

LEMMA NothingSteps == ASSUME UNCHANGED <<run, group>> PROVE JoinStep
<1>1. \A q \in Runs : /\ EndOf(q)' = EndOf(q) /\ DebtOf(q)' = DebtOf(q) /\ OnOf(q)' = OnOf(q)
                      /\ VerdictOf(q)' = VerdictOf(q)
  BY DEF EndOf, DebtOf, OnOf, VerdictOf, Created, HasEnded
<1>2. \A h \in Groups : JoinOf(h)' = JoinOf(h)
  BY DEF JoinOf, Members, Created, Source
<1> QED
  BY <1>1, <1>2, AsNothing DEF JoinStep

LEMMA PutSteps ==
  ASSUME State, NEW r \in Created, NEW R, Next1(r, R), Put(r, R), UNCHANGED group
  PROVE  JoinStep
<1>1. /\ Created' = Created /\ r \in Runs /\ Created \subseteq Runs
      /\ \A q \in Created : run'[q] = IF q = r THEN R ELSE run[q]
  BY PutFacts, RunFacts DEF State, Next1
<1>2. Records /\ Grows /\ RunWaits(r) /\ run[r] \in RunRecords
  BY PutKeeps, RunFacts DEF State, Waiting
<1>3. \A h \in Groups : JoinOf(h)' = JoinOf(h)
  BY <1>2, JoinStays
<1>4. \A q \in Runs : /\ EndOf(q)' = IF q = r THEN IF R.status \in Ended THEN R.status ELSE "open" ELSE EndOf(q)
                      /\ OnOf(q)' = IF q = r THEN R.on ELSE OnOf(q)
                      /\ DebtOf(q)' = DebtOf(q) /\ VerdictOf(q)' = VerdictOf(q)
  BY <1>1 DEF Next1, EndOf, OnOf, DebtOf, VerdictOf, HasEnded
<1>5. CASE HasEnded(r)
  <2>1. run[r].on = 0
    BY <1>2, <1>5 DEF RunWaits, WaitsFor, HasEnded, Ended
  <2>2. R.on = OnOf(r) /\ R.status \in Ended /\ R.status = EndOf(r)
    BY <1>1, <1>5, <2>1 DEF Next1, OnOf, EndOf, HasEnded
  <2> QED
    BY <1>3, <1>4, <2>2, AsNothing DEF JoinStep
<1>6. CASE ~HasEnded(r)
  <2>1. EndOf(r) = "open" /\ OnOf(r) = run[r].on /\ (DebtOf(r) <=> run[r].owes)
    BY <1>1, <1>6 DEF EndOf, OnOf, DebtOf
  <2>2. CASE R.status \notin Ended
    <3>1. R.on = OnOf(r)
      BY <2>1, <2>2 DEF Next1, Ended
    <3> QED
      BY <1>3, <1>4, <2>1, <2>2, <3>1, AsNothing DEF JoinStep
  <2>3. CASE R.status = "canceled"
    <3>1. R.on = 0
      BY <2>3 DEF Next1
    <3>2. Contract!Cancel(r)
      BY <1>1, <1>3, <1>4, <2>1, <2>3, <3>1, AsCancel DEF Ended
    <3> QED
      BY <1>1, <3>2 DEF JoinStep, Contract!Next
  <2>4. CASE R.status \in {"completed", "failed"}
    <3>1. R.on = 0 /\ OnOf(r) = 0 /\ (R.status = "completed" => ~DebtOf(r))
      BY <1>6, <2>1, <2>4 DEF Next1
    <3>2. PICK s \in {"completed", "failed"} : s = R.status
      BY <2>4
    <3>3. Contract!Finish(r, s)
      BY <1>1, <1>3, <1>4, <2>1, <3>1, <3>2, AsFinish DEF Ended
    <3> QED
      BY <1>1, <3>3 DEF JoinStep, Contract!Next
  <2> QED
    BY <2>2, <2>3, <2>4 DEF Ended
<1> QED
  BY <1>5, <1>6

LEMMA ForkSteps ==
  ASSUME State, NEW r \in Created, NEW n \in 1 .. MaxRuns, NEW mode \in Modes, NEW failure \in FailureModes,
         Fork(r, n, mode, failure)
  PROVE  JoinStep
<1> PICK g : g = Len(group')
  OBVIOUS
<1> PICK B : B = Created' \ Created
  OBVIOUS
<1>1. Records /\ Grows /\ RunWaits(r) /\ Created \subseteq Runs /\ B \subseteq Runs
  <2>1. Records /\ RunWaits(r)
    BY DEF State, Waiting
  <2>2. Grows
    BY ForkKeeps
  <2>3. Created' = 1 .. (Len(run) + n) /\ Len(run') = Len(run) + n /\ Len(run') <= MaxRuns
    BY ForkFacts
  <2>4. Created \subseteq Runs /\ Len(run) \in Nat /\ n \in Nat /\ MaxRuns \in Nat
    BY <2>1, RunFacts, ForksAssumption
  <2>5. Created' \subseteq Runs
    BY <2>3, <2>4 DEF Runs
  <2> QED
    BY <2>1, <2>2, <2>4, <2>5
<1>2. /\ g \in Groups /\ g # 0 /\ g \notin DOMAIN group /\ run[r].status = "running" /\ Created \subseteq Created'
      /\ Len(run') = Len(run) + n /\ n > 0
      /\ \A q \in Created : q # r => run'[q] = run[q]
      /\ run'[r].status = "waiting_for_dependency" /\ run'[r].on = g /\ run'[r].fork = run[r].fork
      /\ run'[r].edge = run[r].edge /\ run'[r].owes = run[r].owes
  BY ForkFacts
<1>3. \A q \in B : /\ run'[q].fork = g /\ run'[q].on = 0 /\ run'[q].edge = "running"
                   /\ run'[q].status = "queued" /\ run'[q].owes = FALSE
  BY ForkFacts
<1>4. g = Len(group) + 1 /\ DOMAIN group' = DOMAIN group \union {g} /\ \A h \in DOMAIN group : group'[h] = group[h]
  BY ForkFacts
<1>5. run[r].on = 0 /\ EndOf(r) = "open" /\ OnOf(r) = 0 /\ ~DebtOf(r) /\ r \in Runs
  BY <1>1, <1>2 DEF Fork, RunWaits, WaitsFor, EndOf, OnOf, DebtOf, HasEnded, Ended
<1>6. B \in SUBSET Runs /\ \A b \in B : EndOf(b) = "none"
  BY <1>1 DEF EndOf
<1>7. Members(g)' = B
  <2>1. \A q \in Created : run'[q].fork = run[q].fork /\ run[q].fork # g
    BY <1>1, <1>4, RunFacts DEF Grows, Records
  <2> QED
    BY <1>2, <1>3, <2>1 DEF Members
<1>8. B # {}
  <2>1. Created = 1 .. Len(run) /\ Created' = 1 .. (Len(run) + n) /\ Len(run) \in Nat /\ n \in Nat
    <3>1. Created = 1 .. Len(run) /\ Created' = 1 .. (Len(run) + n)
      BY ForkFacts
    <3> QED
      BY <1>1, <3>1, RunFacts, ForksAssumption
  <2>2. Len(run) + 1 \in B
    BY <1>2, <2>1
  <2> QED
    BY <2>2
<1>9. \A q \in Runs : /\ EndOf(q)' = IF q \in B THEN "open" ELSE EndOf(q)
                      /\ OnOf(q)' = IF q = r THEN g ELSE OnOf(q)
                      /\ DebtOf(q)' = DebtOf(q) /\ VerdictOf(q)' = VerdictOf(q)
  <2>1. ASSUME NEW q \in Runs, q \in B
        PROVE  EndOf(q)' = "open" /\ OnOf(q)' = 0 /\ OnOf(q) = 0 /\ q # r /\ ~DebtOf(q)' /\ ~DebtOf(q)
               /\ VerdictOf(q)' = VerdictOf(q)
    BY <1>3, <2>1 DEF EndOf, OnOf, DebtOf, VerdictOf, HasEnded, Ended
  <2>2. ASSUME NEW q \in Runs, q \notin Created'
        PROVE  EndOf(q)' = EndOf(q) /\ OnOf(q)' = OnOf(q) /\ q # r /\ DebtOf(q)' = DebtOf(q) /\ VerdictOf(q)' = VerdictOf(q)
    BY <1>2, <2>2 DEF EndOf, OnOf, DebtOf, VerdictOf
  <2>3. ASSUME NEW q \in Created, q # r
        PROVE  EndOf(q)' = EndOf(q) /\ OnOf(q)' = OnOf(q) /\ DebtOf(q)' = DebtOf(q) /\ VerdictOf(q)' = VerdictOf(q)
    BY <1>2, <2>3 DEF EndOf, OnOf, DebtOf, VerdictOf, HasEnded
  <2>4. EndOf(r)' = EndOf(r) /\ OnOf(r)' = g /\ DebtOf(r)' = DebtOf(r) /\ VerdictOf(r)' = VerdictOf(r)
    BY <1>2, <1>5 DEF EndOf, OnOf, DebtOf, VerdictOf, HasEnded, Ended
  <2>5. r \notin B
    OBVIOUS
  <2> SUFFICES ASSUME NEW q \in Runs
               PROVE  /\ EndOf(q)' = IF q \in B THEN "open" ELSE EndOf(q)
                      /\ OnOf(q)' = IF q = r THEN g ELSE OnOf(q)
                      /\ DebtOf(q)' = DebtOf(q) /\ VerdictOf(q)' = VerdictOf(q)
    OBVIOUS
  <2>6. CASE q \in B
    <3>1. DebtOf(q)' = DebtOf(q)
      BY <1>3, <2>6 DEF DebtOf
    <3> QED
      BY <2>1, <2>6, <3>1
  <2>7. CASE q \notin B /\ q \notin Created
    BY <2>2, <2>7
  <2>8. CASE q \notin B /\ q \in Created /\ q # r
    BY <2>3, <2>8
  <2>9. CASE q = r
    BY <2>4, <2>5, <2>9
  <2> QED
    BY <2>6, <2>7, <2>8, <2>9
<1>10. \A h \in Groups : JoinOf(h)' = IF h = g THEN [source |-> r, branches |-> B, mode |-> mode,
                                                     failure |-> failure, status |-> "waiting"]
                                      ELSE JoinOf(h)
  <2>1. group'[g] = [source |-> r, mode |-> mode, failure |-> failure, status |-> "waiting"]
    BY <1>1, <1>4, RunFacts DEF Fork, Records
  <2>2. JoinOf(g)' = [source |-> r, branches |-> B, mode |-> mode, failure |-> failure, status |-> "waiting"]
    <3>1. g \in (DOMAIN group)' /\ Source(g)' = r /\ group'[g].mode = mode /\ group'[g].failure = failure
          /\ group'[g].status = "waiting"
      BY <1>4, <2>1 DEF Source
    <3> QED
      BY <1>7, <3>1 DEF JoinOf
  <2>3. \A h \in Groups : h # g => JoinOf(h)' = JoinOf(h)
    BY <1>1, <1>4, JoinStays
  <2> QED
    BY <2>2, <2>3
<1>11. JoinOf(g) = [status |-> "none"]
  BY <1>2 DEF JoinOf
<1>12. Contract!Fork(r, g, B)
  BY <1>2, <1>5, <1>6, <1>8, <1>9, <1>10, <1>11, AsFork
<1> QED
  BY <1>2, <1>5, <1>6, <1>12 DEF JoinStep, Contract!Next

LEMMA RetireSteps ==
  ASSUME State, NEW g \in DOMAIN group, group[g].status = "waiting", HasEnded(Source(g)), Retire(g)
  PROVE  JoinStep
<1>1. Records /\ Grows /\ g \in Groups /\ Members(g) \subseteq Created /\ Created \subseteq Runs /\ Source(g) \in Created
  BY RetireKeeps, RunFacts, ForksAssumption DEF State, Records, Members, Groups
<1>2. /\ Created' = Created
      /\ \A r \in Created :
           /\ run'[r].status = run[r].status /\ run'[r].on = run[r].on /\ run'[r].owes = run[r].owes
           /\ run'[r].edge = IF r \in Members(g) /\ run[r].edge = "running" THEN "canceled" ELSE run[r].edge
  BY <1>1, RetireFacts
<1>3. DOMAIN group' = DOMAIN group /\ \A h \in DOMAIN group : group'[h].status = IF h = g THEN "canceled" ELSE group[h].status
  BY <1>1, RetireFacts
<1>4. /\ JoinOf(g).status = "waiting" /\ JoinOf(g).source = Source(g) /\ JoinOf(g).branches = Members(g)
      /\ EndOf(Source(g)) \in Ended
  BY <1>1 DEF JoinOf, EndOf, HasEnded
<1>5. \A q \in Runs : /\ EndOf(q)' = EndOf(q) /\ DebtOf(q)' = DebtOf(q) /\ OnOf(q)' = OnOf(q)
                      /\ VerdictOf(q)' = IF q \in Members(g) /\ VerdictOf(q) = "running" THEN "canceled"
                                         ELSE VerdictOf(q)
  BY <1>1, <1>2 DEF EndOf, DebtOf, OnOf, VerdictOf, HasEnded
<1>6. \A h \in Groups : JoinOf(h)' = IF h = g THEN [JoinOf(g) EXCEPT !.status = "canceled"] ELSE JoinOf(h)
  <2>1. \A h \in Groups : h # g => JoinOf(h)' = JoinOf(h)
    BY <1>1, <1>3, JoinStays
  <2>2. Members(g)' = Members(g) /\ Source(g)' = Source(g)
        /\ group'[g].mode = group[g].mode /\ group'[g].failure = group[g].failure
    BY <1>1, GrowsFacts DEF Grows
  <2>3. JoinOf(g)' = [JoinOf(g) EXCEPT !.status = "canceled"]
    BY <1>3, <2>2 DEF JoinOf
  <2> QED
    BY <2>1, <2>3
<1>7. Contract!Retire(g)
  BY <1>1, <1>4, <1>5, <1>6, AsRetire
<1> QED
  BY <1>1, <1>7 DEF JoinStep, Contract!Next

\* The edges that decide a group say how its children ended.
LEMMA EdgesSayEnds ==
  ASSUME State, NEW g \in DOMAIN group, ~HasEnded(Source(g)), NEW C, C \subseteq Members(g), \A c \in C : HasEnded(c)
  PROVE  \A c \in Members(g) : Written(C)[c].edge # "running" => HasEnded(c) /\ Written(C)[c].edge = Verdict(c)
<1> SUFFICES ASSUME NEW c \in Members(g), Written(C)[c].edge # "running"
             PROVE  HasEnded(c) /\ Written(C)[c].edge = Verdict(c)
  OBVIOUS
<1>1. c \in Created /\ run[c].fork = g /\ g # 0 /\ EdgeRight(c) /\ Records
  BY RunFacts DEF State, Right, Members
<1>2. Written(C)[c].edge = IF c \in C THEN Verdict(c) ELSE run[c].edge
  BY <1>1, WrittenFacts
<1>3. CASE c \in C
  BY <1>2, <1>3
<1>4. CASE c \notin C
  BY <1>1, <1>2, <1>4 DEF EdgeRight
<1> QED
  BY <1>3, <1>4

\* What Evaluate decides is warranted by how the children ended.
LEMMA DecisionsWarranted ==
  ASSUME State, NEW g \in DOMAIN group, group[g].status = "waiting", ~HasEnded(Source(g)), Members(g) # {},
         NEW C, C \subseteq Members(g), \A c \in C : HasEnded(c), NEW s, s = Evaluate(g, Written(C)), s # "waiting"
  PROVE  s \in {"satisfied", "failed"} /\ Warrants(g, s)
<1> PICK R : R = Written(C)
  OBVIOUS
<1> DEFINE M == Members(g)
           lost == {b \in M : EndOf(b) \in {"failed", "canceled"}}
           completed == {b \in M : EndOf(b) = "completed"}
<1>1. Records /\ M \subseteq Created /\ \A c \in M : R[c].edge \in EdgeState
  <2>1. Records /\ M \subseteq Created
    BY DEF State, Members
  <2>2. \A c \in M : R[c] \in RunRecords
    BY <2>1, WrittenFacts
  <2> QED
    BY <2>1, <2>2 DEF RunRecords
<1>2. LET m == group[g].mode
      IN /\ s \in {"waiting", "satisfied", "failed"}
         /\ s = "satisfied" /\ m = "all" => \A c \in Members(g) : R[c].edge = "satisfied"
         /\ s = "satisfied" /\ m = "any" => \E c \in Members(g) : R[c].edge = "satisfied"
         /\ s = "failed" /\ m = "all" => \E c \in Members(g) : R[c].edge \in {"failed", "canceled"}
         /\ s = "failed" /\ m = "any" => \A c \in Members(g) : R[c].edge \in {"failed", "canceled"}
         /\ s = "failed" /\ m = "all" /\ group[g].failure = "wait" => \A c \in Members(g) : R[c].edge # "running"
  BY <1>1, Verdicts
<1>3. \A c \in M : R[c].edge # "running" => HasEnded(c) /\ R[c].edge = Verdict(c)
  BY EdgesSayEnds
<1>4. \A c \in M : /\ R[c].edge = "satisfied" => EndOf(c) = "completed"
                   /\ R[c].edge \in {"failed", "canceled"} => EndOf(c) \in {"failed", "canceled"}
                   /\ R[c].edge # "running" => EndOf(c) \in {"completed", "failed", "canceled"}
  BY <1>1, <1>3 DEF EndOf, HasEnded, Verdict, Ended
<1>5. group[g].mode \in {"all", "any"} /\ JoinOf(g).branches = M /\ JoinOf(g).mode = group[g].mode
      /\ JoinOf(g).failure = group[g].failure
  BY <1>1, RunFacts DEF GroupRecords, Modes, JoinOf
<1>6. CASE s = "satisfied"
  <2>1. completed # {} /\ (group[g].mode = "all" => completed = M)
    BY <1>2, <1>4, <1>5, <1>6
  <2> QED
    BY <1>5, <1>6, <2>1 DEF Warrants
<1>7. CASE s = "failed" /\ group[g].mode = "all"
  <2>1. lost # {}
    BY <1>2, <1>4, <1>7
  <2>2. group[g].failure = "wait" => lost \union completed = M
    BY <1>2, <1>4, <1>7
  <2> QED
    BY <1>5, <1>7, <2>1, <2>2 DEF Warrants
<1>8. CASE s = "failed" /\ group[g].mode = "any"
  <2>1. lost = M
    BY <1>2, <1>4, <1>8
  <2> QED
    BY <1>5, <1>8, <2>1 DEF Warrants
<1> QED
  BY <1>2, <1>5, <1>6, <1>7, <1>8

LEMMA SettleSteps ==
  ASSUME State, NEW g \in DOMAIN group, NEW C, C \subseteq Members(g), C # {},
         \A c \in C : HasEnded(c) /\ run[c].edge = "running",
         group[g].status = "waiting" => WaitsFor(Source(g), g),
         Settle(g, C)
  PROVE  JoinStep
<1> PICK s : s = Evaluate(g, Written(C))
  OBVIOUS
<1> PICK S : S = Source(g)
  OBVIOUS
<1> DEFINE wakes == group[g].status = "waiting" /\ s # "waiting"
<1>1. /\ Records /\ Grows /\ g \in Groups /\ Members(g) \subseteq Created /\ Created \subseteq Runs /\ S \in Created
      /\ C \in SUBSET Runs
  <2>1. Records
    BY DEF State
  <2>2. Grows
    BY SettleKeeps
  <2>3. g \in Groups /\ S \in Created
    BY <2>1, RunFacts, ForksAssumption DEF Records, Groups
  <2>4. Members(g) \subseteq Created /\ Created \subseteq Runs
    BY <2>1, RunFacts DEF Members
  <2> QED
    BY <2>1, <2>2, <2>3, <2>4
<1>2. /\ Created' = Created
      /\ \A r \in Created :
           /\ run'[r].edge = IF r \in C THEN Verdict(r) ELSE run[r].edge
           /\ ~(wakes /\ r = S) => run'[r].status = run[r].status /\ run'[r].on = run[r].on
                                   /\ run'[r].owes = run[r].owes
           /\ wakes /\ r = S => run'[r].on = 0 /\ run'[r].status \in {"queued", "paused"}
                                /\ run'[r].owes = (run[r].owes \/ s = "failed")
  BY <1>1, SettleFacts
<1>3. DOMAIN group' = DOMAIN group /\ \A h \in DOMAIN group : group'[h].status = IF h = g THEN s ELSE group[h].status
  BY <1>1, SettleFacts
<1>4. wakes => WaitsFor(S, g) /\ ~HasEnded(S)
  BY DEF WaitsFor, HasEnded, Ended
<1>5. group[g].status # "waiting" => s = group[g].status
  BY DEF Evaluate
<1>6. /\ JoinOf(g).status = group[g].status /\ JoinOf(g).source = S /\ JoinOf(g).branches = Members(g)
      /\ JoinOf(g) # [status |-> "none"]
  BY <1>1, RunFacts DEF JoinOf, GroupRecords, GroupStatus, Settled
<1>7. \A c \in C : EndOf(c) \in Ended /\ VerdictOf(c) = "running"
  BY <1>1 DEF EndOf, VerdictOf, HasEnded
<1> HIDE DEF wakes
<1>8. \A q \in Runs : /\ EndOf(q)' = EndOf(q)
                      /\ VerdictOf(q)' = IF q \notin C THEN VerdictOf(q)
                                         ELSE IF EndOf(q) = "completed" THEN "satisfied" ELSE EndOf(q)
  <2> SUFFICES ASSUME NEW q \in Runs
               PROVE  /\ EndOf(q)' = EndOf(q)
                      /\ VerdictOf(q)' = IF q \notin C THEN VerdictOf(q)
                                         ELSE IF EndOf(q) = "completed" THEN "satisfied" ELSE EndOf(q)
    OBVIOUS
  <2>1. CASE q \notin Created
    BY <1>1, <1>2, <2>1 DEF EndOf, VerdictOf
  <2>2. CASE q \in Created
    <3>1. HasEnded(q)' = HasEnded(q) /\ (HasEnded(q) => run'[q].status = run[q].status)
      BY <1>2, <1>4, <2>2 DEF HasEnded, Ended
    <3>2. EndOf(q)' = EndOf(q)
      BY <1>2, <2>2, <3>1 DEF EndOf
    <3>3. q \in C => Verdict(q) = IF EndOf(q) = "completed" THEN "satisfied" ELSE EndOf(q)
      BY <2>2 DEF Verdict, EndOf, HasEnded, Ended
    <3> QED
      BY <1>2, <2>2, <3>2, <3>3 DEF VerdictOf
  <2> QED
    BY <2>1, <2>2
<1>9. \A h \in Groups : h # g => JoinOf(h)' = JoinOf(h)
  BY <1>1, <1>3, JoinStays
<1>10. CASE ~wakes
  <2>1. group'[g].status = group[g].status
    BY <1>3, <1>5, <1>10 DEF wakes
  <2>2. \A h \in Groups : JoinOf(h)' = JoinOf(h)
    BY <1>1, <1>3, <1>9, <2>1, JoinStays
  <2>3. \A q \in Runs : DebtOf(q)' = DebtOf(q) /\ OnOf(q)' = OnOf(q)
    BY <1>2, <1>10 DEF DebtOf, OnOf
  <2>4. Contract!Record(g, C)
    BY <1>1, <1>6, <1>7, <1>8, <2>2, <2>3, AsRecord
  <2> QED
    BY <1>1, <2>4 DEF JoinStep, Contract!Next
<1>11. CASE wakes
  <2>1. group[g].status = "waiting" /\ s # "waiting" /\ ~HasEnded(Source(g)) /\ run[S].on = g
    BY <1>4, <1>11 DEF wakes, WaitsFor
  <2>2. s \in {"satisfied", "failed"} /\ Warrants(g, s)
    BY <2>1, DecisionsWarranted
  <2>3. Members(g)' = Members(g) /\ Source(g)' = Source(g)
        /\ group'[g].mode = group[g].mode /\ group'[g].failure = group[g].failure
    BY <1>1, GrowsFacts DEF Grows
  <2>4. JoinOf(g)' = [JoinOf(g) EXCEPT !.status = s]
    BY <1>3, <2>3 DEF JoinOf
  <2>5. \A h \in Groups : JoinOf(h)' = IF h = g THEN [JoinOf(g) EXCEPT !.status = s] ELSE JoinOf(h)
    BY <1>9, <2>4
  <2>6. \A q \in Runs : OnOf(q)' = IF q = S THEN 0 ELSE OnOf(q)
    BY <1>1, <1>2, <1>11 DEF OnOf
  <2>7. \A q \in Runs : DebtOf(q)' = (DebtOf(q) \/ (q = S /\ s = "failed"))
    BY <1>1, <1>2, <1>11 DEF DebtOf
  <2>8. OnOf(S) = g /\ S \in Runs /\ Members(g) \subseteq Runs
    BY <1>1, <2>1 DEF OnOf
  <2>9. Contract!Record(g, C)
    BY <1>1, <1>6, <1>7, <1>8, <2>1, <2>2, <2>5, <2>6, <2>7, <2>8, AsDecided
  <2> QED
    BY <1>1, <2>9 DEF JoinStep, Contract!Next
<1> QED
  BY <1>10, <1>11

LEMMA ResolveSteps ==
  ASSUME State, NEW c \in Created, run[c].fork # 0, HasEnded(c), Resolve(c)
  PROVE  JoinStep
<1> DEFINE g == run[c].fork
<1>1. g \in DOMAIN group /\ c \in Members(g)
  BY RunFacts DEF State, Records, Members
<1>2. CASE group[g].status = "waiting" /\ HasEnded(Source(g))
  BY <1>1, <1>2, RetireSteps DEF Resolve
<1>3. CASE ~(group[g].status = "waiting" /\ HasEnded(Source(g))) /\
           (run[c].edge # "running" \/ (group[g].status = "waiting" /\ ~WaitsFor(Source(g), g)))
  BY <1>3, NothingSteps DEF Resolve
<1>4. CASE ~(group[g].status = "waiting" /\ HasEnded(Source(g))) /\
           ~(run[c].edge # "running" \/ (group[g].status = "waiting" /\ ~WaitsFor(Source(g), g)))
  <2>1. Settle(g, {c})
    BY <1>4 DEF Resolve
  <2> QED
    BY <1>1, <1>4, <2>1, SettleSteps
<1> QED
  BY <1>2, <1>3, <1>4

LEMMA CancelSteps ==
  ASSUME State, NEW r \in Created, UNCHANGED group,
         run' = IF HasEnded(r) THEN run ELSE [run EXCEPT ![r] = Canceled(@)]
  PROVE  JoinStep
<1>1. CASE HasEnded(r)
  BY <1>1, NothingSteps
<1>2. CASE ~HasEnded(r)
  <2>1. run[r] \in RunRecords
    BY RunFacts DEF State
  <2>2. Next1(r, Canceled(run[r])) /\ Put(r, Canceled(run[r]))
    BY <1>2, <2>1 DEF Next1, Canceled, RunRecords, RunStatus, Ended, Put
  <2> QED
    BY <2>2, PutSteps
<1> QED
  BY <1>1, <1>2

LEMMA ContinueSteps == ASSUME Inv, NEW x \in Processes, Continue(x) \/ Abort(x) PROVE JoinStep
<1>1. /\ State
      /\ proc[x].task = "losers" =>
           /\ proc[x].fork \in DOMAIN group
           /\ proc[x].todo \subseteq Members(proc[x].fork) /\ proc[x].canceled \subseteq Members(proc[x].fork)
           /\ \A l \in proc[x].canceled : HasEnded(l)
      /\ proc[x].task = "cascade" =>
           /\ proc[x] \in [task : {"cascade"}, frames : Seq(Frames)] /\ Len(proc[x].frames) > 0
           /\ \A i \in 1 .. Len(proc[x].frames) : proc[x].frames[i].run \in Created
  BY ProcFacts
<1>2. CASE CancelLoser(x)
  <2>1. PICK l \in proc[x].todo :
          \/ run' = IF HasEnded(l) THEN run ELSE [run EXCEPT ![l] = Canceled(@)]
          \/ UNCHANGED run
    BY <1>2 DEF CancelLoser
  <2>2. l \in Created /\ UNCHANGED group
    BY <1>1, <1>2 DEF CancelLoser, Members
  <2> QED
    BY <1>1, <2>1, <2>2, CancelSteps, NothingSteps
<1>3. CASE CompleteLoser(x)
  <2>1. PICK l \in proc[x].canceled : Resolve(l) \/ UNCHANGED <<run, group>>
    BY <1>3 DEF CompleteLoser
  <2>2. l \in Created /\ run[l].fork # 0 /\ HasEnded(l)
    BY <1>1, <1>3, RunFacts DEF CompleteLoser, Members, State
  <2> QED
    BY <1>1, <2>1, <2>2, ResolveSteps, NothingSteps
<1>4. CASE LosersDone(x) \/ Abort(x) \/ Descend(x)
  BY <1>4, NothingSteps DEF LosersDone, Abort, Descend
<1>5. CASE Ascend(x)
  <2>1. UNCHANGED group /\ \/ UNCHANGED run
                           \/ run' = IF HasEnded(Top(x).run) THEN run ELSE [run EXCEPT ![Top(x).run] = Canceled(@)]
    BY <1>5 DEF Ascend
  <2>2. PICK r : r = Top(x).run
    OBVIOUS
  <2>3. r \in Created
    <3>1. PICK F : F = proc[x].frames
      OBVIOUS
    <3>2. F \in Seq(Frames) /\ Len(F) > 0 /\ \A i \in 1 .. Len(F) : F[i].run \in Created
      BY <1>1, <1>5, <3>1 DEF Ascend
    <3>3. Len(F) \in 1 .. Len(F)
      BY <3>2
    <3> QED
      BY <2>2, <3>1, <3>2, <3>3 DEF Top
  <2> QED
    BY <1>1, <2>1, <2>2, <2>3, CancelSteps, NothingSteps
<1> QED
  BY <1>2, <1>3, <1>4, <1>5 DEF Continue

LEMMA ReconcileSteps ==
  ASSUME State, NEW x \in Processes, NEW g \in DOMAIN group, Reconcile(x, g)
  PROVE  JoinStep
<1>1. group[g].status = "waiting"
  BY DEF Reconcile
<1>2. CASE HasEnded(Source(g))
  BY <1>1, <1>2, RetireSteps DEF Reconcile
<1>3. CASE ~HasEnded(Source(g))
  <2>1. PICK C : C = {c \in Members(g) : HasEnded(c) /\ run[c].edge = "running"}
    OBVIOUS
  <2>2. WaitsFor(Source(g), g) /\ C # {} /\ Settle(g, C)
    BY <1>3, <2>1 DEF Reconcile
  <2> QED
    BY <1>1, <2>1, <2>2, SettleSteps
<1> QED
  BY <1>2, <1>3

LEMMA InitJoins == Init => Contract!Init
<1> SUFFICES ASSUME Init PROVE Contract!Init
  OBVIOUS
<1>1. Created = {1} /\ run[1] = NewRun(0, 0) /\ DOMAIN group = {} /\ 1 \in Runs
  <2>1. NewRun(0, 0) \in RunRecords
    BY DEF NewRun, RunRecords, RunStatus, EdgeState, Settled
  <2> QED
    BY <2>1, ForksAssumption DEF Init, Created, Runs
<1>2. /\ run[1].status = "queued" /\ run[1].on = 0 /\ run[1].owes = FALSE /\ run[1].edge = "running"
  BY <1>1 DEF NewRun
<1>3. \A q \in Runs : EndOf(q) = IF q = 1 THEN "open" ELSE "none"
  BY <1>1, <1>2 DEF EndOf, HasEnded, Ended
<1>4. \A q \in Runs : DebtOf(q) = FALSE /\ OnOf(q) = 0 /\ VerdictOf(q) = "running"
  BY <1>1, <1>2 DEF DebtOf, OnOf, VerdictOf
<1>5. \A h \in Groups : JoinOf(h) = [status |-> "none"]
  BY <1>1 DEF JoinOf
<1> QED
  BY <1>1, <1>3, <1>4, <1>5 DEF Contract!Init, Contract!NoJoin, DebtOf, OnOf, VerdictOf

LEMMA NextJoins == Inv /\ [Next]_vars => [Contract!Next]_(Contract!vars)
<1> SUFFICES ASSUME Inv, [Next]_vars PROVE JoinStep
  BY DEF JoinStep
<1>1. State
  BY DEF Inv
<1>2. ASSUME NEW r \in Created, Turn(r) \/ Operate(r) PROVE JoinStep
  BY <1>1, <1>2, TurnIs, ForkSteps, PutSteps
<1>3. ASSUME NEW x \in Processes, NEW r \in Created, CompleteChild(x, r) PROVE JoinStep
  BY <1>1, <1>3, ResolveSteps DEF CompleteChild
<1>4. ASSUME NEW x \in Processes, NEW r \in Created, Cascade(x, r) PROVE JoinStep
  BY <1>4, NothingSteps DEF Cascade
<1>5. CASE UNCHANGED vars
  BY <1>5, NothingSteps DEF vars
<1> QED
  BY <1>1, <1>2, <1>3, <1>4, <1>5, ContinueSteps, ReconcileSteps DEF Next

-----------------------------------------------------------------------------
(* A Run here is a Run as RunTurns has them: its lease and its Turns are   *)
(* left out, and what is written of it keeps to the contract of a Run.     *)

Life(r) == INSTANCE RunLifecycle WITH
  Workers <- {}, NoWorker <- 0, Waits <- {"waiting_for_dependency"},
  status <- run[r].status, saved <- run[r].pausedFrom, holder <- 0, live <- FALSE, applied <- 0

\* Only a pause saves a status; a Run that waits, or will once resumed, says for what.
SavedFits(R) ==
  /\ R.status # "paused" => R.pausedFrom = "none"
  /\ \/ R.status = "waiting_for_dependency"
     \/ R.status = "paused" /\ R.pausedFrom = "waiting_for_dependency"
     => R.on # 0
Saved == \A r \in Created : SavedFits(run[r])

\* The contract of a Run, for one that waits for nothing but a group and is not leased.
Moves(R, Q) ==
  \/ Q.status = R.status /\ Q.pausedFrom = R.pausedFrom
  \/ R.status = "queued" /\ Q.status = "running" /\ Q.pausedFrom = R.pausedFrom
  \/ R.status = "running" /\ Q.status \in {"waiting_for_dependency"} \union Ended /\ Q.pausedFrom = "none"
  \/ R.status \in {"queued", "running", "waiting_for_dependency"}
     /\ Q.status = "paused" /\ Q.pausedFrom = R.status
  \/ R.status = "paused" /\ Q.pausedFrom = "none"
     /\ Q.status = IF R.pausedFrom = "waiting_for_dependency" THEN R.pausedFrom ELSE "queued"
  \/ R.status \in {"queued", "paused", "waiting_for_dependency"} /\ Q.status = "canceled" /\ Q.pausedFrom = "none"
  \/ R.status = "waiting_for_dependency" /\ Q.status = "queued" /\ Q.pausedFrom = R.pausedFrom
  \/ R.status = "paused" /\ R.pausedFrom = "waiting_for_dependency"
     /\ Q.status = "paused" /\ Q.pausedFrom = "queued"

Lives == \A r \in Created : [Life(r)!Next]_(Life(r)!vars)
Begins == \A r \in Created' \ Created : Life(r)!Init'

LEMMA MovesLive ==
  ASSUME NEW r, SavedFits(run[r]), Moves(run[r], run'[r])
  PROVE  [Life(r)!Next]_(Life(r)!vars)
<1>2. CASE run'[r].status = run[r].status /\ run'[r].pausedFrom = run[r].pausedFrom
  BY <1>2 DEF Life!vars
<1>3. CASE run[r].status = "queued" /\ run'[r].status = "running" /\ run'[r].pausedFrom = run[r].pausedFrom
  <2>1. Life(r)!Start
    BY <1>3 DEF Life!Start
  <2> QED
    BY <2>1 DEF Life!Next
<1>4. CASE \/ /\ run[r].status = "running" /\ run'[r].status \in {"waiting_for_dependency"} \union Ended
              /\ run'[r].pausedFrom = "none"
           \/ run[r].status = "running" /\ run'[r].status = "paused" /\ run'[r].pausedFrom = run[r].status
  <2>1. Life(r)!Leave
    BY <1>4 DEF Life!Leave, Life!Release, Life!Ends, Ended
  <2> QED
    BY <2>1 DEF Life!Next
<1>5. CASE run[r].status \in {"queued", "waiting_for_dependency"}
           /\ run'[r].status = "paused" /\ run'[r].pausedFrom = run[r].status
  <2>1. Life(r)!Pause
    BY <1>5 DEF Life!Pause
  <2> QED
    BY <2>1 DEF Life!Next
<1>6. CASE run[r].status = "paused" /\ run'[r].pausedFrom = "none"
           /\ run'[r].status = IF run[r].pausedFrom = "waiting_for_dependency" THEN run[r].pausedFrom ELSE "queued"
  <2>1. Life(r)!Resume
    BY <1>6 DEF Life!Resume
  <2> QED
    BY <2>1 DEF Life!Next
<1>7. CASE run[r].status \in {"queued", "paused", "waiting_for_dependency"}
           /\ run'[r].status = "canceled" /\ run'[r].pausedFrom = "none"
  <2>1. Life(r)!Cancel
    BY <1>7 DEF Life!Cancel
  <2> QED
    BY <2>1 DEF Life!Next
<1>8. CASE run[r].status = "waiting_for_dependency" /\ run'[r].status = "queued"
           /\ run'[r].pausedFrom = run[r].pausedFrom
  <2>1. Life(r)!Awaken
    BY <1>8 DEF Life!Awaken
  <2> QED
    BY <2>1 DEF Life!Next
<1>9. CASE run[r].status = "paused" /\ run[r].pausedFrom = "waiting_for_dependency"
           /\ run'[r].status = "paused" /\ run'[r].pausedFrom = "queued"
  <2>1. Life(r)!AwakenPaused
    BY <1>9 DEF Life!AwakenPaused
  <2> QED
    BY <2>1 DEF Life!Next
<1> QED
  BY <1>2, <1>3, <1>4, <1>5, <1>6, <1>7, <1>8, <1>9 DEF Moves

LEMMA RunsLive ==
  ASSUME Saved, Created \subseteq Created',
         \A r \in Created : Moves(run[r], run'[r]) /\ SavedFits(run'[r]),
         \A r \in Created' \ Created : run'[r].status = "queued" /\ run'[r].pausedFrom = "none"
  PROVE  Saved' /\ Lives /\ Begins
<1>1. Saved'
  BY DEF Saved, SavedFits
<1>2. Lives
  BY MovesLive DEF Lives, Saved
<1>3. ASSUME NEW r \in Created' \ Created PROVE Life(r)!Init'
  BY <1>3 DEF Life!Init
<1> QED
  BY <1>1, <1>2, <1>3 DEF Begins

LEMMA NothingLives == ASSUME Saved, UNCHANGED run PROVE Saved' /\ Lives /\ Begins
<1>1. Created' = Created /\ \A r \in Created : Moves(run[r], run'[r]) /\ SavedFits(run'[r])
  BY DEF Created, Saved, Moves
<1> QED
  BY <1>1, RunsLive

LEMMA PutLives ==
  ASSUME Records, Saved, NEW r \in Created, NEW R \in RunRecords, Put(r, R), Moves(run[r], R), SavedFits(R)
  PROVE  Saved' /\ Lives /\ Begins
<1>1. Created' = Created /\ \A q \in Created : run'[q] = IF q = r THEN R ELSE run[q]
  BY PutFacts
<1>2. ASSUME NEW q \in Created PROVE Moves(run[q], run'[q]) /\ SavedFits(run'[q])
  <2>1. CASE q = r
    BY <1>1, <2>1
  <2>2. CASE q # r
    BY <1>1, <2>2 DEF Saved, Moves
  <2> QED
    BY <2>1, <2>2
<1> QED
  BY <1>1, <1>2, RunsLive

LEMMA ForkLives ==
  ASSUME State, Saved, NEW r \in Created, NEW n \in 1 .. MaxRuns, NEW mode \in Modes, NEW failure \in FailureModes,
         Fork(r, n, mode, failure)
  PROVE  Saved' /\ Lives /\ Begins
<1>1. /\ run[r].status = "running" /\ Created \subseteq Created'
      /\ \A q \in Created : q # r => run'[q] = run[q]
      /\ run'[r].status = "waiting_for_dependency" /\ run'[r].pausedFrom = run[r].pausedFrom /\ run'[r].on # 0
      /\ \A q \in Created' \ Created : run'[q].status = "queued" /\ run'[q].pausedFrom = "none"
  BY ForkFacts
<1>2. run[r].pausedFrom = "none"
  BY <1>1 DEF Saved, SavedFits
<1>3. Moves(run[r], run'[r]) /\ SavedFits(run'[r])
  BY <1>1, <1>2 DEF Moves, SavedFits
<1>4. ASSUME NEW q \in Created, q # r PROVE Moves(run[q], run'[q]) /\ SavedFits(run'[q])
  BY <1>1, <1>4 DEF Saved, Moves
<1> QED
  BY <1>1, <1>3, <1>4, RunsLive

LEMMA TurnLives ==
  ASSUME State, Saved, NEW r \in Created, Turn(r) \/ Operate(r)
  PROVE  Saved' /\ Lives /\ Begins
<1>1. Records /\ run[r] \in RunRecords /\ RunWaits(r) /\ SavedFits(run[r])
  BY RunFacts DEF State, Waiting, Saved
<1>2. CASE Start(r)
  <2>1. PICK R : R = [run[r] EXCEPT !.status = "running"]
    OBVIOUS
  <2>2. R \in RunRecords /\ Moves(run[r], R) /\ SavedFits(R)
    BY <1>1, <1>2, <2>1 DEF Start, RunRecords, RunStatus, Moves, SavedFits
  <2> QED
    BY <1>1, <1>2, <2>1, <2>2, PutLives DEF Start
<1>3. CASE Finish(r)
  <2>1. PICK s \in {"completed", "failed"}, m \in {run[r].marked, run[r].marked /\ KeepsMarker} :
          Put(r, [run[r] EXCEPT !.status = s, !.marked = m])
    BY <1>3 DEF Finish
  <2>2. PICK R : R = [run[r] EXCEPT !.status = s, !.marked = m]
    OBVIOUS
  <2>3. m \in BOOLEAN
    BY <1>1, ForksAssumption DEF RunRecords
  <2>4. R \in RunRecords /\ Moves(run[r], R) /\ SavedFits(R)
    BY <1>1, <1>3, <2>2, <2>3 DEF Finish, RunRecords, RunStatus, Moves, SavedFits, Ended
  <2> QED
    BY <1>1, <2>1, <2>2, <2>4, PutLives
<1>4. CASE \E n \in 1 .. MaxRuns, m \in Modes, f \in FailureModes : Fork(r, n, m, f)
  BY <1>4, ForkLives
<1>5. CASE Pause(r)
  <2>1. PICK R : R = [run[r] EXCEPT !.status = "paused", !.pausedFrom = run[r].status]
    OBVIOUS
  <2>2. R \in RunRecords /\ Moves(run[r], R) /\ SavedFits(R)
    BY <1>1, <1>5, <2>1 DEF Pause, RunRecords, RunStatus, Moves, SavedFits
  <2> QED
    BY <1>1, <1>5, <2>1, <2>2, PutLives DEF Pause
<1>6. CASE Resume(r)
  <2>1. PICK s : s = IF run[r].on # 0 THEN run[r].pausedFrom ELSE "queued"
    OBVIOUS
  <2>2. PICK R : R = [run[r] EXCEPT !.pausedFrom = "none", !.status = s]
    OBVIOUS
  <2>3. run[r].status = "paused" /\ (run[r].on # 0 <=> run[r].pausedFrom = "waiting_for_dependency")
    BY <1>1, <1>6 DEF Resume, RunWaits, WaitsFor, SavedFits
  <2>4. s = IF run[r].pausedFrom = "waiting_for_dependency" THEN run[r].pausedFrom ELSE "queued"
    BY <2>1, <2>3
  <2>5. R \in RunRecords /\ Moves(run[r], R) /\ SavedFits(R)
    BY <1>1, <2>2, <2>3, <2>4 DEF RunRecords, RunStatus, Moves, SavedFits
  <2>6. Put(r, R)
    BY <1>6, <2>1, <2>2 DEF Resume
  <2> QED
    BY <1>1, <2>5, <2>6, PutLives
<1>7. CASE Cancel(r)
  <2>1. PICK R : R = Canceled(run[r])
    OBVIOUS
  <2>2. R \in RunRecords /\ Moves(run[r], R) /\ SavedFits(R)
    BY <1>1, <1>7, <2>1 DEF Cancel, HasEnded, Canceled, RunRecords, RunStatus, Moves, SavedFits, Ended
  <2> QED
    BY <1>1, <1>7, <2>1, <2>2, PutLives DEF Cancel
<1> QED
  BY <1>2, <1>3, <1>4, <1>5, <1>6, <1>7 DEF Turn, Operate

LEMMA CancelLives ==
  ASSUME Records, Saved, NEW r \in Created,
         run' = IF HasEnded(r) THEN run ELSE [run EXCEPT ![r] = Canceled(@)]
  PROVE  Saved' /\ Lives /\ Begins
<1>1. CASE HasEnded(r)
  BY <1>1, NothingLives
<1>2. CASE ~HasEnded(r)
  <2>1. PICK R : R = Canceled(run[r])
    OBVIOUS
  <2>2. run[r] \in RunRecords
    BY RunFacts
  <2>3. R \in RunRecords /\ Moves(run[r], R) /\ SavedFits(R)
    BY <1>2, <2>1, <2>2 DEF HasEnded, Canceled, RunRecords, RunStatus, Moves, SavedFits, Ended
  <2> QED
    BY <1>2, <2>1, <2>3, PutLives DEF Put
<1> QED
  BY <1>1, <1>2

LEMMA RetireLives ==
  ASSUME Records, Saved, NEW g \in DOMAIN group, Retire(g)
  PROVE  Saved' /\ Lives /\ Begins
<1>1. Created' = Created /\ \A r \in Created : /\ run'[r].status = run[r].status /\ run'[r].on = run[r].on
                                               /\ run'[r].pausedFrom = run[r].pausedFrom
  BY RetireFacts
<1>2. \A r \in Created : Moves(run[r], run'[r]) /\ SavedFits(run'[r])
  BY <1>1 DEF Saved, SavedFits, Moves
<1> QED
  BY <1>1, <1>2, RunsLive

LEMMA SettleLives ==
  ASSUME Records, Saved, NEW g \in DOMAIN group, NEW C, C \subseteq Members(g), \A c \in C : HasEnded(c),
         group[g].status = "waiting" => WaitsFor(Source(g), g), Settle(g, C)
  PROVE  Saved' /\ Lives /\ Begins
<1> PICK woken : woken <=> group[g].status = "waiting" /\ Evaluate(g, Written(C)) # "waiting"
  OBVIOUS
<1>1. /\ Created' = Created
      /\ \A r \in Created :
           /\ ~(woken /\ r = Source(g)) => run'[r].status = run[r].status /\ run'[r].on = run[r].on
                                           /\ run'[r].pausedFrom = run[r].pausedFrom
           /\ woken /\ r = Source(g) => run'[r].on = 0 /\ Wakes(run[r], run'[r])
  BY SettleFacts
<1>2. ASSUME NEW r \in Created, ~(woken /\ r = Source(g)) PROVE Moves(run[r], run'[r]) /\ SavedFits(run'[r])
  BY <1>1, <1>2 DEF Saved, SavedFits, Moves
<1>3. ASSUME NEW r \in Created, woken, r = Source(g) PROVE Moves(run[r], run'[r]) /\ SavedFits(run'[r])
  <2>1. WaitsFor(r, g) /\ Wakes(run[r], run'[r]) /\ run'[r].on = 0 /\ SavedFits(run[r])
    BY <1>1, <1>3 DEF Saved
  <2> QED
    BY <2>1 DEF WaitsFor, Wakes, Moves, SavedFits
<1> QED
  BY <1>1, <1>2, <1>3, RunsLive

LEMMA ResolveLives ==
  ASSUME Records, Saved, NEW c \in Created, run[c].fork # 0, HasEnded(c), Resolve(c)
  PROVE  Saved' /\ Lives /\ Begins
<1> DEFINE g == run[c].fork
<1>1. g \in DOMAIN group /\ c \in Members(g)
  BY RunFacts DEF Records, Members
<1>2. \/ Retire(g) \/ UNCHANGED run
      \/ Settle(g, {c}) /\ (group[g].status = "waiting" => WaitsFor(Source(g), g))
  BY DEF Resolve
<1> QED
  BY <1>1, <1>2, RetireLives, NothingLives, SettleLives

LEMMA ContinueLives == ASSUME Inv, Saved, NEW x \in Processes, Continue(x) \/ Abort(x) PROVE Saved' /\ Lives /\ Begins
<1>1. /\ Records
      /\ proc[x].task = "losers" =>
           /\ proc[x].fork \in DOMAIN group
           /\ proc[x].todo \subseteq Members(proc[x].fork) /\ proc[x].canceled \subseteq Members(proc[x].fork)
           /\ \A l \in proc[x].canceled : HasEnded(l)
      /\ proc[x].task = "cascade" =>
           /\ proc[x] \in [task : {"cascade"}, frames : Seq(Frames)] /\ Len(proc[x].frames) > 0
           /\ \A i \in 1 .. Len(proc[x].frames) : proc[x].frames[i].run \in Created
  BY ProcFacts DEF State
<1>2. CASE CancelLoser(x)
  <2>1. PICK l \in proc[x].todo :
          \/ run' = IF HasEnded(l) THEN run ELSE [run EXCEPT ![l] = Canceled(@)]
          \/ UNCHANGED run
    BY <1>2 DEF CancelLoser
  <2>2. l \in Created
    BY <1>1, <1>2 DEF CancelLoser, Members
  <2> QED
    BY <1>1, <2>1, <2>2, CancelLives, NothingLives
<1>3. CASE CompleteLoser(x)
  <2>1. PICK l \in proc[x].canceled : Resolve(l) \/ UNCHANGED run
    BY <1>3 DEF CompleteLoser
  <2>2. l \in Created /\ run[l].fork # 0 /\ HasEnded(l)
    BY <1>1, <1>3, RunFacts DEF CompleteLoser, Members
  <2> QED
    BY <1>1, <2>1, <2>2, ResolveLives, NothingLives
<1>4. CASE LosersDone(x) \/ Abort(x) \/ Descend(x)
  BY <1>4, NothingLives DEF LosersDone, Abort, Descend
<1>5. CASE Ascend(x)
  <2>1. \/ UNCHANGED run
        \/ run' = IF HasEnded(Top(x).run) THEN run ELSE [run EXCEPT ![Top(x).run] = Canceled(@)]
    BY <1>5 DEF Ascend
  <2>2. PICK r : r = Top(x).run
    OBVIOUS
  <2>3. r \in Created
    <3>1. PICK F : F = proc[x].frames
      OBVIOUS
    <3>2. F \in Seq(Frames) /\ Len(F) > 0 /\ \A i \in 1 .. Len(F) : F[i].run \in Created
      BY <1>1, <1>5, <3>1 DEF Ascend
    <3>3. Len(F) \in 1 .. Len(F)
      BY <3>2
    <3> QED
      BY <2>2, <3>1, <3>2, <3>3 DEF Top
  <2> QED
    BY <1>1, <2>1, <2>2, <2>3, CancelLives, NothingLives
<1> QED
  BY <1>2, <1>3, <1>4, <1>5 DEF Continue

LEMMA ReconcileLives ==
  ASSUME Records, Saved, NEW x \in Processes, NEW g \in DOMAIN group, Reconcile(x, g)
  PROVE  Saved' /\ Lives /\ Begins
<1>1. PICK C : C = {c \in Members(g) : HasEnded(c) /\ run[c].edge = "running"}
  OBVIOUS
<1>2. Retire(g) \/ (WaitsFor(Source(g), g) /\ Settle(g, C))
  BY <1>1 DEF Reconcile
<1> QED
  BY <1>1, <1>2, RetireLives, SettleLives

LEMMA InitSaved == Init => Saved
<1> SUFFICES ASSUME Init PROVE Saved
  OBVIOUS
<1>1. Created = {1} /\ run[1] = NewRun(0, 0)
  <2>1. NewRun(0, 0) \in RunRecords
    BY DEF NewRun, RunRecords, RunStatus, EdgeState, Settled
  <2> QED
    BY <2>1 DEF Init, Created
<1> QED
  BY <1>1 DEF NewRun, Saved, SavedFits

LEMMA NextLives == Inv /\ Saved /\ [Next]_vars => Saved' /\ Lives /\ Begins
<1> SUFFICES ASSUME Inv, Saved, [Next]_vars PROVE Saved' /\ Lives /\ Begins
  OBVIOUS
<1>1. State /\ Records
  BY DEF Inv, State
<1>2. ASSUME NEW r \in Created, Turn(r) \/ Operate(r) PROVE Saved' /\ Lives /\ Begins
  BY <1>1, <1>2, TurnLives
<1>3. ASSUME NEW x \in Processes, NEW r \in Created, CompleteChild(x, r) PROVE Saved' /\ Lives /\ Begins
  BY <1>1, <1>3, ResolveLives DEF CompleteChild
<1>4. ASSUME NEW x \in Processes, NEW r \in Created, Cascade(x, r) PROVE Saved' /\ Lives /\ Begins
  BY <1>4, NothingLives DEF Cascade
<1>5. CASE UNCHANGED vars
  BY <1>5, NothingLives DEF vars
<1> QED
  BY <1>1, <1>2, <1>3, <1>4, <1>5, ContinueLives, ReconcileLives DEF Next

-----------------------------------------------------------------------------
(* Theorems.                                                               *)

\* Every reachable state is well formed: a Run is forked from a group there is, and a
\* resumed Run resumes a state it was in.
THEOREM TypeCorrect == Spec => []TypeOK
<1>1. Inv => TypeOK
  BY DEF Inv, State, Records, TypeOK
<1> QED
  BY <1>1, InitInv, NextInv, PTL DEF Spec

\* A group waits exactly as long as its source does: however pauses, cancellations,
\* resolutions, reconciliations and cascades of any number of processes interleave, or
\* stop half way, no source waits for a group that is through and no group is stuck
\* because its source forgot it.
THEOREM WaitTogether == Spec => []WaitsTogether
<1>1. Inv => WaitsTogether
  <2> SUFFICES ASSUME Inv, NEW g \in DOMAIN group
               PROVE  /\ group[g].status = "waiting" /\ ~HasEnded(Source(g)) => WaitsFor(Source(g), g)
                      /\ WaitsFor(Source(g), g) => group[g].status = "waiting"
    BY DEF WaitsTogether
  <2>1. GroupWaits(g) /\ Source(g) \in Created /\ RunWaits(Source(g)) /\ g # 0
    BY RunFacts DEF Inv, State, Records, Waiting
  <2> QED
    BY <2>1 DEF GroupWaits, RunWaits, WaitsFor
<1> QED
  BY <1>1, InitInv, NextInv, PTL DEF Spec

\* In whatever order children end and whoever settles them, an edge says how its child
\* ended and a settled group is what its policy makes of the ends of all its children.
THEOREM OutcomesAreRight == Spec => []OutcomeIsRight
<1>1. Inv => OutcomeIsRight
  BY RightIsRight DEF Inv, State
<1> QED
  BY <1>1, InitInv, NextInv, PTL DEF Spec

\* However pauses, cancellations, resolutions, reconciliations and cascades interleave or stop
\* half way, every fork keeps JoinContract: the join is decided once, when the ends of its
\* branches warrant it, the source waits exactly until then or until it is canceled, and a
\* Run whose join failed ends no other way than by failing or being canceled.
THEOREM JoinImplemented == Spec => ImplementsJoin
BY InitInv, NextInv, InitJoins, NextJoins, PTL DEF Spec, ImplementsJoin, Contract!Spec

\* Forks, joins, cancellations of losers and cascades move a Run only as RunLifecycle lets
\* any Run move, and a branch begins as every Run does.
THEOREM RunsKeepContract ==
  Spec => [][ /\ \A r \in Created : [Life(r)!Next]_(Life(r)!vars)
              /\ \A r \in Created' \ Created : Life(r)!Init' ]_vars
BY InitInv, NextInv, InitSaved, NextLives, PTL DEF Spec, Lives, Begins
=============================================================================
