----------------------------- MODULE MCRunTurns -----------------------------
(***************************************************************************)
(* Instances of RunTurns for model checking.                               *)
(***************************************************************************)
EXTENDS RunTurns, TLC

WorkerSymmetry == Permutations(Workers)

Ok(next)   == [kind |-> "ok", next |-> next, wants |-> FALSE]
Act(next)  == [kind |-> "ok", next |-> next, wants |-> TRUE]
Fail(kind) == [kind |-> kind, next |-> "none", wants |-> FALSE]

ProtocolOutcomes == {Ok("running"), Ok("completed")}
WaitOutcomes     == {Ok("running"), Ok("sleeping"), Act("running")}
FailureOutcomes  == {Ok("running"), Ok("completed"), Fail("error"), Fail("hostDown")}
ActionOutcomes   == {Act("running")}
RetryOutcomes    == {Ok("running"), Fail("hostDown")}

=============================================================================
