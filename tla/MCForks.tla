------------------------------ MODULE MCForks ------------------------------
(* Instances of Forks for TLC.                                             *)
EXTENDS Forks
=============================================================================
