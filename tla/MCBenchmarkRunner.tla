-------------------------- MODULE MCBenchmarkRunner --------------------------
(***************************************************************************)
(* Instances of BenchmarkRunner: r1 and r2 resolve to the same run id.     *)
(***************************************************************************)
EXTENDS BenchmarkRunner

CONSTANT d1

MCTarget == [w \in Runs |-> d1]

=============================================================================
