--------------------------- MODULE MCArtifactStore ---------------------------
(***************************************************************************)
(* Three runs that resolve to the same run id, and so write to the same    *)
(* directory.                                                              *)
(***************************************************************************)
EXTENDS ArtifactStore

CONSTANT d1

MCTarget == [w \in Runs |-> d1]

=============================================================================
