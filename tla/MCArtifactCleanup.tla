-------------------------- MODULE MCArtifactCleanup --------------------------
(* ArtifactCleanup on small instances: two workers over one or two tenants. *)
EXTENDS ArtifactCleanup, TLC

CONSTANTS p1, p2, o1, o2

OneOrg == <<o1>>
TwoOrgs == <<o1, o2>>

\* The workers are alike.
WorkerSymmetry == Permutations(Procs)
=============================================================================
