--------------------------- MODULE MCStableLaunch ---------------------------
(***************************************************************************)
(* Instances of StableLaunch for TLC.                                      *)
(***************************************************************************)
EXTENDS StableLaunch, TLC

CONSTANTS w1, w2, s1, s2, s3, l1, l2, u1, u2, u3

Symmetry == Permutations(Worker) \cup Permutations(Owner)

\* The first two snapshots are of one route.
MCLabelOf  == [s \in Snapshot |-> IF s = s3 THEN l2 ELSE l1]
MCNotional == [s \in Snapshot |-> IF s = s3 THEN 3 ELSE 1]

\* A cooldown that is not configured.
NoCooldown == -100
=============================================================================
