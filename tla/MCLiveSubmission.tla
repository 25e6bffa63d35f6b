-------------------------- MODULE MCLiveSubmission --------------------------
(***************************************************************************)
(* Instances of LiveSubmission for TLC.                                    *)
(***************************************************************************)
EXTENDS LiveSubmission, TLC

CONSTANTS r1, r2, r3, r4, o1, x1, k1, k2, k3

Symmetry == Permutations(Request)

\* o1 opens, x1 closes, and k1, k2, k3 are cleanups on the three venues.
MCKindOf  == [h \in Hash |-> CASE h = o1 -> "open" [] h = x1 -> "close" [] OTHER -> "cleanup"]
MCVenueOf == [h \in Hash |-> CASE h = k2 -> "paradex" [] h = k3 -> "extended" [] OTHER -> "hyperliquid"]
=============================================================================
