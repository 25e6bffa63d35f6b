--------------------------- MODULE SubmissionOnce ---------------------------
(***************************************************************************)
(* What the reservations promise of a confirmed preview, whoever asks for  *)
(* it and however the requests fail: one request claims it at a time, only *)
(* the request that claims it sends it, a claim is given up only while     *)
(* nothing has been sent, and a preview that has been sent is claimed for  *)
(* good.                                                                   *)
(***************************************************************************)
CONSTANTS Preview, Caller

VARIABLES claimants, submitters

once == <<claimants, submitters>>

OnceInit ==
    /\ claimants = [p \in Preview |-> {}]
    /\ submitters = [p \in Preview |-> {}]

Claim(p, c) ==
    /\ claimants[p] = {}
    /\ claimants' = [claimants EXCEPT ![p] = {c}]
    /\ UNCHANGED submitters

Submit(p, c) ==
    /\ claimants[p] = {c}
    /\ submitters[p] = {}
    /\ submitters' = [submitters EXCEPT ![p] = {c}]
    /\ UNCHANGED claimants

GiveUp(p, c) ==
    /\ claimants[p] = {c}
    /\ submitters[p] = {}
    /\ claimants' = [claimants EXCEPT ![p] = {}]
    /\ UNCHANGED submitters

OnceNext ==
    \E p \in Preview, c \in Caller : Claim(p, c) \/ Submit(p, c) \/ GiveUp(p, c)

OnceSpec == OnceInit /\ [][OnceNext]_once
=============================================================================
