---------------------------- MODULE CanaryBasket ----------------------------
(***************************************************************************)
(* A basket of approved canary routes and the guarded lifecycle of each:   *)
(* one request scans the candidates, shares a target notional among the    *)
(* approved ones, and opens and closes them one after the other, while the *)
(* operator changes approvals.  A record of the basket is stored at its    *)
(* end.  The four other canary-cycle endpoints and the stable launch run   *)
(* the same lifecycle.                                                     *)
(*                                                                         *)
(* What an open or a close does at the venues is GuardedPair's and what    *)
(* reserves it LiveSubmission's; here it leaves an exposure and may raise. *)
(* Two baskets share nothing but the approvals that they read.             *)
(***************************************************************************)
EXTENDS Integers, Sequences, SequencesExt

CONSTANTS
    Routes,
    None,           \* no approval, no outcome, no record
    Caps,           \* max_live_notional of an approval
    Sizes,          \* suggested_canary_notional
    Target,         \* target_notional of the basket
    Unresolved      \* routes whose live execution services cannot be built

Least(a, b) == IF a < b THEN a ELSE b

ASSUME BasketAssumption ==
    /\ Caps \subseteq Nat \ {0} /\ Sizes \subseteq Nat \ {0} /\ Target \in Nat
    /\ None \notin Caps /\ None \notin {"completed", "failed"}
    /\ IsFiniteSet(Routes) /\ Unresolved \subseteq Routes

VARIABLES
    approval,       \* the cap of a route that is approved
    pc,             \* of the request
    options,        \* continue_on_failure, close_position
    plan,           \* candidates, then the basket's entries
    trades,         \* one for each route that was begun
    record          \* the stored CanaryBasketLaunchResult

request == <<pc, options, plan, trades, record>>
vars    == <<approval, request>>

Option    == [continues : BOOLEAN, closes : BOOLEAN]
Candidate == [route : Routes, notional : Nat \ {0}]
Exposure  == {"none", "flat", "hedged", "partial"}
Phase     == {"approve", "prepare", "open", "opened", "close", "closed", "over"}

\* Of a trade: what the lifecycle is about to do, what it left at the venues, its
\* outcome in the basket, and whether its route was approved since it was begun.
Trade  == [phase : Phase, exposure : Exposure, outcome : {None, "completed", "failed"},
           approved : BOOLEAN]
Record == [status : {"completed", "completed_with_failures"},
           routes : Seq({"completed", "failed"})]

TypeOK ==
    /\ approval \in [Routes -> Caps \cup {None}]
    /\ pc \in {"idle", "scanned", "running", "stored", "raised", "dead"}
    /\ options \in Option
    /\ plan \in Seq(Candidate)
    /\ trades \in Seq(Trade) /\ Len(trades) <= Len(plan)
    /\ \A i \in DOMAIN trades : (trades[i].phase = "over") <=> trades[i].outcome # None
    /\ record \in Record \cup {None}

Init ==
    /\ approval \in [Routes -> Caps \cup {None}]
    /\ pc = "idle" /\ options \in Option
    /\ plan = <<>> /\ trades = <<>> /\ record = None

-----------------------------------------------------------------------------
(* The plan.                                                               *)

\* Ranked candidates, each with the notional that the scan suggests.
Scans == {s \in UNION {[1..n -> Routes \X Sizes] : n \in 0..Cardinality(Routes)} :
             \A i, j \in DOMAIN s : i # j => s[i][1] # s[j][1]}

\* A candidate that is approved is kept, within its cap.
Keep(candidates, c) ==
    IF approval[c[1]] = None THEN candidates
    ELSE Append(candidates, [route |-> c[1], notional |-> Least(c[2], approval[c[1]])])

\* filter_approved_canary_candidates
Capped(scan) == FoldLeft(Keep, <<>>, scan)

Scan ==
    /\ pc = "idle"
    /\ \E scan \in Scans : plan' = Capped(scan)
    /\ pc' = "scanned"
    /\ UNCHANGED <<approval, options, trades, record>>

Allocated(entries) == FoldLeft(LAMBDA total, e : total + e.notional, 0, entries)

\* Mutant: what is left of the target does not shrink.
AddMutant(entries, c) ==
    IF approval[c.route] = None THEN entries
    ELSE Append(entries, [c EXCEPT !.notional = Least(@, Target)])

\* The approval is read again.
Add(entries, c) ==
    IF approval[c.route] = None \/ Allocated(entries) >= Target THEN entries
    ELSE Append(entries, [c EXCEPT !.notional = Least(@, Target - Allocated(entries))])

\* build_approved_canary_basket_plan; an empty plan is a 404.
Allocate ==
    /\ pc = "scanned"
    /\ plan' = FoldLeft(Add, <<>>, plan)
    /\ pc' = IF plan' = <<>> THEN "raised" ELSE "running"
    /\ UNCHANGED <<approval, options, trades, record>>

-----------------------------------------------------------------------------
(* The loop over the routes.                                               *)

Now       == Len(trades)
Current   == trades[Now]
Doing     == IF trades = <<>> THEN "over" ELSE Current.phase
At(phase) == pc = "running" /\ Doing = phase
Allows(e) == approval[e.route] # None /\ e.notional <= approval[e.route]

\* Mutant: any failure lets the loop go on.
StopsMutant == FALSE

\* A failed route ends the loop, unless continue_on_failure.
Stops == trades # <<>> /\ Current.outcome = "failed" /\ ~options.continues

\* The paper trade is appended once the services are there.
BeginRoute ==
    /\ At("over") /\ Now < Len(plan) /\ ~Stops
    /\ plan[Now + 1].route \notin Unresolved
    /\ trades' = Append(trades, [phase |-> "approve", exposure |-> "none", outcome |-> None,
                                 approved |-> Allows(plan[Now + 1])])
    /\ UNCHANGED <<approval, pc, options, plan, record>>

\* They cannot be built, which is not one of the exceptions the loop handles.
RouteUnresolved ==
    /\ At("over") /\ Now < Len(plan) /\ ~Stops
    /\ plan[Now + 1].route \in Unresolved
    /\ pc' = "raised"
    /\ UNCHANGED <<approval, options, plan, trades, record>>

StoreRecord ==
    /\ At("over") /\ (Now = Len(plan) \/ Stops)
    /\ LET routes == [i \in DOMAIN trades |-> trades[i].outcome]
       IN  record' = [status |-> IF \E i \in DOMAIN routes : routes[i] = "failed"
                                 THEN "completed_with_failures" ELSE "completed",
                      routes |-> routes]
    /\ pc' = "stored"
    /\ UNCHANGED <<approval, options, plan, trades>>

\* The process stops or the request is cancelled.
Dies ==
    /\ pc \in {"scanned", "running"}
    /\ pc' = "dead"
    /\ UNCHANGED <<approval, options, plan, trades, record>>

-----------------------------------------------------------------------------
(* The guarded lifecycle of one route.                                     *)

\* Mutant: a route that is over keeps the outcome that it had.
GoesMutant(phase, exposure) ==
    /\ trades' = [trades EXCEPT ![Now].phase = phase, ![Now].exposure = exposure]
    /\ UNCHANGED <<approval, pc, options, plan, record>>

Goes(phase, exposure) ==
    /\ trades' = [trades EXCEPT ![Now].phase = phase, ![Now].exposure = exposure,
                    ![Now].outcome = IF phase = "over" THEN "completed" ELSE None]
    /\ UNCHANGED <<approval, pc, options, plan, record>>

Raises(exposure) ==
    /\ trades' = [trades EXCEPT ![Now].phase = "over", ![Now].exposure = exposure,
                                ![Now].outcome = "failed"]
    /\ UNCHANGED <<approval, pc, options, plan, record>>

\* Mutant: the approval in the plan is taken for granted.
RequireApprovalMutant ==
    At("approve") /\ Goes("prepare", "none")

\* require_live_approval; an edge that turned negative refuses the paper trade.
RequireApproval ==
    /\ At("approve")
    /\ \/ Allows(plan[Now]) /\ Goes("prepare", "none")
       \/ Raises("none")

\* Balances before, preview and confirmation, readiness.
Prepare ==
    At("prepare") /\ (Goes("open", "none") \/ Raises("none"))

\* With the polls of its status and the chained cleanup; it may be refused
\* before an order is sent, or raise after one was.
Open ==
    /\ At("open")
    /\ \/ \E exposure \in Exposure \ {"none"} : Goes("opened", exposure)
       \/ \E exposure \in Exposure : Raises(exposure)

AfterOpen ==
    IF options.closes /\ Current.exposure = "hedged" THEN "close" ELSE "over"

\* Balances after the open.
Opened ==
    At("opened") /\ (Goes(AfterOpen, Current.exposure) \/ Raises(Current.exposure))

Close ==
    /\ At("close")
    /\ \E exposure \in Exposure \ {"none"} : Goes("closed", exposure) \/ Raises(exposure)

\* Balances after the close.
Closed ==
    At("closed") /\ (Goes("over", Current.exposure) \/ Raises(Current.exposure))

-----------------------------------------------------------------------------
\* A route is approved, gets another cap, or is disabled.
UpsertApproval ==
    \E r \in Routes, cap \in Caps \cup {None} :
       /\ approval' = [approval EXCEPT ![r] = cap]
       /\ trades' = [i \in DOMAIN trades |->
                       [trades[i] EXCEPT !.approved = @ \/ (i = Now /\ plan[i].route = r
                            /\ trades[i].phase # "over" /\ cap # None /\ plan[i].notional <= cap)]]
       /\ UNCHANGED <<pc, options, plan, record>>

Lifecycle == RequireApproval \/ Prepare \/ Open \/ Opened \/ Close \/ Closed

Next ==
    \/ Scan \/ Allocate \/ BeginRoute \/ RouteUnresolved \/ StoreRecord \/ Dies
    \/ Lifecycle \/ UpsertApproval

Spec == Init /\ [][Next]_vars

-----------------------------------------------------------------------------
(* Properties.                                                             *)

Sent == {i \in DOMAIN trades : trades[i].exposure # "none"}

\* However approvals change and routes fail, what a basket sends stays within
\* its target, and is no route twice: a failed route's share is not handed out
\* again, since it may be open (build_approved_canary_basket_plan).
TargetIsShared ==
    /\ Allocated([i \in DOMAIN trades |-> [plan[i] EXCEPT
                    !.notional = IF i \in Sent THEN @ ELSE 0]]) <= Target
    /\ \A i, j \in Sent : i # j => plan[i].route # plan[j].route

\* A basket is planned at once and launched over minutes: a route that was
\* disabled, or its cap lowered, in the meantime is not opened with the
\* approval of the plan (_run_guarded_canary_lifecycle).
ApprovedWhenReached == \A i \in Sent : trades[i].approved

\* Unless told to continue, the loop sends nothing after a route failed, whose
\* order may have been sent (_execute_approved_canary_basket_plan).
NothingAfterFailure ==
    ~options.continues =>
        \A i \in DOMAIN trades : trades[i].outcome = "failed" => i = Now

\* "Launch one approved basket sequentially and persist the aggregated result":
\* a basket that sent an order is stored with all its routes, unless its process
\* died.
SentBasketIsStored ==
    pc \in {"raised", "stored"} /\ Sent # {} =>
        record # None /\ Len(record.routes) = Len(trades)
=============================================================================
