----------------------------- MODULE GuardedPair -----------------------------
(***************************************************************************)
(* The guarded pair lifecycle of one paper trade: a paired open, a paired  *)
(* close, and the chained reduce-only cleanups after either.  A request    *)
(* hands orders to two venues through their adapters, journals the legs,   *)
(* polls accounts and orders for a pair status and, while the status asks  *)
(* for it, cleans the open leg up.                                         *)
(*                                                                         *)
(* The venues run on their own: an order is accepted, refused or lost, and *)
(* matched, whatever the request does meanwhile; answers can be lost; the  *)
(* positions an account shows lag behind; and another process may clean up *)
(* the same trade.  Reservations are those of LiveSubmission.              *)
(***************************************************************************)
EXTENDS Integers, Sequences, FiniteSets

CONSTANTS
    Venue,              \* venues that routes may use
    Size,               \* the confirmed quantity of a leg, in lots
    Attempts,           \* adaptive_retry_attempts
    MarketFallback,     \* forced_cleanup_market_fallback
    MaxSteps,           \* MAX_GUARDED_AUTO_CLEANUP_STEPS
    MaxCalls            \* bound on the close requests and cleanups after the open

ASSUME VenueAssumption == Venue \subseteq {"paradex", "extended", "hyperliquid"}
ASSUME SizeAssumption  == Size \in Nat \ {0} /\ Attempts \in Nat \ {0} /\ MarketFallback \in BOOLEAN
ASSUME BoundAssumption == MaxSteps \in Nat /\ MaxCalls \in Nat

VARIABLES
    pos,                \* the trade's position at a venue
    shown,              \* the position its account shows
    orders,             \* the orders sent to a venue, in order
    first, second,      \* the venues of the trade, in the order of the open
    req,                \* the request that runs, or the last one
    entry,              \* the trade's latest journaled execution
    closes,             \* close requests so far
    others,             \* orders other processes have sent: venue and index
    unclear             \* whether the requests missed something of the venues

route == <<first, second>>
vars == <<pos, shown, orders, route, req, entry, closes, others, unclear>>

-----------------------------------------------------------------------------
(* Orders and legs.                                                        *)

\* sent: handed to the transport; open: at the venue; closed: matched or
\* cancelled (every order is immediate-or-cancel); refused: never at work.
Order == [size : Nat \ {0}, reduce : BOOLEAN, filled : Nat,
          state : {"sent", "open", "closed", "refused"}]

\* ord is the order the external reference of a leg names, 0 for none.
Leg == [venue : Venue, ord : Nat]

FillState == {"open", "filled", "partial_fill", "unfilled", "unknown"}

Route == {first, second}

Kind == {"open", "close", "cleanup"}

Last(v) == Len(orders[v])

\* Mutant: whatever has filled counts as filled.
ClassifyMutant(o) ==
    CASE o.state = "open"                            -> "open"
      [] o.state = "closed" /\ o.filled = 0          -> "unfilled"
      [] o.state = "closed" /\ o.filled > 0          -> "filled"
      [] OTHER                                       -> "unknown"

\* _classify_paradex_order_state, _classify_hyperliquid_order_state
Classify(o) ==
    CASE o.state = "open"                            -> "open"
      [] o.state = "closed" /\ o.filled = 0          -> "unfilled"
      [] o.state = "closed" /\ o.filled = o.size     -> "filled"
      [] o.state = "closed" /\ 0 < o.filled
                            /\ o.filled < o.size     -> "partial_fill"
      [] OTHER                                       -> "unknown"

\* What ExecutionOrderStateService may report of a leg.  Extended lists open
\* orders only, and every failure of an observer is an unknown state.
Observations(l) ==
    LET known == IF l.ord = 0 THEN "unknown" ELSE Classify(orders[l.venue][l.ord])
    IN  {"unknown"} \cup (IF l.venue = "extended" THEN {known} \cap {"open"} ELSE {known})

-----------------------------------------------------------------------------
(* The pair status (build_execution_pair_status): states are those of the  *)
(* entry's legs, held the route's venues that show a position.             *)

Verdict(state, action) == [state |-> state, action |-> action]

\* Mutant: a close or cleanup is over before the positions are looked at.
PairStatusMutant(e, states, held, blocked) ==
    IF "partial_fill" \in states THEN Verdict("cleanup_needed", "manual_review_required")
    ELSE IF blocked THEN Verdict("review_required", "restore_account_read_access")
    ELSE IF "open" \in states THEN Verdict("pending", "wait_for_fill_or_timeout")
    ELSE IF Len(e.legs) >= 2 /\ held = Route THEN Verdict("hedged", "monitor_open_hedge")
    ELSE IF e.kind # "open" THEN Verdict("closed", "no_action")
    ELSE IF held # {} THEN Verdict("cleanup_needed", "complete_or_unwind_missing_leg")
    ELSE Verdict("review_required", "manual_review_required")

\* The order of the tests matters: more than one may hold.
PairStatus(e, states, held, blocked) ==
    IF "partial_fill" \in states THEN Verdict("cleanup_needed", "manual_review_required")
    ELSE IF blocked THEN Verdict("review_required", "restore_account_read_access")
    ELSE IF "open" \in states THEN Verdict("pending", "wait_for_fill_or_timeout")
    ELSE IF Len(e.legs) >= 2 /\ held = Route THEN Verdict("hedged", "monitor_open_hedge")
    ELSE IF held # {}
         THEN IF e.kind = "open" => "unfilled" \in states /\ "filled" \notin states
              THEN Verdict("cleanup_needed", "close_open_leg")
              ELSE Verdict("cleanup_needed", "complete_or_unwind_missing_leg")
    ELSE IF e.kind # "open" THEN Verdict("closed", "no_action")
    ELSE IF "filled" \notin states /\ ("unfilled" \in states \/ states = {})
         THEN Verdict("unfilled", "no_action")
         ELSE Verdict("review_required", "manual_review_required")

Verdicts == [state : {"hedged", "pending", "unfilled", "closed", "cleanup_needed",
                      "review_required", "none"},
             action : {"manual_review_required", "restore_account_read_access",
                       "wait_for_fill_or_timeout", "monitor_open_hedge", "close_open_leg",
                       "complete_or_unwind_missing_leg", "no_action", "none"}]

CleanupAction == {"close_open_leg", "complete_or_unwind_missing_leg"}

NoVerdict == Verdict("none", "none")
NoEntry   == [kind |-> "none", legs |-> <<>>]

PC == {"idle", "send", "answer", "observe", "journal", "accounts", "orders", "decide",
       "done", "failed"}

Request == [pc : PC, kind : Kind, todo : Seq(Venue), size : [Venue -> Int], attempt : 1..Attempts,
            market : BOOLEAN, legs : Seq(Leg), then : {"answer", "close", "reused"},
            step : 0..MaxSteps, held : SUBSET Venue, blocked : BOOLEAN,
            states : SUBSET FillState, verdict : Verdicts]

\* todo lists the legs still to submit; size the quantity of each one.
Idle == [pc |-> "idle", kind |-> "open", todo |-> <<>>, size |-> [v \in Venue |-> 0],
         attempt |-> 1, market |-> FALSE, legs |-> <<>>, then |-> "answer", step |-> 0,
         held |-> {}, blocked |-> FALSE, states |-> {}, verdict |-> NoVerdict]

Failed == [Idle EXCEPT !.pc = "failed"]

Init ==
    /\ pos = [v \in Venue |-> 0]
    /\ shown = [v \in Venue |-> 0]
    /\ orders = [v \in Venue |-> <<>>]
    /\ first \in Venue /\ second \in Venue \ {first}
    /\ req = Idle
    /\ entry = NoEntry
    /\ closes = 0
    /\ others = {}
    /\ unclear = FALSE

-----------------------------------------------------------------------------
(* The venues.                                                             *)

NewOrder(size, reduce) == [size |-> size, reduce |-> reduce, filled |-> 0, state |-> "sent"]

SetState(v, i, state) == orders' = [orders EXCEPT ![v][i].state = state]

Settle(v, i, from, to) ==
    /\ orders[v][i].state = from
    /\ SetState(v, i, to)
    /\ UNCHANGED <<pos, shown, route, req, entry, closes, others, unclear>>

Accept(v, i) == Settle(v, i, "sent", "open")
Refuse(v, i) == Settle(v, i, "sent", "refused")

\* A reduce-only order fills what there is to close at most.
Match(v, i) ==
    /\ orders[v][i].state = "open"
    /\ \E f \in 0..orders[v][i].size :
          /\ orders[v][i].reduce => f <= pos[v]
          /\ orders' = [orders EXCEPT ![v][i].state = "closed", ![v][i].filled = f]
          /\ pos' = [pos EXCEPT ![v] = IF orders[v][i].reduce THEN @ - f ELSE @ + f]
    /\ UNCHANGED <<shown, route, req, entry, closes, others, unclear>>

Show(v) ==
    /\ shown[v] # pos[v]
    /\ shown' = [shown EXCEPT ![v] = pos[v]]
    /\ UNCHANGED <<pos, orders, route, req, entry, closes, others, unclear>>

Calls == closes + Cardinality(others)

\* Another request, or the worker, cleans up or closes a leg of the trade.
OtherSends(v) ==
    /\ Calls < MaxCalls
    /\ entry.kind # "none"
    /\ shown[v] > 0
    /\ orders' = [orders EXCEPT ![v] = Append(@, NewOrder(shown[v], TRUE))]
    /\ others' = others \cup {[venue |-> v, ord |-> Last(v) + 1]}
    /\ UNCHANGED <<pos, shown, route, req, entry, closes, unclear>>

-----------------------------------------------------------------------------
(* A leg is submitted by the adapter of its venue.                         *)

Stay == UNCHANGED <<pos, shown, route, entry, closes, others, unclear>>

Coordinated == req.kind \in {"open", "close"}
Leg1 == Head(req.todo)

\* Mutant: a first leg that was submitted is good enough for an open.
LegDoneMutant(ord, submitted, seen) ==
    LET left == IF submitted THEN Tail(req.todo) ELSE <<>>
    IN  req' = [req EXCEPT !.legs = Append(@, [venue |-> Leg1, ord |-> ord]),
                           !.todo = left,
                           !.pc = IF left = <<>> THEN "journal" ELSE "send",
                           !.attempt = 1, !.market = FALSE]

\* The coordinators stop, or go on with the second leg, after a leg: an open
\* once the first leg is seen filled, a close once it is submitted.
LegDone(ord, submitted, seen) ==
    LET goOn == submitted /\ (req.kind = "open" => seen = "filled")
        left == IF goOn THEN Tail(req.todo) ELSE <<>>
    IN  req' = [req EXCEPT !.legs = Append(@, [venue |-> Leg1, ord |-> ord]),
                           !.todo = left,
                           !.pc = IF left = <<>> THEN "journal" ELSE "send",
                           !.attempt = 1, !.market = FALSE]

\* A coordinator turns an error into a rejected leg without a reference; a
\* cleanup request fails.
LegFails ==
    IF Coordinated THEN LegDone(0, FALSE, "unknown")
                   ELSE req' = Failed

\* Validation, the price of a further attempt, credentials or a market read
\* fail before the order leaves the process.
PreparationFails ==
    /\ req.pc = "send"
    /\ LegFails
    /\ UNCHANGED orders /\ Stay

Submit ==
    /\ req.pc = "send"
    /\ orders' = [orders EXCEPT ![Leg1] =
                     Append(@, NewOrder(req.size[Leg1], req.kind # "open"))]
    /\ req' = [req EXCEPT !.pc = "answer"]
    /\ Stay

\* The order this request has sent last: another process may have added more.
Mine == CHOOSE i \in DOMAIN orders[Leg1] :
            /\ [venue |-> Leg1, ord |-> i] \notin others
            /\ \A j \in DOMAIN orders[Leg1] : j > i => [venue |-> Leg1, ord |-> j] \in others

\* The venue takes the order.  Paradex orders are then observed; Hyperliquid
\* may answer without an order id.
AnswerAccepted ==
    /\ req.pc = "answer"
    /\ orders[Leg1][Mine].state \in {"open", "closed"}
    /\ \/ Leg1 = "paradex" /\ req' = [req EXCEPT !.pc = "observe"]
       \/ Leg1 # "paradex" /\ LegDone(Mine, TRUE, "unknown")
    /\ UNCHANGED orders /\ Stay

AnswerWithoutId ==
    /\ req.pc = "answer"
    /\ Leg1 = "hyperliquid"
    /\ orders[Leg1][Mine].state \in {"open", "closed"}
    /\ LegDone(0, TRUE, "unknown")
    /\ unclear' = TRUE
    /\ UNCHANGED <<pos, shown, orders, route, entry, closes, others>>

AnswerRefused ==
    /\ req.pc = "answer"
    /\ orders[Leg1][Mine].state = "refused"
    /\ LegDone(IF Leg1 = "hyperliquid" THEN 0 ELSE Mine, FALSE, "unknown")
    /\ UNCHANGED orders /\ Stay

\* Mutant: the order of a lost answer is taken for unfilled and sent again.
AnswerLostMutant ==
    /\ req.pc = "answer"
    /\ \/ /\ Leg1 = "paradex" /\ req.attempt < Attempts
          /\ req' = [req EXCEPT !.pc = "send", !.attempt = @ + 1]
       \/ LegFails
    /\ unclear' = TRUE
    /\ UNCHANGED <<pos, shown, orders, route, entry, closes, others>>

\* The answer is lost or is not one of the venue, whatever became of the
\* order: Paradex and Extended may report the leg rejected under its client id,
\* and every adapter may raise.
AnswerLost ==
    /\ req.pc = "answer"
    /\ \/ Leg1 # "hyperliquid" /\ LegDone(Mine, FALSE, "unknown")
       \/ LegFails
    /\ unclear' = TRUE
    /\ UNCHANGED <<pos, shown, orders, route, entry, closes, others>>

\* Mutant: one attempt too many.
ObserveSubmittedLegMutant ==
    /\ req.pc = "observe"
    /\ LET seen == Classify(orders[Leg1][Mine])
       IN  \/ /\ seen = "unfilled" /\ req.attempt <= Attempts
              /\ req' = [req EXCEPT !.pc = "send", !.attempt = @ + 1]
           \/ /\ seen # "unfilled" \/ req.attempt > Attempts
              /\ LegDone(Mine, TRUE, seen)
    /\ UNCHANGED orders /\ Stay

\* _observe_submitted_leg polls while the order is open; what the last poll
\* sees decides: an unfilled order is sent again, at last as a market order.
ObserveSubmittedLeg ==
    /\ req.pc = "observe"
    /\ LET seen == Classify(orders[Leg1][Mine])
       IN  \/ /\ seen = "unfilled" /\ ~req.market /\ req.attempt < Attempts
              /\ req' = [req EXCEPT !.pc = "send", !.attempt = @ + 1]
           \/ /\ seen = "unfilled" /\ ~req.market /\ req.attempt = Attempts
              /\ req.kind # "open" /\ MarketFallback
              /\ req' = [req EXCEPT !.pc = "send", !.market = TRUE]
           \/ /\ \/ seen # "unfilled"
                 \/ req.market
                 \/ req.attempt = Attempts /\ (req.kind = "open" \/ ~MarketFallback)
              /\ LegDone(Mine, TRUE, seen)
    /\ UNCHANGED orders /\ Stay

\* An error of the observer escapes the adapter.
ObservationFails ==
    /\ req.pc = "observe"
    /\ LegFails
    /\ unclear' = TRUE
    /\ UNCHANGED <<pos, shown, orders, route, entry, closes, others>>

-----------------------------------------------------------------------------
(* The journal and the pair status.                                        *)

Journal ==
    /\ req.pc = "journal"
    /\ entry' = [kind |-> req.kind, legs |-> req.legs]
    /\ req' = [Idle EXCEPT !.pc = "accounts", !.step = req.step]
    /\ UNCHANGED <<pos, shown, orders, route, closes, others, unclear>>

\* The accounts are read before the orders.
ReadAccounts ==
    /\ req.pc = "accounts"
    /\ \E blocked \in BOOLEAN :
          req' = [req EXCEPT !.pc = "orders", !.blocked = blocked,
                             !.held = {v \in Route : shown[v] > 0}]
    /\ unclear' = (unclear \/ \E v \in Route : pos[v] > 0 /\ shown[v] = 0)
    /\ UNCHANGED <<pos, shown, orders, route, entry, closes, others>>

ReadOrders ==
    /\ req.pc = "orders"
    /\ \E seen \in [DOMAIN entry.legs -> FillState] :
          /\ \A i \in DOMAIN entry.legs : seen[i] \in Observations(entry.legs[i])
          /\ LET states == {seen[i] : i \in DOMAIN entry.legs}
             IN  req' = [req EXCEPT !.pc = "decide", !.states = states,
                                    !.verdict = PairStatus(entry, states, req.held, req.blocked)]
          /\ unclear' = (unclear \/ \E i \in DOMAIN entry.legs :
                                        seen[i] = "unknown" /\ Observations(entry.legs[i]) # {"unknown"})
    /\ UNCHANGED <<pos, shown, orders, route, entry, closes, others>>

\* closed and pending keep polling, the others end it.
PollAgain ==
    /\ req.pc = "decide"
    /\ req.then # "close"
    /\ req.verdict.state \in {"closed", "pending"}
    /\ req' = [req EXCEPT !.pc = "accounts", !.held = {}, !.blocked = FALSE, !.states = {},
                          !.verdict = NoVerdict]
    /\ UNCHANGED orders /\ Stay

\* Every poll times out, or one raises.
PollFails ==
    /\ req.pc \in {"accounts", "orders"}
    /\ req' = Failed
    /\ UNCHANGED orders /\ Stay

-----------------------------------------------------------------------------
(* Chained cleanup (_run_guarded_auto_cleanup_sequence).                   *)

\* select_cleanup_preview_venue: the entry's legs with a position
CleanupVenues == {entry.legs[i].venue : i \in DOMAIN entry.legs} \cap req.held

MayCleanUp == req.then = "answer" /\ req.verdict.action \in CleanupAction

Answer ==
    /\ req.pc = "decide"
    /\ req.then # "close"
    /\ \/ ~MayCleanUp
       \/ req.step = MaxSteps
       \/ req.step = 0            \* auto_cleanup is off
    /\ req' = [Idle EXCEPT !.pc = "done", !.verdict = req.verdict]
    /\ UNCHANGED orders /\ Stay

\* The preview's quantity is the position the venue shows by now.
StartCleanup ==
    /\ req.pc = "decide"
    /\ MayCleanUp
    /\ req.step < MaxSteps
    /\ \E v \in Route :
          /\ CleanupVenues = {v}
          /\ shown[v] > 0
          /\ req' = [Idle EXCEPT !.pc = "send", !.kind = "cleanup", !.todo = <<v>>,
                                 !.size[v] = shown[v], !.step = req.step + 1]
    /\ UNCHANGED orders /\ Stay

\* The preview has been executed by another process: its execution is
\* observed and reported.
ReuseCleanup ==
    /\ req.pc = "decide"
    /\ MayCleanUp
    /\ req.step < MaxSteps
    /\ \E l \in others :
          /\ CleanupVenues = {l.venue}
          /\ entry' = [kind |-> "cleanup", legs |-> <<l>>]
          /\ req' = [Idle EXCEPT !.pc = "accounts", !.then = "reused"]
    /\ UNCHANGED <<pos, shown, orders, route, closes, others, unclear>>

\* No single venue to clean up, an account that is not ready, a book or a
\* position that cannot be read, a preview reserved by another request.
CleanupFails ==
    /\ req.pc = "decide"
    /\ MayCleanUp
    /\ req.step < MaxSteps
    /\ req' = Failed
    /\ UNCHANGED orders /\ Stay

-----------------------------------------------------------------------------
(* Requests.                                                               *)

StartOpen ==
    /\ req.pc = "idle"
    /\ req' = [Idle EXCEPT !.pc = "send", !.todo = <<first, second>>,
                           !.size = [v \in Venue |-> Size]]
    /\ UNCHANGED orders /\ Stay

\* A close builds its preview from a new status of the latest execution.
StartClose ==
    /\ req.pc \in {"done", "failed"}
    /\ entry.kind # "none"
    /\ Calls < MaxCalls
    /\ closes' = closes + 1
    /\ req' = [Idle EXCEPT !.pc = "accounts", !.then = "close"]
    /\ UNCHANGED <<pos, shown, orders, route, entry, others, unclear>>

\* paradex, then extended, then hyperliquid
Rank(v) == CASE v = "paradex" -> 0 [] v = "extended" -> 1 [] OTHER -> 2

SubmitClose ==
    /\ req.pc = "decide"
    /\ req.then = "close"
    /\ req.verdict.state = "hedged"
    /\ \A v \in Route : shown[v] > 0
    /\ {entry.legs[i].venue : i \in DOMAIN entry.legs} = Route
    /\ \E v, w \in Route :
          /\ Rank(v) < Rank(w)
          /\ req' = [Idle EXCEPT !.pc = "send", !.kind = "close", !.todo = <<v, w>>, !.size = shown]
    /\ UNCHANGED orders /\ Stay

RefuseClose ==
    /\ req.pc = "decide"
    /\ req.then = "close"
    /\ req' = Failed
    /\ UNCHANGED orders /\ Stay

\* The process dies.
Crash ==
    /\ req.pc \notin {"idle", "done", "failed"}
    /\ req' = Failed
    /\ UNCHANGED orders /\ Stay

VenueStep(v) ==
    \/ \E i \in DOMAIN orders[v] : Accept(v, i) \/ Refuse(v, i) \/ Match(v, i)
    \/ Show(v)
    \/ OtherSends(v)

RequestStep ==
    \/ StartOpen \/ StartClose \/ SubmitClose \/ RefuseClose
    \/ PreparationFails \/ Submit \/ AnswerAccepted \/ AnswerWithoutId \/ AnswerRefused \/ AnswerLost
    \/ ObserveSubmittedLeg \/ ObservationFails \/ Journal \/ ReadAccounts \/ ReadOrders
    \/ PollAgain \/ PollFails \/ Answer \/ StartCleanup \/ ReuseCleanup \/ CleanupFails
    \/ Crash

Next == RequestStep \/ \E v \in Route : VenueStep(v)

Spec == Init /\ [][Next]_vars

-----------------------------------------------------------------------------
(* Properties.                                                             *)

\* Types of the venues, the request and the journal.
TypeOK ==
    /\ pos \in [Venue -> Int] /\ shown \in [Venue -> Int]
    /\ orders \in [Venue -> Seq(Order)]
    /\ first \in Venue /\ second \in Venue \ {first}
    /\ req \in Request
    /\ entry \in [kind : Kind \cup {"none"}, legs : Seq(Leg)]
    /\ closes \in Nat
    /\ others \subseteq Leg
    /\ unclear \in BOOLEAN

Opens(v)       == {i \in DOMAIN orders[v] : ~orders[v][i].reduce}
Filled(v, i)   == orders[v][i].state = "closed" /\ orders[v][i].filled = orders[v][i].size
Unfilled(v, i) == orders[v][i].state = "closed" /\ orders[v][i].filled = 0
Answered       == req.pc = "done"

\* The second leg of an open is sent only once an order of the first leg has
\* filled in full, through retries, lost answers and late fills
\* (PairedLiveExecutionCoordinator.submit_confirmed_preview).
SecondLegAfterFilledFirst ==
    Opens(second) # {} => \E i \in Opens(first) : Filled(first, i)

\* A leg is sent again only when nothing of it has filled or can still fill:
\* the fills of a leg never add up to more than was confirmed
\* (_submit_adaptive_confirmed_preview).
OneOrderPerLegMayFill ==
    \A v \in Venue : \A i, j \in Opens(v) : i < j => Unfilled(v, i)

\* A status that asks for no action means that nothing is held and nothing
\* will be, if no answer was lost and no account or order was read late: fills
\* between the reads, cleanups in a chain and other processes do not matter.
LearnedNoActionMeansFlat ==
    Answered /\ req.verdict.action = "no_action" /\ ~unclear => \A v \in Route : pos[v] = 0

\* An open reported as hedged holds both legs in full, unless its second leg
\* is on Extended, whose orders cannot be observed once they are closed.
HedgedMeansBothFilled ==
    Answered /\ req.verdict.state = "hedged" /\ entry.kind = "open" /\ others = {}
             /\ ~unclear /\ second # "extended"
        => \A v \in Route : pos[v] = Size
=============================================================================
