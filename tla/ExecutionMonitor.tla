-------------------------- MODULE ExecutionMonitor --------------------------
(***************************************************************************)
(* The worker's execution monitor (observe_live_executions_once): a cycle  *)
(* lists the live executions, reads the pair status of each one, stores an *)
(* observation and the alert of its transition in one transaction, takes   *)
(* balance checkpoints, and cleans a partial fill up or closes a hedge     *)
(* that has run its course.                                                *)
(*                                                                         *)
(* API requests execute, poll and observe the same trades meanwhile, other *)
(* steps publish approved snapshots, and positions change on the venues.   *)
(* Of the tables of observations, alerts and checkpoints the code reads    *)
(* the latest row of a trade only, and only that row is kept here.         *)
(***************************************************************************)
EXTENDS Integers, Sequences, FiniteSets

CONSTANTS
    Trade,              \* paper trades
    None,               \* no row
    Mode,               \* "off", "shadow" or "enabled": execution_auto_pair_close_*
    Limit,              \* execution_observation_limit
    MaxAge,             \* execution_observation_max_age_seconds
    MaxHold,            \* execution_auto_pair_close_max_hold_windows
    MaxTime,            \* bound on the clock, in funding windows
    MaxEntries          \* bound on the executions of a trade

ASSUME SettingsAssumption ==
    /\ Mode \in {"off", "shadow", "enabled"}
    /\ Limit \in Nat \ {0} /\ MaxAge \in Nat /\ MaxHold \in Nat \ {0}
ASSUME BoundAssumption == MaxTime \in Nat /\ MaxEntries \in Nat

VARIABLES
    clock,
    journal,            \* trade -> its executions, oldest first
    held,               \* trade -> legs with a position, 0 to 2
    seen,               \* trade -> its latest observation
    alert,              \* trade -> its latest alert
    check,              \* trade -> its latest funding checkpoint
    approved,           \* trade -> whether its label's latest snapshot is of its route
    cycle               \* the worker's cycle

world == <<clock, journal, held, approved>>
vars  == <<world, seen, alert, check, cycle>>

-----------------------------------------------------------------------------
(* Statuses, with the state and the exposure they stand for.               *)

\* partial: a leg has a partial fill; naked: one leg is missing; blocked: an
\* account cannot be read; review: filled legs, no positions; flat: no action.
Status == {"hedged", "partial", "naked", "blocked", "review", "flat"}

State(s) ==
    CASE s \in {"partial", "naked"}  -> "cleanup_needed"
      [] s \in {"blocked", "review"} -> "review_required"
      [] OTHER                       -> s

AlertType == {"cleanup_needed", "review_required"}

\* review_required_pair_requires_continued_monitoring, and the states that
\* _execution_requires_continued_monitoring keeps
RequiresMonitoring(o) == o = None \/ o.status \notin {"flat", "review"}

Execution   == [kind : {"open", "close", "cleanup"}, at : Nat, active : BOOLEAN, partial : BOOLEAN]
Observation == [entry : Nat \ {0}, at : Nat, status : Status]
Alert       == [entry : Nat \ {0}, at : Nat, type : AlertType]
Checkpoint  == [index : Nat, rows : 1..2]

ASSUME NoneAssumption == None \notin Observation \cup Checkpoint

\* What a reading of an execution finds when the accounts can be read.
ByPositions(x, legs) ==
    IF legs = 2 /\ x.kind # "cleanup" THEN {"hedged"}
    ELSE IF legs > 0 THEN {"naked"}
    ELSE IF x.kind = "open" THEN {"review", "flat"} ELSE {"flat"}

\* An order state that cannot be read hides a partial fill.
Readable(t, e) ==
    LET x == journal[t][e]
    IN  ByPositions(x, held[t]) \cup (IF x.partial THEN {"partial"} ELSE {})

Entries(t) == DOMAIN journal[t]

\* list_recent_active_live, the newest execution of a trade; 0 if none
LatestActive(t) ==
    LET active == {e \in Entries(t) : journal[t][e].active}
    IN  IF active = {} THEN 0 ELSE CHOOSE e \in active : \A f \in active : f <= e

-----------------------------------------------------------------------------
Idle == [pc |-> "idle", now |-> 0, todo |-> {}, trade |-> None, entry |-> 0, prev |-> None,
         status |-> "flat", legs |-> 0]

\* Where the cycle stands; entry, prev, status, legs: the execution it looks
\* at, the observation read before the probe, what the probe found, and the
\* venues still to clean up.
Cycle == [pc : {"idle", "next", "probe", "append", "checkpoint", "second_row", "auto",
                "clean", "clean_poll", "closing"},
          now : Nat, todo : SUBSET (Trade \X Nat), trade : Trade \cup {None}, entry : Nat,
          prev : Observation \cup {None}, status : Status, legs : 0..2]

TypeOK ==
    /\ clock \in Nat
    /\ journal \in [Trade -> Seq(Execution)]
    /\ held \in [Trade -> 0..2]
    /\ seen \in [Trade -> Observation \cup {None}]
    /\ alert \in [Trade -> Alert \cup {None}]
    /\ check \in [Trade -> Checkpoint \cup {None}]
    /\ approved \in [Trade -> BOOLEAN]
    /\ cycle \in Cycle

\* The trades have just been opened.
Init ==
    /\ clock = 0
    /\ \E partial \in [Trade -> BOOLEAN] :
          /\ journal = [t \in Trade |-> <<[kind |-> "open", at |-> 0, active |-> TRUE,
                                           partial |-> partial[t]]>>]
          /\ held \in [Trade -> 0..2]
          /\ \A t \in Trade : partial[t] => held[t] > 0
    /\ seen = [t \in Trade |-> None]
    /\ alert = [t \in Trade |-> None]
    /\ check = [t \in Trade |-> None]
    /\ approved = [t \in Trade |-> FALSE]
    /\ cycle = Idle

-----------------------------------------------------------------------------
(* The world.                                                              *)

Tick ==
    /\ clock < MaxTime
    /\ clock' = clock + 1
    /\ UNCHANGED <<journal, held, approved, seen, alert, check, cycle>>

AddExecution(t, kind, active) ==
    /\ Len(journal[t]) < MaxEntries
    /\ journal' = [journal EXCEPT ![t] =
          Append(@, [kind |-> kind, at |-> clock, active |-> active, partial |-> FALSE])]

\* A close or a cleanup through an endpoint.  Rejected executions are not active.
OtherExecutes(t) ==
    /\ \E kind \in {"close", "cleanup"}, active \in BOOLEAN, legs \in 0..held[t] :
          /\ ~active => legs = held[t]
          /\ AddExecution(t, kind, active)
          /\ held' = [held EXCEPT ![t] = legs]
    /\ UNCHANGED <<clock, approved, seen, alert, check, cycle>>

\* A liquidation, or a position closed at the venue by hand.
LosePosition(t) ==
    /\ \E legs \in 0..2 : legs < held[t] /\ held' = [held EXCEPT ![t] = legs]
    /\ UNCHANGED <<clock, journal, approved, seen, alert, check, cycle>>

\* The approved scan publishes a snapshot of the trade's label.
PublishSnapshot(t) ==
    /\ \E matches \in BOOLEAN : approved' = [approved EXCEPT ![t] = matches]
    /\ UNCHANGED <<clock, journal, held, seen, alert, check, cycle>>

\* ORDER BY observed_at DESC, id DESC: the row that is latest once o is stored.
Latest(t, o) == IF seen[t] # None /\ seen[t].at > o.at THEN seen[t] ELSE o

StoreObservation(t, e, at, status) ==
    seen' = [seen EXCEPT ![t] =
                Latest(t, [entry |-> e, at |-> at, status |-> status])]

\* A request polls the execution it has just journaled: an observation without
\* an alert.  The accounts are readable: the request was refused otherwise.
OtherObserves(t) ==
    /\ LET e == Len(journal[t])
       IN  /\ journal[t][e].at = clock
           /\ \E status \in Readable(t, e) : StoreObservation(t, e, clock, status)
    /\ UNCHANGED <<world, alert, check, cycle>>

-----------------------------------------------------------------------------
(* The cycle.                                                              *)

OpenedAt(t) == journal[t][LatestActive(t)].at

\* Mutant: an execution is dropped at the age limit, whatever its state.
CandidatesMutant(now) ==
    {t \in Trade : LatestActive(t) # 0 /\ now - OpenedAt(t) <= MaxAge}

\* _list_recent_live_executions: young executions, and older ones whose trade
\* still requires monitoring
Candidates(now) ==
    {t \in Trade : /\ LatestActive(t) # 0
                   /\ now - OpenedAt(t) <= MaxAge \/ RequiresMonitoring(seen[t])}

StartCycle ==
    /\ cycle.pc = "idle"
    /\ \E listed \in SUBSET Candidates(clock) :
          /\ Cardinality(listed) <= Limit
          /\ listed # Candidates(clock) => Cardinality(listed) = Limit
          /\ \A t \in listed, u \in Candidates(clock) \ listed : OpenedAt(t) >= OpenedAt(u)
          /\ cycle' = [Idle EXCEPT !.pc = "next", !.now = clock,
                                   !.todo = {<<t, LatestActive(t)>> : t \in listed}]
    /\ UNCHANGED <<world, seen, alert, check>>

EndCycle ==
    /\ cycle.pc = "next" /\ cycle.todo = {}
    /\ cycle' = Idle
    /\ UNCHANGED <<world, seen, alert, check>>

\* latest_for_paper_trade is read before the accounts and the orders.
NextExecution ==
    /\ cycle.pc = "next"
    /\ \E x \in cycle.todo :
          cycle' = [cycle EXCEPT !.pc = "probe", !.todo = @ \ {x}, !.trade = x[1],
                                 !.entry = x[2], !.prev = seen[x[1]]]
    /\ UNCHANGED <<world, seen, alert, check>>

\* The cycle is through with its execution.
Leave == cycle' = [Idle EXCEPT !.pc = "next", !.now = cycle.now, !.todo = cycle.todo]

Found(status) ==
    cycle' = [cycle EXCEPT !.pc = "append", !.status = status, 
                             !.legs = IF status = "partial" THEN held[cycle.trade] ELSE 0]

\* probe_paper_trade and observe_execution, then build_execution_pair_status
ProbeReads ==
    /\ cycle.pc = "probe"
    /\ \E status \in Readable(cycle.trade, cycle.entry) : Found(status)
    /\ UNCHANGED <<world, seen, alert, check>>

ProbeBlocked ==
    /\ cycle.pc = "probe"
    /\ Found("blocked")
    /\ UNCHANGED <<world, seen, alert, check>>

\* A timeout or an exception: the execution is skipped.
ProbeFails ==
    /\ cycle.pc = "probe"
    /\ Leave
    /\ UNCHANGED <<world, seen, alert, check>>

\* Mutant: two statuses of one state count as different.
SameStateMutant(o, status, e) == o # None /\ o.status = status /\ o.entry = e

SameState(o, status, e) == o # None /\ State(o.status) = State(status) /\ o.entry = e

\* _should_emit_execution_alert
ShouldAlert(prev, status, e) ==
    State(status) \in AlertType /\ ~SameState(prev, status, e)

\* _append_if_changed_on_connection: a state that goes on, and a retry of the
\* same instant, are not stored
AlertSaved(t, e, at, prev, status) ==
    alert[t] # None /\ alert[t].type = State(status)
        => ~SameState(prev, status, e) /\ ~(alert[t].entry = e /\ alert[t].at = at)

AlertOf(at) == [entry |-> cycle.entry, at |-> at, type |-> State(cycle.status)]

\* Mutant: the observation is stamped when it is stored.
AppendWithAlertMutant ==
    /\ cycle.pc = "append"
    /\ LET t == cycle.trade
       IN  /\ StoreObservation(t, cycle.entry, clock, cycle.status)
           /\ IF /\ ShouldAlert(cycle.prev, cycle.status, cycle.entry)
                 /\ AlertSaved(t, cycle.entry, cycle.now, cycle.prev, cycle.status)
              THEN alert' = [alert EXCEPT ![t] = AlertOf(cycle.now)]
              ELSE UNCHANGED alert
    /\ cycle' = [cycle EXCEPT !.pc = "checkpoint", !.prev = None]
    /\ UNCHANGED <<world, check>>

\* append_with_alert: one transaction, stamped with the start of the cycle.  A
\* saved alert is then handed to the notifier, whose failure is logged only.
AppendWithAlert ==
    /\ cycle.pc = "append"
    /\ LET t == cycle.trade
       IN  /\ StoreObservation(t, cycle.entry, cycle.now, cycle.status)
           /\ IF /\ ShouldAlert(cycle.prev, cycle.status, cycle.entry)
                 /\ AlertSaved(t, cycle.entry, cycle.now, cycle.prev, cycle.status)
              THEN alert' = [alert EXCEPT ![t] = AlertOf(cycle.now)]
              ELSE UNCHANGED alert
    /\ cycle' = [cycle EXCEPT !.pc = "checkpoint", !.prev = None]
    /\ UNCHANGED <<world, check>>

-----------------------------------------------------------------------------
(* Funding checkpoints: one row per venue, each in its own transaction.    *)

ListedEntry == journal[cycle.trade][cycle.entry]

\* _build_funding_checkpoint_window_index, the clock counting windows
WindowIndex == cycle.now - ListedEntry.at

\* Mutant: the window of the latest checkpoint is taken again.
CheckpointDueMutant ==
    /\ cycle.status = "hedged"
    /\ WindowIndex >= 1
    /\ check[cycle.trade] # None => check[cycle.trade].index <= WindowIndex

CheckpointDue ==
    /\ cycle.status = "hedged"
    /\ WindowIndex >= 1
    /\ check[cycle.trade] # None => check[cycle.trade].index < WindowIndex

CaptureFirstVenue ==
    /\ cycle.pc = "checkpoint"
    /\ CheckpointDue
    /\ check' = [check EXCEPT ![cycle.trade] = [index |-> WindowIndex, rows |-> 1]]
    /\ cycle' = [cycle EXCEPT !.pc = "second_row"]
    /\ UNCHANGED <<world, seen, alert>>

CaptureSecondVenue ==
    /\ cycle.pc = "second_row"
    /\ check' = [check EXCEPT ![cycle.trade].rows = 2]
    /\ cycle' = [cycle EXCEPT !.pc = "auto"]
    /\ UNCHANGED <<world, seen, alert>>

\* Nothing is due, or the capture raises: the cycle goes on.
NoCheckpoint ==
    /\ cycle.pc \in {"checkpoint", "second_row"}
    /\ cycle' = [cycle EXCEPT !.pc = "auto"]
    /\ UNCHANGED <<world, seen, alert, check>>

-----------------------------------------------------------------------------
(* Automatic cleanup and close.                                            *)

Snapshots(source) == {[source |-> source, good |-> good] : good \in BOOLEAN}

\* Mutant: without a fresh snapshot only the live revalidation counts.
ResolveMutant(t) ==
    IF approved[t] THEN Snapshots("approved") \cup Snapshots("live") \cup {None}
                   ELSE Snapshots("live") \cup {None}

\* _resolve_auto_close_snapshot: a snapshot of the trade's route if it is fresh,
\* else the live route, else the stale snapshot, else nothing.  good: the edge,
\* its retention and the break-even time of the snapshot justify the position.
Resolve(t) ==
    IF approved[t] THEN Snapshots("approved") \cup Snapshots("live") \cup Snapshots("stale")
                   ELSE Snapshots("live") \cup {None}

\* hold age windows, counted from the execution that was listed
Expired == cycle.now - ListedEntry.at >= MaxHold

\* The market data justify a close unless they are stale; the hold age always.
CloseReason(r) == Expired \/ (r.source # "stale" /\ ~r.good)

CleansUp == Mode = "enabled" /\ cycle.status = "partial" /\ cycle.legs > 0
MayClose == Mode = "enabled" /\ cycle.status = "hedged"

StartCleanup ==
    /\ cycle.pc = "auto" /\ CleansUp
    /\ Resolve(cycle.trade) # {None}
    /\ cycle' = [cycle EXCEPT !.pc = "clean"]
    /\ UNCHANGED <<world, seen, alert, check>>

\* A profit was given back, or the market data or the hold age say so.
StartClose ==
    /\ cycle.pc = "auto" /\ MayClose
    /\ \E r \in Resolve(cycle.trade) \ {None}, giveback \in BOOLEAN :
          giveback \/ CloseReason(r)
    /\ cycle' = [cycle EXCEPT !.pc = "closing"]
    /\ UNCHANGED <<world, seen, alert, check>>

\* Nothing is done: off, in shadow mode, no state to act on, no snapshot, or
\* no reason to close.
NoAction ==
    /\ cycle.pc = "auto"
    /\ \/ ~CleansUp /\ ~MayClose
       \/ CleansUp /\ None \in Resolve(cycle.trade)
       \/ MayClose /\ \E r \in Resolve(cycle.trade) : r # None => ~CloseReason(r)
    /\ Leave
    /\ UNCHANGED <<world, seen, alert, check>>

\* Mutant: the loop does not end.
SkipVenueMutant ==
    /\ cycle.pc = "clean"
    /\ cycle' = [cycle EXCEPT !.legs = @ - 1]
    /\ UNCHANGED <<world, seen, alert, check>>

\* One venue: its preview times out, or has been executed before.
SkipVenue ==
    /\ cycle.pc = "clean" /\ cycle.legs > 0
    /\ cycle' = [cycle EXCEPT !.legs = @ - 1]
    /\ UNCHANGED <<world, seen, alert, check>>

\* The cleanup of a venue is journaled; its order fills or does not.
SubmitCleanup ==
    /\ cycle.pc = "clean" /\ cycle.legs > 0
    /\ \E active \in BOOLEAN, legs \in {held[cycle.trade], held[cycle.trade] - 1} :
          /\ legs >= 0
          /\ ~active => legs = held[cycle.trade]
          /\ AddExecution(cycle.trade, "cleanup", active)
          /\ held' = [held EXCEPT ![cycle.trade] = legs]
    /\ cycle' = [cycle EXCEPT !.pc = "clean_poll", !.legs = @ - 1]
    /\ UNCHANGED <<clock, approved, seen, alert, check>>

\* The poll stores an observation of its own; a closed trade ends the loop.
PollCleanup ==
    /\ cycle.pc = "clean_poll"
    /\ LET t == cycle.trade
           e == Len(journal[t])
       IN  \E status \in Readable(t, e) \cup {"blocked"} :
              /\ StoreObservation(t, e, clock, status)
              /\ cycle' = [cycle EXCEPT !.pc = "clean", !.legs = IF status = "flat" THEN 0 ELSE @]
    /\ UNCHANGED <<world, alert, check>>

PollFails ==
    /\ cycle.pc = "clean_poll"
    /\ cycle' = [cycle EXCEPT !.pc = "clean"]
    /\ UNCHANGED <<world, seen, alert, check>>

\* asyncio.timeout, or a transport error: the order may be at the venue.
CleanupUnanswered ==
    /\ cycle.pc = "clean" /\ cycle.legs > 0
    /\ \E legs \in {held[cycle.trade], held[cycle.trade] - 1} :
          legs >= 0 /\ held' = [held EXCEPT ![cycle.trade] = legs]
    /\ Leave
    /\ UNCHANGED <<clock, journal, approved, seen, alert, check>>

\* The loop is through, finds its reservation pending, or fails: the trade is
\* left to the next cycle.
EndCleanup ==
    /\ cycle.pc = "clean"
    /\ Leave
    /\ UNCHANGED <<world, seen, alert, check>>

\* The guarded close builds its preview from a new status, and journals what
\* it sends; the chained cleanup follows.
SubmitClose ==
    /\ cycle.pc = "closing"
    /\ held[cycle.trade] = 2
    /\ \E active \in BOOLEAN, legs \in 0..2 :
          /\ ~active => legs = 2
          /\ AddExecution(cycle.trade, "close", active)
          /\ held' = [held EXCEPT ![cycle.trade] = legs]
    /\ Leave
    /\ UNCHANGED <<clock, approved, seen, alert, check>>

\* No preview, a conflict, an error or a timeout.
CloseFails ==
    /\ cycle.pc = "closing"
    /\ Leave
    /\ UNCHANGED <<world, seen, alert, check>>

\* The worker dies, any number of times while the clock runs.
Crash ==
    /\ clock < MaxTime
    /\ cycle.pc # "idle"
    /\ cycle' = Idle
    /\ UNCHANGED <<world, seen, alert, check>>

OtherStep ==
    \/ Tick
    \/ \E t \in Trade : OtherExecutes(t) \/ LosePosition(t) \/ PublishSnapshot(t) \/ OtherObserves(t)

Observe == StartCycle \/ EndCycle \/ NextExecution \/ AppendWithAlert
Capture == CaptureFirstVenue \/ CaptureSecondVenue \/ NoCheckpoint
Act     == StartCleanup \/ StartClose \/ NoAction \/ SkipVenue \/ SubmitCleanup \/ PollCleanup
             \/ PollFails \/ CleanupUnanswered \/ EndCleanup \/ SubmitClose \/ CloseFails

MonitorStep == Observe \/ ProbeReads \/ ProbeBlocked \/ ProbeFails \/ Capture \/ Act

Next == OtherStep \/ MonitorStep \/ Crash

Spec == Init /\ [][Next]_vars

\* Time passes.  The cycle runs on, and its probes are answered again and again: every await
\* of it carries a timeout, and every exception leads to the next execution.
FairSpec == Spec /\ WF_vars(Tick) /\ WF_vars(MonitorStep) /\ SF_vars(ProbeReads)

-----------------------------------------------------------------------------
(* Properties.                                                             *)

\* A trade is alerted again for the same execution and state only after it was
\* observed in another state, by an observation that is not older than the
\* earlier alert (_should_emit_execution_alert, append_with_alert).
RepeatedAlertMeansChange ==
    [][\A t \in Trade :
          /\ alert'[t] # alert[t] /\ alert[t] # None
          /\ alert'[t].entry = alert[t].entry /\ alert'[t].type = alert[t].type
          => /\ cycle.prev # None /\ cycle.prev.at >= alert[t].at
             /\ \/ State(cycle.prev.status) # alert[t].type
                \/ cycle.prev.entry # alert[t].entry]_vars

\* What the monitor saw of an execution that was replaced during the cycle
\* never counts as newer than what was seen of its successor: observations
\* carry the time at which the executions were listed.
ReplacedExecutionStaysOlder ==
    [][\A t \in Trade :
          /\ cycle.pc = "append" /\ seen'[t] # seen[t] /\ seen[t] # None
          /\ seen[t].entry > seen'[t].entry /\ journal[t][seen[t].entry].active
          => seen'[t].at = seen[t].at]_vars

\* A funding window is checkpointed once, later windows later, also when the
\* worker dies between the two venues or a close restarts the hold age.
CheckpointsAdvance ==
    [][\A t \in Trade :
          check'[t] # check[t] /\ check[t] # None =>
              \/ check'[t].index > check[t].index
              \/ check'[t] = [check[t] EXCEPT !.rows = 2]]_vars

\* A trade that has lost a leg, and is young enough or was last seen in a state
\* that requires monitoring, is seen to be in trouble: crashes, failed probes,
\* replaced executions and slow cycles do not hide it for good.  Only as many
\* other trades as the limit lists, none of them older, do.
Monitored(t) ==
    LatestActive(t) # 0 /\ (clock - OpenedAt(t) <= MaxAge \/ RequiresMonitoring(seen[t]))
Crowded(t) ==
    Cardinality({u \in Trade \ {t} : Monitored(u) /\ OpenedAt(u) >= OpenedAt(t)}) >= Limit
Exposed(t) == held[t] = 1 /\ Monitored(t) /\ ~Crowded(t)
TroubleIsSeen ==
    \A t \in Trade :
        <>[]Exposed(t) => <>[](seen[t] # None /\ State(seen[t].status) \in AlertType)

\* A hedge past its hold age is closed, or the close is tried again and again,
\* also when its approved snapshot is stale and the route cannot be revalidated.
PastHoldAge(t) ==
    /\ Mode = "enabled" /\ held[t] = 2 /\ LatestActive(t) # 0
    /\ ~journal[t][LatestActive(t)].partial /\ journal[t][LatestActive(t)].kind # "cleanup"
    /\ clock - OpenedAt(t) >= MaxHold
    /\ approved[t]
ExpiredHedgeIsClosed ==
    \A t \in Trade : <>[]PastHoldAge(t) => []<>(cycle.pc = "closing" /\ cycle.trade = t)
=============================================================================
